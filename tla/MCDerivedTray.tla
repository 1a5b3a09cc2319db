---------------------------- MODULE MCDerivedTray ----------------------------
(* Small instances of DerivedTray for TLC. *)
EXTENDS DerivedTray, TLC

Symmetry == Permutations(Submissions)
=============================================================================
