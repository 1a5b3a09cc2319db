---------------------------- MODULE MCAccessPage ----------------------------
(* Small instances of AccessPage for TLC. *)
EXTENDS AccessPage
=============================================================================
