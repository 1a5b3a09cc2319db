---------------------------- MODULE MCMesaVirtual ----------------------------
(* Small instances of MesaVirtual for TLC. *)
EXTENDS MesaVirtual, TLC

\* People of a kind, areas and numbers are interchangeable, for DefaultArea is Nil.
Symmetry ==
  UNION {Permutations(S) : S \in {Citizens, Officers, Areas, Numbers}}
=============================================================================
