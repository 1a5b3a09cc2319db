--------------------------- MODULE MCDocumentLists ---------------------------
(* Small instances of DocumentLists for TLC. *)
EXTENDS DocumentLists
=============================================================================
