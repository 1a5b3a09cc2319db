------------------------- MODULE MCDocumentRequests -------------------------
(* Small instances of DocumentRequests for TLC. *)
EXTENDS DocumentRequests, TLC
=============================================================================
