---------------------------- MODULE MCPublicPortal ----------------------------
(* Small instances of PublicPortal for TLC. *)
EXTENDS PublicPortal
=============================================================================
