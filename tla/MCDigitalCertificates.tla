------------------------ MODULE MCDigitalCertificates ------------------------
(* Small instances of DigitalCertificates for TLC. *)
EXTENDS DigitalCertificates, TLC
=============================================================================
