---------------------------- MODULE MCCertificates ------------------------------
(* Certificates for TLC: webhook_certificates.cfg gives the constants their values. *)
EXTENDS Certificates
=============================================================================
