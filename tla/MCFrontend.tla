------------------------------- MODULE MCFrontend -------------------------------
(* Frontend for TLC: the frontend_*.cfg files give the constants their values. *)
EXTENDS Frontend
=============================================================================
