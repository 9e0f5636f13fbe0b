----------------------------- MODULE MCComputeGroup -----------------------------
(***************************************************************************)
(* Instances of ComputeGroup for TLC.                                      *)
(***************************************************************************)
EXTENDS ComputeGroup
=============================================================================
