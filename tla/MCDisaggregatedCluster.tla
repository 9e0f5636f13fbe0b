------------------------- MODULE MCDisaggregatedCluster --------------------------
(* DisaggregatedCluster for TLC: cluster_*.cfg give the constants their values. *)
EXTENDS DisaggregatedCluster
=============================================================================
