---------------------------- MODULE MCCoupledCluster ----------------------------
(* CoupledCluster for TLC: coupled_cluster.cfg gives the constants their values. *)
EXTENDS CoupledCluster

\* Two followers and an observer, scaled and reconfigured in turn; two followers
\* with backends; a single frontend with autoscaled compute nodes, or with
\* brokers.
MCClusters == {[fe |-> 3, on |-> {}, auto |-> FALSE, edits |-> 2, may |-> {"scale", "config"}],
               [fe |-> 2, on |-> {"be"}, auto |-> FALSE, edits |-> 1,
                may |-> {"volume", "restart", "config"}],
               [fe |-> 1, on |-> {"cn"}, auto |-> TRUE, edits |-> 1, may |-> {"cn", "auto"}],
               [fe |-> 1, on |-> {"broker"}, auto |-> FALSE, edits |-> 1,
                may |-> {"be", "broker", "scale"}]}
=============================================================================
