---------------------------- MODULE MCClusterSim ----------------------------
(* Instances of ClusterSim for TLC. *)
EXTENDS ClusterSim, TLC
=============================================================================
