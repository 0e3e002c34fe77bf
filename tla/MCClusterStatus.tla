-------------------------- MODULE MCClusterStatus --------------------------
(* Instances of ClusterStatus for TLC: two control plane nodes.             *)
EXTENDS ClusterStatus

CONSTANTS n1, n2
=============================================================================
