----------------------------- MODULE MCRollback -----------------------------
(* Instances of Rollback for TLC: three control plane nodes.                *)
EXTENDS Rollback

CONSTANTS n1, n2, n3

Symmetric == Permutations(Nodes)
=============================================================================
