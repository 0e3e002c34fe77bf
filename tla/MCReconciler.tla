--------------------------- MODULE MCReconciler ---------------------------
(* Small instances of Recovery for TLC: a pair served by etcd, a pair     *)
(* served by the API server, restarted in this order.                       *)
EXTENDS Recovery

CONSTANTS etcd, apiserver

MCOrder == <<etcd, apiserver>>
MCOwner == [c \in Certs |-> IF c = "etcd-server" THEN etcd ELSE apiserver]
MCIssued == [c \in Certs |-> IF c = "etcd-server" THEN 0 ELSE 1]
=============================================================================
