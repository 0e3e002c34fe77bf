----------------------------- MODULE Recovery -----------------------------
(***************************************************************************)
(* What Reconciler.tla's node gets back to when nothing fails any more,    *)
(* whatever failed before.                                                 *)
(***************************************************************************)
EXTENDS Reconciler

\* The same program in an environment without failures.
Undisturbed == INSTANCE Reconciler WITH Faults <- {}, Restless <- {}

\* From some moment on nothing fails.
FaultsCease == <>[][Undisturbed!Next]_vars

\* What the program does not get out of by itself: Critical, a kubeconfig that
\* is due, since every renewal then fails, and a manifest that is incomplete.
Stuck ==
    \/ server.phase = "Critical"
    \/ torn # {}
    \/ \E k \in Kubeconfigs : conf[k] < season

\* Once failures cease, a node does not stay Detecting, Renewing or RollingBack
\* for ever: also when a process died there, by the panic of runRollback for
\* instance, a later call starts over and gets to an end.
PhaseSettles ==
    FaultsCease =>
        (server.phase \in {"Detecting", "Renewing", "RollingBack"}
            ~> server.phase \in {"Idle", "Failed"} \/ Stuck)

\* No renewal fails, or stops, after its last write.  One that does is not
\* completed: the next call finds nothing due, and the pods keep the old pairs.
CompletedOnceWritten == [](pc = "fail" => todo # {})

\* Once failures cease, a pair that becomes due is loaded by the pod that
\* serves it, unless the node is stuck: a renewal that was refused, could not
\* sign or failed between two pairs is completed by a later one.
DueEventuallyServed ==
    FaultsCease /\ CompletedOnceWritten =>
        \A c \in Certs : \A s \in 1..MaxSeason :
            season = s ~> (running[c].crt >= s /\ Whole(running[c])) \/ Stuck
=============================================================================
