----------------------------- MODULE NodePhase -----------------------------
(***************************************************************************)
(* What the phase of a node tells whoever watches the custom resource: the *)
(* calls of Reconcile, seen through status.nodes[NodeName].phase.          *)
(*                                                                         *)
(* A call looks for certificates that are due, then renews, then fails,    *)
(* and may end at any time and leave the phase as it is.  It renews only   *)
(* under the phase Renewing, and RollingBack and Critical come only from   *)
(* there: whatever patches are refused, answers lost and calls killed, and *)
(* whatever old cache a call started from, nobody sees a node become       *)
(* Critical that was not seen Renewing before.                             *)
(***************************************************************************)
VARIABLES
    phase,  \* the phase at the API server, "None" without an entry
    stage   \* what the call does: "idle", "looking", "renewing" or "failing"

Init == phase = "None" /\ stage = "idle"

\* A call starts.  The phase becomes Detecting, or stays what it is when the
\* patch fails or the call believes that it is Detecting already.
Begin ==
    /\ stage = "idle" /\ stage' \in {"idle", "looking"}
    /\ phase' \in {phase, "Detecting"}

\* The call ends before a renewal: nothing is due, the detection fails, or the
\* patch to Renewing is not answered.
Settle ==
    /\ stage = "looking" /\ stage' = "idle"
    /\ phase' \in {phase, "Idle", "Failed", "Renewing"}

Announce ==
    /\ stage = "looking" /\ stage' = "renewing"
    /\ phase' = "Renewing"

\* A renewal ends, or has failed.
Finish ==
    /\ stage = "renewing" /\ phase = "Renewing"
    /\ stage' = "idle" /\ phase' \in {phase, "Idle"}

Fail ==
    /\ stage = "renewing" /\ phase = "Renewing"
    /\ stage' = "failing" /\ phase' \in {phase, "RollingBack"}

\* The rollback ends, by an error or with the process.  (It has no other end: see
\* Rollback in Reconciler.tla.)
GiveUp ==
    /\ stage = "failing" /\ phase \in {"Renewing", "RollingBack"}
    /\ stage' = "idle" /\ phase' \in {phase, "Critical"}

\* An operator clears a Critical node between two calls.
Clear ==
    /\ stage = "idle" /\ phase = "Critical"
    /\ phase' \in {"Idle", "None"} /\ UNCHANGED stage

Next == Begin \/ Settle \/ Announce \/ Finish \/ Fail \/ GiveUp \/ Clear

Spec == Init /\ [][Next]_<<phase, stage>>
=============================================================================
