--------------------------- MODULE ClusterStatus ---------------------------
(***************************************************************************)
(* The pods of all control plane nodes and the one custom resource they    *)
(* share: every pod patches its own entry of status.nodes and recomputes   *)
(* the conditions from the copy of the status it holds in memory           *)
(* (updateClusterConditions), with no leader and no lock.                  *)
(*                                                                         *)
(* The call of one pod is Reconciler.tla's, with everything that concerns  *)
(* the node's files folded into one bit, whether a certificate is due.     *)
(* What is left out: the time stamps, the answer of a patch that is lost,  *)
(* and an operator who deletes an entry instead of patching it.            *)
(***************************************************************************)
EXTENDS Naturals

CONSTANTS
    Nodes,       \* control plane nodes, one pod each
    Failing,     \* nodes on which detection, backup or renewal may fail
    Unreliable,  \* nodes whose pod may be killed and its patches refused
    Aging,       \* nodes on which a certificate becomes due again
    DryRuns,     \* nodes whose calls may read spec.DryRun as true
    NoConditions \* an empty list of conditions

ASSUME ClusterAssumption ==
    Failing \cup Unreliable \cup Aging \cup DryRuns \subseteq Nodes

Phases == {"Idle", "Detecting", "Renewing", "RollingBack", "Failed", "Critical"}

\* An entry: its phase ("None" for no entry), whether one of its Certs is not
\* OK, and whether it has a backup path.
Entry == [phase : Phases \cup {"None"}, due : BOOLEAN, backup : BOOLEAN]

\* A cached phase is told apart only when it is Critical, which ends a call,
\* or Detecting, which leaves the first patch of a call nothing to send.
Views == {"Critical", "Detecting", "other"}
Seen(phase) == IF phase \in Views THEN phase ELSE "other"

\* status.conditions: the three conditions.
Conditions == [healthy : BOOLEAN, renewing : BOOLEAN, critical : BOOLEAN]

ASSUME NoConditionsAssumption == NoConditions \notin Conditions

\* status.phase of the whole cluster; "" until it is first set.
ClusterPhases == {"", "Idle", "Renewing", "Failed"}

Status == [nodes : [Nodes -> Entry], conditions : Conditions \cup {NoConditions},
           phase : ClusterPhases]

\* (Variant with a bug: the zero value of a NodeStatus.)
NewStatusUnset == [nodes |-> [n \in Nodes |->
                                [phase |-> "", due |-> FALSE, backup |-> FALSE]],
                   conditions |-> NoConditions, phase |-> ""]

NewStatus == [nodes |-> [n \in Nodes |->
                           [phase |-> "None", due |-> FALSE, backup |-> FALSE]],
              conditions |-> NoConditions, phase |-> ""]

VARIABLES
    server,  \* the status at the API server
    cache,   \* what each pod's informer cache shows of its own phase
    cfg,     \* the status each pod holds during a call
    pc,      \* where each pod is
    due      \* is a certificate of the node due?

vars == <<server, cache, cfg, pc, due>>

Steps == {"idle", "detect", "settle", "announce", "backup", "renew", "finish",
          "fail", "rollback", "critical", "conditions"}

TypeOK ==
    /\ server \in Status
    /\ cache \in [Nodes -> Views]
    /\ cfg \in [Nodes -> Status]
    /\ pc \in [Nodes -> Steps]
    /\ due \in [Nodes -> BOOLEAN]

Init ==
    /\ server = NewStatus
    /\ cache = [n \in Nodes |-> "other"]
    /\ cfg = [n \in Nodes |-> NewStatus]
    /\ pc = [n \in Nodes |-> "idle"]
    /\ due \in [Nodes -> BOOLEAN]

---------------------------------------------------------------------------
Merged(srv, base, new) == IF base # new THEN new ELSE srv

\* (Variant with a bug: Update instead of Patch.)
MergeAll(srv, base, new) == new

\* A JSON merge patch: nested maps field by field, the list of conditions as
\* one value.
Merge(srv, base, new) ==
    [nodes |-> [n \in Nodes |->
        [f \in DOMAIN srv.nodes[n] |->
            Merged(srv.nodes[n][f], base.nodes[n][f], new.nodes[n][f])]],
     conditions |-> Merged(srv.conditions, base.conditions, new.conditions),
     phase |-> Merged(srv.phase, base.phase, new.phase)]

Goto(p, step) == pc' = [pc EXCEPT ![p] = step]
Return(p) == Goto(p, "idle") /\ cfg' = [cfg EXCEPT ![p] = NewStatus]

\* The patch is answered with the server's object.
Answered(p, base, new) ==
    LET merged == Merge(server, base, new)
    IN  server' = merged /\ cfg' = [cfg EXCEPT ![p] = merged]

Refused(p, new) ==
    p \in Unreliable /\ UNCHANGED server /\ cfg' = [cfg EXCEPT ![p] = new]

\* A patch whose error ends the call, and one whose error is only logged.
PatchOrReturn(p, new, step) ==
    \/ Answered(p, cfg[p], new) /\ Goto(p, step)
    \/ p \in Unreliable /\ UNCHANGED server /\ Return(p)

PatchAndGo(p, new, step) ==
    /\ Answered(p, cfg[p], new) \/ Refused(p, new)
    /\ Goto(p, step)

WithPhase(s, p, phase) == [s EXCEPT !.nodes[p].phase = phase]

---------------------------------------------------------------------------
\* The phase Detecting, unless the cached entry is Critical.  The patch is
\* made against the cached object, of which only the own phase matters: it is
\* the only field the call has changed.
Reconcile(p) ==
    /\ pc[p] = "idle" /\ cache[p] # "Critical"
    /\ LET base == WithPhase(server, p, cache[p])
           new  == WithPhase(server, p, "Detecting")
       IN  \/ Answered(p, base, new) /\ Goto(p, "detect")
           \/ p \in Unreliable /\ UNCHANGED server /\ Return(p)
    /\ UNCHANGED <<cache, due>>

\* Detect and updateNodeCertStatus.
Detect(p) ==
    /\ pc[p] = "detect"
    /\ PatchOrReturn(p, [cfg[p] EXCEPT !.nodes[p].due = due[p]],
                     IF due[p] THEN "announce" ELSE "settle")
    /\ UNCHANGED <<cache, due>>

\* Detection fails: phase Failed, and the call returns without recomputing
\* the conditions.
DetectFails(p) ==
    /\ pc[p] = "detect" /\ p \in Failing
    /\ LET new == WithPhase(cfg[p], p, "Failed") IN
        \/ server' = Merge(server, cfg[p], new)
        \/ p \in Unreliable /\ UNCHANGED server
    /\ Return(p)
    /\ UNCHANGED <<cache, due>>

Settle(p) ==
    /\ pc[p] = "settle"
    /\ PatchOrReturn(p, WithPhase(cfg[p], p, "Idle"), "conditions")
    /\ UNCHANGED <<cache, due>>

\* (Variant with a bug: an error of the patch is only logged.)
AnnounceIgnoringErrors(p) ==
    /\ pc[p] = "announce"
    /\ PatchAndGo(p, WithPhase(cfg[p], p, "Renewing"), "backup")
    /\ UNCHANGED <<cache, due>>

Announce(p) ==
    /\ pc[p] = "announce"
    /\ PatchOrReturn(p, WithPhase(cfg[p], p, "Renewing"), "backup")
    /\ UNCHANGED <<cache, due>>

\* The backup fails, or setNodeBackupPath stores its path or is refused.  A dry
\* run ends here as if it had renewed.
Backup(p) ==
    /\ pc[p] = "backup"
    /\ LET new == [cfg[p] EXCEPT !.nodes[p].backup = TRUE] IN
        \/ p \in Failing /\ Goto(p, "fail") /\ UNCHANGED <<server, cfg>>
        \/ Answered(p, cfg[p], new) /\ Goto(p, "renew")
        \/ p \in DryRuns /\ Answered(p, cfg[p], new) /\ Goto(p, "finish")
        \/ Refused(p, new) /\ Goto(p, "fail")
    /\ UNCHANGED <<cache, due>>

\* The rest of runRenewal.  A failure may come after the files are renewed.
Renew(p) ==
    /\ pc[p] = "renew"
    /\ \/ due' = [due EXCEPT ![p] = FALSE] /\ Goto(p, "finish")
       \/ /\ p \in Failing /\ Goto(p, "fail")
          /\ due' \in {due, [due EXCEPT ![p] = FALSE]}
    /\ UNCHANGED <<server, cache, cfg>>

\* setNodeRenewed: the entry keeps the certificate statuses of before.
Finish(p) ==
    /\ pc[p] = "finish"
    /\ PatchOrReturn(p, WithPhase(cfg[p], p, "Idle"), "conditions")
    /\ UNCHANGED <<cache, due>>

Fail(p) ==
    /\ pc[p] = "fail"
    /\ PatchAndGo(p, WithPhase(cfg[p], p, "RollingBack"), "rollback")
    /\ UNCHANGED <<cache, due>>

\* With a backup path the rollback panics and the pod restarts.
Rollback(p) ==
    /\ pc[p] = "rollback"
    /\ IF cfg[p].nodes[p].backup THEN Return(p)
                                 ELSE Goto(p, "critical") /\ UNCHANGED cfg
    /\ UNCHANGED <<server, cache, due>>

DeclareCritical(p) ==
    /\ pc[p] = "critical"
    /\ PatchAndGo(p, WithPhase(cfg[p], p, "Critical"), "conditions")
    /\ UNCHANGED <<cache, due>>

\* (Variant with a bug: only the own entry is looked at.)
OwnConditions(s, p) ==
    [healthy  |-> s.nodes[p].phase \notin {"Critical", "Failed"} /\ ~s.nodes[p].due,
     renewing |-> s.nodes[p].phase \in {"Renewing", "RollingBack"},
     critical |-> s.nodes[p].phase = "Critical"]

\* (Variant with a bug: what is not healthy once stays so.)
StickyConditions(s, p) ==
    [healthy  |-> /\ \A n \in Nodes : s.nodes[n].phase \notin {"Critical", "Failed"}
                  /\ \A n \in Nodes : ~s.nodes[n].due
                  /\ s.conditions # NoConditions => s.conditions.healthy,
     renewing |-> \E n \in Nodes : s.nodes[n].phase \in {"Renewing", "RollingBack"},
     critical |-> \E n \in Nodes : s.nodes[n].phase = "Critical"]

\* The conditions that the entries of a status call for.
ConditionsOf(s, p) ==
    [healthy  |-> \A n \in Nodes : /\ s.nodes[n].phase \notin {"Critical", "Failed"}
                                   /\ ~s.nodes[n].due,
     renewing |-> \E n \in Nodes : s.nodes[n].phase \in {"Renewing", "RollingBack"},
     critical |-> \E n \in Nodes : s.nodes[n].phase = "Critical"]

\* The phase of the cluster goes with the conditions.
PhaseOf(c) ==
    IF c.critical THEN "Failed" ELSE IF c.renewing THEN "Renewing" ELSE "Idle"

\* updateClusterConditions, from the status in memory; an error of the patch
\* is only logged.
UpdateConditions(p) ==
    /\ pc[p] = "conditions"
    /\ \/ LET c == ConditionsOf(cfg[p], p)
          IN  server' = Merge(server, cfg[p],
                              [cfg[p] EXCEPT !.conditions = c, !.phase = PhaseOf(c)])
       \/ p \in Unreliable /\ UNCHANGED server
    /\ Return(p)
    /\ UNCHANGED <<cache, due>>

---------------------------------------------------------------------------
Crash(p) ==
    /\ p \in Unreliable /\ pc[p] # "idle"
    /\ Return(p)
    /\ UNCHANGED <<server, cache, due>>

SyncCache(p) ==
    /\ cache[p] # Seen(server.nodes[p].phase)
    /\ cache' = [cache EXCEPT ![p] = Seen(server.nodes[p].phase)]
    /\ UNCHANGED <<server, cfg, pc, due>>

BecomesDue(p) ==
    /\ p \in Aging /\ pc[p] = "idle" /\ ~due[p]
    /\ due' = [due EXCEPT ![p] = TRUE]
    /\ UNCHANGED <<server, cache, cfg, pc>>

\* An operator patches the phase of a Critical entry.
ClearCritical(p) ==
    /\ pc[p] = "idle" /\ server.nodes[p].phase = "Critical" /\ cache[p] = "Critical"
    /\ server' = WithPhase(server, p, "Idle")
    /\ UNCHANGED <<cache, cfg, pc, due>>

Pod(p) ==
    \/ Reconcile(p) \/ Detect(p) \/ DetectFails(p) \/ Settle(p)
    \/ Announce(p) \/ Backup(p) \/ Renew(p) \/ Finish(p)
    \/ Fail(p) \/ Rollback(p) \/ DeclareCritical(p) \/ UpdateConditions(p)

Next ==
    \E p \in Nodes : \/ Pod(p) \/ Crash(p) \/ SyncCache(p)
                     \/ BecomesDue(p) \/ ClearCritical(p)

Fairness == \A p \in Nodes : WF_vars(Pod(p)) /\ WF_vars(SyncCache(p))

Spec == Init /\ [][Next]_vars /\ Fairness

---------------------------------------------------------------------------
Shown(c) == server.conditions # NoConditions /\ server.conditions[c]

\* types.go line 131: "each control plane node's pod updates its own entry
\* here": an entry changes only in a step of its own pod, or when an operator
\* clears it; no other pod ever writes back what it read earlier.
OwnEntryOnly ==
    [][\A n \in Nodes : server'.nodes[n] # server.nodes[n] =>
         \/ pc'[n] # pc[n]
         \/ server.nodes[n].phase = "Critical" /\ UNCHANGED pc]_vars

\* What a step of a call does, as NodePhase tells calls apart.
Stage(step) ==
    CASE step \in {"idle", "conditions"} -> "idle"
      [] step \in {"detect", "settle", "announce"} -> "looking"
      [] step \in {"backup", "renew", "finish", "fail"} -> "renewing"
      [] step \in {"rollback", "critical"} -> "failing"

\* Every node shows its phases in the order that NodePhase allows, although the
\* pods patch one object: no patch of another pod, and no list of conditions
\* computed from an older status, disturbs the order.
Watched(n) == INSTANCE NodePhase WITH phase <- server.nodes[n].phase,
                                      stage <- Stage(pc[n])
ImplementsNodePhase ==
    /\ \A n \in Nodes : Watched(n)!Init
    /\ [][\A n \in Nodes :
            \/ Watched(n)!Next
            \/ UNCHANGED <<server.nodes[n].phase, Stage(pc[n])>>]_vars

\* A node that stays Critical is shown by the CriticalFailure condition and by
\* the phase of the cluster in the end, also when another pod, which saw the
\* status before, replaced the list of conditions meanwhile.  (The two are
\* merged apart, so that one may be older than the other for a while.)
CriticalCatchesUp ==
    \A n \in Nodes :
        <>[](server.nodes[n].phase = "Critical") =>
            <>[](Shown("critical") /\ server.phase = "Failed")

\* When nothing stays due, Critical or Failed, CertsHealthy becomes true and
\* stays true and the cluster Idle, although a renewal leaves the old
\* certificate statuses in the entry and its own conditions are computed from
\* them.
HealthyCatchesUp ==
    <>[](\A n \in Nodes :
            ~due[n] /\ server.nodes[n].phase \notin {"Critical", "Failed"})
        => <>[](Shown("healthy") /\ server.phase = "Idle")

---------------------------------------------------------------------------
\* types.go line 218: CriticalFailure "is true when rollback failed on any
\* node": it does not become false while such a node is left.
CriticalStaysShown ==
    [][\A n \in Nodes :
         /\ server.nodes[n].phase = "Critical" /\ server'.nodes[n].phase = "Critical"
         /\ Shown("critical")
         => Shown("critical")']_vars
=============================================================================
