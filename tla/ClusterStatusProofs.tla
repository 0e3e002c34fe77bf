------------------------ MODULE ClusterStatusProofs ------------------------
(* The shared status keeps its type, and a pod only ever changes its own    *)
(* entry, for any set of nodes and whichever of them fail.                  *)
EXTENDS ClusterStatus, TLAPS

LEMMA EntryFields ==
    ASSUME NEW e \in Entry
    PROVE  /\ DOMAIN e = {"phase", "due", "backup"}
           /\ e = [f \in DOMAIN e |-> e[f]]
           /\ e.phase \in Phases \cup {"None"} /\ e.due \in BOOLEAN
           /\ e.backup \in BOOLEAN
BY DEF Entry

LEMMA MergedEntry ==
    ASSUME NEW srv \in Entry, NEW base, NEW new \in Entry
    PROVE  [f \in DOMAIN srv |-> Merged(srv[f], base[f], new[f])] \in Entry
<1> DEFINE m == [f \in DOMAIN srv |-> Merged(srv[f], base[f], new[f])]
<1>1. DOMAIN srv = {"phase", "due", "backup"}
  BY EntryFields
<1>2. /\ m.phase \in {srv.phase, new.phase}
      /\ m.due \in {srv.due, new.due}
      /\ m.backup \in {srv.backup, new.backup}
  BY <1>1 DEF Merged
<1>3. /\ m.phase \in Phases \cup {"None"} /\ m.due \in BOOLEAN /\ m.backup \in BOOLEAN
  BY <1>2, EntryFields
<1>4. m = [phase |-> m.phase, due |-> m.due, backup |-> m.backup]
  BY <1>1
<1> QED
  BY <1>3, <1>4 DEF Entry

LEMMA MergeTyped ==
    ASSUME NEW srv \in Status, NEW base, NEW new \in Status
    PROVE  Merge(srv, base, new) \in Status
<1>1. \A n \in Nodes :
        [f \in DOMAIN srv.nodes[n] |->
            Merged(srv.nodes[n][f], base.nodes[n][f], new.nodes[n][f])] \in Entry
  BY MergedEntry DEF Status
<1>2. /\ Merged(srv.conditions, base.conditions, new.conditions)
           \in Conditions \cup {NoConditions}
      /\ Merged(srv.phase, base.phase, new.phase) \in ClusterPhases
  BY DEF Status, Merged
<1> QED
  BY <1>1, <1>2 DEF Merge, Status

\* What base and new agree on stays as the server has it.
LEMMA MergeKeeps ==
    ASSUME NEW srv \in Status, NEW base, NEW new, NEW n \in Nodes,
           base.nodes[n] = new.nodes[n]
    PROVE  Merge(srv, base, new).nodes[n] = srv.nodes[n]
<1>1. srv.nodes[n] = [f \in DOMAIN srv.nodes[n] |-> srv.nodes[n][f]]
  BY EntryFields DEF Status
<1> QED
  BY <1>1 DEF Merge, Merged

LEMMA WithPhaseTyped ==
    ASSUME NEW s \in Status, NEW p \in Nodes, NEW phase
    PROVE  /\ phase \in Phases => WithPhase(s, p, phase) \in Status
           /\ \A n \in Nodes \ {p} : WithPhase(s, p, phase).nodes[n] = s.nodes[n]
<1>1. s.nodes \in [Nodes -> Entry] /\ s.nodes[p] \in Entry
  BY DEF Status
<1>2. WithPhase(s, p, phase).nodes = [s.nodes EXCEPT ![p] = [s.nodes[p] EXCEPT !.phase = phase]]
  BY DEF WithPhase, Status
<1>3. phase \in Phases => [s.nodes[p] EXCEPT !.phase = phase] \in Entry
  BY <1>1 DEF Entry
<1>4. phase \in Phases => WithPhase(s, p, phase).nodes \in [Nodes -> Entry]
  BY <1>1, <1>2, <1>3
<1>5. /\ WithPhase(s, p, phase).conditions = s.conditions
      /\ WithPhase(s, p, phase).phase = s.phase
      /\ WithPhase(s, p, phase) = [nodes |-> WithPhase(s, p, phase).nodes,
                                   conditions |-> s.conditions, phase |-> s.phase]
  BY DEF WithPhase, Status
<1> QED
  BY <1>1, <1>2, <1>4, <1>5 DEF Status

LEMMA BackupSetTyped ==
    ASSUME NEW s \in Status, NEW p \in Nodes, NEW b \in BOOLEAN
    PROVE  /\ [s EXCEPT !.nodes[p].backup = b] \in Status
           /\ \A n \in Nodes \ {p} :
                [s EXCEPT !.nodes[p].backup = b].nodes[n] = s.nodes[n]
<1> DEFINE new == [s EXCEPT !.nodes[p].backup = b]
<1>1. /\ new.nodes = [s.nodes EXCEPT ![p] = [s.nodes[p] EXCEPT !.backup = b]]
      /\ new = [nodes |-> new.nodes, conditions |-> s.conditions, phase |-> s.phase]
  BY DEF Status
<1>2. [s.nodes[p] EXCEPT !.backup = b] \in Entry
  BY DEF Status, Entry
<1> QED
  BY <1>1, <1>2 DEF Status

LEMMA NewStatusTyped == NewStatus \in Status
BY DEF NewStatus, Status, Entry, ClusterPhases

LEMMA InitTyped == Init => TypeOK
BY NewStatusTyped DEF Init, TypeOK, Views, Steps

---------------------------------------------------------------------------
\* The two kinds of steps of pod p that touch its copy: it goes on with what
\* the server answered or with its own changes, or it returns.
OnlyOwn(p) ==
    /\ \A n \in Nodes \ {p} : server'.nodes[n] = server.nodes[n]
    /\ server' = server \/ pc'[p] # pc[p]

LEMMA PatchStep ==
    ASSUME TypeOK, NEW p \in Nodes, NEW base, NEW new \in Status,
           \A n \in Nodes \ {p} : base.nodes[n] = new.nodes[n],
           server' = Merge(server, base, new) \/ server' = server
    PROVE  /\ server' \in Status
           /\ \A n \in Nodes \ {p} : server'.nodes[n] = server.nodes[n]
BY MergeTyped, MergeKeeps DEF TypeOK

LEMMA ReturnTyped ==
    ASSUME TypeOK, NEW p \in Nodes, Return(p)
    PROVE  /\ cfg' \in [Nodes -> Status] /\ pc' \in [Nodes -> Steps]
           /\ pc'[p] = "idle"
BY NewStatusTyped DEF Return, Goto, TypeOK, Steps

LEMMA GotoTyped ==
    ASSUME TypeOK, NEW p \in Nodes, NEW step \in Steps, Goto(p, step)
    PROVE  pc' \in [Nodes -> Steps] /\ pc'[p] = step
BY DEF Goto, TypeOK

LEMMA CopyTyped ==
    ASSUME TypeOK, NEW p \in Nodes, NEW s \in Status, cfg' = [cfg EXCEPT ![p] = s]
    PROVE  cfg' \in [Nodes -> Status]
BY DEF TypeOK

LEMMA PatchOrReturnStep ==
    ASSUME TypeOK, NEW p \in Nodes, NEW new \in Status, NEW step \in Steps,
           \A n \in Nodes \ {p} : new.nodes[n] = cfg[p].nodes[n],
           PatchOrReturn(p, new, step), pc[p] # step, pc[p] # "idle",
           UNCHANGED cache, due' \in [Nodes -> BOOLEAN]
    PROVE  TypeOK' /\ OnlyOwn(p)
<1>1. CASE Answered(p, cfg[p], new) /\ Goto(p, step)
  <2>1. server' = Merge(server, cfg[p], new) /\ cfg' = [cfg EXCEPT ![p] = server']
    BY <1>1 DEF Answered
  <2>2. /\ server' \in Status
        /\ \A n \in Nodes \ {p} : server'.nodes[n] = server.nodes[n]
    BY <2>1, PatchStep
  <2>3. cfg' \in [Nodes -> Status]
    BY <2>1, <2>2, CopyTyped
  <2> QED
    BY <1>1, <2>2, <2>3, GotoTyped DEF TypeOK, OnlyOwn
<1>2. CASE UNCHANGED server /\ Return(p)
  BY <1>2, ReturnTyped DEF TypeOK, OnlyOwn
<1> QED
  BY <1>1, <1>2 DEF PatchOrReturn

LEMMA PatchAndGoStep ==
    ASSUME TypeOK, NEW p \in Nodes, NEW new \in Status, NEW step \in Steps,
           \A n \in Nodes \ {p} : new.nodes[n] = cfg[p].nodes[n],
           PatchAndGo(p, new, step), pc[p] # step,
           UNCHANGED cache, due' \in [Nodes -> BOOLEAN]
    PROVE  TypeOK' /\ OnlyOwn(p)
<1>1. /\ server' = Merge(server, cfg[p], new) \/ server' = server
      /\ cfg' = [cfg EXCEPT ![p] = server'] \/ cfg' = [cfg EXCEPT ![p] = new]
  BY DEF PatchAndGo, Answered, Refused
<1>2. /\ server' \in Status
      /\ \A n \in Nodes \ {p} : server'.nodes[n] = server.nodes[n]
  BY <1>1, PatchStep
<1>3. cfg' \in [Nodes -> Status]
  BY <1>1, <1>2, CopyTyped
<1>4. Goto(p, step)
  BY DEF PatchAndGo
<1> QED
  BY <1>2, <1>3, <1>4, GotoTyped DEF TypeOK, OnlyOwn

LEMMA PodStep ==
    ASSUME TypeOK, NEW p \in Nodes, Pod(p)
    PROVE  TypeOK' /\ OnlyOwn(p)
<1>a. server \in Status /\ cfg[p] \in Status /\ due \in [Nodes -> BOOLEAN]
      /\ pc[p] \in Steps /\ cache \in [Nodes -> Views]
  BY DEF TypeOK
<1>b. \A phase \in Phases :
        /\ WithPhase(cfg[p], p, phase) \in Status
        /\ \A n \in Nodes \ {p} : WithPhase(cfg[p], p, phase).nodes[n] = cfg[p].nodes[n]
  BY <1>a, WithPhaseTyped
<1>c. UNCHANGED due => due' \in [Nodes -> BOOLEAN]
  BY <1>a
<1>1. CASE Reconcile(p)
  <2> DEFINE base == WithPhase(server, p, cache[p])
             new  == WithPhase(server, p, "Detecting")
  <2>1. /\ new \in Status
        /\ \A n \in Nodes \ {p} : base.nodes[n] = new.nodes[n]
    BY <1>a, WithPhaseTyped DEF Phases
  <2>2. pc[p] = "idle" /\ UNCHANGED <<cache, due>>
    BY <1>1 DEF Reconcile
  <2>3. CASE Answered(p, base, new) /\ Goto(p, "detect")
    <3>1. server' = Merge(server, base, new) /\ cfg' = [cfg EXCEPT ![p] = server']
      BY <2>3 DEF Answered
    <3>2. /\ server' \in Status
          /\ \A n \in Nodes \ {p} : server'.nodes[n] = server.nodes[n]
      BY <2>1, <3>1, PatchStep
    <3>3. cfg' \in [Nodes -> Status]
      BY <3>1, <3>2, CopyTyped
    <3>4. pc' \in [Nodes -> Steps] /\ pc'[p] = "detect"
      BY <2>3, GotoTyped DEF Steps
    <3> QED
      BY <2>2, <3>2, <3>3, <3>4 DEF TypeOK, OnlyOwn
  <2>4. CASE UNCHANGED server /\ Return(p)
    BY <2>2, <2>4, ReturnTyped DEF TypeOK, OnlyOwn
  <2> QED
    BY <1>1, <2>3, <2>4 DEF Reconcile
<1>2. CASE Detect(p)
  <2> DEFINE new  == [cfg[p] EXCEPT !.nodes[p].due = due[p]]
             step == IF due[p] THEN "announce" ELSE "settle"
  <2>1. /\ new.nodes = [cfg[p].nodes EXCEPT ![p] = [cfg[p].nodes[p] EXCEPT !.due = due[p]]]
        /\ new = [nodes |-> new.nodes, conditions |-> cfg[p].conditions,
                  phase |-> cfg[p].phase]
    BY <1>a DEF Status
  <2>2. [cfg[p].nodes[p] EXCEPT !.due = due[p]] \in Entry
    BY <1>a DEF Status, Entry
  <2>3. /\ new \in Status
        /\ \A n \in Nodes \ {p} : new.nodes[n] = cfg[p].nodes[n]
    BY <1>a, <2>1, <2>2 DEF Status
  <2>4. step \in Steps /\ step \in {"announce", "settle"}
    BY DEF Steps
  <2>5. /\ pc[p] = "detect" /\ PatchOrReturn(p, new, step)
        /\ UNCHANGED <<cache, due>>
    BY <1>2 DEF Detect
  <2> HIDE DEF new, step
  <2> QED
    BY <1>c, <2>3, <2>4, <2>5, PatchOrReturnStep
<1>3. CASE DetectFails(p)
  <2> DEFINE new == WithPhase(cfg[p], p, "Failed")
  <2>1. /\ new \in Status
        /\ \A n \in Nodes \ {p} : new.nodes[n] = cfg[p].nodes[n]
    BY <1>b DEF Phases
  <2>2. /\ server' = Merge(server, cfg[p], new) \/ server' = server
        /\ Return(p) /\ pc[p] = "detect" /\ UNCHANGED <<cache, due>>
    BY <1>3 DEF DetectFails
  <2>3. /\ server' \in Status
        /\ \A n \in Nodes \ {p} : server'.nodes[n] = server.nodes[n]
    BY <2>1, <2>2, PatchStep
  <2> QED
    BY <2>2, <2>3, ReturnTyped DEF TypeOK, OnlyOwn
<1>4. CASE Settle(p)
  BY <1>4, <1>b, <1>c, PatchOrReturnStep DEF Settle, Phases, Steps
<1>5. CASE Announce(p)
  BY <1>5, <1>b, <1>c, PatchOrReturnStep DEF Announce, Phases, Steps
<1>6. CASE Backup(p)
  <2> DEFINE new == [cfg[p] EXCEPT !.nodes[p].backup = TRUE]
  <2>3. /\ new \in Status
        /\ \A n \in Nodes \ {p} : new.nodes[n] = cfg[p].nodes[n]
    BY <1>a, BackupSetTyped
  <2>4. /\ pc[p] = "backup" /\ UNCHANGED <<cache, due>>
        /\ \/ Goto(p, "fail") /\ UNCHANGED <<server, cfg>>
           \/ PatchAndGo(p, new, "renew") \/ PatchAndGo(p, new, "finish")
           \/ PatchAndGo(p, new, "fail")
    BY <1>6 DEF Backup, PatchAndGo
  <2> HIDE DEF new
  <2>5. CASE Goto(p, "fail") /\ UNCHANGED <<server, cfg>>
    BY <2>4, <2>5, GotoTyped DEF TypeOK, OnlyOwn, Steps
  <2> QED
    BY <1>c, <2>3, <2>4, <2>5, PatchAndGoStep DEF Steps
<1>7. CASE Renew(p)
  <2>1. /\ UNCHANGED <<server, cache, cfg>> /\ due' \in [Nodes -> BOOLEAN]
        /\ Goto(p, "finish") \/ Goto(p, "fail")
    BY <1>7, <1>a DEF Renew
  <2> QED
    BY <2>1, GotoTyped DEF TypeOK, OnlyOwn, Steps
<1>8. CASE Finish(p)
  BY <1>8, <1>b, <1>c, PatchOrReturnStep DEF Finish, Phases, Steps
<1>9. CASE Fail(p)
  BY <1>9, <1>b, <1>c, PatchAndGoStep DEF Fail, Phases, Steps
<1>10. CASE Rollback(p)
  <2>1. /\ UNCHANGED <<server, cache, due>>
        /\ Return(p) \/ (Goto(p, "critical") /\ UNCHANGED cfg)
    BY <1>10 DEF Rollback
  <2> QED
    BY <2>1, ReturnTyped, GotoTyped DEF TypeOK, OnlyOwn, Steps
<1>11. CASE DeclareCritical(p)
  BY <1>11, <1>b, <1>c, PatchAndGoStep DEF DeclareCritical, Phases, Steps
<1>12. CASE UpdateConditions(p)
  <2> DEFINE c   == ConditionsOf(cfg[p], p)
             new == [cfg[p] EXCEPT !.conditions = c, !.phase = PhaseOf(c)]
  <2>1. c \in Conditions /\ PhaseOf(c) \in ClusterPhases
    BY DEF ConditionsOf, Conditions, PhaseOf, ClusterPhases
  <2>2. new.nodes = cfg[p].nodes /\ new \in Status
    BY <1>a, <2>1 DEF Status
  <2>3. /\ server' = Merge(server, cfg[p], new) \/ server' = server
        /\ Return(p) /\ pc[p] = "conditions" /\ UNCHANGED <<cache, due>>
    BY <1>12 DEF UpdateConditions
  <2> HIDE DEF new, c
  <2>4. /\ server' \in Status
        /\ \A n \in Nodes \ {p} : server'.nodes[n] = server.nodes[n]
    BY <2>2, <2>3, PatchStep
  <2> QED
    BY <2>3, <2>4, ReturnTyped DEF TypeOK, OnlyOwn
<1> QED
  BY <1>1, <1>2, <1>3, <1>4, <1>5, <1>6, <1>7, <1>8, <1>9, <1>10, <1>11, <1>12
     DEF Pod

\* The steps of nobody's pod.
LEMMA OtherSteps ==
    ASSUME TypeOK, NEW p \in Nodes,
           Crash(p) \/ SyncCache(p) \/ BecomesDue(p) \/ ClearCritical(p)
    PROVE  /\ TypeOK'
           /\ \A n \in Nodes \ {p} : server'.nodes[n] = server.nodes[n]
           /\ \/ server' = server
              \/ server.nodes[p].phase = "Critical" /\ UNCHANGED pc
<1>1. CASE Crash(p)
  BY <1>1, ReturnTyped DEF Crash, TypeOK
<1>2. CASE SyncCache(p)
  <2>1. Seen(server.nodes[p].phase) \in Views
    BY DEF Seen, Views
  <2> QED
    BY <1>2, <2>1 DEF SyncCache, TypeOK
<1>3. CASE BecomesDue(p)
  BY <1>3 DEF BecomesDue, TypeOK
<1>4. CASE ClearCritical(p)
  <2>1. server \in Status /\ "Idle" \in Phases
    BY DEF TypeOK, Phases
  <2> QED
    BY <1>4, <2>1, WithPhaseTyped DEF ClearCritical, TypeOK
<1> QED
  BY <1>1, <1>2, <1>3, <1>4

LEMMA StepTyped == TypeOK /\ [Next]_vars => TypeOK'
<1>1. TypeOK /\ Next => TypeOK'
  BY PodStep, OtherSteps DEF Next
<1>2. TypeOK /\ UNCHANGED vars => TypeOK'
  BY DEF vars, TypeOK
<1> QED
  BY <1>1, <1>2

\* The status at the API server, and every pod's copy of it, keep their type.
THEOREM TypeCorrect == Spec => []TypeOK
BY InitTyped, StepTyped, PTL DEF Spec

\* An entry changes only in a step of its own pod, or when an operator clears
\* it: no other pod ever writes back what it read earlier.
THEOREM OnlyOwnEntries == Spec => OwnEntryOnly
<1>1. TypeOK /\ [Next]_vars =>
        [\A n \in Nodes : server'.nodes[n] # server.nodes[n] =>
           \/ pc'[n] # pc[n]
           \/ server.nodes[n].phase = "Critical" /\ UNCHANGED pc]_vars
  <2> SUFFICES ASSUME TypeOK, Next, NEW n \in Nodes,
                      server'.nodes[n] # server.nodes[n]
               PROVE  \/ pc'[n] # pc[n]
                      \/ server.nodes[n].phase = "Critical" /\ UNCHANGED pc
    OBVIOUS
  <2>1. PICK p \in Nodes :
          \/ Pod(p) \/ Crash(p) \/ SyncCache(p) \/ BecomesDue(p) \/ ClearCritical(p)
    BY DEF Next
  <2>2. CASE Pod(p)
    BY <2>2, PodStep DEF OnlyOwn
  <2>3. CASE Crash(p) \/ SyncCache(p) \/ BecomesDue(p) \/ ClearCritical(p)
    BY <2>3, OtherSteps
  <2> QED
    BY <2>1, <2>2, <2>3
<1> QED
  BY <1>1, TypeCorrect, PTL DEF Spec, OwnEntryOnly

---------------------------------------------------------------------------
(* The order of the phases.  The refinement needs to know what a pod's copy *)
(* says of its own phase while the call runs: until the renewal has failed  *)
(* it is what the server shows, whatever was refused.                       *)

LEMMA Stages ==
    /\ \A step \in {"idle", "conditions"} : Stage(step) = "idle"
    /\ \A step \in {"detect", "settle", "announce"} : Stage(step) = "looking"
    /\ \A step \in {"backup", "renew", "finish", "fail"} : Stage(step) = "renewing"
    /\ \A step \in {"rollback", "critical"} : Stage(step) = "failing"
BY DEF Stage

OwnPhase(n) ==
    /\ Stage(pc[n]) \in {"looking", "renewing"} =>
         cfg[n].nodes[n].phase = server.nodes[n].phase
    /\ Stage(pc[n]) = "renewing" => server.nodes[n].phase = "Renewing"
    /\ Stage(pc[n]) = "failing" =>
         /\ cfg[n].nodes[n].phase = "RollingBack"
         /\ server.nodes[n].phase \in {"Renewing", "RollingBack"}

OwnPhases == \A n \in Nodes : OwnPhase(n)

Shows(n) == Watched(n)!Next \/ UNCHANGED <<server.nodes[n].phase, Stage(pc[n])>>

LEMMA MergedPhase ==
    ASSUME NEW srv \in Status, NEW base, NEW new, NEW n \in Nodes
    PROVE  Merge(srv, base, new).nodes[n].phase =
             Merged(srv.nodes[n].phase, base.nodes[n].phase, new.nodes[n].phase)
<1>1. "phase" \in DOMAIN srv.nodes[n]
  BY EntryFields DEF Status
<1> QED
  BY <1>1 DEF Merge

LEMMA WithPhaseShows ==
    ASSUME NEW s \in Status, NEW p \in Nodes, NEW phase
    PROVE  WithPhase(s, p, phase).nodes[p].phase = phase
BY DEF WithPhase, Status, Entry

\* A pod whose copy shows the server's phase, or RollingBack where the server
\* may still show Renewing, sets the phase it asks for.
LEMMA SetPhase ==
    ASSUME NEW srv \in Status, NEW s \in Status, NEW p \in Nodes, NEW phase,
           \/ s.nodes[p].phase = srv.nodes[p].phase
           \/ s.nodes[p].phase # phase
    PROVE  Merge(srv, s, WithPhase(s, p, phase)).nodes[p].phase = phase
BY MergedPhase, WithPhaseShows DEF Merged

LEMMA OthersUntouched ==
    ASSUME TypeOK, NEW p \in Nodes,
           Pod(p) \/ Crash(p) \/ SyncCache(p) \/ BecomesDue(p) \/ ClearCritical(p)
    PROVE  \A n \in Nodes \ {p} : pc'[n] = pc[n] /\ cfg'[n] = cfg[n]
<1>1. CASE Pod(p)
  BY <1>1 DEF Pod, Reconcile, Detect, DetectFails, Settle, Announce, Backup, Renew,
     Finish, Fail, Rollback, DeclareCritical, UpdateConditions, PatchOrReturn,
     PatchAndGo, Answered, Refused, Return, Goto, TypeOK
<1>2. CASE Crash(p) \/ SyncCache(p) \/ BecomesDue(p) \/ ClearCritical(p)
  BY <1>2 DEF Crash, SyncCache, BecomesDue, ClearCritical, Return, Goto, TypeOK
<1> QED
  BY <1>1, <1>2

LEMMA PatchOrReturnShows ==
    ASSUME TypeOK, NEW p \in Nodes, NEW new \in Status, NEW step,
           PatchOrReturn(p, new, step)
    PROVE  \/ /\ pc'[p] = step /\ cfg'[p] = server'
              /\ server'.nodes[p].phase =
                   Merged(server.nodes[p].phase, cfg[p].nodes[p].phase, new.nodes[p].phase)
           \/ pc'[p] = "idle" /\ server' = server
BY MergedPhase DEF PatchOrReturn, Answered, Return, Goto, TypeOK

LEMMA PatchAndGoShows ==
    ASSUME TypeOK, NEW p \in Nodes, NEW new \in Status, NEW step,
           PatchAndGo(p, new, step)
    PROVE  /\ pc'[p] = step
           /\ \/ /\ cfg'[p] = server'
                 /\ server'.nodes[p].phase =
                      Merged(server.nodes[p].phase, cfg[p].nodes[p].phase, new.nodes[p].phase)
              \/ cfg'[p] = new /\ server' = server
BY MergedPhase DEF PatchAndGo, Answered, Refused, Goto, TypeOK

LEMMA PodShows ==
    ASSUME TypeOK, NEW p \in Nodes, OwnPhase(p), Pod(p)
    PROVE  OwnPhase(p)' /\ Shows(p)
<1>a. server \in Status /\ cfg[p] \in Status
  BY DEF TypeOK
<1>s. Stage(pc[p])' = Stage(pc'[p])
  BY DEF Stage
<1>w. \A phase \in Phases : /\ WithPhase(cfg[p], p, phase) \in Status
                            /\ WithPhase(cfg[p], p, phase).nodes[p].phase = phase
  BY <1>a, WithPhaseTyped, WithPhaseShows
<1>r. ASSUME Return(p) PROVE pc'[p] = "idle" /\ Stage(pc'[p]) = "idle" /\ OwnPhase(p)'
  <2>1. pc'[p] = "idle"
    BY <1>r, ReturnTyped
  <2> QED
    BY <2>1, <1>s, Stages DEF OwnPhase
<1> USE DEF Shows, Watched!Next
<1>1. CASE Reconcile(p)
  <2> DEFINE base == WithPhase(server, p, cache[p])
             new  == WithPhase(server, p, "Detecting")
  <2>1. Stage(pc[p]) = "idle"
    BY <1>1, Stages DEF Reconcile
  <2>2. CASE Answered(p, base, new) /\ Goto(p, "detect")
    <3>1. server' = Merge(server, base, new) /\ cfg'[p] = server' /\ pc'[p] = "detect"
      BY <2>2 DEF Answered, Goto, TypeOK
    <3>2. server'.nodes[p].phase \in {server.nodes[p].phase, "Detecting"}
      BY <3>1, <1>a, MergedPhase, WithPhaseShows DEF Merged
    <3>3. Stage(pc'[p]) = "looking"
      BY <3>1, Stages
    <3> QED
      BY <1>s, <2>1, <3>1, <3>2, <3>3 DEF OwnPhase, Watched!Begin
  <2>3. CASE UNCHANGED server /\ Return(p)
    BY <2>1, <2>3, <1>r, <1>s
  <2> QED
    BY <1>1, <2>2, <2>3 DEF Reconcile
<1>2. CASE Detect(p)
  <2> DEFINE new  == [cfg[p] EXCEPT !.nodes[p].due = due[p]]
             step == IF due[p] THEN "announce" ELSE "settle"
  <2>1. pc[p] = "detect" /\ PatchOrReturn(p, new, step) /\ step \in {"announce", "settle"}
    BY <1>2 DEF Detect
  <2>2. new \in Status /\ new.nodes[p].phase = cfg[p].nodes[p].phase
    <3>1. /\ new.nodes = [cfg[p].nodes EXCEPT ![p] = [cfg[p].nodes[p] EXCEPT !.due = due[p]]]
          /\ new = [nodes |-> new.nodes, conditions |-> cfg[p].conditions,
                    phase |-> cfg[p].phase]
      BY <1>a DEF Status
    <3>2. due[p] \in BOOLEAN /\ cfg[p].nodes[p] \in Entry
      BY <1>a DEF Status, TypeOK
    <3>3. /\ [cfg[p].nodes[p] EXCEPT !.due = due[p]] \in Entry
          /\ [cfg[p].nodes[p] EXCEPT !.due = due[p]].phase = cfg[p].nodes[p].phase
      BY <3>2 DEF Entry
    <3>4. new.nodes[p] = [cfg[p].nodes[p] EXCEPT !.due = due[p]]
      BY <1>a, <3>1 DEF Status
    <3>5. new.nodes \in [Nodes -> Entry]
      BY <1>a, <3>1, <3>3 DEF Status
    <3> HIDE DEF new
    <3> QED
      BY <1>a, <3>1, <3>3, <3>4, <3>5 DEF Status
  <2> HIDE DEF new, step
  <2>3. \/ /\ pc'[p] = step /\ cfg'[p] = server'
           /\ server'.nodes[p].phase = server.nodes[p].phase
        \/ pc'[p] = "idle" /\ server' = server
    BY <2>1, <2>2, PatchOrReturnShows DEF Merged
  <2>4. Stage(pc[p]) = "looking" /\ Stage(step) = "looking" /\ Stage("idle") = "idle"
    BY <2>1, Stages
  <2> QED
    BY <1>s, <2>3, <2>4 DEF OwnPhase, Watched!Settle
<1>3. CASE DetectFails(p)
  <2> DEFINE new == WithPhase(cfg[p], p, "Failed")
  <2>1. /\ pc[p] = "detect" /\ Return(p)
        /\ server' = Merge(server, cfg[p], new) \/ server' = server
    BY <1>3 DEF DetectFails
  <2>2. server'.nodes[p].phase \in {server.nodes[p].phase, "Failed"}
    BY <2>1, <1>a, MergedPhase, WithPhaseShows DEF Merged
  <2>3. Stage(pc[p]) = "looking"
    BY <2>1, Stages
  <2> QED
    BY <1>r, <1>s, <2>1, <2>2, <2>3 DEF Watched!Settle
<1>4. CASE Settle(p)
  <2>1. pc[p] = "settle" /\ PatchOrReturn(p, WithPhase(cfg[p], p, "Idle"), "conditions")
    BY <1>4 DEF Settle
  <2>2. /\ pc'[p] \in {"conditions", "idle"}
        /\ server'.nodes[p].phase \in {server.nodes[p].phase, "Idle"}
    BY <2>1, <1>w, PatchOrReturnShows DEF Merged, Phases
  <2>3. Stage(pc[p]) = "looking" /\ Stage(pc'[p]) = "idle"
    BY <2>1, <2>2, Stages
  <2> QED
    BY <1>s, <2>2, <2>3 DEF OwnPhase, Watched!Settle
<1>5. CASE Announce(p)
  <2>1. pc[p] = "announce" /\ PatchOrReturn(p, WithPhase(cfg[p], p, "Renewing"), "backup")
    BY <1>5 DEF Announce
  <2>2. Stage(pc[p]) = "looking" /\ cfg[p].nodes[p].phase = server.nodes[p].phase
    BY <2>1, Stages DEF OwnPhase
  <2>3. \/ /\ pc'[p] = "backup" /\ cfg'[p] = server'
           /\ server'.nodes[p].phase = "Renewing"
        \/ pc'[p] = "idle" /\ server' = server
    BY <2>1, <2>2, <1>w, PatchOrReturnShows DEF Merged, Phases
  <2>4. Stage("backup") = "renewing" /\ Stage("idle") = "idle"
    BY Stages
  <2> QED
    BY <1>s, <2>2, <2>3, <2>4 DEF OwnPhase, Watched!Announce, Watched!Settle
<1>6. CASE Backup(p)
  <2> DEFINE new == [cfg[p] EXCEPT !.nodes[p].backup = TRUE]
  <2>1. /\ pc[p] = "backup"
        /\ \/ Goto(p, "fail") /\ UNCHANGED <<server, cfg>>
           \/ PatchAndGo(p, new, "renew") \/ PatchAndGo(p, new, "finish")
           \/ PatchAndGo(p, new, "fail")
    BY <1>6 DEF Backup, PatchAndGo
  <2>2. new \in Status /\ new.nodes[p].phase = cfg[p].nodes[p].phase
    <3>1. new.nodes[p] = [cfg[p].nodes[p] EXCEPT !.backup = TRUE]
      BY <1>a DEF Status
    <3>2. [cfg[p].nodes[p] EXCEPT !.backup = TRUE].phase = cfg[p].nodes[p].phase
      BY <1>a DEF Status, Entry
    <3>3. new \in Status
      BY <1>a, BackupSetTyped
    <3> QED
      BY <3>1, <3>2, <3>3
  <2> HIDE DEF new
  <2>3. /\ pc'[p] \in {"renew", "finish", "fail"}
        /\ server'.nodes[p].phase = server.nodes[p].phase
        /\ cfg'[p].nodes[p].phase \in {server'.nodes[p].phase, cfg[p].nodes[p].phase}
    BY <2>1, <2>2, PatchAndGoShows DEF Merged, Goto, TypeOK
  <2>4. Stage(pc[p]) = "renewing" /\ Stage(pc'[p]) = "renewing"
    BY <2>1, <2>3, Stages
  <2> QED
    BY <1>s, <2>3, <2>4 DEF OwnPhase
<1>7. CASE Renew(p)
  <2>1. /\ pc[p] = "renew" /\ pc'[p] \in {"finish", "fail"}
        /\ UNCHANGED <<server, cfg>>
    BY <1>7 DEF Renew, Goto, TypeOK
  <2>2. Stage(pc[p]) = "renewing" /\ Stage(pc'[p]) = "renewing"
    BY <2>1, Stages
  <2> QED
    BY <1>s, <2>1, <2>2 DEF OwnPhase
<1>8. CASE Finish(p)
  <2>1. pc[p] = "finish" /\ PatchOrReturn(p, WithPhase(cfg[p], p, "Idle"), "conditions")
    BY <1>8 DEF Finish
  <2>2. /\ pc'[p] \in {"conditions", "idle"}
        /\ server'.nodes[p].phase \in {server.nodes[p].phase, "Idle"}
    BY <2>1, <1>w, PatchOrReturnShows DEF Merged, Phases
  <2>3. Stage(pc[p]) = "renewing" /\ Stage(pc'[p]) = "idle"
    BY <2>1, <2>2, Stages
  <2> QED
    BY <1>s, <2>2, <2>3 DEF OwnPhase, Watched!Finish
<1>9. CASE Fail(p)
  <2>1. pc[p] = "fail" /\ PatchAndGo(p, WithPhase(cfg[p], p, "RollingBack"), "rollback")
    BY <1>9 DEF Fail
  <2>2. Stage(pc[p]) = "renewing"
    BY <2>1, Stages
  <2>3. cfg[p].nodes[p].phase = "Renewing" /\ server.nodes[p].phase = "Renewing"
    BY <2>2 DEF OwnPhase
  <2>4. /\ pc'[p] = "rollback" /\ cfg'[p].nodes[p].phase = "RollingBack"
        /\ server'.nodes[p].phase \in {"Renewing", "RollingBack"}
    BY <2>1, <2>3, <1>w, PatchAndGoShows DEF Merged, Phases
  <2>5. Stage(pc'[p]) = "failing"
    BY <2>4, Stages
  <2> QED
    BY <1>s, <2>2, <2>3, <2>4, <2>5 DEF OwnPhase, Watched!Fail
<1>10. CASE Rollback(p)
  <2>1. pc[p] = "rollback" /\ UNCHANGED server
    BY <1>10 DEF Rollback
  <2>2. Stage(pc[p]) = "failing"
    BY <2>1, Stages
  <2>3. CASE Return(p)
    BY <1>r, <1>s, <2>1, <2>2, <2>3 DEF OwnPhase, Watched!GiveUp
  <2>4. CASE Goto(p, "critical") /\ UNCHANGED cfg
    <3>1. pc'[p] = "critical" /\ Stage("critical") = "failing"
      BY <2>4, Stages DEF Goto, TypeOK
    <3> QED
      BY <1>s, <2>1, <2>2, <2>4, <3>1 DEF OwnPhase
  <2> QED
    BY <1>10, <2>3, <2>4 DEF Rollback
<1>11. CASE DeclareCritical(p)
  <2>1. pc[p] = "critical" /\ PatchAndGo(p, WithPhase(cfg[p], p, "Critical"), "conditions")
    BY <1>11 DEF DeclareCritical
  <2>2. /\ pc'[p] = "conditions"
        /\ server'.nodes[p].phase \in {server.nodes[p].phase, "Critical"}
    BY <2>1, <1>w, PatchAndGoShows DEF Merged, Phases
  <2>3. Stage(pc[p]) = "failing" /\ Stage(pc'[p]) = "idle"
    BY <2>1, <2>2, Stages
  <2> QED
    BY <1>s, <2>2, <2>3 DEF OwnPhase, Watched!GiveUp
<1>12. CASE UpdateConditions(p)
  <2> DEFINE c   == ConditionsOf(cfg[p], p)
             new == [cfg[p] EXCEPT !.conditions = c, !.phase = PhaseOf(c)]
  <2>1. /\ pc[p] = "conditions" /\ Return(p)
        /\ server' = Merge(server, cfg[p], new) \/ server' = server
    BY <1>12 DEF UpdateConditions
  <2>2. new.nodes[p].phase = cfg[p].nodes[p].phase
    BY <1>a DEF Status
  <2> HIDE DEF new, c
  <2>3. server'.nodes[p].phase = server.nodes[p].phase
    BY <2>1, <2>2, <1>a, MergedPhase DEF Merged
  <2>4. Stage(pc[p]) = "idle"
    BY <2>1, Stages
  <2> QED
    BY <1>r, <1>s, <2>1, <2>3, <2>4
<1> QED
  BY <1>1, <1>2, <1>3, <1>4, <1>5, <1>6, <1>7, <1>8, <1>9, <1>10, <1>11, <1>12
     DEF Pod

LEMMA OtherStepsShow ==
    ASSUME TypeOK, NEW p \in Nodes, OwnPhase(p),
           Crash(p) \/ SyncCache(p) \/ BecomesDue(p) \/ ClearCritical(p)
    PROVE  OwnPhase(p)' /\ Shows(p)
<1>s. Stage(pc[p])' = Stage(pc'[p])
  BY DEF Stage
<1> USE DEF Shows, Watched!Next
<1>1. CASE Crash(p)
  <2>1. pc'[p] = "idle" /\ UNCHANGED server /\ pc[p] \in Steps
    BY <1>1, ReturnTyped DEF Crash, TypeOK
  <2>2. Stage(pc'[p]) = "idle" /\ Stage(pc[p]) \in {"idle", "looking", "renewing", "failing"}
    BY <2>1, Stages DEF Steps
  <2> QED
    BY <1>s, <2>1, <2>2
       DEF OwnPhase, Watched!Settle, Watched!Finish, Watched!GiveUp
<1>2. CASE SyncCache(p) \/ BecomesDue(p)
  BY <1>2, <1>s DEF SyncCache, BecomesDue, OwnPhase
<1>3. CASE ClearCritical(p)
  <2>1. /\ pc[p] = "idle" /\ UNCHANGED pc /\ server.nodes[p].phase = "Critical"
        /\ server'.nodes[p].phase = "Idle"
    BY <1>3, WithPhaseShows DEF ClearCritical, TypeOK
  <2>2. Stage(pc[p]) = "idle"
    BY <2>1, Stages
  <2> QED
    BY <1>s, <2>1, <2>2 DEF OwnPhase, Watched!Clear
<1> QED
  BY <1>1, <1>2, <1>3

LEMMA NextShows ==
    ASSUME TypeOK, OwnPhases, Next
    PROVE  OwnPhases' /\ \A n \in Nodes : Shows(n)
<1>1. PICK p \in Nodes :
        \/ Pod(p) \/ Crash(p) \/ SyncCache(p) \/ BecomesDue(p) \/ ClearCritical(p)
  BY DEF Next
<1>2. OwnPhase(p)' /\ Shows(p)
  BY <1>1, PodShows, OtherStepsShow DEF OwnPhases
<1>3. \A n \in Nodes \ {p} : server'.nodes[n] = server.nodes[n]
  BY <1>1, PodStep, OtherSteps DEF OnlyOwn
<1>4. ASSUME NEW n \in Nodes \ {p} PROVE OwnPhase(n)' /\ Shows(n)
  <2>1. pc'[n] = pc[n] /\ cfg'[n] = cfg[n] /\ server'.nodes[n] = server.nodes[n]
    BY <1>1, <1>3, OthersUntouched
  <2>2. Stage(pc[n])' = Stage(pc[n])
    BY <2>1 DEF Stage
  <2> QED
    BY <2>1, <2>2 DEF OwnPhases, OwnPhase, Shows
<1> QED
  BY <1>2, <1>4 DEF OwnPhases

LEMMA InitShows == Init => OwnPhases /\ \A n \in Nodes : Watched(n)!Init
<1> SUFFICES ASSUME Init, NEW n \in Nodes PROVE OwnPhase(n) /\ Watched(n)!Init
  BY DEF OwnPhases
<1>1. Stage(pc[n]) = "idle"
  BY Stages DEF Init
<1>2. server.nodes[n].phase = "None"
  BY DEF Init, NewStatus
<1> QED
  BY <1>1, <1>2 DEF OwnPhase, Watched!Init

\* Every node shows its phases in the order that NodePhase allows, for any
\* number of pods that patch the one object.
THEOREM ShowsInOrder == Spec => ImplementsNodePhase
<1>1. Init => TypeOK /\ OwnPhases /\ \A n \in Nodes : Watched(n)!Init
  BY InitTyped, InitShows
<1>2. TypeOK /\ OwnPhases /\ [Next]_vars => (TypeOK /\ OwnPhases)'
  <2>1. UNCHANGED vars /\ OwnPhases => OwnPhases'
    BY DEF vars, OwnPhases, OwnPhase, Stage
  <2> QED
    BY <2>1, StepTyped, NextShows
<1>3. TypeOK /\ OwnPhases /\ [Next]_vars =>
        [\A n \in Nodes :
           \/ Watched(n)!Next
           \/ UNCHANGED <<server.nodes[n].phase, Stage(pc[n])>>]_vars
  BY NextShows DEF Shows
<1> QED
  BY <1>1, <1>2, <1>3, PTL DEF Spec, ImplementsNodePhase
=============================================================================
