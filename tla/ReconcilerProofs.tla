------------------------- MODULE ReconcilerProofs -------------------------
(* Theorems about one pod, for any set of certificates, kubeconfigs, pods   *)
(* and faults and for any number of seasons.                                *)
EXTENDS Reconciler, TLAPS

---------------------------------------------------------------------------
(* Type correctness.                                                        *)

LEMMA FreshTyped == ASSUME NEW s \in Nat PROVE Fresh(s) \in Pair
  BY DEF Fresh, Pair, Content

LEMMA AbsentTyped == Absent \in Entry
  BY DEF Absent, Entry

LEMMA MergeTyped ==
  ASSUME NEW srv \in Entry, NEW base \in Entry, NEW new \in Entry
  PROVE  Merge(srv, base, new) \in Entry
  BY DEF Merge, Merged, Entry

LEMMA PhaseSetTyped ==
  ASSUME NEW e \in Entry, NEW p \in Phases
  PROVE  [e EXCEPT !.phase = p] \in Entry
  BY DEF Entry

LEMMA BackupSetTyped ==
  ASSUME NEW e \in Entry, NEW b \in Snapshot \cup {NoBackup}
  PROVE  [e EXCEPT !.backup = b] \in Entry
  BY DEF Entry

LEMMA RenewedSetTyped ==
  ASSUME NEW e \in Entry, NEW p \in Phases, NEW s \in Nat
  PROVE  [e EXCEPT !.phase = p, !.renewed = s] \in Entry
  BY DEF Entry

LEMMA SendTyped ==
  ASSUME NEW o, NEW base \in Entry, NEW new \in Entry, server \in Entry,
         Send(base, new, o)
  PROVE  server' \in Entry
  BY MergeTyped DEF Send

LEMMA PatchTyped ==
  ASSUME NEW o, NEW base \in Entry, NEW new \in Entry, server \in Entry,
         Patch(base, new, o)
  PROVE  server' \in Entry /\ cfg' \in Entry
  BY MergeTyped, SendTyped DEF Patch

LEMMA ReturnTyped == Return => cfg' \in Entry /\ CallTyped'
<1> SUFFICES ASSUME Return PROVE cfg' \in Entry /\ CallTyped'
  OBVIOUS
<1>1. 0 \in 0..Len(RestartOrder)
  BY ConstantsAssumption
<1> QED
  BY <1>1, AbsentTyped DEF Return, CallTyped, Steps, Early

LEMMA PatchAndReturnTyped ==
  ASSUME NEW new \in Entry, StatusTyped, PatchAndReturn(new), UNCHANGED cache
  PROVE  StatusTyped' /\ CallTyped'
  BY ReturnTyped, SendTyped DEF PatchAndReturn, StatusTyped

LEMMA FileSetTyped ==
  ASSUME disk \in Snapshot, NEW c \in Certs, NEW v \in Content
  PROVE  /\ [disk EXCEPT ![c].crt = v] \in Snapshot
         /\ [disk EXCEPT ![c].key = v] \in Snapshot
  BY DEF Snapshot, Pair

LEMMA InitTyped == Init => TypeOK
<1> SUFFICES ASSUME Init PROVE TypeOK
  OBVIOUS
<1>1. NodeTyped
  BY FreshTyped, ConstantsAssumption DEF Init, NodeTyped, Snapshot
<1>2. StatusTyped
  BY AbsentTyped DEF Init, StatusTyped
<1>3. CallTyped
  <2>1. /\ pc = "idle" /\ dry = FALSE /\ todo = {} /\ touched = {}
        /\ snap = NoBackup /\ restarted = 0
    BY DEF Init
  <2>2. 0 \in 0..Len(RestartOrder)
    BY ConstantsAssumption
  <2> QED
    BY <2>1, <2>2 DEF CallTyped, Steps
<1> QED
  BY <1>1, <1>2, <1>3 DEF TypeOK

LEMMA StepTyped == TypeOK /\ [Next]_vars => TypeOK'
<1> SUFFICES ASSUME NodeTyped, StatusTyped, CallTyped, [Next]_vars
             PROVE  NodeTyped' /\ StatusTyped' /\ CallTyped'
  BY DEF TypeOK
<1>a. ASSUME UNCHANGED <<node, season>> PROVE NodeTyped'
  BY <1>a DEF NodeTyped, node
<1>b. ASSUME UNCHANGED <<pc, locals>> PROVE CallTyped'
  BY <1>b DEF CallTyped, locals
<1>c. ASSUME UNCHANGED <<server, cache, cfg>> PROVE StatusTyped'
  BY <1>c DEF StatusTyped
<1>d. \A p \in Phases : [cfg EXCEPT !.phase = p] \in Entry
  BY PhaseSetTyped DEF StatusTyped
<1>1. CASE Reconcile
  <2> DEFINE new == [cache EXCEPT !.phase = "Detecting"]
  <2>1. new \in Entry
    BY PhaseSetTyped DEF StatusTyped, Phases
  <2>2. PICK o \in Outcomes, d \in Settings :
          IF o = "ok" THEN /\ Patch(cache, new, o)
                           /\ pc' = "detect" /\ dry' = d
                           /\ UNCHANGED <<todo, touched, snap, restarted>>
                      ELSE Send(cache, new, o) /\ Return
    BY <1>1 DEF Reconcile
  <2>3. UNCHANGED <<node, cache, season>>
    BY <1>1 DEF Reconcile
  <2>4. CASE o = "ok"
    <3>1. StatusTyped'
      BY <2>1, <2>2, <2>3, <2>4, PatchTyped DEF StatusTyped
    <3>2. CallTyped'
      BY <1>1, <2>2, <2>4 DEF Reconcile, CallTyped, Settings, Steps, Early
    <3> QED
      BY <3>1, <3>2, <2>3, <1>a
  <2>5. CASE o # "ok"
    BY <2>1, <2>2, <2>3, <2>5, <1>a, SendTyped, ReturnTyped DEF StatusTyped
  <2> QED
    BY <2>4, <2>5
<1>2. CASE Detect
  <2>1. Due \subseteq Certs \cup Kubeconfigs
    BY DEF Due
  <2>2. UNCHANGED <<node, cache, season>>
    BY <1>2 DEF Detect
  <2>3. CASE Return /\ UNCHANGED server
    BY <2>2, <2>3, <1>a, ReturnTyped DEF StatusTyped
  <2>4. CASE /\ Patch(cfg, cfg, "ok")
             /\ todo' = Due
             /\ pc' = IF Due = {} THEN "settle" ELSE "announce"
             /\ UNCHANGED <<dry, touched, snap, restarted>>
    <3>1. StatusTyped'
      BY <2>2, <2>4, PatchTyped DEF StatusTyped
    <3>2. CallTyped'
      BY <1>2, <2>1, <2>4 DEF Detect, CallTyped, Steps, Early
    <3> QED
      BY <3>1, <3>2, <2>2, <1>a
  <2> QED
    BY <1>2, <2>3, <2>4 DEF Detect
<1>3. CASE DetectFails
  BY <1>3, <1>a, <1>d, PatchAndReturnTyped DEF DetectFails, Phases
<1>4. CASE Settle
  BY <1>4, <1>a, <1>d, PatchAndReturnTyped DEF Settle, Phases
<1>5. CASE Announce
  <2> DEFINE new == [cfg EXCEPT !.phase = "Renewing"]
  <2>1. new \in Entry
    BY <1>d DEF Phases
  <2>2. UNCHANGED <<node, cache, season>>
    BY <1>5 DEF Announce
  <2>3. ASSUME NEW o, Send(cfg, new, o), Return
        PROVE  NodeTyped' /\ StatusTyped' /\ CallTyped'
    BY <2>1, <2>2, <2>3, <1>a, SendTyped, ReturnTyped DEF StatusTyped
  <2>4. CASE Patch(cfg, new, "ok") /\ pc' = "backup" /\ UNCHANGED locals
    <3>1. StatusTyped'
      BY <2>1, <2>2, <2>4, PatchTyped DEF StatusTyped
    <3>2. CallTyped'
      BY <1>5, <2>4 DEF Announce, CallTyped, Steps, Early, locals
    <3> QED
      BY <3>1, <3>2, <2>2, <1>a
  <2> QED
    BY <1>5, <2>3, <2>4 DEF Announce
<1>6. CASE CreateBackup
  <2>1. NodeTyped' /\ StatusTyped'
    BY <1>6, <1>a, <1>c DEF CreateBackup
  <2>2. CallTyped'
    BY <1>6 DEF CreateBackup, CallTyped, NodeTyped, Steps, Early
  <2> QED
    BY <2>1, <2>2
<1>7. CASE PersistBackup
  <2>1. [cfg EXCEPT !.backup = snap] \in Entry
    BY BackupSetTyped DEF StatusTyped, CallTyped
  <2>2. PICK o : Patch(cfg, [cfg EXCEPT !.backup = snap], o)
    BY <1>7 DEF PersistBackup
  <2>3. StatusTyped'
    BY <1>7, <2>1, <2>2, PatchTyped DEF PersistBackup, StatusTyped
  <2>4. NodeTyped'
    BY <1>7, <1>a DEF PersistBackup
  <2>5. pc = "persist" /\ pc' \in {"fail", "finish", "write"} /\ UNCHANGED locals
    BY <1>7 DEF PersistBackup
  <2>6. CallTyped'
    BY <2>5 DEF CallTyped, Steps, Early, locals
  <2> QED
    BY <2>3, <2>4, <2>6
<1>8. ASSUME NEW c \in Certs, WriteCrt(c)
      PROVE  NodeTyped' /\ StatusTyped' /\ CallTyped'
  <2>1. disk' \in Snapshot
    <3>1. /\ disk \in Snapshot
          /\ [disk EXCEPT ![c].crt = season] \in Snapshot
          /\ [disk EXCEPT ![c].crt = Torn] \in Snapshot
      BY FileSetTyped DEF NodeTyped, Content
    <3> QED
      BY <1>8, <3>1 DEF WriteCrt
  <2>2. NodeTyped'
    BY <1>8, <2>1 DEF WriteCrt, NodeTyped
  <2>3. CallTyped'
    BY <1>8 DEF WriteCrt, CallTyped, Steps, Early
  <2> QED
    BY <1>8, <2>2, <2>3, <1>c DEF WriteCrt
<1>9. ASSUME NEW c \in Certs, WriteKey(c)
      PROVE  NodeTyped' /\ StatusTyped' /\ CallTyped'
  <2>1. disk' \in Snapshot
    <3>1. /\ disk \in Snapshot
          /\ [disk EXCEPT ![c].key = season] \in Snapshot
          /\ [disk EXCEPT ![c].key = Torn] \in Snapshot
      BY FileSetTyped DEF NodeTyped, Content
    <3> QED
      BY <1>9, <3>1 DEF WriteKey
  <2>2. NodeTyped'
    BY <1>9, <2>1 DEF WriteKey, NodeTyped
  <2>3. CallTyped'
    BY <1>9, ConstantsAssumption DEF WriteKey, CallTyped, Steps, Early
  <2> QED
    BY <1>9, <2>2, <2>3, <1>c DEF WriteKey
<1>10. CASE SignFails
  <2>1. CallTyped'
    BY <1>10 DEF SignFails, CallTyped, locals, Steps, Early
  <2> QED
    BY <1>10, <2>1, <1>a, <1>c DEF SignFails
<1>n. pc = "restart" => /\ restarted < Len(RestartOrder) /\ restarted \in Nat
                        /\ NextPod \in Pods
  BY ConstantsAssumption DEF CallTyped, NextPod
<1>11. CASE RestartPod
  <2>1. NodeTyped'
    BY <1>11, <1>n DEF RestartPod, NodeTyped
  <2>2. /\ restarted' \in 0..Len(RestartOrder)
        /\ pc' \in Steps \ Early
        /\ pc' = "restart" => restarted' < Len(RestartOrder)
    BY <1>11, <1>n, ConstantsAssumption DEF RestartPod, Steps, Early
  <2>3. CallTyped'
    BY <1>11, <2>2 DEF RestartPod, CallTyped
  <2> QED
    BY <1>11, <2>1, <2>3, <1>c DEF RestartPod
<1>23. CASE RestartFails
  <2>1. NodeTyped'
    BY <1>23, <1>n DEF RestartFails, NodeTyped
  <2>2. CallTyped'
    BY <1>23 DEF RestartFails, CallTyped, locals, Steps, Early
  <2> QED
    BY <1>23, <2>1, <2>2, <1>c DEF RestartFails
<1>24. CASE RestartPanics
  BY <1>24, <1>a, ReturnTyped DEF RestartPanics, StatusTyped
<1>12. CASE CheckHealth
  <2>1. CallTyped'
    BY <1>12 DEF CheckHealth, CallTyped, locals, Steps, Early
  <2> QED
    BY <1>12, <2>1, <1>a, <1>c DEF CheckHealth
<1>13. CASE Finish
  <2>1. [cfg EXCEPT !.phase = "Idle", !.renewed = season] \in Entry
    BY RenewedSetTyped DEF StatusTyped, NodeTyped, Phases
  <2> QED
    BY <1>13, <2>1, <1>a, PatchAndReturnTyped DEF Finish
<1>14. CASE Fail
  <2>1. [cfg EXCEPT !.phase = "RollingBack"] \in Entry
    BY <1>d DEF Phases
  <2>2. StatusTyped'
    BY <1>14, <2>1, PatchTyped DEF Fail, StatusTyped
  <2>3. CallTyped'
    BY <1>14 DEF Fail, CallTyped, locals, Steps, Early
  <2> QED
    BY <1>14, <2>2, <2>3, <1>a DEF Fail
<1>15. CASE Rollback
  <2>1. CASE Return
    BY <1>15, <2>1, <1>a, ReturnTyped DEF Rollback, StatusTyped
  <2>2. CASE pc' = "critical" /\ UNCHANGED <<cfg, locals>>
    <3>1. CallTyped'
      BY <2>2 DEF CallTyped, locals, Steps, Early
    <3> QED
      BY <1>15, <2>2, <3>1, <1>a, <1>c DEF Rollback
  <2> QED
    BY <1>15, <2>1, <2>2 DEF Rollback
<1>16. CASE DeclareCritical
  BY <1>16, <1>a, <1>d, PatchAndReturnTyped DEF DeclareCritical, Phases
<1>17. CASE Crash
  <2>1. disk' \in Snapshot
    <3>1. \A c \in Certs : /\ [disk EXCEPT ![c].crt = Torn] \in Snapshot
                           /\ [disk EXCEPT ![c].key = Torn] \in Snapshot
      BY FileSetTyped DEF NodeTyped, Content
    <3>2. disk \in Snapshot /\ touched \subseteq Certs
      BY DEF NodeTyped, CallTyped
    <3> QED
      BY <1>17, <3>1, <3>2 DEF Crash
  <2>2. NodeTyped'
    BY <1>17, <1>n, <2>1 DEF Crash, NodeTyped
  <2> QED
    BY <1>17, <2>2, ReturnTyped DEF Crash, StatusTyped
<1>18. ASSUME NEW p \in Pods, Kubelet(p) \/ PodRestarts(p)
       PROVE  NodeTyped' /\ StatusTyped' /\ CallTyped'
  <2>1. running' \in Snapshot
    <3>1. Stopped \in Pair
      BY DEF Stopped, Pair, Content
    <3>2. \A pairs \in Snapshot : Loading(p, pairs) \in Snapshot
      BY DEF Loading, NodeTyped, Snapshot
    <3>3. [c \in Certs |-> Stopped] \in Snapshot
      BY <3>1 DEF Snapshot
    <3> QED
      BY <1>18, <3>2, <3>3 DEF Kubelet, PodRestarts, NodeTyped
  <2>2. NodeTyped'
    BY <1>18, <2>1 DEF Kubelet, PodRestarts, NodeTyped
  <2> QED
    BY <1>18, <2>2, <1>b, <1>c DEF Kubelet, PodRestarts
<1>19. CASE SyncCache
  BY <1>19, <1>a, <1>b DEF SyncCache, StatusTyped
<1>20. CASE NextSeason
  <2>1. NodeTyped'
    BY <1>20 DEF NextSeason, NodeTyped, node
  <2> QED
    BY <1>20, <2>1, <1>b, <1>c DEF NextSeason
<1>21. CASE ClearCritical
  <2>1. server' \in Entry
    BY <1>21, PhaseSetTyped, AbsentTyped DEF ClearCritical, StatusTyped, Phases
  <2> QED
    BY <1>21, <2>1, <1>a, <1>b DEF ClearCritical, StatusTyped
<1>22. CASE UNCHANGED vars
  BY <1>22, <1>a, <1>b, <1>c DEF vars, node, locals
<1> QED
  BY <1>1, <1>2, <1>3, <1>4, <1>5, <1>6, <1>7, <1>8, <1>9, <1>10, <1>11,
     <1>12, <1>13, <1>14, <1>15, <1>16, <1>17, <1>18, <1>19, <1>20, <1>21,
     <1>22, <1>23, <1>24
     DEF Next, Program

\* Every variable keeps its type, and RestartAll never runs past its list.
THEOREM TypeCorrect == Spec => []TypeOK
  BY InitTyped, StepTyped, PTL DEF Spec

---------------------------------------------------------------------------
(* The restore point.  The properties are not inductive as they stand: the *)
(* invariant says at which steps the call's copy of the entry is the       *)
(* server's, and what a renewal that failed after a write still knows.     *)

Prepared == {"detect", "settle", "announce", "backup", "persist"}
Announced == {"backup", "persist"} \cup Writing \cup Renewed

RestorePointInv ==
    /\ pc \in Prepared \cup {"idle"} => touched = {}
    /\ pc \in Prepared \cup Writing \cup Renewed => cfg = server
    /\ pc \in Announced => cfg.phase = "Renewing"
    /\ pc \in {"persist"} \cup Writing \cup Renewed =>
           /\ snap \in Snapshot
           /\ \A c \in Certs \ touched : disk[c] = snap[c]
    /\ pc \in Writing \cup Renewed => server.backup = snap
    /\ pc = "fail" /\ touched # {} => cfg = server /\ cfg.backup # NoBackup
    /\ pc = "rollback" /\ touched # {} => cfg.backup # NoBackup
    /\ pc = "critical" => touched = {}

LEMMA RestorePointInit == Init => RestorePointInv
  BY DEF Init, RestorePointInv, Prepared, Announced, Writing, Renewed

LEMMA ReturnKeepsRestorePoint == Return => RestorePointInv'
  BY DEF Return, RestorePointInv, Prepared, Announced, Writing, Renewed

LEMMA MergeSame ==
  ASSUME NEW e \in Entry, NEW new \in Entry
  PROVE  Merge(e, e, new) = new
  BY DEF Merge, Merged, Entry

LEMMA RestorePointStep ==
  TypeOK /\ RestorePointInv /\ [Next]_vars => RestorePointInv'
<1> SUFFICES ASSUME NodeTyped, StatusTyped, CallTyped, RestorePointInv, [Next]_vars
             PROVE  RestorePointInv'
  BY DEF TypeOK
<1> USE DEF Prepared, Announced, Writing, Renewed
<1>a. \A new \in Entry : Merge(cfg, cfg, new) = new
  BY MergeSame DEF StatusTyped
<1>b. cfg \in Entry /\ server \in Entry
  BY DEF StatusTyped
<1>c. ASSUME UNCHANGED <<disk, server, pc, cfg, touched, snap>>
      PROVE  RestorePointInv'
  BY <1>c DEF RestorePointInv
<1>1. CASE Reconcile
  <2>1. CASE Return
    BY <2>1, ReturnKeepsRestorePoint
  <2>2. CASE /\ pc' = "detect" /\ touched' = touched
             /\ Patch(cache, [cache EXCEPT !.phase = "Detecting"], "ok")
    <3>1. cfg' = server'
      BY <2>2 DEF Patch, Send
    <3>2. touched = {}
      BY <1>1 DEF Reconcile, RestorePointInv
    <3> QED
      BY <2>2, <3>1, <3>2 DEF RestorePointInv
  <2> QED
    BY <1>1, <2>1, <2>2 DEF Reconcile
<1>2. CASE Detect
  <2>1. CASE Return
    BY <2>1, ReturnKeepsRestorePoint
  <2>2. CASE /\ pc' \in {"settle", "announce"} /\ touched' = touched
             /\ Patch(cfg, cfg, "ok")
    <3>1. cfg' = server'
      BY <2>2 DEF Patch, Send
    <3> QED
      BY <1>2, <2>2, <3>1 DEF Detect, RestorePointInv
  <2> QED
    BY <1>2, <2>1, <2>2 DEF Detect
<1>3. CASE DetectFails
  BY <1>3, ReturnKeepsRestorePoint DEF DetectFails, PatchAndReturn
<1>4. CASE Settle
  BY <1>4, ReturnKeepsRestorePoint DEF Settle, PatchAndReturn
<1>5. CASE Announce
  <2> DEFINE new == [cfg EXCEPT !.phase = "Renewing"]
  <2>1. CASE Return
    BY <2>1, ReturnKeepsRestorePoint
  <2>2. CASE /\ pc' = "backup" /\ touched' = touched
             /\ Patch(cfg, new, "ok")
    <3>1. new \in Entry
      BY <1>b, PhaseSetTyped DEF Phases
    <3>2. cfg = server
      BY <1>5 DEF Announce, RestorePointInv
    <3>3. cfg' = new /\ server' = new
      BY <1>a, <2>2, <3>1, <3>2 DEF Patch, Send
    <3>4. new.phase = "Renewing"
      BY <1>b DEF Entry
    <3> QED
      BY <1>5, <2>2, <3>3, <3>4 DEF Announce, RestorePointInv
  <2> QED
    BY <1>5, <2>1, <2>2 DEF Announce, locals
<1>6. CASE CreateBackup
  BY <1>6 DEF CreateBackup, RestorePointInv, NodeTyped, node
<1>7. CASE PersistBackup
  <2> DEFINE new == [cfg EXCEPT !.backup = snap]
  <2>1. PICK o \in Outcomes :
          /\ Patch(cfg, new, o)
          /\ pc' = IF o # "ok" THEN "fail" ELSE IF dry THEN "finish" ELSE "write"
    BY <1>7 DEF PersistBackup
  <2>2. /\ touched' = {} /\ UNCHANGED <<disk, snap>> /\ cfg = server
        /\ snap \in Snapshot /\ \A c \in Certs : disk[c] = snap[c]
        /\ cfg.phase = "Renewing" /\ touched = {}
    BY <1>7 DEF PersistBackup, RestorePointInv, node, locals
  <2>3. CASE o # "ok"
    BY <2>1, <2>2, <2>3 DEF RestorePointInv
  <2>4. CASE o = "ok"
    <3>1. new \in Entry
      BY <1>b, <2>2, BackupSetTyped
    <3>2. cfg' = new /\ server' = new
      BY <1>a, <2>1, <2>2, <2>4, <3>1 DEF Patch, Send
    <3>3. new.phase = "Renewing" /\ new.backup = snap
      BY <1>b, <2>2 DEF Entry
    <3>4. pc' \in {"finish", "write"}
      BY <2>1, <2>4
    <3> QED
      BY <2>2, <3>2, <3>3, <3>4 DEF RestorePointInv
  <2> QED
    BY <2>3, <2>4
<1>8. ASSUME NEW c \in Certs, WriteCrt(c) PROVE RestorePointInv'
  <2>1. /\ pc' \in {"key", "fail"} /\ touched' = touched \cup {c}
        /\ UNCHANGED <<server, cfg, snap>>
        /\ cfg = server /\ cfg.phase = "Renewing" /\ server.backup = snap
        /\ snap \in Snapshot
    BY <1>8 DEF WriteCrt, RestorePointInv
  <2>2. \A d \in Certs \ touched' : disk'[d] = snap[d]
    <3>1. \A d \in Certs \ {c} : disk'[d] = disk[d]
      BY <1>8 DEF WriteCrt, NodeTyped, Snapshot
    <3> QED
      BY <1>8, <2>1, <3>1 DEF WriteCrt, RestorePointInv
  <2> QED
    BY <2>1, <2>2, NoBackupAssumption DEF RestorePointInv
<1>9. ASSUME NEW c \in Certs, WriteKey(c) PROVE RestorePointInv'
  <2>1. /\ pc' \in {"restart", "write", "fail"} /\ UNCHANGED <<server, cfg, snap, touched>>
        /\ cfg = server /\ cfg.phase = "Renewing" /\ server.backup = snap
        /\ snap \in Snapshot /\ c \in touched
    BY <1>9 DEF WriteKey, RestorePointInv
  <2>2. \A d \in Certs \ touched' : disk'[d] = snap[d]
    <3>1. \A d \in Certs \ {c} : disk'[d] = disk[d]
      BY <1>9 DEF WriteKey, NodeTyped, Snapshot
    <3> QED
      BY <1>9, <2>1, <3>1 DEF WriteKey, RestorePointInv
  <2> QED
    BY <2>1, <2>2, NoBackupAssumption DEF RestorePointInv
<1>10. CASE SignFails
  BY <1>10, NoBackupAssumption DEF SignFails, RestorePointInv, node, locals
<1>11. CASE RestartPod
  <2>1. pc' \in {"restart", "health", "fail"}
    BY <1>11 DEF RestartPod
  <2> QED
    BY <1>11, <2>1, NoBackupAssumption DEF RestartPod, RestorePointInv
<1>23. CASE RestartFails
  BY <1>23, NoBackupAssumption DEF RestartFails, RestorePointInv, locals
<1>24. CASE RestartPanics
  BY <1>24, ReturnKeepsRestorePoint DEF RestartPanics
<1>12. CASE CheckHealth
  BY <1>12, NoBackupAssumption DEF CheckHealth, RestorePointInv, node, locals
<1>13. CASE Finish
  BY <1>13, ReturnKeepsRestorePoint DEF Finish, PatchAndReturn
<1>14. CASE Fail
  <2> DEFINE new == [cfg EXCEPT !.phase = "RollingBack"]
  <2>1. PICK o \in Outcomes : Patch(cfg, new, o)
    BY <1>14 DEF Fail
  <2>2. new \in Entry /\ new.backup = cfg.backup
    BY <1>b, PhaseSetTyped DEF Phases, Entry
  <2>3. ASSUME touched # {} PROVE cfg'.backup # NoBackup
    <3>1. cfg = server /\ cfg.backup # NoBackup
      BY <1>14, <2>3 DEF Fail, RestorePointInv
    <3>2. cfg' = new
      BY <1>a, <2>1, <2>2, <3>1 DEF Patch
    <3> QED
      BY <2>2, <3>1, <3>2
  <2> QED
    BY <1>14, <2>3 DEF Fail, RestorePointInv, locals
<1>15. CASE Rollback
  <2>1. CASE Return
    BY <2>1, ReturnKeepsRestorePoint
  <2>2. CASE cfg.backup = NoBackup /\ pc' = "critical" /\ UNCHANGED <<cfg, locals>>
    BY <1>15, <2>2 DEF Rollback, RestorePointInv, locals
  <2> QED
    BY <1>15, <2>1, <2>2 DEF Rollback
<1>16. CASE DeclareCritical
  BY <1>16, ReturnKeepsRestorePoint DEF DeclareCritical, PatchAndReturn
<1>17. CASE Crash
  BY <1>17, ReturnKeepsRestorePoint DEF Crash
<1>18. ASSUME NEW p \in Pods, Kubelet(p) \/ PodRestarts(p) PROVE RestorePointInv'
  BY <1>18, <1>c DEF Kubelet, PodRestarts, locals
<1>19. CASE SyncCache
  BY <1>19, <1>c DEF SyncCache, node, locals
<1>20. CASE NextSeason
  BY <1>20, <1>c DEF NextSeason, node, locals
<1>21. CASE ClearCritical
  BY <1>21 DEF ClearCritical, RestorePointInv, node, locals
<1>22. CASE UNCHANGED vars
  BY <1>22, <1>c DEF vars
<1> QED
  BY <1>1, <1>2, <1>3, <1>4, <1>5, <1>6, <1>7, <1>8, <1>9, <1>10, <1>11,
     <1>12, <1>13, <1>14, <1>15, <1>16, <1>17, <1>18, <1>19, <1>20, <1>21,
     <1>22, <1>23, <1>24
     DEF Next, Program

LEMMA RestorePointInvariant == Spec => [](TypeOK /\ RestorePointInv)
<1>1. Init => TypeOK /\ RestorePointInv
  BY InitTyped, RestorePointInit
<1>2. TypeOK /\ RestorePointInv /\ [Next]_vars => TypeOK' /\ RestorePointInv'
  BY StepTyped, RestorePointStep
<1> QED
  BY <1>1, <1>2, PTL DEF Spec

\* Whatever fails and whenever the process dies, from the first write until
\* the result of the renewal is known the API server names a backup with the
\* files this renewal started from.
THEOREM RestorePointAlwaysPersisted == Spec => []RestorePointPersisted
<1>1. TypeOK /\ RestorePointInv => RestorePointPersisted
  BY DEF RestorePointInv, RestorePointPersisted, Prepared, Announced, Writing, Renewed
<1> QED
  BY <1>1, RestorePointInvariant, PTL

\* A call that declares the node Critical has written no file.
THEOREM CriticalNeverAfterWrite == Spec => []CriticalMeansUntouched
<1>1. RestorePointInv => CriticalMeansUntouched
  BY DEF RestorePointInv, CriticalMeansUntouched
<1> QED
  BY <1>1, RestorePointInvariant, PTL

---------------------------------------------------------------------------
(* The renewal loop.  What is still to be renewed is what is still due, and *)
(* what this call has written is of this season, the half-written pair at  *)
(* "key" excepted.                                                         *)

Done(S) == \A c \in S : disk[c] = Fresh(season)

RenewalInv ==
    /\ pc \in {"announce", "backup", "persist", "write"} => todo = Due
    /\ pc = "write" => touched \cap todo = {} /\ Done(touched)
    /\ pc = "key" => \E c \in Certs : /\ touched \cap todo = {c}
                                      /\ disk[c].crt = season
                                      /\ Due = todo \ {c}
                                      /\ Done(touched \ {c})
    /\ pc \in Renewed => Due = {} /\ Done(touched)
    /\ pc = "finish" /\ ~dry => Due = {} /\ Done(touched)

LEMMA ReturnKeepsRenewal == Return => RenewalInv'
  BY DEF Return, RenewalInv, Renewed

LEMMA RenewalInit == Init => RenewalInv
  BY DEF Init, RenewalInv, Renewed

LEMMA RenewalStep ==
  TypeOK /\ RestorePointInv /\ RenewalInv /\ [Next]_vars => RenewalInv'
<1> SUFFICES ASSUME NodeTyped, CallTyped, RestorePointInv, RenewalInv, [Next]_vars
             PROVE  RenewalInv'
  BY DEF TypeOK
<1>a. ASSUME UNCHANGED <<disk, conf, season>> PROVE Due' = Due
  BY <1>a DEF Due
<1>c. ASSUME UNCHANGED <<disk, conf, season, pc, dry, todo, touched>>
      PROVE  RenewalInv'
  BY <1>c DEF RenewalInv, Due, Done
<1>1. CASE Reconcile
  <2>1. CASE Return
    BY <2>1, ReturnKeepsRenewal
  <2>2. CASE pc' = "detect"
    BY <2>2 DEF RenewalInv, Renewed
  <2> QED
    BY <1>1, <2>1, <2>2 DEF Reconcile
<1>2. CASE Detect
  <2>1. CASE Return
    BY <2>1, ReturnKeepsRenewal
  <2>2. CASE todo' = Due /\ pc' \in {"settle", "announce"}
    <3>1. Due' = Due
      BY <1>2, <1>a DEF Detect, node
    <3> QED
      BY <2>2, <3>1 DEF RenewalInv, Renewed
  <2> QED
    BY <1>2, <2>1, <2>2 DEF Detect
<1>3. CASE DetectFails
  BY <1>3, ReturnKeepsRenewal DEF DetectFails, PatchAndReturn
<1>4. CASE Settle
  BY <1>4, ReturnKeepsRenewal DEF Settle, PatchAndReturn
<1>5. CASE Announce
  <2>1. CASE Return
    BY <2>1, ReturnKeepsRenewal
  <2>2. CASE pc' = "backup" /\ UNCHANGED locals
    <3>1. Due' = Due
      BY <1>5, <1>a DEF Announce, node
    <3> QED
      BY <1>5, <2>2, <3>1 DEF Announce, RenewalInv, Renewed, locals
  <2> QED
    BY <1>5, <2>1, <2>2 DEF Announce
<1>6. CASE CreateBackup
  <2>1. Due' = Due
    BY <1>6, <1>a DEF CreateBackup, node
  <2> QED
    BY <1>6, <2>1 DEF CreateBackup, RenewalInv, Renewed
<1>7. CASE PersistBackup
  <2>1. Due' = Due
    BY <1>7, <1>a DEF PersistBackup, node
  <2>2. /\ pc' \in {"fail", "finish", "write"} /\ (pc' = "finish" => dry)
        /\ UNCHANGED locals
    BY <1>7 DEF PersistBackup
  <2>3. touched = {} /\ todo = Due
    BY <1>7 DEF PersistBackup, RestorePointInv, Prepared, RenewalInv
  <2> QED
    BY <2>1, <2>2, <2>3 DEF RenewalInv, Renewed, Done, locals
<1>8. ASSUME NEW c \in Certs, WriteCrt(c) PROVE RenewalInv'
  <2>1. CASE pc' = "fail"
    BY <2>1 DEF RenewalInv, Renewed
  <2>2. CASE disk' = [disk EXCEPT ![c].crt = season] /\ pc' = "key"
    <3>1. /\ todo = Due /\ touched \cap todo = {} /\ Done(touched)
          /\ c \in todo /\ todo' = todo /\ touched' = touched \cup {c}
          /\ UNCHANGED <<conf, season>>
      BY <1>8 DEF WriteCrt, RenewalInv
    <3>2. /\ disk'[c].crt = season
          /\ \A d \in Certs \ {c} : disk'[d] = disk[d]
      BY <2>2 DEF NodeTyped, Snapshot, Pair
    <3>3. Due' = todo' \ {c}
      BY <3>1, <3>2, ConstantsAssumption DEF Due, NodeTyped
    <3>4. touched' \cap todo' = {c}
      BY <3>1
    <3>5. Done(touched \ {c})'
      BY <3>1, <3>2 DEF Done, CallTyped
    <3> QED
      BY <2>2, <3>1, <3>2, <3>3, <3>4, <3>5 DEF RenewalInv, Renewed
  <2> QED
    BY <1>8, <2>1, <2>2 DEF WriteCrt
<1>9. ASSUME NEW c \in Certs, WriteKey(c) PROVE RenewalInv'
  <2>1. CASE pc' = "fail"
    BY <2>1 DEF RenewalInv, Renewed
  <2>2. CASE /\ disk' = [disk EXCEPT ![c].key = season]
             /\ todo' = todo \ {c}
             /\ pc' = IF todo' = {} THEN "restart" ELSE "write"
    <3>1. /\ touched \cap todo = {c} /\ disk[c].crt = season
          /\ Due = todo \ {c} /\ Done(touched \ {c})
          /\ touched' = touched /\ UNCHANGED <<conf, season>>
      BY <1>9 DEF WriteKey, RenewalInv
    <3>2. /\ disk'[c] = Fresh(season)
          /\ disk'[c].crt = disk[c].crt
          /\ \A d \in Certs \ {c} : disk'[d] = disk[d]
      BY <2>2, <3>1 DEF NodeTyped, Snapshot, Pair, Fresh
    <3>3. Due' = Due
      BY <3>1, <3>2 DEF Due, NodeTyped
    <3>4. Done(touched)'
      BY <3>1, <3>2 DEF Done, CallTyped
    <3>5. touched' \cap todo' = {}
      BY <2>2, <3>1
    <3> QED
      BY <2>2, <3>1, <3>3, <3>4, <3>5 DEF RenewalInv, Renewed
  <2> QED
    BY <1>9, <2>1, <2>2 DEF WriteKey
<1>10. CASE SignFails
  BY <1>10 DEF SignFails, RenewalInv, Renewed
<1>11. CASE RestartPod
  <2>1. Due' = Due
    BY <1>11, <1>a DEF RestartPod
  <2>2. Done(touched)' = Done(touched)
    BY <1>11 DEF RestartPod, Done
  <2>3. pc' \in {"restart", "health", "fail"}
    BY <1>11 DEF RestartPod
  <2> QED
    BY <1>11, <2>1, <2>2, <2>3 DEF RestartPod, RenewalInv, Renewed
<1>23. CASE RestartFails
  BY <1>23 DEF RestartFails, RenewalInv, Renewed
<1>24. CASE RestartPanics
  BY <1>24, ReturnKeepsRenewal DEF RestartPanics
<1>12. CASE CheckHealth
  <2>1. Due' = Due
    BY <1>12, <1>a DEF CheckHealth, node
  <2>2. Done(touched)' = Done(touched)
    BY <1>12 DEF CheckHealth, Done, node, locals
  <2> QED
    BY <1>12, <2>1, <2>2 DEF CheckHealth, RenewalInv, Renewed, locals
<1>13. CASE Finish
  BY <1>13, ReturnKeepsRenewal DEF Finish, PatchAndReturn
<1>14. CASE Fail
  BY <1>14 DEF Fail, RenewalInv, Renewed
<1>15. CASE Rollback
  <2>1. CASE Return
    BY <2>1, ReturnKeepsRenewal
  <2>2. CASE pc' = "critical"
    BY <2>2 DEF RenewalInv, Renewed
  <2> QED
    BY <1>15, <2>1, <2>2 DEF Rollback
<1>16. CASE DeclareCritical
  BY <1>16, ReturnKeepsRenewal DEF DeclareCritical, PatchAndReturn
<1>17. CASE Crash
  BY <1>17, ReturnKeepsRenewal DEF Crash
<1>18. ASSUME NEW p \in Pods, Kubelet(p) \/ PodRestarts(p) PROVE RenewalInv'
  BY <1>18, <1>c DEF Kubelet, PodRestarts, locals
<1>19. CASE SyncCache
  BY <1>19, <1>c DEF SyncCache, node, locals
<1>20. CASE NextSeason
  BY <1>20 DEF NextSeason, RenewalInv, Renewed
<1>21. CASE ClearCritical
  BY <1>21, <1>c DEF ClearCritical, node, locals
<1>22. CASE UNCHANGED vars
  BY <1>22, <1>c DEF vars
<1> QED
  BY <1>1, <1>2, <1>3, <1>4, <1>5, <1>6, <1>7, <1>8, <1>9, <1>10, <1>11,
     <1>12, <1>13, <1>14, <1>15, <1>16, <1>17, <1>18, <1>19, <1>20, <1>21,
     <1>22, <1>23, <1>24
     DEF Next, Program

IInv == TypeOK /\ RestorePointInv /\ RenewalInv

LEMMA Inductive == Spec => []IInv
<1>1. Init => IInv
  BY InitTyped, RestorePointInit, RenewalInit DEF IInv
<1>2. IInv /\ [Next]_vars => IInv'
  BY StepTyped, RestorePointStep, RenewalStep DEF IInv
<1> QED
  BY <1>1, <1>2, PTL DEF Spec

\* Static pods are restarted and probed only when nothing is due and every
\* pair this call wrote is whole, whatever earlier calls left behind.
THEOREM RestartedWhole == Spec => []RestartedOnWholePairs
<1>1. IInv => RestartedOnWholePairs
  BY DEF IInv, RenewalInv, RestartedOnWholePairs, Renewed, Done
<1> QED
  BY <1>1, Inductive, PTL

\* A patch that does not move the time stamp does not move the stored one.
LEMMA SendKeepsRenewed ==
  ASSUME NEW o, NEW base, NEW new, Send(base, new, o), new.renewed = base.renewed,
         server \in Entry
  PROVE  server'.renewed = server.renewed
  BY DEF Send, Merge, Merged

LEMMA StampStep ==
  IInv /\ [Next]_vars =>
    (server.renewed' \notin {server.renewed, 0} /\ ~dry =>
       Due = {} /\ \A c \in touched : Whole(disk[c]))
<1> SUFFICES ASSUME NodeTyped, StatusTyped, RenewalInv, [Next]_vars,
                    server.renewed' \notin {server.renewed, 0}, ~dry
             PROVE  Due = {} /\ \A c \in touched : Whole(disk[c])
  BY DEF IInv, TypeOK
<1>e. cfg \in Entry /\ server \in Entry /\ cache \in Entry
  BY DEF StatusTyped
<1>p. \A e \in Entry : \A p : /\ [e EXCEPT !.phase = p].renewed = e.renewed
                              /\ [e EXCEPT !.backup = p].renewed = e.renewed
  BY DEF Entry
<1>r. ASSUME NEW p, PatchAndReturn([cfg EXCEPT !.phase = p]) PROVE FALSE
  BY <1>e, <1>p, <1>r, SendKeepsRenewed DEF PatchAndReturn
<1>1. CASE Finish
  <2>1. Due = {} /\ Done(touched)
    BY <1>1 DEF Finish, RenewalInv
  <2> QED
    BY <2>1 DEF Done, Whole, Fresh, NodeTyped, Torn
<1>2. CASE Reconcile
  <2>1. PICK o : Send(cache, [cache EXCEPT !.phase = "Detecting"], o)
    BY <1>2 DEF Reconcile, Patch
  <2> QED
    BY <2>1, <1>e, <1>p, SendKeepsRenewed
<1>3. CASE Detect
  <2>1. Send(cfg, cfg, "ok") \/ UNCHANGED server
    BY <1>3 DEF Detect, Patch
  <2> QED
    BY <2>1, <1>e, SendKeepsRenewed
<1>4. CASE Announce
  <2>1. PICK o : Send(cfg, [cfg EXCEPT !.phase = "Renewing"], o)
    BY <1>4 DEF Announce, Patch
  <2> QED
    BY <2>1, <1>e, <1>p, SendKeepsRenewed
<1>5. CASE PersistBackup
  <2>1. PICK o : Send(cfg, [cfg EXCEPT !.backup = snap], o)
    BY <1>5 DEF PersistBackup, Patch
  <2> QED
    BY <2>1, <1>e, <1>p, SendKeepsRenewed
<1>6. CASE Fail
  <2>1. PICK o : Send(cfg, [cfg EXCEPT !.phase = "RollingBack"], o)
    BY <1>6 DEF Fail, Patch
  <2> QED
    BY <2>1, <1>e, <1>p, SendKeepsRenewed
<1>7. CASE DetectFails \/ Settle \/ DeclareCritical
  BY <1>7, <1>r DEF DetectFails, Settle, DeclareCritical
<1>8. CASE ClearCritical
  <2>1. CASE server' = [server EXCEPT !.phase = "Idle"]
    BY <1>e, <1>p, <2>1
  <2>2. CASE server' = Absent
    BY <2>2 DEF Absent
  <2> QED
    BY <1>8, <2>1, <2>2 DEF ClearCritical
<1>9. CASE CreateBackup \/ SignFails \/ RestartPod \/ RestartFails \/ RestartPanics
             \/ CheckHealth \/ Rollback \/ Crash \/ SyncCache \/ NextSeason \/ UNCHANGED vars
  <2>1. UNCHANGED server
    BY <1>9 DEF CreateBackup, SignFails, RestartPod, RestartFails, RestartPanics,
                 CheckHealth, Rollback, Crash, SyncCache, NextSeason, vars
  <2> QED
    BY <2>1
<1>10. ASSUME NEW c \in Certs, WriteCrt(c) \/ WriteKey(c) PROVE FALSE
  BY <1>10 DEF WriteCrt, WriteKey
<1>11. ASSUME NEW p \in Pods, Kubelet(p) \/ PodRestarts(p) PROVE FALSE
  BY <1>11 DEF Kubelet, PodRestarts
<1> QED
  BY <1>1, <1>2, <1>3, <1>4, <1>5, <1>6, <1>7, <1>8, <1>9, <1>10, <1>11
     DEF Next, Program

\* Outside dry runs the renewal stamp moves only over a node with nothing
\* due, whatever was refused, lost or killed before.
THEOREM StampAfterRenewal == Spec => StampMeansRenewed
<1>1. IInv /\ [Next]_vars =>
        [server.renewed' \notin {server.renewed, 0} /\ ~dry =>
           Due = {} /\ \A c \in touched : Whole(disk[c])]_vars
  BY StampStep
<1> QED
  BY <1>1, Inductive, PTL DEF Spec, StampMeansRenewed

---------------------------------------------------------------------------
(* Dry runs.  The call gets past no step that a dry run may not take.       *)

DrySteps == {"detect", "settle", "announce", "backup", "persist", "finish",
             "fail", "rollback", "critical"}

DryInv == dry => pc \in DrySteps

LEMMA ReturnEndsDryRun == Return => DryInv'
  BY DEF Return, DryInv

LEMMA DryStep == DryInv /\ [Next]_vars => DryInv'
<1> SUFFICES ASSUME DryInv, [Next]_vars PROVE DryInv'
  OBVIOUS
<1> USE DEF DryInv, DrySteps
<1>1. CASE Reconcile
  BY <1>1, ReturnEndsDryRun DEF Reconcile
<1>2. CASE Detect
  BY <1>2, ReturnEndsDryRun DEF Detect
<1>3. CASE DetectFails \/ Settle \/ Finish \/ DeclareCritical
  BY <1>3, ReturnEndsDryRun
     DEF DetectFails, Settle, Finish, DeclareCritical, PatchAndReturn
<1>4. CASE Announce
  BY <1>4, ReturnEndsDryRun DEF Announce, locals
<1>5. CASE CreateBackup
  BY <1>5 DEF CreateBackup
<1>6. CASE PersistBackup
  BY <1>6 DEF PersistBackup, locals
<1>7. ASSUME NEW c \in Certs, WriteCrt(c) \/ WriteKey(c) PROVE DryInv'
  BY <1>7 DEF WriteCrt, WriteKey
<1>8. CASE SignFails \/ RestartPod \/ RestartFails \/ CheckHealth
  BY <1>8 DEF SignFails, RestartPod, RestartFails, CheckHealth, locals
<1>9. CASE Fail
  BY <1>9 DEF Fail, locals
<1>10. CASE Rollback
  BY <1>10, ReturnEndsDryRun DEF Rollback, locals
<1>11. CASE RestartPanics \/ Crash
  BY <1>11, ReturnEndsDryRun DEF RestartPanics, Crash
<1>12. ASSUME NEW p \in Pods, Kubelet(p) \/ PodRestarts(p) PROVE DryInv'
  BY <1>12 DEF Kubelet, PodRestarts, locals
<1>13. CASE SyncCache \/ NextSeason \/ ClearCritical \/ UNCHANGED vars
  BY <1>13 DEF SyncCache, NextSeason, ClearCritical, locals, vars
<1> QED
  BY <1>1, <1>2, <1>3, <1>4, <1>5, <1>6, <1>7, <1>8, <1>9, <1>10, <1>11, <1>12,
     <1>13 DEF Next, Program

LEMMA DryTouchStep ==
  DryInv /\ [Next]_vars /\ dry => UNCHANGED <<disk, torn>> /\ pending' \subseteq pending
<1> SUFFICES ASSUME pc \in DrySteps, [Next]_vars
             PROVE  UNCHANGED <<disk, torn>> /\ pending' \subseteq pending
  BY DEF DryInv
<1>1. CASE Reconcile \/ Detect \/ DetectFails \/ Settle \/ Announce \/ CreateBackup
             \/ PersistBackup \/ Finish \/ Fail \/ Rollback \/ DeclareCritical
  BY <1>1 DEF Reconcile, Detect, DetectFails, Settle, Announce, CreateBackup,
              PersistBackup, Finish, Fail, Rollback, DeclareCritical, node
<1>2. ASSUME NEW c \in Certs, WriteCrt(c) \/ WriteKey(c) PROVE FALSE
  BY <1>2 DEF WriteCrt, WriteKey, DrySteps
<1>3. CASE SignFails \/ RestartPod \/ RestartFails \/ RestartPanics \/ CheckHealth
  BY <1>3 DEF SignFails, RestartPod, RestartFails, RestartPanics, CheckHealth, DrySteps
<1>4. CASE Crash
  BY <1>4 DEF Crash, DrySteps
<1>5. ASSUME NEW p \in Pods, Kubelet(p) \/ PodRestarts(p)
      PROVE  UNCHANGED <<disk, torn>> /\ pending' \subseteq pending
  BY <1>5 DEF Kubelet, PodRestarts
<1>6. CASE SyncCache \/ NextSeason \/ ClearCritical \/ UNCHANGED vars
  BY <1>6 DEF SyncCache, NextSeason, ClearCritical, node, vars
<1> QED
  BY <1>1, <1>2, <1>3, <1>4, <1>5, <1>6 DEF Next, Program

\* A dry run leaves pairs and manifests alone, whatever fails in it and
\* wherever it is killed.
THEOREM DryRunsHarmless == Spec => DryRunTouchesNothing
<1>1. Init => DryInv
  BY DEF Init, DryInv
<1>2. DryInv /\ [Next]_vars =>
        [dry => UNCHANGED <<disk, torn>> /\ pending' \subseteq pending]_vars
  BY DryTouchStep
<1> QED
  BY <1>1, <1>2, DryStep, PTL DEF Spec, DryRunTouchesNothing

---------------------------------------------------------------------------
(* What the pods serve.  A pod that has been told to restart has loaded the *)
(* files as they are or is about to, and no file changes any more.         *)

Current(c) == running[c] = disk[c] \/ Owner[c] \in pending \cup torn

ReloadInv ==
    /\ \A c \in Certs, i \in 1..restarted : RestartOrder[i] = Owner[c] => Current(c)
    /\ pc = "health" \/ (pc = "finish" /\ ~dry) => restarted = Len(RestartOrder)

LEMMA ReturnKeepsReload == Return => ReloadInv'
BY DEF Return, ReloadInv

\* A pod that starts loads the files as they are.
LEMMA PodsGetCurrent ==
  ASSUME NEW p \in Pods, Kubelet(p) \/ PodRestarts(p), NEW c \in Certs, Current(c)
  PROVE  Current(c)'
<1>1. CASE PodRestarts(p)
  BY <1>1 DEF PodRestarts, Loading, Current
<1>2. CASE Kubelet(p) /\ p \in torn
  <2>1. running'[c] = running[c] \/ Owner[c] = p
    BY <1>2 DEF Kubelet, Loading
  <2>2. UNCHANGED <<disk, torn>> /\ pending' = pending \ {p}
    BY <1>2 DEF Kubelet
  <2> QED
    BY <1>2, <2>1, <2>2 DEF Current
<1>3. CASE Kubelet(p) /\ p \notin torn
  <2>1. running'[c] = IF Owner[c] = p THEN disk[c] ELSE running[c]
    BY <1>3 DEF Kubelet, Loading
  <2>2. UNCHANGED <<disk, torn>> /\ pending' = pending \ {p}
    BY <1>3 DEF Kubelet
  <2> QED
    BY <2>1, <2>2 DEF Current
<1> QED
  BY <1>1, <1>2, <1>3

LEMMA ReloadStep == TypeOK /\ ReloadInv /\ [Next]_vars => ReloadInv'
<1> SUFFICES ASSUME CallTyped, ReloadInv, [Next]_vars PROVE ReloadInv'
  BY DEF TypeOK
<1>a. ASSUME restarted' = 0, pc' \in Early PROVE ReloadInv'
  BY <1>a DEF ReloadInv, Early
<1>b. ASSUME UNCHANGED <<disk, running, pending, torn, restarted>>,
             \/ pc' \notin {"health", "finish"}
             \/ pc' = "finish" /\ (dry \/ pc = "health") /\ dry' = dry
             \/ UNCHANGED <<pc, dry>>
      PROVE  ReloadInv'
  BY <1>b DEF ReloadInv, Current
<1>1. CASE Reconcile \/ Detect \/ Announce
  <2>1. CASE Return
    BY <2>1, ReturnKeepsReload
  <2>2. CASE restarted' = restarted /\ pc \in Early /\ pc' \in Early
    BY <2>2, <1>a DEF CallTyped
  <2> QED
    BY <1>1, <2>1, <2>2 DEF Reconcile, Detect, Announce, Early, locals
<1>2. CASE DetectFails \/ Settle \/ RestartPanics \/ Finish \/ DeclareCritical \/ Crash
  BY <1>2, ReturnKeepsReload
     DEF DetectFails, Settle, RestartPanics, Finish, DeclareCritical, Crash,
         PatchAndReturn
<1>3. CASE CreateBackup \/ PersistBackup \/ SignFails
  BY <1>3, <1>b DEF CreateBackup, PersistBackup, SignFails, node, locals
<1>4. ASSUME NEW c \in Certs, WriteCrt(c) \/ WriteKey(c) PROVE ReloadInv'
  <2>1. /\ restarted' = restarted /\ pc \in Early
        /\ pc' \in {"key", "restart", "write", "fail"}
    BY <1>4 DEF WriteCrt, WriteKey, Early
  <2>2. restarted' = 0
    BY <2>1 DEF CallTyped
  <2> QED
    BY <2>1, <2>2 DEF ReloadInv
<1>5. CASE RestartPod
  <2>1. /\ restarted \in Nat /\ restarted < Len(RestartOrder)
        /\ restarted' = restarted + 1 /\ pending' = pending \cup {NextPod}
        /\ UNCHANGED <<disk, running, torn, dry>> /\ pc' \in {"health", "restart"}
        /\ pc' = "health" => restarted' = Len(RestartOrder)
    BY <1>5, ConstantsAssumption DEF RestartPod, CallTyped
  <2>2. ASSUME NEW c \in Certs, NEW i \in 1..restarted', RestartOrder[i] = Owner[c]
        PROVE  Current(c)'
    <3>1. CASE i = restarted'
      BY <2>1, <2>2, <3>1 DEF NextPod, Current
    <3>2. CASE i \in 1..restarted
      BY <2>1, <2>2, <3>2 DEF ReloadInv, Current
    <3> QED
      BY <2>1, <3>1, <3>2
  <2> QED
    BY <2>1, <2>2 DEF ReloadInv
<1>6. CASE RestartFails
  <2>1. /\ UNCHANGED <<disk, running, restarted>> /\ pc' = "fail"
        /\ pending \subseteq pending' /\ torn \subseteq torn'
    BY <1>6 DEF RestartFails, locals
  <2> QED
    BY <2>1 DEF ReloadInv, Current
<1>7. CASE CheckHealth \/ Fail
  BY <1>7, <1>b DEF CheckHealth, Fail, node, locals
<1>8. CASE Rollback
  BY <1>8, <1>b, ReturnKeepsReload DEF Rollback, node, locals
<1>9. ASSUME NEW p \in Pods, Kubelet(p) \/ PodRestarts(p) PROVE ReloadInv'
  <2>1. UNCHANGED <<pc, dry, restarted>>
    BY <1>9 DEF Kubelet, PodRestarts, locals
  <2> QED
    BY <1>9, <2>1, PodsGetCurrent DEF ReloadInv
<1>10. CASE SyncCache \/ NextSeason \/ ClearCritical \/ UNCHANGED vars
  BY <1>10, <1>b DEF SyncCache, NextSeason, ClearCritical, node, locals, vars
<1> QED
  BY <1>1, <1>2, <1>3, <1>4, <1>5, <1>6, <1>7, <1>8, <1>9, <1>10 DEF Next, Program

\* When a renewal is probed or done, every pod within kubelet's reach has
\* loaded the pairs as they are now or is about to, whenever pods were
\* restarted before and whatever they loaded then.
THEOREM PodsReload == Spec => []PodsCatchUp
<1>1. ASSUME ReloadInv PROVE PodsCatchUp
  <2>1. ASSUME pc = "health" \/ (pc = "finish" /\ ~dry), NEW c \in Certs
        PROVE  Current(c)
    <3>1. PICK i \in DOMAIN RestartOrder : RestartOrder[i] = Owner[c]
      BY ConstantsAssumption
    <3>2. i \in 1..restarted
      BY <1>1, <2>1, ConstantsAssumption DEF ReloadInv
    <3> QED
      BY <1>1, <3>1, <3>2 DEF ReloadInv
  <2> QED
    BY <2>1 DEF PodsCatchUp, Current
<1>2. Init => ReloadInv
  BY DEF Init, ReloadInv
<1> QED
  BY <1>1, <1>2, ReloadStep, TypeCorrect, PTL DEF Spec

---------------------------------------------------------------------------
(* The refinement.                                                         *)

LEMMA DisciplineInit == Init => Discipline!Init
  BY DEF Init, Discipline!Init, Absent, Writing

\* A patch that does not name another backup path does not change the
\* stored one.
LEMMA SendKeepsBackup ==
  ASSUME NEW o, NEW base, NEW new, Send(base, new, o), new.backup = base.backup,
         server \in Entry
  PROVE  server'.backup = server.backup
  BY DEF Send, Merge, Merged

LEMMA DisciplineStep ==
  IInv /\ [Next]_vars =>
    [Discipline!Next]_<<disk, server.backup, pc \in Writing>>
<1> SUFFICES ASSUME NodeTyped, StatusTyped, CallTyped, RestorePointInv, [Next]_vars
             PROVE  [Discipline!Next]_<<disk, server.backup, pc \in Writing>>
  BY DEF IInv, TypeOK
<1> DEFINE quiet == UNCHANGED <<disk, server.backup, pc \in Writing>>
<1> USE DEF Writing
<1>p. \A e \in Entry : \A p : [e EXCEPT !.phase = p].backup = e.backup
  BY DEF Entry
<1>e. cfg \in Entry /\ server \in Entry /\ cache \in Entry
  BY DEF StatusTyped
<1>r. ASSUME NEW new, new.backup = cfg.backup, PatchAndReturn(new),
             pc \notin Writing, UNCHANGED disk
      PROVE  quiet
  BY <1>e, <1>r, SendKeepsBackup DEF PatchAndReturn, Return
<1>1. CASE Reconcile
  <2>1. PICK o : Send(cache, [cache EXCEPT !.phase = "Detecting"], o)
    BY <1>1 DEF Reconcile, Patch
  <2>2. server'.backup = server.backup
    BY <2>1, <1>e, <1>p, SendKeepsBackup
  <2> QED
    BY <1>1, <2>2 DEF Reconcile, Return, node
<1>2. CASE Detect
  <2>1. CASE Patch(cfg, cfg, "ok")
    BY <1>2, <2>1, <1>e, SendKeepsBackup DEF Detect, Patch, Return, node
  <2>2. CASE UNCHANGED server /\ Return
    BY <1>2, <2>2 DEF Detect, Return, node
  <2> QED
    BY <1>2, <2>1, <2>2 DEF Detect
<1>3. CASE DetectFails
  BY <1>3, <1>e, <1>p, <1>r DEF DetectFails, node
<1>4. CASE Settle
  BY <1>4, <1>e, <1>p, <1>r DEF Settle, node
<1>5. CASE Announce
  <2>1. PICK o : Send(cfg, [cfg EXCEPT !.phase = "Renewing"], o)
    BY <1>5 DEF Announce, Patch
  <2>2. server'.backup = server.backup
    BY <2>1, <1>e, <1>p, SendKeepsBackup
  <2> QED
    BY <1>5, <2>2 DEF Announce, Return, node
<1>6. CASE CreateBackup
  BY <1>6 DEF CreateBackup, node
<1>7. CASE PersistBackup
  <2> DEFINE new == [cfg EXCEPT !.backup = snap]
  <2>1. PICK o : /\ Send(cfg, new, o)
                 /\ pc' = IF o # "ok" THEN "fail" ELSE IF dry THEN "finish" ELSE "write"
    BY <1>7 DEF PersistBackup, Patch
  <2>2. /\ cfg = server /\ snap \in Snapshot
        /\ \A c \in Certs : disk[c] = snap[c]
    BY <1>7 DEF PersistBackup, RestorePointInv, Prepared
  <2>3. snap = disk
    BY <2>2 DEF NodeTyped, Snapshot
  <2>4. UNCHANGED disk /\ pc \notin Writing
    BY <1>7 DEF PersistBackup, node
  <2>5. CASE o = "refused"
    BY <2>1, <2>4, <2>5 DEF Send
  <2>6. CASE o # "refused"
    <3>1. server'.backup = snap
      BY <1>e, <2>1, <2>2, <2>6 DEF Send, Merge, Merged, Entry
    <3> QED
      BY <2>3, <2>4, <3>1 DEF Discipline!Next, Discipline!Publish
  <2> QED
    BY <2>5, <2>6
<1>8. ASSUME NEW c \in Certs, WriteCrt(c)
      PROVE  Discipline!Next
  <2>1. \A d \in Certs \ {c} : disk'[d] = disk[d]
    BY <1>8 DEF WriteCrt, NodeTyped, Snapshot
  <2> QED
    BY <1>8, <2>1 DEF WriteCrt, Discipline!Next, Discipline!Write
<1>9. ASSUME NEW c \in Certs, WriteKey(c)
      PROVE  Discipline!Next
  <2>1. \A d \in Certs \ {c} : disk'[d] = disk[d]
    BY <1>9 DEF WriteKey, NodeTyped, Snapshot
  <2> QED
    BY <1>9, <2>1 DEF WriteKey, Discipline!Next, Discipline!Write
<1>10. CASE SignFails
  BY <1>10 DEF SignFails, Discipline!Next, Discipline!Stop, node
<1>11. CASE RestartPod
  <2>1. pc = "restart" /\ pc' \in {"restart", "health", "fail"}
    BY <1>11 DEF RestartPod
  <2> QED
    BY <1>11, <2>1 DEF RestartPod
<1>23. CASE RestartFails
  BY <1>23 DEF RestartFails
<1>24. CASE RestartPanics
  BY <1>24 DEF RestartPanics, Return, node
<1>12. CASE CheckHealth
  BY <1>12 DEF CheckHealth, node
<1>13. CASE Finish
  <2>1. [cfg EXCEPT !.phase = "Idle", !.renewed = season].backup = cfg.backup
    BY <1>e DEF Entry
  <2> QED
    BY <1>13, <2>1, <1>r DEF Finish, node
<1>14. CASE Fail
  <2>1. PICK o : Send(cfg, [cfg EXCEPT !.phase = "RollingBack"], o)
    BY <1>14 DEF Fail, Patch
  <2>2. server'.backup = server.backup
    BY <2>1, <1>e, <1>p, SendKeepsBackup
  <2> QED
    BY <1>14, <2>2 DEF Fail, node
<1>15. CASE Rollback
  BY <1>15 DEF Rollback, Return, node
<1>16. CASE DeclareCritical
  BY <1>16, <1>e, <1>p, <1>r DEF DeclareCritical, node
<1>17. CASE Crash
  <2>1. pc' = "idle" /\ UNCHANGED server
    BY <1>17 DEF Crash, Return
  <2>2. CASE disk' = disk
    BY <2>1, <2>2 DEF Discipline!Next, Discipline!Stop
  <2>3. ASSUME disk' # disk PROVE Discipline!Next
    <3>1. pc \in Writing
      BY <1>17, <2>3 DEF Crash
    <3>2. PICK c \in Certs : \/ disk' = [disk EXCEPT ![c].crt = Torn]
                             \/ disk' = [disk EXCEPT ![c].key = Torn]
      BY <1>17, <2>3 DEF Crash, CallTyped
    <3>3. \A d \in Certs \ {c} : disk'[d] = disk[d]
      BY <3>2 DEF NodeTyped, Snapshot
    <3> QED
      BY <2>1, <3>1, <3>3 DEF Discipline!Next, Discipline!Write
  <2> QED
    BY <2>2, <2>3
<1>18. ASSUME NEW p \in Pods, Kubelet(p) \/ PodRestarts(p) PROVE quiet
  BY <1>18 DEF Kubelet, PodRestarts
<1>19. CASE SyncCache
  BY <1>19 DEF SyncCache, node
<1>20. CASE NextSeason
  BY <1>20 DEF NextSeason, node
<1>21. CASE ClearCritical
  <2>1. server'.backup \in {server.backup, NoBackup}
    <3>1. CASE server' = [server EXCEPT !.phase = "Idle"]
      BY <1>e, <1>p, <3>1
    <3>2. CASE server' = Absent
      BY <3>2 DEF Absent
    <3> QED
      BY <1>21, <3>1, <3>2 DEF ClearCritical
  <2>2. pc = "idle" /\ pc' = pc /\ disk' = disk
    BY <1>21 DEF ClearCritical, node
  <2> QED
    BY <2>1, <2>2 DEF Discipline!Next, Discipline!Forget
<1>22. CASE UNCHANGED vars
  BY <1>22 DEF vars
<1> QED
  BY <1>1, <1>2, <1>3, <1>4, <1>5, <1>6, <1>7, <1>8, <1>9, <1>10, <1>11,
     <1>12, <1>13, <1>14, <1>15, <1>16, <1>17, <1>18, <1>19, <1>20, <1>21,
     <1>22, <1>23, <1>24
     DEF Next, Program

\* Reconcile implements RestorePoint: files change only under a published
\* restore point, which stays what it is until the renewal has stopped.
THEOREM Implements == Spec => ImplementsRestorePoint
  BY DisciplineInit, DisciplineStep, Inductive, PTL
     DEF Spec, ImplementsRestorePoint, Discipline!Spec

---------------------------------------------------------------------------
(* The order of the phases.  Until the renewal has failed the call's copy   *)
(* shows the phase that the server shows; afterwards the server may be one  *)
(* phase behind, as the patch to RollingBack may have been refused.         *)

LEMMA Stages ==
  /\ Stage("idle") = "idle"
  /\ \A step \in {"detect", "settle", "announce"} : Stage(step) = "looking"
  /\ \A step \in {"backup", "persist", "write", "key", "restart", "health",
                   "finish", "fail"} : Stage(step) = "renewing"
  /\ \A step \in {"rollback", "critical"} : Stage(step) = "failing"
  BY DEF Stage

OwnPhase ==
    /\ Stage(pc) \in {"looking", "renewing"} => cfg.phase = server.phase
    /\ Stage(pc) = "renewing" => server.phase = "Renewing"
    /\ Stage(pc) = "failing" => /\ cfg.phase = "RollingBack"
                                /\ server.phase \in {"Renewing", "RollingBack"}

Shows == [Watched!Next]_<<server.phase, Stage(pc)>>

\* What a patch leaves as the phase at the server.
LEMMA SendPhase ==
  ASSUME NEW o, NEW base, NEW new, Send(base, new, o)
  PROVE  /\ server'.phase \in {server.phase, new.phase}
         /\ o = "ok" => server'.phase = Merged(server.phase, base.phase, new.phase)
  BY DEF Send, Merge, Merged

LEMMA PatchPhase ==
  ASSUME NEW o, NEW base, NEW new, Patch(base, new, o)
  PROVE  /\ server'.phase \in {server.phase, new.phase}
         /\ o = "ok" => server'.phase = Merged(server.phase, base.phase, new.phase)
         /\ o = "ok" => cfg' = server'
         /\ o # "ok" => cfg' = new
<1>1. o = "ok" => cfg' = server'
  BY DEF Patch, Send
<1> QED
  BY <1>1, SendPhase DEF Patch

LEMMA ReturnPhase ==
  ASSUME StatusTyped, NEW phase, PatchAndReturn([cfg EXCEPT !.phase = phase])
  PROVE  server'.phase \in {server.phase, phase} /\ pc' = "idle"
<1> DEFINE new == [cfg EXCEPT !.phase = phase]
<1>1. new.phase = phase
  BY DEF StatusTyped, Entry
<1>2. (\E o \in Outcomes : Send(cfg, new, o)) /\ pc' = "idle"
  BY DEF PatchAndReturn, Return
<1> HIDE DEF new
<1> QED
  BY <1>1, <1>2, SendPhase

\* A call may end at any step that does not change the phase.
LEMMA ReturnShows ==
  ASSUME CallTyped, OwnPhase, Return, server'.phase = server.phase
  PROVE  OwnPhase' /\ Shows
<1>1. pc' = "idle" /\ pc \in Steps
  BY DEF Return, CallTyped
<1>2. /\ Stage(pc)' = "idle"
      /\ Stage(pc) \in {"idle", "looking", "renewing", "failing"}
  BY <1>1, Stages DEF Steps, Stage
<1> QED
  BY <1>2 DEF OwnPhase, Shows, Watched!Next, Watched!Settle, Watched!Finish,
              Watched!GiveUp

\* Steps within a stage that leave the phases alone.
LEMMA QuietShows ==
  ASSUME OwnPhase, Stage(pc)' = Stage(pc),
         server'.phase = server.phase, cfg'.phase = cfg.phase
  PROVE  OwnPhase' /\ Shows
  BY DEF OwnPhase, Shows

LEMMA NextShows ==
  ASSUME TypeOK, OwnPhase, [Next]_vars
  PROVE  OwnPhase' /\ Shows
<1>t. NodeTyped /\ StatusTyped /\ CallTyped
  BY DEF TypeOK
<1>e. cfg \in Entry /\ server \in Entry /\ cache \in Entry
  BY <1>t DEF StatusTyped
<1>p. \A e \in Entry : \A v : /\ [e EXCEPT !.phase = v].phase = v
                              /\ [e EXCEPT !.backup = v].phase = e.phase
  BY DEF Entry
<1>s. Stage(pc)' = Stage(pc')
  BY DEF Stage
<1> USE DEF Watched!Next
<1>1. CASE Reconcile
  <2> DEFINE new == [cache EXCEPT !.phase = "Detecting"]
  <2>1. pc = "idle" /\ Stage(pc) = "idle"
    BY <1>1, Stages DEF Reconcile
  <2>2. new.phase = "Detecting"
    BY <1>e, <1>p
  <2>3. CASE Patch(cache, new, "ok") /\ pc' = "detect"
    <3>1. cfg' = server' /\ server'.phase \in {server.phase, "Detecting"}
      BY <2>2, <2>3, PatchPhase
    <3>2. Stage(pc') = "looking"
      BY <2>3, Stages
    <3> QED
      BY <1>s, <2>1, <3>1, <3>2 DEF OwnPhase, Shows, Watched!Begin
  <2>4. ASSUME NEW o, Send(cache, new, o), Return PROVE OwnPhase' /\ Shows
    <3>1. server'.phase \in {server.phase, "Detecting"}
      BY <2>2, <2>4, SendPhase
    <3>2. Stage(pc') = "idle"
      BY <2>4, Stages DEF Return
    <3> QED
      BY <1>s, <2>1, <3>1, <3>2 DEF OwnPhase, Shows, Watched!Begin
  <2> QED
    BY <1>1, <2>3, <2>4 DEF Reconcile
<1>2. CASE Detect
  <2>1. CASE Return /\ UNCHANGED server
    BY <1>t, <2>1, ReturnShows
  <2>2. CASE Patch(cfg, cfg, "ok") /\ pc' \in {"settle", "announce"}
    <3>1. server'.phase = server.phase /\ cfg'.phase = server.phase
      BY <2>2, PatchPhase DEF Merged
    <3>2. Stage(pc) = "looking" /\ Stage(pc') = "looking"
      BY <1>2, <2>2, Stages DEF Detect
    <3> QED
      BY <1>s, <3>1, <3>2 DEF OwnPhase, Shows
  <2> QED
    BY <1>2, <2>1, <2>2 DEF Detect
<1>3. CASE DetectFails \/ Settle
  <2>1. PICK phase \in {"Failed", "Idle"} : PatchAndReturn([cfg EXCEPT !.phase = phase])
    BY <1>3 DEF DetectFails, Settle
  <2>2. server'.phase \in {server.phase, phase} /\ pc' = "idle"
    BY <1>t, <2>1, ReturnPhase
  <2>3. Stage(pc) = "looking" /\ Stage(pc') = "idle"
    BY <1>3, <2>2, Stages DEF DetectFails, Settle
  <2> QED
    BY <1>s, <2>2, <2>3 DEF OwnPhase, Shows, Watched!Settle
<1>4. CASE Announce
  <2> DEFINE new == [cfg EXCEPT !.phase = "Renewing"]
  <2>1. Stage(pc) = "looking" /\ cfg.phase = server.phase
    BY <1>4, Stages DEF Announce, OwnPhase
  <2>2. new.phase = "Renewing"
    BY <1>e, <1>p
  <2>3. CASE Patch(cfg, new, "ok") /\ pc' = "backup"
    <3>1. server'.phase = "Renewing" /\ cfg' = server'
      BY <2>1, <2>2, <2>3, PatchPhase DEF Merged
    <3>2. Stage(pc') = "renewing"
      BY <2>3, Stages
    <3> QED
      BY <1>s, <2>1, <3>1, <3>2 DEF OwnPhase, Shows, Watched!Announce
  <2>4. ASSUME NEW o, Send(cfg, new, o), Return PROVE OwnPhase' /\ Shows
    <3>1. server'.phase \in {server.phase, "Renewing"}
      BY <2>2, <2>4, SendPhase
    <3>2. Stage(pc') = "idle"
      BY <2>4, Stages DEF Return
    <3> QED
      BY <1>s, <2>1, <3>1, <3>2 DEF OwnPhase, Shows, Watched!Settle
  <2> QED
    BY <1>4, <2>3, <2>4 DEF Announce
<1>5. CASE PersistBackup
  <2> DEFINE new == [cfg EXCEPT !.backup = snap]
  <2>1. PICK o : Patch(cfg, new, o)
    BY <1>5 DEF PersistBackup
  <2>2. /\ pc = "persist" /\ pc' \in {"fail", "finish", "write"}
        /\ Stage(pc) = "renewing" /\ Stage(pc') = "renewing"
    BY <1>5, Stages DEF PersistBackup
  <2>3. cfg.phase = server.phase
    BY <2>2 DEF OwnPhase
  <2>4. new.phase = cfg.phase
    BY <1>e DEF Entry
  <2> HIDE DEF new
  <2>5. server'.phase = server.phase /\ cfg'.phase = cfg.phase
    BY <2>1, <2>3, <2>4, PatchPhase
  <2> QED
    BY <1>s, <2>2, <2>5, QuietShows
<1>6. CASE CreateBackup \/ SignFails \/ RestartPod \/ RestartFails \/ CheckHealth
  <2>1. /\ UNCHANGED <<server, cfg>>
        /\ pc \in {"backup", "write", "restart", "health"}
        /\ pc' \in {"persist", "restart", "health", "finish", "fail"}
    BY <1>6 DEF CreateBackup, SignFails, RestartPod, RestartFails, CheckHealth
  <2>2. Stage(pc) = "renewing" /\ Stage(pc') = "renewing"
    BY <2>1, Stages
  <2> QED
    BY <1>s, <2>1, <2>2, QuietShows
<1>7. ASSUME NEW c \in Certs, WriteCrt(c) \/ WriteKey(c) PROVE OwnPhase' /\ Shows
  <2>1. /\ UNCHANGED <<server, cfg>>
        /\ pc \in {"write", "key"} /\ pc' \in {"key", "write", "restart", "fail"}
    BY <1>7 DEF WriteCrt, WriteKey
  <2>2. Stage(pc) = "renewing" /\ Stage(pc') = "renewing"
    BY <2>1, Stages
  <2> QED
    BY <1>s, <2>1, <2>2, QuietShows
<1>8. CASE RestartPanics \/ Crash
  BY <1>t, <1>8, ReturnShows DEF RestartPanics, Crash
<1>9. CASE Finish
  <2> DEFINE new == [cfg EXCEPT !.phase = "Idle", !.renewed = season]
  <2>1. new.phase = "Idle"
    BY <1>e DEF Entry
  <2>2. server'.phase \in {server.phase, "Idle"} /\ pc' = "idle"
    BY <1>9, <2>1, SendPhase DEF Finish, PatchAndReturn, Return
  <2>3. Stage(pc) = "renewing" /\ Stage(pc') = "idle"
    BY <1>9, <2>2, Stages DEF Finish
  <2> QED
    BY <1>s, <2>2, <2>3 DEF OwnPhase, Shows, Watched!Finish
<1>10. CASE Fail
  <2> DEFINE new == [cfg EXCEPT !.phase = "RollingBack"]
  <2>1. PICK o : Patch(cfg, new, o)
    BY <1>10 DEF Fail
  <2>2. pc = "fail" /\ pc' = "rollback"
    BY <1>10 DEF Fail
  <2>3. Stage(pc) = "renewing" /\ Stage(pc') = "failing"
    BY <2>2, Stages
  <2>4. server.phase = "Renewing" /\ cfg.phase = "Renewing" /\ new.phase = "RollingBack"
    BY <1>e, <1>p, <2>3 DEF OwnPhase
  <2> HIDE DEF new
  <2>5. /\ server'.phase \in {"Renewing", "RollingBack"}
        /\ cfg'.phase = "RollingBack"
    BY <2>1, <2>4, PatchPhase DEF Merged
  <2> QED
    BY <1>s, <2>3, <2>4, <2>5 DEF OwnPhase, Shows, Watched!Fail
<1>11. CASE Rollback
  <2>1. CASE Return
    BY <1>t, <1>11, <2>1, ReturnShows DEF Rollback
  <2>2. CASE pc' = "critical" /\ UNCHANGED cfg
    <3>1. Stage(pc) = "failing" /\ Stage(pc') = "failing"
      BY <1>11, <2>2, Stages DEF Rollback
    <3> QED
      BY <1>11, <1>s, <2>2, <3>1, QuietShows DEF Rollback
  <2> QED
    BY <1>11, <2>1, <2>2 DEF Rollback
<1>12. CASE DeclareCritical
  <2>1. server'.phase \in {server.phase, "Critical"} /\ pc' = "idle"
    BY <1>12, <1>t, ReturnPhase DEF DeclareCritical
  <2>2. Stage(pc) = "failing" /\ Stage(pc') = "idle"
    BY <1>12, <2>1, Stages DEF DeclareCritical
  <2> QED
    BY <1>s, <2>1, <2>2 DEF OwnPhase, Shows, Watched!GiveUp
<1>13. ASSUME NEW p \in Pods, Kubelet(p) \/ PodRestarts(p) PROVE OwnPhase' /\ Shows
  BY <1>13, <1>s, QuietShows DEF Kubelet, PodRestarts
<1>14. CASE SyncCache \/ NextSeason \/ UNCHANGED vars
  BY <1>14, <1>s, QuietShows DEF SyncCache, NextSeason, vars
<1>15. CASE ClearCritical
  <2>1. /\ pc = "idle" /\ UNCHANGED <<pc, cfg>> /\ server.phase = "Critical"
        /\ server'.phase \in {"Idle", "None"}
    BY <1>15, <1>e DEF ClearCritical, Absent, Entry
  <2>2. Stage(pc) = "idle" /\ Stage(pc') = "idle"
    BY <2>1, Stages
  <2> QED
    BY <1>s, <2>1, <2>2 DEF OwnPhase, Shows, Watched!Clear
<1> QED
  BY <1>1, <1>2, <1>3, <1>4, <1>5, <1>6, <1>7, <1>8, <1>9, <1>10, <1>11, <1>12,
     <1>13, <1>14, <1>15 DEF Next, Program

LEMMA InitShows == Init => OwnPhase /\ Watched!Init
<1> SUFFICES ASSUME Init PROVE OwnPhase /\ Watched!Init
  OBVIOUS
<1>1. Stage(pc) = "idle"
  BY Stages DEF Init
<1> QED
  BY <1>1 DEF Init, Absent, OwnPhase, Watched!Init

\* Reconcile shows its phases in the order that NodePhase allows, whatever
\* patches are refused or unanswered and however old its cache is.
THEOREM ShowsInOrder == Spec => ImplementsNodePhase
<1>1. TypeOK /\ OwnPhase /\ [Next]_vars => OwnPhase'
  BY NextShows
<1>2. TypeOK /\ OwnPhase /\ [Next]_vars =>
        [Watched!Next]_<<server.phase, Stage(pc)>>
  BY NextShows DEF Shows
<1> QED
  BY <1>1, <1>2, InitShows, TypeCorrect, PTL
     DEF Spec, ImplementsNodePhase, Watched!Spec
=============================================================================
