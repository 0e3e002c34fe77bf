-------------------------- MODULE WholePairProofs --------------------------
(* No certificate ever meets another one's key, for any set of             *)
(* certificates, kubeconfigs and pods and any number of seasons, as long   *)
(* as no write is cut short: Faults has neither "write" nor "crash".       *)
EXTENDS ReconcilerProofs

HoldsWhole(s) == s # NoBackup => \A c \in Certs : Whole(s[c])

\* Every pair is whole but the one whose key is about to be written.
DiskWhole ==
    \A c \in Certs : Whole(disk[c]) \/ (pc = "key" /\ c \in touched \cap todo)

StatusWhole ==
    /\ HoldsWhole(server.backup) /\ HoldsWhole(cache.backup)
    /\ HoldsWhole(cfg.backup) /\ HoldsWhole(snap)

WholeInv == DiskWhole /\ StatusWhole

LEMMA FreshWhole == ASSUME NEW s \in Nat PROVE Whole(Fresh(s))
BY DEF Whole, Fresh, Torn

LEMMA InitWhole == Init => WholeInv
<1> SUFFICES ASSUME Init PROVE WholeInv
  OBVIOUS
<1>1. \A c \in Certs : Whole(disk[c])
  BY FreshWhole, ConstantsAssumption DEF Init
<1>2. StatusWhole
  BY DEF Init, StatusWhole, HoldsWhole, Absent
<1> QED
  BY <1>1, <1>2 DEF WholeInv, DiskWhole

LEMMA SendKeepsWhole ==
    ASSUME NEW o, NEW base, NEW new, Send(base, new, o),
           HoldsWhole(server.backup), HoldsWhole(new.backup)
    PROVE  HoldsWhole(server'.backup)
BY DEF Send, Merge, Merged

LEMMA PatchKeepsWhole ==
    ASSUME NEW o, NEW base, NEW new, Patch(base, new, o),
           HoldsWhole(server.backup), HoldsWhole(new.backup)
    PROVE  HoldsWhole(server'.backup) /\ HoldsWhole(cfg'.backup)
BY DEF Patch, Send, Merge, Merged

LEMMA ReturnKeepsWhole ==
    ASSUME Return, HoldsWhole(server'.backup), HoldsWhole(cache'.backup)
    PROVE  StatusWhole'
BY DEF Return, StatusWhole, HoldsWhole, Absent

LEMMA PatchAndReturnWhole ==
    ASSUME NEW new, PatchAndReturn(new), StatusWhole, HoldsWhole(new.backup),
           UNCHANGED cache
    PROVE  StatusWhole'
<1>1. HoldsWhole(server'.backup)
  BY SendKeepsWhole DEF PatchAndReturn, StatusWhole
<1> QED
  BY <1>1, ReturnKeepsWhole DEF PatchAndReturn, StatusWhole

\* Steps that leave the node alone, at a time when no key is missing.
LEMMA NodeKept ==
    ASSUME WholeInv, UNCHANGED node, pc # "key", pc' # "key"
    PROVE  DiskWhole'
BY DEF WholeInv, node, DiskWhole

LEMMA WholeStep ==
    ASSUME Faults \cap {"write", "crash"} = {}, IInv, WholeInv, [Next]_vars
    PROVE  WholeInv'
<1> USE DEF WholeInv
<1>a. \A new : new.backup = cfg.backup => HoldsWhole(new.backup)
  BY DEF StatusWhole
<1>b. cfg \in Entry /\ cache \in Entry
  BY DEF IInv, TypeOK, StatusTyped
<1>c. \A p : /\ [cfg EXCEPT !.phase = p].backup = cfg.backup
             /\ [cache EXCEPT !.phase = p].backup = cache.backup
  BY <1>b DEF Entry
<1>1. CASE Reconcile
  <2>1. UNCHANGED <<node, cache, season>> /\ pc = "idle" /\ pc' # "key"
    BY <1>1 DEF Reconcile, Return
  <2>2. PICK o, new : /\ new.backup = cache.backup
                      /\ \/ Patch(cache, new, o) /\ snap' = snap
                         \/ Send(cache, new, o) /\ Return
    BY <1>1, <1>c DEF Reconcile
  <2>3. StatusWhole'
    BY <2>1, <2>2, PatchKeepsWhole, SendKeepsWhole, ReturnKeepsWhole DEF StatusWhole
  <2> QED
    BY <2>1, <2>3, NodeKept
<1>2. CASE Detect
  <2>1. UNCHANGED <<node, cache, season>> /\ pc = "detect" /\ pc' # "key"
    BY <1>2 DEF Detect, Return
  <2>2. PICK o : \/ Patch(cfg, cfg, o) /\ snap' = snap
                 \/ UNCHANGED server /\ Return
    BY <1>2 DEF Detect
  <2>3. StatusWhole'
    BY <2>1, <2>2, PatchKeepsWhole, ReturnKeepsWhole DEF StatusWhole
  <2> QED
    BY <2>1, <2>3, NodeKept
<1>3. CASE DetectFails
  BY <1>3, <1>c, NodeKept, PatchAndReturnWhole
  DEF DetectFails, PatchAndReturn, Return, StatusWhole
<1>4. CASE Settle
  BY <1>4, <1>c, NodeKept, PatchAndReturnWhole
  DEF Settle, PatchAndReturn, Return, StatusWhole
<1>5. CASE Announce
  <2>1. UNCHANGED <<node, cache, season>> /\ pc = "announce" /\ pc' # "key"
    BY <1>5 DEF Announce, Return
  <2>2. PICK o, new : /\ new.backup = cfg.backup
                      /\ \/ Patch(cfg, new, o) /\ snap' = snap
                         \/ Send(cfg, new, o) /\ Return
    BY <1>5, <1>c DEF Announce, locals
  <2>3. StatusWhole'
    BY <2>1, <2>2, PatchKeepsWhole, SendKeepsWhole, ReturnKeepsWhole DEF StatusWhole
  <2> QED
    BY <2>1, <2>3, NodeKept
<1>6. CASE CreateBackup
  <2>1. UNCHANGED <<node, server, cache, cfg, season>> /\ pc = "backup" /\ pc' # "key"
    BY <1>6 DEF CreateBackup
  <2>2. snap' = disk \/ snap' = snap
    BY <1>6 DEF CreateBackup
  <2>3. StatusWhole'
    BY <2>1, <2>2 DEF StatusWhole, HoldsWhole, DiskWhole
  <2> QED
    BY <2>1, <2>3, NodeKept
<1>7. CASE PersistBackup
  <2>1. UNCHANGED <<node, cache, season, locals>> /\ pc = "persist" /\ pc' # "key"
    BY <1>7 DEF PersistBackup
  <2>2. PICK o : Patch(cfg, [cfg EXCEPT !.backup = snap], o)
    BY <1>7 DEF PersistBackup
  <2>3. [cfg EXCEPT !.backup = snap].backup = snap
    BY <1>b DEF Entry
  <2>4. StatusWhole'
    BY <2>1, <2>2, <2>3, PatchKeepsWhole DEF StatusWhole, locals
  <2> QED
    BY <2>1, <2>4, NodeKept
<1>8. ASSUME NEW c \in Certs, WriteCrt(c) PROVE WholeInv'
  <2>1. /\ disk' = [disk EXCEPT ![c].crt = season] /\ pc' = "key" /\ pc = "write"
        /\ touched' = touched \cup {c} /\ c \in todo
        /\ UNCHANGED <<conf, running, pending, server, cache, season, cfg, todo, snap>>
    BY <1>8 DEF WriteCrt
  <2>2. \A d \in Certs \ {c} : disk'[d] = disk[d]
    BY <2>1 DEF IInv, TypeOK, NodeTyped, Snapshot
  <2>3. DiskWhole'
    BY <2>1, <2>2 DEF DiskWhole
  <2> QED
    BY <2>1, <2>3 DEF StatusWhole
<1>9. ASSUME NEW c \in Certs, WriteKey(c) PROVE WholeInv'
  <2>1. /\ disk' = [disk EXCEPT ![c].key = season] /\ pc = "key"
        /\ pc' # "key" /\ c \in touched \cap todo
        /\ UNCHANGED <<conf, running, pending, server, cache, season, cfg, snap>>
    BY <1>9 DEF WriteKey
  <2>2. touched \cap todo = {c} /\ disk[c].crt = season
    BY <2>1 DEF IInv, RenewalInv
  <2>3. /\ \A d \in Certs \ {c} : disk'[d] = disk[d]
        /\ disk'[c].crt = season /\ disk'[c].key = season
    BY <2>1, <2>2 DEF IInv, TypeOK, NodeTyped, Snapshot, Pair
  <2>4. Whole(disk'[c])
    BY <2>3 DEF Whole, Torn, IInv, TypeOK, NodeTyped
  <2>5. DiskWhole'
    BY <2>2, <2>3, <2>4 DEF DiskWhole
  <2> QED
    BY <2>1, <2>5 DEF StatusWhole
<1>10. CASE SignFails
  <2>1. UNCHANGED <<node, server, cache, cfg, snap, season>> /\ pc = "write" /\ pc' # "key"
    BY <1>10 DEF SignFails, locals
  <2> QED
    BY <2>1, NodeKept DEF StatusWhole
<1>11. CASE RestartPod
  <2>1. pc = "restart" /\ pc' # "key"
    BY <1>11 DEF RestartPod
  <2>2. UNCHANGED <<disk, conf, running, server, cache, season, cfg, snap>>
    BY <1>11 DEF RestartPod
  <2> QED
    BY <2>1, <2>2 DEF DiskWhole, StatusWhole
<1>12. CASE RestartFails
  <2>1. pc = "restart" /\ pc' # "key"
    BY <1>12 DEF RestartFails
  <2>2. UNCHANGED <<disk, conf, running, server, cache, season, cfg, snap>>
    BY <1>12 DEF RestartFails, locals
  <2> QED
    BY <2>1, <2>2 DEF DiskWhole, StatusWhole
<1>13. CASE RestartPanics
  <2>1. UNCHANGED <<node, server, cache, season>> /\ pc = "restart" /\ pc' # "key"
    BY <1>13 DEF RestartPanics, Return
  <2>2. StatusWhole'
    BY <1>13, <2>1, ReturnKeepsWhole DEF RestartPanics, StatusWhole
  <2> QED
    BY <2>1, <2>2, NodeKept
<1>14. CASE CheckHealth
  <2>1. UNCHANGED <<node, server, cache, cfg, snap, season>> /\ pc = "health" /\ pc' # "key"
    BY <1>14 DEF CheckHealth, locals
  <2> QED
    BY <2>1, NodeKept DEF StatusWhole
<1>15. CASE Finish
  <2>1. [cfg EXCEPT !.phase = "Idle", !.renewed = season].backup = cfg.backup
    BY <1>b DEF Entry
  <2> QED
    BY <1>15, <2>1, NodeKept, PatchAndReturnWhole
    DEF Finish, PatchAndReturn, Return, StatusWhole
<1>16. CASE Fail
  <2>1. UNCHANGED <<node, cache, season, locals>> /\ pc = "fail" /\ pc' # "key"
    BY <1>16 DEF Fail
  <2>2. PICK o : Patch(cfg, [cfg EXCEPT !.phase = "RollingBack"], o)
    BY <1>16 DEF Fail
  <2>3. StatusWhole'
    BY <2>1, <2>2, <1>c, PatchKeepsWhole DEF StatusWhole, locals
  <2> QED
    BY <2>1, <2>3, NodeKept
<1>17. CASE Rollback
  <2>1. UNCHANGED <<node, server, cache, season>> /\ pc = "rollback" /\ pc' # "key"
    BY <1>17 DEF Rollback, Return
  <2>2. Return \/ UNCHANGED <<cfg, locals>>
    BY <1>17 DEF Rollback
  <2>3. StatusWhole'
    BY <2>1, <2>2, ReturnKeepsWhole DEF StatusWhole, locals
  <2> QED
    BY <2>1, <2>3, NodeKept
<1>18. CASE DeclareCritical
  BY <1>18, <1>c, NodeKept, PatchAndReturnWhole
  DEF DeclareCritical, PatchAndReturn, Return, StatusWhole
<1>19. CASE Crash
  BY <1>19 DEF Crash
<1>20. ASSUME NEW p \in Pods, Kubelet(p) \/ PodRestarts(p) PROVE WholeInv'
  BY <1>20 DEF Kubelet, PodRestarts, locals, DiskWhole, StatusWhole
<1>21. CASE SyncCache
  BY <1>21 DEF SyncCache, node, locals, DiskWhole, StatusWhole
<1>22. CASE NextSeason
  BY <1>22 DEF NextSeason, node, locals, DiskWhole, StatusWhole
<1>23. CASE ClearCritical
  <2>1. UNCHANGED <<node, cache, cfg, snap, season, pc>> /\ pc = "idle"
    BY <1>23 DEF ClearCritical, locals
  <2>2. server'.backup \in {server.backup, NoBackup}
    BY <1>23 DEF ClearCritical, Absent, IInv, TypeOK, StatusTyped, Entry
  <2>3. StatusWhole'
    BY <2>1, <2>2 DEF StatusWhole, HoldsWhole
  <2> QED
    BY <2>1, <2>3, NodeKept
<1>24. CASE UNCHANGED vars
  BY <1>24 DEF vars, DiskWhole, StatusWhole
<1> QED
  BY <1>1, <1>2, <1>3, <1>4, <1>5, <1>6, <1>7, <1>8, <1>9, <1>10, <1>11, <1>12,
     <1>13, <1>14, <1>15, <1>16, <1>17, <1>18, <1>19, <1>20, <1>21, <1>22, <1>23,
     <1>24 DEF Next, Program

LEMMA WholeInvariant ==
    ASSUME Faults \cap {"write", "crash"} = {}
    PROVE  Spec => [](IInv /\ WholeInv)
<1>1. IInv /\ WholeInv /\ [Next]_vars => WholeInv'
  BY WholeStep
<1> QED
  BY <1>1, InitWhole, Inductive, PTL DEF Spec

\* The restore point never holds a certificate with another one's key.
THEOREM BackupAlwaysWhole ==
    ASSUME Faults \cap {"write", "crash"} = {}
    PROVE  Spec => []BackupWhole
<1>1. WholeInv => BackupWhole
  BY DEF WholeInv, StatusWhole, HoldsWhole, BackupWhole
<1> QED
  BY <1>1, WholeInvariant, PTL

\* A node is Idle only with whole pairs on disk.
THEOREM IdleAlwaysWhole ==
    ASSUME Faults \cap {"write", "crash"} = {}
    PROVE  Spec => []IdleMeansWhole
<1>1. ASSUME IInv, WholeInv, server.phase = "Idle" PROVE \A c \in Certs : Whole(disk[c])
  <2>1. pc # "key"
    BY <1>1 DEF IInv, RestorePointInv, Announced, Prepared, Writing
  <2> QED
    BY <1>1, <2>1 DEF WholeInv, DiskWhole
<1>2. IInv /\ WholeInv => IdleMeansWhole
  BY <1>1 DEF IdleMeansWhole
<1> QED
  BY <1>2, WholeInvariant, PTL
=============================================================================
