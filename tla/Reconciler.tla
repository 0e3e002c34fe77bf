---------------------------- MODULE Reconciler ----------------------------
(***************************************************************************)
(* One cert-rotator pod and the control plane node it manages:             *)
(* CertRotationConfigReconciler.Reconcile with the calls it makes          *)
(* (internal/controller/certrotationconfig_controller.go), the files it    *)
(* writes, the static pods it restarts, the entry of this node in the      *)
(* custom resource, and the informer cache it reads that entry from.       *)
(*                                                                         *)
(* What is abstracted:                                                     *)
(*   - a certificate or key is the season it was issued in (or Torn, a     *)
(*     file whose write did not complete); a certificate is due when it    *)
(*     was issued in an earlier season.  The day arithmetic is in          *)
(*     Expiry.tla;                                                         *)
(*   - a backup path is the content of the directory it names: Create      *)
(*     makes a new directory every time and nothing writes into it later;  *)
(*   - LastRenewedAt is the season of the stamp, 0 for none;               *)
(*   - a manifest is whole or torn; its annotation is in pending;          *)
(*   - FailureReason, Certs and the timestamps are left out; conditions    *)
(*     and the other nodes' entries are in ClusterStatus.tla.              *)
(***************************************************************************)
EXTENDS Integers, Sequences

CONSTANTS
    Certs,         \* certificate/key pairs under pkiDir (detector.certFiles)
    Kubeconfigs,   \* kubeconfig files present on the node
    Issued,        \* the season each pair was issued in at the start
    ConfSeasons,   \* the seasons that kubeconfigs may last for at the start
    Pods,          \* static pods
    RestartOrder,  \* podrestart.restartOrder
    Owner,         \* the static pod that loads each pair when it starts
    DrySeasons,    \* bound: the seasons in which spec.DryRun may be set
    Faults,        \* the kinds of failure the environment may cause
    Restless,      \* the pods whose container may end by itself
    MaxSeason,     \* bound on time
    NoBackup       \* BackupPath = ""

FaultKinds ==
    {"patch", "backup", "sign", "write", "manifest", "health", "crash"}

Torn == -1

ASSUME ConstantsAssumption ==
    /\ Certs \cap Kubeconfigs = {} /\ ConfSeasons \subseteq Nat
    /\ Issued \in [Certs -> Nat]
    /\ RestartOrder \in Seq(Pods) /\ RestartOrder # <<>>
    /\ Owner \in [Certs -> Pods]
    /\ \A c \in Certs : \E i \in DOMAIN RestartOrder : RestartOrder[i] = Owner[c]
    /\ DrySeasons \subseteq Nat
    /\ Faults \subseteq FaultKinds /\ Restless \subseteq Pods
    /\ MaxSeason \in Nat

Content  == Nat \cup {Torn}
Pair     == [crt : Content, key : Content]
Snapshot == [Certs -> Pair]

ASSUME NoBackupAssumption == NoBackup \notin Snapshot

Phases == {"Idle", "Detecting", "Renewing", "RollingBack", "Failed", "Critical"}

\* status.nodes[NodeName]; phase "None" is a missing entry.
Entry  == [phase : Phases \cup {"None"}, backup : Snapshot \cup {NoBackup},
           renewed : Nat]
\* (Variant with a bug: the zero value of a NodeStatus.)
AbsentUnset == [phase |-> "", backup |-> NoBackup, renewed |-> 0]

Absent == [phase |-> "None", backup |-> NoBackup, renewed |-> 0]

VARIABLES
    disk,      \* the pairs under pkiDir
    conf,      \* the last season each kubeconfig is good for
    running,   \* the pair each pair's owner loaded when it last started, or
               \* Stopped
    pending,   \* pods whose manifest changed and kubelet has not restarted
    torn,      \* pods whose manifest is incomplete
    server,    \* this node's entry at the API server
    cache,     \* this node's entry in the informer cache of the pod
    season,    \* the current season
    pc,        \* where Reconcile is; "idle" between two calls
    cfg,       \* this node's entry in the cfg object of the call
    dry,       \* spec.DryRun as the call read it
    todo,      \* certificates detected as due and not yet renewed
    touched,   \* pairs this call has written to
    snap,      \* the backup this call made
    restarted  \* how many pods of RestartOrder this call has restarted

node   == <<disk, conf, running, pending, torn>>
locals == <<dry, todo, touched, snap, restarted>>
vars   == <<disk, conf, running, pending, torn, server, cache, season,
            pc, cfg, dry, todo, touched, snap, restarted>>

Steps == {"idle", "detect", "settle", "announce", "backup", "persist", "write",
          "key", "restart", "health", "finish", "fail", "rollback", "critical"}

\* The steps before RestartAll.
Early == {"idle", "detect", "settle", "announce", "backup", "persist", "write",
          "key"}

NodeTyped ==
    /\ disk \in Snapshot
    /\ conf \in [Kubeconfigs -> Nat]
    /\ running \in Snapshot
    /\ pending \subseteq Pods
    /\ torn \subseteq Pods
    /\ season \in Nat

StatusTyped == server \in Entry /\ cache \in Entry /\ cfg \in Entry

CallTyped ==
    /\ pc \in Steps
    /\ dry \in BOOLEAN
    /\ todo \subseteq Certs \cup Kubeconfigs
    /\ touched \subseteq Certs
    /\ snap \in Snapshot \cup {NoBackup}
    /\ restarted \in 0..Len(RestartOrder)
    /\ pc = "restart" => restarted < Len(RestartOrder)
    /\ pc \in Early => restarted = 0

TypeOK == NodeTyped /\ StatusTyped /\ CallTyped

Fresh(s) == [crt |-> s, key |-> s]

\* What a pod that is not running serves its pairs with.
Stopped == [crt |-> Torn, key |-> Torn]

Init ==
    /\ disk = [c \in Certs |-> Fresh(Issued[c])]
    /\ conf \in [Kubeconfigs -> ConfSeasons]
    /\ running = disk
    /\ pending = {} /\ torn = {}
    /\ server = Absent /\ cache = Absent /\ cfg = Absent
    /\ season = 0
    /\ pc = "idle"
    /\ dry = FALSE /\ todo = {} /\ touched = {} /\ snap = NoBackup
    /\ restarted = 0

---------------------------------------------------------------------------
(* Status patches.                                                         *)

\* (Variant with a bug: Update instead of Patch, the whole object is sent.)
MergeAll(srv, base, new) == new

\* r.Status().Patch with client.MergeFrom(base): only the fields that differ
\* between base and new are sent, whatever the server holds by now.
Merged(srv, base, new) == IF base # new THEN new ELSE srv

Merge(srv, base, new) ==
    [phase   |-> Merged(srv.phase, base.phase, new.phase),
     backup  |-> Merged(srv.backup, base.backup, new.backup),
     renewed |-> Merged(srv.renewed, base.renewed, new.renewed)]

\* A patch is answered, is refused, or is applied and its answer lost.
Outcomes ==
    {"ok"} \cup IF "patch" \in Faults THEN {"refused", "unanswered"} ELSE {}

Send(base, new, outcome) ==
    server' = IF outcome = "refused" THEN server ELSE Merge(server, base, new)

\* An answered patch overwrites cfg with the server's object; one that
\* returns an error leaves the mutated fields in cfg.
Patch(base, new, outcome) ==
    /\ Send(base, new, outcome)
    /\ cfg' = IF outcome = "ok" THEN Merge(server, base, new) ELSE new

\* Reconcile returns, or the process ends and the pod is restarted: the
\* local variables are gone.
Return ==
    /\ pc' = "idle"
    /\ cfg' = Absent
    /\ dry' = FALSE /\ todo' = {} /\ touched' = {} /\ snap' = NoBackup
    /\ restarted' = 0

PatchAndReturn(new) ==
    /\ \E o \in Outcomes : Send(cfg, new, o)
    /\ Return

---------------------------------------------------------------------------
(* Reconcile.                                                              *)

\* The values that spec.DryRun may have.
Settings == IF season \in DrySeasons THEN BOOLEAN ELSE {FALSE}

\* The call starts: Get reads the informer cache, a Critical entry ends the
\* call at once, otherwise the phase becomes Detecting.
Reconcile ==
    /\ pc = "idle"
    /\ cache.phase # "Critical"
    /\ \E o \in Outcomes, d \in Settings :
        LET new == [cache EXCEPT !.phase = "Detecting"] IN
        IF o = "ok"
        THEN /\ Patch(cache, new, o)
             /\ pc' = "detect" /\ dry' = d
             /\ UNCHANGED <<todo, touched, snap, restarted>>
        ELSE Send(cache, new, o) /\ Return
    /\ UNCHANGED <<node, cache, season>>

Unreadable == \E c \in Certs : disk[c].crt = Torn

\* (Variant with a bug: a certificate is due one season late.)
DueLate == {c \in Certs : disk[c].crt + 1 < season}
           \cup {k \in Kubeconfigs : conf[k] + 1 < season}

Due == {c \in Certs : disk[c].crt < season}
       \cup {k \in Kubeconfigs : conf[k] < season}

\* Detect reads every certificate, and the patch that stores the result
\* refreshes cfg.  (The stored fields are not modelled.)
Detect ==
    /\ pc = "detect" /\ ~Unreadable
    /\ \E o \in Outcomes :
        IF o = "ok"
        THEN /\ Patch(cfg, cfg, o)
             /\ todo' = Due
             /\ pc' = IF Due = {} THEN "settle" ELSE "announce"
             /\ UNCHANGED <<dry, touched, snap, restarted>>
        ELSE Return /\ UNCHANGED server
    /\ UNCHANGED <<node, cache, season>>

\* One file that does not parse fails the whole detection.
DetectFails ==
    /\ pc = "detect" /\ Unreadable
    /\ PatchAndReturn([cfg EXCEPT !.phase = "Failed"])
    /\ UNCHANGED <<node, cache, season>>

\* (Variant with a bug: returns without the patch.)
SettleSilently ==
    /\ pc = "settle" /\ Return
    /\ UNCHANGED <<node, server, cache, season>>

\* No certificate is due: back to Idle.
Settle ==
    /\ pc = "settle"
    /\ PatchAndReturn([cfg EXCEPT !.phase = "Idle"])
    /\ UNCHANGED <<node, cache, season>>

\* (Variant with a bug: an error of the patch is only logged.)
AnnounceIgnoringErrors ==
    /\ pc = "announce"
    /\ \E o \in Outcomes : Patch(cfg, [cfg EXCEPT !.phase = "Renewing"], o)
    /\ pc' = "backup"
    /\ UNCHANGED <<node, cache, season, locals>>

\* A certificate is due: phase Renewing, or the call ends.
Announce ==
    /\ pc = "announce"
    /\ \E o \in Outcomes :
        LET new == [cfg EXCEPT !.phase = "Renewing"] IN
        IF o = "ok"
        THEN /\ Patch(cfg, new, o)
             /\ pc' = "backup"
             /\ UNCHANGED locals
        ELSE Send(cfg, new, o) /\ Return
    /\ UNCHANGED <<node, cache, season>>

---------------------------------------------------------------------------
(* runRenewal.                                                             *)

\* backup.Create copies the files as they are; on an error nothing refers
\* to the directory.
CreateBackup ==
    /\ pc = "backup"
    /\ \/ snap' = disk /\ pc' = "persist"
       \/ "backup" \in Faults /\ snap' = snap /\ pc' = "fail"
    /\ UNCHANGED <<node, server, cache, season, cfg, dry, todo, touched, restarted>>

\* (Variant with a bug: an error of the patch is only logged.)
PersistBackupIgnoringErrors ==
    /\ pc = "persist"
    /\ \E o \in Outcomes : Patch(cfg, [cfg EXCEPT !.backup = snap], o)
    /\ pc' = IF dry THEN "finish" ELSE "write"
    /\ UNCHANGED <<node, cache, season, locals>>

\* (Variant with a bug: the path is left to be stored by a later patch.)
PersistBackupLater ==
    /\ pc = "persist"
    /\ pc' = IF dry THEN "finish" ELSE "write"
    /\ UNCHANGED <<node, server, cache, season, cfg, locals>>

\* (Variant with a bug: the dry run does not end the renewal here.)
PersistBackupDryToo ==
    /\ pc = "persist"
    /\ \E o \in Outcomes :
        /\ Patch(cfg, [cfg EXCEPT !.backup = snap], o)
        /\ pc' = IF o # "ok" THEN "fail" ELSE "write"
    /\ UNCHANGED <<node, cache, season, locals>>

\* setNodeBackupPath, and the dry run that ends the renewal here.
PersistBackup ==
    /\ pc = "persist"
    /\ \E o \in Outcomes :
        /\ Patch(cfg, [cfg EXCEPT !.backup = snap], o)
        /\ pc' = IF o # "ok" THEN "fail" ELSE IF dry THEN "finish" ELSE "write"
    /\ UNCHANGED <<node, cache, season, locals>>

\* A new key and certificate are made for one due pair and the certificate
\* file is written, or its write fails after or before truncating the file.
WriteCrt(c) ==
    /\ pc = "write" /\ c \in todo \cap Certs
    /\ touched' = touched \cup {c}
    /\ \/ disk' = [disk EXCEPT ![c].crt = season] /\ pc' = "key"
       \/ /\ "write" \in Faults /\ pc' = "fail"
          /\ disk' \in {disk, [disk EXCEPT ![c].crt = Torn]}
    /\ UNCHANGED <<conf, running, pending, torn, server, cache, season, cfg, dry,
                   todo, snap, restarted>>

\* (Variant with a bug: the error ends the loop but not the renewal.)
SignFailureIgnored ==
    /\ pc = "write"
    /\ "sign" \in Faults \/ todo \cap Certs = {}
    /\ pc' = "restart"
    /\ UNCHANGED <<node, server, cache, season, cfg, locals>>

\* Loading, routing or signing fails.  It always does for a kubeconfig:
\* LoadExistingCert finds no PEM block in a YAML file.  The due kubeconfigs
\* come after the due pairs in detResult.Certs.
SignFails ==
    /\ pc = "write"
    /\ "sign" \in Faults \/ todo \cap Certs = {}
    /\ pc' = "fail"
    /\ UNCHANGED <<node, server, cache, season, cfg, locals>>

\* (Variant with a bug: the new key is not written.)
WriteKeyForgotten(c) ==
    /\ pc = "key" /\ c \in todo \cap touched
    /\ todo' = todo \ {c}
    /\ pc' = IF todo' = {} THEN "restart" ELSE "write"
    /\ UNCHANGED <<node, server, cache, season, cfg, dry, touched, snap, restarted>>

\* The key file of the same pair; the loop goes on, or RestartAll begins.
WriteKey(c) ==
    /\ pc = "key" /\ c \in todo \cap touched
    /\ \/ /\ disk' = [disk EXCEPT ![c].key = season]
          /\ todo' = todo \ {c}
          /\ pc' = IF todo' = {} THEN "restart" ELSE "write"
       \/ /\ "write" \in Faults /\ pc' = "fail" /\ todo' = todo
          /\ disk' \in {disk, [disk EXCEPT ![c].key = Torn]}
    /\ UNCHANGED <<conf, running, pending, torn, server, cache, season, cfg, dry,
                   touched, snap, restarted>>

NextPod == RestartOrder[restarted + 1]

\* (Variant with a bug: the last pod of the list is left out.)
RestartPodButLast ==
    /\ pc = "restart"
    /\ pending' = pending \cup {NextPod}
    /\ restarted' = restarted + 1
    /\ pc' = IF restarted' + 1 >= Len(RestartOrder) THEN "health" ELSE "restart"
    /\ UNCHANGED <<disk, conf, running, torn, server, cache, season, cfg, dry,
                   todo, touched, snap>>

\* podrestart.Restart of the next pod: its manifest gets the annotation, kubelet
\* is not waited for beyond ten seconds.  (An incomplete manifest that still
\* parses gets it too, and stays incomplete.)
RestartPod ==
    /\ pc = "restart"
    /\ pending' = pending \cup {NextPod}
    /\ restarted' = restarted + 1
    /\ pc' = IF restarted' = Len(RestartOrder) THEN "health" ELSE "restart"
    /\ UNCHANGED <<disk, conf, running, torn, server, cache, season, cfg, dry,
                   todo, touched, snap>>

\* The manifest cannot be read, parsed or written; a write that fails may come
\* after the file was truncated.
RestartFails ==
    /\ pc = "restart" /\ pc' = "fail"
    /\ \/ NextPod \in torn /\ UNCHANGED <<pending, torn>>
       \/ "manifest" \in Faults /\ UNCHANGED <<pending, torn>>
       \/ /\ "manifest" \in Faults
          /\ pending' = pending \cup {NextPod} /\ torn' = torn \cup {NextPod}
    /\ UNCHANGED <<disk, conf, running, server, cache, season, cfg, locals>>

\* An empty manifest parses to a nil map: setting its metadata panics, and the
\* pod is restarted.
RestartPanics ==
    /\ pc = "restart" /\ NextPod \in torn
    /\ Return
    /\ UNCHANGED <<node, server, cache, season>>

Whole(p) == p.crt = p.key /\ p.crt # Torn

\* Every component answers its health endpoint: a pod serves as long as the
\* pairs it loaded when it started are usable.
AllUp == \A c \in Certs : Whole(running[c])

\* CheckAllWithRetry: one passing round is enough, and the last of
\* HealthCheckMaxAttempts failing rounds is the result.
CheckHealth ==
    /\ pc = "health"
    /\ \/ AllUp /\ pc' = "finish"
       \/ (~AllUp \/ "health" \in Faults) /\ pc' = "fail"
    /\ UNCHANGED <<node, server, cache, season, cfg, locals>>

---------------------------------------------------------------------------
(* After runRenewal.                                                       *)

\* setNodeRenewed, for a dry run too.
Finish ==
    /\ pc = "finish"
    /\ PatchAndReturn([cfg EXCEPT !.phase = "Idle", !.renewed = season])
    /\ UNCHANGED <<node, cache, season>>

\* The error of runRenewal: phase RollingBack, an error of the patch is only
\* logged.
Fail ==
    /\ pc = "fail"
    /\ \E o \in Outcomes : Patch(cfg, [cfg EXCEPT !.phase = "RollingBack"], o)
    /\ pc' = "rollback"
    /\ UNCHANGED <<node, cache, season, locals>>

\* runRollback.  Without a backup path it returns an error.  With one it calls
\* RollbackAll with a nil state, whose Nodes map rollbackNode reads first:
\* the process panics and the pod is restarted.
Rollback ==
    /\ pc = "rollback"
    /\ IF cfg.backup = NoBackup
       THEN pc' = "critical" /\ UNCHANGED <<cfg, locals>>
       ELSE Return
    /\ UNCHANGED <<node, server, cache, season>>

\* The rollback error: phase Critical, an error of the patch is only logged.
DeclareCritical ==
    /\ pc = "critical"
    /\ PatchAndReturn([cfg EXCEPT !.phase = "Critical"])
    /\ UNCHANGED <<node, cache, season>>

---------------------------------------------------------------------------
(* The environment.                                                        *)

\* The process is killed; a file it was writing may be left incomplete.
Crash ==
    /\ "crash" \in Faults /\ pc # "idle"
    /\ \/ UNCHANGED <<disk, pending, torn>>
       \/ /\ pc = "restart" /\ UNCHANGED disk
          /\ pending' = pending \cup {NextPod} /\ torn' = torn \cup {NextPod}
       \/ /\ pc = "write" /\ UNCHANGED <<pending, torn>>
          /\ \E c \in todo \cap Certs : disk' = [disk EXCEPT ![c].crt = Torn]
       \/ /\ pc = "key" /\ UNCHANGED <<pending, torn>>
          /\ \E c \in todo \cap touched : disk' = [disk EXCEPT ![c].key = Torn]
    /\ Return
    /\ UNCHANGED <<conf, running, server, cache, season>>

\* What the pods have loaded once p has started with these pairs.
Loading(p, pairs) == [c \in Certs |-> IF Owner[c] = p THEN pairs[c] ELSE running[c]]

\* kubelet notices the changed manifest, whenever that is, and recreates the
\* pod; if it cannot read the manifest it stops the pod or leaves it alone.
Kubelet(p) ==
    /\ p \in pending
    /\ pending' = pending \ {p}
    /\ IF p \in torn
       THEN running' \in {running, Loading(p, [c \in Certs |-> Stopped])}
       ELSE running' = Loading(p, disk)
    /\ UNCHANGED <<disk, conf, torn, server, cache, season, pc, cfg, locals>>

\* A container that runs ends for a reason of its own, and kubelet starts it
\* again.
PodRestarts(p) ==
    /\ p \in Restless /\ \A c \in Certs : Owner[c] = p => running[c] # Stopped
    /\ running' = Loading(p, disk)
    /\ UNCHANGED <<disk, conf, pending, torn, server, cache, season, pc, cfg, locals>>

\* The watch delivers the current object to the informer cache.
SyncCache ==
    /\ cache # server
    /\ cache' = server
    /\ UNCHANGED <<node, server, season, pc, cfg, locals>>

\* Time passes until every certificate issued so far is due.  That may be as
\* soon as the next call, with pods of the last renewal yet to be restarted.
NextSeason ==
    /\ pc = "idle" /\ season < MaxSeason
    /\ season' = season + 1
    /\ UNCHANGED <<node, server, cache, pc, cfg, locals>>

\* An operator clears a Critical node, by patching the phase or deleting the
\* entry, once the pod has nothing in flight.
ClearCritical ==
    /\ pc = "idle" /\ server.phase = "Critical" /\ cache = server
    /\ server' \in {[server EXCEPT !.phase = "Idle"], Absent}
    /\ UNCHANGED <<node, cache, season, pc, cfg, locals>>

---------------------------------------------------------------------------
Program ==
    \/ Reconcile \/ Detect \/ DetectFails \/ Settle \/ Announce
    \/ CreateBackup \/ PersistBackup
    \/ \E c \in Certs : WriteCrt(c) \/ WriteKey(c)
    \/ SignFails \/ RestartPod \/ RestartFails \/ RestartPanics \/ CheckHealth
    \/ Finish \/ Fail \/ Rollback \/ DeclareCritical

Next ==
    \/ Program
    \/ Crash
    \/ \E p \in Pods : Kubelet(p) \/ PodRestarts(p)
    \/ SyncCache
    \/ NextSeason
    \/ ClearCritical

\* The worker runs and the manager calls Reconcile again after every call
\* (requeue, resync or watch event); kubelet and the watch make progress.
\* No failure, operator or passage of time is ever required.
Fairness ==
    /\ WF_vars(Program)
    /\ \A p \in Pods : WF_vars(Kubelet(p))
    /\ WF_vars(SyncCache)

Spec == Init /\ [][Next]_vars /\ Fairness

---------------------------------------------------------------------------
(* What is checked.                                                        *)

Writing == {"write", "key"}
Renewed == {"restart", "health"}

\* While files may be changed, and until the result of the renewal is known,
\* the API server names a backup that holds what every untouched pair still
\* is, and shows the phase Renewing: a crash at any of these points leaves
\* enough in the status to roll back.  ("Persist backup path to status
\* immediately - needed for rollback if we crash", controller line 193.)
RestorePointPersisted ==
    pc \in Writing \cup Renewed =>
        /\ server.phase = "Renewing"
        /\ server.backup = snap
        /\ \A c \in Certs \ touched : disk[c] = snap[c]

\* A call that ends in Critical has not written a single file: the only
\* rollback that can report an error is one that finds no backup path, and
\* no file is written before the path is stored.
CriticalMeansUntouched == pc = "critical" => touched = {}

\* When pods are restarted and probed, every certificate that was due has
\* been renewed with its own key, whatever earlier calls left behind.
RestartedOnWholePairs ==
    pc \in Renewed => /\ Due = {}
                      /\ \A c \in touched : disk[c] = Fresh(season)

\* When a renewal is probed, and when it counts as done, each pod has loaded
\* the pairs as they are now or is about to: also one that kubelet restarted
\* between the two writes of a pair, for an earlier renewal or for none.  (A pod
\* whose manifest is incomplete is out of reach.)
PodsCatchUp ==
    pc = "health" \/ (pc = "finish" /\ ~dry) =>
        \A c \in Certs : running[c] = disk[c] \/ Owner[c] \in pending \cup torn

\* The renewal time stamp of a call that is not a dry run moves only when
\* nothing is due any more and every pair it wrote is whole.
StampMeansRenewed ==
    [][server.renewed' \notin {server.renewed, 0} /\ ~dry =>
         Due = {} /\ \A c \in touched : Whole(disk[c])]_vars

\* A call that read dryRun writes no pair and no manifest, whatever fails in
\* it and wherever it is killed.  ("DryRun logs what would happen without
\* executing any renewal. Cert backups are still taken",
\* api/v1alpha1/certrotationconfig_types.go line 40.)
DryRunTouchesNothing ==
    [][dry => UNCHANGED <<disk, torn>> /\ pending' \subseteq pending]_vars

\* Reconcile implements the discipline of RestorePoint.
Discipline == INSTANCE RestorePoint WITH
    Names <- Certs, Nothing <- NoBackup,
    files <- disk, store <- server.backup, armed <- pc \in Writing
ImplementsRestorePoint == Discipline!Spec

\* What a step of the call does, as NodePhase tells calls apart.
Stage(step) ==
    CASE step = "idle" -> "idle"
      [] step \in {"detect", "settle", "announce"} -> "looking"
      [] step \in {"backup", "persist", "write", "key", "restart", "health",
                   "finish", "fail"} -> "renewing"
      [] step \in {"rollback", "critical"} -> "failing"

\* Reconcile shows its phases in the order that NodePhase allows, whatever
\* patches are refused or unanswered, and whatever the cache showed at the start.
Watched == INSTANCE NodePhase WITH phase <- server.phase, stage <- Stage(pc)
ImplementsNodePhase == Watched!Spec

\* The restore point never holds a certificate with another certificate's
\* key.  (It is a copy of whatever is on disk when a renewal starts, the
\* leftovers of a renewal that failed included.)
BackupWhole == server.backup # NoBackup => \A c \in Certs : Whole(server.backup[c])

\* A node is Idle only with whole pairs on disk.  (README line 162: "On
\* restart, cert-rotator reads state and completes any in-progress rollback
\* before entering IDLE".)
IdleMeansWhole == server.phase = "Idle" => \A c \in Certs : Whole(disk[c])

---------------------------------------------------------------------------
(* What the documentation says and the code does not do.                   *)

\* README lines 100 and 102: a node that was rolling back has its files as
\* they were in the backup when it does anything else, crash or not.
RollbackRestores ==
    [][server.phase = "RollingBack"
         /\ server.phase' \notin {"RollingBack", "Critical"}
         => disk = server.backup]_vars
=============================================================================
