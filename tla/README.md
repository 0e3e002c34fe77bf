# cert-rotator in TLA+

TLA+ models of cert-rotator, the operator that renews the certificates of
kubeadm control planes, with TLC runs on small instances and proofs checked by
TLAPS for every value of the constants. Paths are relative to the root of the
repository.

Contents: [the system](#the-system) ·
[modules](#modules-and-the-code-they-model) · [runs](#runs) ·
[fairness](#fairness) · [proofs](#proofs) ·
[what the code does otherwise than its documents](#where-the-code-and-its-documents-differ) ·
[not modelled](#what-is-not-modelled) · [plan](#plan)

## The system

One pod runs on each control plane node (a DaemonSet, `NODE_NAME` from the
downward API, no leader election). All pods reconcile the same
`CertRotationConfig`; each has one worker, and manages the files of its own
node under `/etc/kubernetes`.

| Component | Source | State it keeps | Operations |
|---|---|---|---|
| Controller | `internal/controller/certrotationconfig_controller.go` | `status.nodes[NodeName]`, `status.conditions`; in memory only the `cfg` of the running call | `Reconcile`, `runRenewal`, `runRollback`, the status setters, `updateClusterConditions`, notifications, requeue |
| Detector | `pkg/detector` | none; reads the certificates | `Detect`, `classify`, `residualDays` |
| Generator, signer | `pkg/generator`, `pkg/signer` | none | new key, template from the old certificate, sign by the CA of the name |
| Backup | `pkg/backup` | one directory per backup, named by node and second | `Create`, `Restore`, `Cleanup` (never called) |
| Writer | `pkg/writer` | the pairs under `pkiDir` | `WriteCertKeyPair`: certificate, then key, in place |
| Static pod restarts | `pkg/podrestart` | an annotation in each manifest, written in place | `RestartAll`: etcd first, ten seconds after each |
| Health checks | `pkg/healthcheck` | none | `CheckAllWithRetry` |
| Rollback, state | `pkg/rollback`, `state` | `State`, kept in `state.json` | `RollbackAll`; `Load`, `Save`, `Set*`, `Reset` |
| Notifier | `pkg/notifier` | none | `Notify`, `NotifyCritical` over SMTP and Slack |
| Kubeconfig | `pkg/kubeconfig` | the kubeconfigs | `RenewAll`, never called |
| Types, entry point, configuration, logger, chart | `api/v1alpha1`, `cmd`, `config`, `pkg/logger`, `helm` | none | declarations and start-up |

How they interact:

- `Reconcile` is called by the manager after a watch event (each status patch
  of this or another pod causes one), the requeue time, an error, a resync or a
  restart. It reads the object from the **informer cache**, and writes it by
  **merge patches** without a resource version: only fields that the call has
  changed are sent, and the list of conditions is sent whole.
- `runRenewal` calls backup, signer and writer, restart and probes one after
  the other on the node's files. Between these calls the pod may die and kubelet
  may recreate any static pod whose manifest has changed.
- A renewal that fails goes to `runRollback`. Without a backup path this is an
  error (phase Critical). With one it calls `RollbackAll` with a nil `State`,
  whose map `rollbackNode` reads first (`rollback.go:108`): the process panics,
  no one recovers it, and kubelet restarts the pod.
- The pods of different nodes share nothing but the custom resource.
- `pkg/rollback` and `state` are a library that the tests drive with a state
  and several nodes.

What is hard here: a process that may die between any two writes of two files
that belong together; a status that is the only thing a restart finds; a cache
older than that status; several writers of one object without a lock; pods
that load files at a time nobody controls; retries of a renewal that starts
from what the last one left. `PROJECT.json` lists these hazards one by one with
the line where each bites and the properties that would catch it.

What makes each component correct:

- *Reconciler*: files change only when a restore point of what they were is in
  the status; pods restart only on whole, renewed pairs, and every pod ends up
  with them; the status says
  "renewed" only when they are; Critical is declared only when nothing was
  touched; once failures cease the node settles and every due pair gets served.
- *Calls*: the object is never forgotten, what operators ask for is worked on,
  a deleted object is left alone.
- *Cluster status*: no pod changes another's entry; conditions and phase agree
  with the entries in the end.
- *Files of a node*: a backup path that was handed out names an exact copy;
  Restore brings it back; a repetition of WriteAllCerts or RenewAll mends
  whatever an earlier one left.
- *Rollback library*: every node once, the failed one first, the rest in reverse
  order; results and state agree, and the files as long as the backup has its own.
- *Detection and schedule*: no certificate expires if the settings leave time.
- *Notifier*: every channel is tried, and errors are not swallowed.

## Modules and the code they model

| Module | Models |
|---|---|
| `Reconciler` | one pod, its node and its entry in the status |
| `RestorePoint` | the abstract promise of a renewal to the files, which `Reconciler` implements |
| `NodePhase` | the abstract promise to whoever watches the phase of a node, which `Reconciler` and each pod of `ClusterStatus` implement |
| `Recovery` | what that node gets back to once failures cease; `Reconciler` is instantiated a second time, without faults |
| `ReconcilerProofs`, `WholePairProofs` | theorems of `Reconciler` |
| `WorkQueue`, `WorkQueueProofs` | when `Reconcile` is called: cache, watch, queue, timers, operators; theorems |
| `ClusterStatus`, `ClusterStatusProofs` | the pods of all nodes and the shared status; theorems |
| `NodeFiles`, `NodeFilesProofs` | `pkg/backup`, `writer.WriteAllCerts` and `pkg/kubeconfig`, file by file; theorems |
| `BackupVault` | the abstract promise of `pkg/backup`, which `NodeFiles` implements |
| `Rollback`, `RollbackProofs` | `pkg/rollback` with `state/state.go` and the restores of `pkg/backup`; theorems |
| `Expiry`, `ExpiryProofs` | day arithmetic of the detector, validity of the generator, schedule of the controller; theorems |
| `Notifier`, `NotifierProofs` | `pkg/notifier` and the controller's `buildNotifier`; theorems |
| `MC*` | their instances for TLC |

`Reconciler` is the centre. The others open up what it takes as one step or
leaves to chance: a backup is one copy there and a sequence of files in
`NodeFiles`; "called again at some time" is `WF(Program)` there and a queue in
`WorkQueue`; its entry is one of several in `ClusterStatus`; "due" is a season
there and seconds in `Expiry`; the rollback that panics there works in
`Rollback`, when a state is passed.

`PROJECT.json` maps each definition to the lines it stands for. Operators
marked "(Variant with a bug: ...)" are not part of any specification. Each
stands for a plausible mistake in the definition that follows it, and a
property of the runs fails when it takes that definition's place.

### Reconciler

A call of `Reconcile` is cut at each point where something outside it can
matter: each status patch, the backup, each of the two file writes of a pair,
each manifest, the probes. `pc` is the place of the call.

| Code | Action |
|---|---|
| Get from the cache, the Critical gate, `setNodePhase(Detecting)` | `Reconcile` |
| `Detect` and `updateNodeCertStatus`; its error and phase Failed | `Detect`, `DetectFails` |
| nothing due, phase Idle | `Settle` |
| phase Renewing | `Announce` |
| `backup.Create`; `setNodeBackupPath`, dry run | `CreateBackup`; `PersistBackup` |
| the loop over the due certificates | `WriteCrt`, `WriteKey`, `SignFails` |
| `podrestart.RestartAll` pod by pod; `CheckAllWithRetry` | `RestartPod`, `RestartFails`, `RestartPanics`; `CheckHealth` |
| `setNodeRenewed` | `Finish` |
| error branch: phase RollingBack, `runRollback`, phase Critical | `Fail`, `Rollback`, `DeclareCritical` |
| killed process | `Crash` |
| kubelet after a changed manifest, or after a container has ended; watch; time; operator | `Kubelet`, `PodRestarts`; `SyncCache`; `NextSeason`; `ClearCritical` |

State: `disk` are the pairs (`crt` and `key` apart, each told by the season it
was issued in, or `Torn`), `running` what each pair's pod loaded last,
`torn` the pods whose manifest is incomplete (kubelet then stops the pod or
leaves it as it is, and the next `Restart` fails or, on an empty document,
panics), `server` and `cache` the node's entry at the API server and in the
informer, `cfg` the entry in the object of the call. A backup path is modelled by the content of
its directory. A patch is `Merge(server, base, new)`, field by field, and may
be answered, refused, or applied with its answer lost; as in the code, an
answered patch refreshes `cfg`, and one with an error leaves the changed
fields in it.

`Rollback` without a branch for success is not an omission: with a path in
`cfg` the call panics, and the lines after it in `Reconcile` (152–161) and
`runRollback` (299–310) are never reached.

`Issued` staggers the pairs: one becomes due a season before the other. A season
may follow the next call at once (NotAfter of two certificates may lie seconds
apart), so kubelet may still have pods of one renewal to recreate in the middle of
the next, between certificate and key too. A pod in `Restless` may also be
restarted at any other time because its container ended.

Two choices bound the environment. `NextSeason` waits for the end of a call: what
becomes due after `Detect` is seen by the next one, as it is in the code.
`ClearCritical` acts when nothing is in flight and the watch has caught up, as an
operator who reads the log does.

### RestorePoint

Three variables: the files, the restore point, and whether a renewal is armed.
Files change one at a time, only while armed; arming publishes the files as they
are; the restore point is fixed while armed. `Reconciler` implements it with
`files <- disk`, `store <- server.backup`, `armed <- pc \in {"write", "key"}`.

### NodePhase

Two variables: the phase that the API server shows of a node, and the stage of
the call (looking for due certificates, renewing, failing). A call may end at
any stage and leave the phase; it renews only under Renewing, and RollingBack
and Critical come only from there. `Stage` maps the steps of `Reconciler` and of
`ClusterStatus` to stages. The two modules are different views of the same code
(one node with lost answers; many nodes and one object), and this is what
they have in common. `WorkQueue` does not implement it: there operators change
the object at any time, also during a call.

### Recovery

Adds no behaviour: `FaultsCease` says that from some moment on every step is one
of `Reconciler` with an empty set of faults. `Stuck` is what the program does not
get out of by itself: Critical, a due kubeconfig, an incomplete manifest.
`CompletedOnceWritten` is the premise that no renewal fails after its last write:
one that does leaves nothing due, so nobody repeats the restarts.

### WorkQueue

The object as the API server and the informer cache have it, told by the phase
of this pod's entry, whether it exists, and a counter of operators' requests;
the queue of client-go (`queued`, `again` for an object added while it is
processed, one `timer` for all delayed adds); and the call of `Reconcile`, which
is `Reconciler`'s without the files. Each return is one of three: a requeue
or an error (`ReturnRequeue`), `Result{}` and nil (`ReturnNothing`: NotFound and
the end of a critical call), or the end of the process (`Restart`). `Patched`
sends a phase only if the call changed it; whether a patch that leaves the
phase changes the object (time stamps, conditions) is left open, hence also
whether it is an event. `acted` is the newest request a call has read.

### ClusterStatus

The same call with the node's files folded into one bit (`due`), for several
pods, with conditions and the phase of the cluster. A patch of conditions
replaces the list; the phase is a field of its own and is merged apart from it. `cfg[p]` is the
whole status as pod p last saw it, from which `ConditionsOf` is computed. Of
the cached entry only what can make a difference is kept: Critical ends the call,
and Detecting makes the first patch empty (`Views`). The informer may be behind in
the rest as well, but the first patch of a call sends no other field, and its
answer replaces the copy.

### NodeFiles

One call at a time of `Create`, `Restore`, `Cleanup`, `WriteAllCerts` and
`RenewAll`, cut at each file and, within a file, between the open that truncates
it (`Truncate`) and the write (`Fill`). `BreakOff` may end a call anywhere before
its last file: an error that is returned, or the death of the process; both leave
what was done. Directories are named by the second of `now`, which may not have
advanced between two calls. Dry runs touch no file and are left out.

A file is told by its form and generation. The forms matter for kubeconfigs:
`Renew` decodes into a structure with `yaml:` tags and encodes it with
`sigs.k8s.io/yaml`, which looks at `json:` tags only; the result (`"struct"`) has
other field names (`Users` for `users`) and neither the CA nor the current
context. A PEM file whose write was cut off never parses (`AuthorityReadable`). A
kubeconfig may, if the cut left a user, so `Renew` of a torn one either goes on
or breaks off. `Lacking` are the sets of pairs and kubeconfigs that an
installation may do without.

`handed` are the paths that `Create` returned and `intact` those of them that
no `Cleanup` and no second `Create` of the same second has touched: a history
variable that only properties read. `BackupVault` has two variables, the files
and a vault whose entries appear whole as a copy of the files, may be dropped
and are never changed; `NodeFiles` implements it with the intact directories.

### Rollback

`SetNodeBackup` and `RollbackAll` as the tests of the package use them. `mem`
is the `State` in memory, `file` its file, written after each node (and `Torn`
when the write was cut off, which `Load` refuses). `pki` is the one set of local
directories that every restore writes to; a restore that stops half way
leaves it `Mixed`. `Discard` is whoever removes the directory of the current
node's backup, or files in it; `complete` tells that nobody did. `Restore` passes
over files that the directory does not have and returns nil, so that without a
complete one it leaves any files (`Copied`). Phases and time stamps are left out. The list of nodes is
built as in the code, one node per step (`List`), with `seen` the number
of nodes looked at; `queue` is `unique` and then what is left of it.

### Expiry

Time in seconds: `left` until NotAfter, `since` the last call. `Check` is a call
of `Reconcile`, which truncates to days, classifies and replaces what is not
OK, or fails. `Late` is how much later than `requeueWithJitter` a call may be.

### Notifier

One event at a time: the notifier is made (by `New` with all settings, or by the
controller's `buildNotifier`) and the two channels are tried in turn.

## Runs

Each run finishes within about two and a half minutes with two workers. Passing runs state
what holds. Runs with `expect: violation` each check one sentence of the
repository's documents that the code does not keep.

| Run | Question | Distinct states |
|---|---|---|
| `ReconcilerFaults` | do restore point, restarts, stamps, dry runs and phases keep their rules under every fault, and every pod end up with the new pairs? | 3,757,577 |
| `ReconcilerRecovers` | without crashes and failing writes, are restore points and the pairs of an Idle node whole? Once failures cease, does the node settle and get served? | 294,624 |
| `ReconcilerRollbackRestores` | violation: does a rollback restore the backup? | |
| `QueueAwake` | is there always a call to come, and none for a deleted object? | 33,658 |
| `ClusterFaults` | does each pod keep to its own entry, and to the order of its phases? | 3,490,902 |
| `ClusterConverges` | are conditions and phase right in the end? | 639,880 |
| `ClusterCriticalHidden` | violation: is CriticalFailure shown as long as a node is Critical? | |
| `NodeFilesKept` | are backups exact, and what do restores and renewals repair? | 2,091,593 |
| `RollbackFaults` | are nodes tried once and in order, and do results, state and files agree? | 2,968,740 |
| `ExpirySchedule` | does no certificate expire, and none get renewed out of its window? | 174,096 |
| `NotifierOutages` | are all channels tried and all errors reported? | 309 |
| `NotifierCritical` | violation: does a critical alert reach a configured channel? | |

What the properties say is in the comment above each definition. Those worth
an argument:

- `RestorePointPersisted` and `ImplementsRestorePoint`: whatever is refused,
  lost or killed, at every point where files may differ from what they were the
  API server names a backup with the content of each untouched pair.
- `ImplementsNodePhase`: the first patch of a call may be made from a cache that
  is old, the one to Renewing may be applied with its answer lost, and the one to
  RollingBack refused. Still no renewal runs under another phase than Renewing,
  and no node becomes Critical that did not show Renewing or RollingBack before.
- `CriticalMeansUntouched`: the only rollback that returns an error is one
  without a backup path, and then no file was written.
- `RestartedOnWholePairs`, `StampMeansRenewed`: they hold although earlier
  calls may have left anything behind, because an unreadable certificate stops
  the call before it writes and everything else that is due is rewritten.
- `DryRunTouchesNothing`: a dry run is not harmless because nothing can go wrong
  in it. Its backup and its patches may fail, and it then goes through the
  error branch of a real renewal, into `runRollback`, with a path or without;
  the writer itself is made with dryRun false, so the early return alone keeps
  it off the files.
- `PodsCatchUp`: a pod that kubelet recreates or starts again between the two
  writes of a pair loads a new certificate with the old key. `RestartAll` waits
  for nobody, so the renewal may be probed, and count as done, with this pod as
  it is. But then the manifest of each pod has been changed after the last
  write, so that pod is about to be restarted once more, unless its manifest is
  incomplete. A renewal that skipped a pod, or
  wrote a pair after a restart, would leave it with the mixed pair for good.
- `BackupWhole`, `IdleMeansWhole`: without crashes and failing writes no failure
  between two certificates, and no retry that backs up its leftovers, gets a
  mixed pair into a restore point or an Idle node. They say nothing of leftovers
  that are whole: a backup of which half is renewed already passes.
- `PhaseSettles`, `DueEventuallyServed`: liveness after arbitrary failures, not
  in their absence: what earlier calls left (a path overwritten by the retry, a
  phase no one took back, a pair served by a pod that was stopped) must not keep
  the node from recovering. Their exceptions are stated (`Stuck`,
  `CompletedOnceWritten`), and each is behaviour of the code.
- `NeverAsleep`: not obvious for the critical call, which asks for no requeue.
  If its patch is refused, the object is not Critical and no event of that
  patch comes. It holds because the same call changed the phase to Renewing
  before, and an event of that is pending, or has been delivered and added
  the object again.
- `RequestServed`: with a queue that merges adds and a cache that is behind, an
  edit made during a call is read by a later one.
- `ImplementsVault`: also when a call dies between two files, when two calls
  share a second, and when Cleanup runs between them (a Cleanup of a path that the
  status still names is allowed: the vault drops it). `RestoreExact`,
  `WriteAllMends` and `RenewAllComplete` speak of calls that return nil after any
  history. The last says that RenewAll tells a kubeconfig that is missing, which
  it skips, from one that an earlier call left torn, which it must not.
- `CriticalCatchesUp`, `HealthyCatchesUp`: a pod may replace the list of
  conditions with an older one; each later call of any
  pod starts from the server's answer to its first patch, and repairs that.
- `SuccessMeansRestored`: about one node at a time, and about one whose backup
  directory nobody touched before its turn; without the latter premise it is
  false, as is that all nodes end with their own files, see below.

### Bounds

- *Reconciler*: two pairs in two pods, one restarted before the other: enough
  for a renewal that stops between pairs and a restart between pods. Of `Issued`
  the pair of etcd becomes due in the first season, that of the API server in
  the second, when a renewed etcd pair is due again: renewals of one pair and of
  both. `MaxSeason = 2`: a renewal after a renewal (or after a failed one), which
  retries, leftovers, manifests left incomplete, pods restarted late and the
  overwritten restore point need. One kubeconfig; a due one ends each renewal
  before the restarts. In `ReconcilerFaults` it is due with the first pairs or
  never (`ConfSeasons = {0, 2}`), in `ReconcilerRecovers` with the second ones or
  never (`{1, 2}`), so that there renewals succeed before it. Both pods are
  `Restless` in `ReconcilerFaults`; in `ReconcilerRecovers`, where a pod that
  restarts by itself would only load the pairs sooner, none is. Dry runs happen in the
  first season in which a pair is due (`DrySeasons`), next to real renewals and
  with the second season after both. Calls and faults are not bounded. Each
  configuration names the kinds of failure it allows: `ReconcilerRecovers` leaves
  out crashes and failing writes of a pair, which do mix pairs that no later call
  repairs.
- *WorkQueue*: four requests (an edit, a clearing, a deletion and a creation, in
  any order that makes sense). Requests of the other pods, resyncs, restarts and
  refused patches are not bounded.
- *NodeFiles*: one pair and one kubeconfig, of which an installation may lack
  either, two seconds, and two generations after the installed one: two backups
  of which each may be of either second, and two calls of WriteAllCerts, of
  RenewAll or one of each, the second after whatever the first left. With a
  second pair there are more than 25 million states. No authority: a
  torn one only ends RenewAll before its first file, which `BreakOff` does as
  well. The theorems have no such bounds.
- *ClusterStatus*: two nodes. The race over the conditions needs one writer
  and one stale reader. In `ClusterFaults` one is failing and unreliable, ages
  and may make dry runs; in `ClusterConverges` one is failing and none age, so that
  nothing stays due for reasons other than failure.
- *Rollback*: three nodes, and lists of up to two renewed ones (three results, the
  failed node among the renewed ones, a node listed twice). Any directory may be
  removed before its turn. Nodes are
  interchangeable, hence the symmetry; the run has no liveness property. The run
  may deadlock: `Load` never succeeds on a torn file.
- *Expiry*: a threshold of one day, ten hours between calls, a validity of four
  days, three failures in a row: scaled down so that one certificate is renewed
  several times, with steps that hit the requeue time exactly and ones that fall
  short of it. The theorem has no such bounds.
- *Notifier*: two channels, all settings.

## Fairness

- `WF(Program)` in `Reconciler`, `WF(Pod(p))` in `ClusterStatus`: the worker
  runs, and a call is followed by another. That is what `Attended` of
  `WorkQueue` shows for an object that is there and not Critical. A Critical
  node's calls do nothing, and the two models make no step for them.
- `WF(Worker)`, `WF(Deliver)`, `WF(TimerFires)` in `WorkQueue`: the worker runs,
  the watch delivers, delayed adds come. Nothing is asked of operators, other
  pods, restarts or the resync.
- `WF(Kubelet(p))`: kubelet notices a changed manifest. Nothing is asked of
  `PodRestarts`.
- `WF(SyncCache)`: the watch delivers.

Nothing is assumed of failures (they may happen always or never), of the
operator, or of time. Properties that need failures to stop say so in their
hypothesis: `FaultsCease`; a status that stays as it is, in `CriticalCatchesUp`
and `HealthyCatchesUp`; an object that stays deleted, in `DeletionQuiets`.
`NodeFiles`, `Rollback`, `Expiry` and `Notifier` have safety properties only.

## Proofs

All proofs are for arbitrary sets of certificates, kubeconfigs, pods, nodes,
files and faults, under the ASSUMEs of the modules, which TLC evaluates in the
runs. Further assumptions are in the ASSUME of a theorem.

`ReconcilerProofs`:

1. `TypeCorrect`: `TypeOK` is inductive. Lemmas on `Merge`, `Send`, `Patch` and
   `Return` carry it. `pc = "restart" => restarted < Len(RestartOrder)` is in
   the type invariant because the next pod is `RestartOrder[restarted + 1]`.
2. `RestorePointAlwaysPersisted`, `CriticalNeverAfterWrite`. The property is not
   inductive: that the server's entry names the backup during the writes follows
   from `cfg = server` and from the phase, which hold from the first answered
   patch on since nobody else writes this entry during a call. `RestorePointInv`
   adds this, that the fresh backup is equal to the untouched files from
   the moment it is made, that no file is touched before it is stored, and that
   a call that failed after a write still holds the path until it decides what
   to roll back to.
3. `RestartedWhole`, `StampAfterRenewal`. `RenewalInv` follows the loop: what is
   left to do is exactly what is still due, what was touched is whole and of this
   season, and in the middle of a pair its certificate is new and its key not
   yet. That a due kubeconfig never gets past the loop is part of it: `todo`
   holds it, and no action removes it.
4. `Implements`: with `IInv == TypeOK /\ RestorePointInv /\ RenewalInv`, each
   action is a step of `RestorePoint` or a stutter: `PersistBackup` publishes,
   `WriteCrt`, `WriteKey` and a crash in the middle of a write are `Write`,
   `SignFails` and other crashes `Stop`, `ClearCritical` may `Forget`.
5. `ShowsInOrder`: each action is a step of `NodePhase` or a stutter. The
   invariant `OwnPhase` says that until the renewal has failed the call's copy
   has the phase that the server shows, that this is Renewing during a renewal,
   and that afterwards the server may be one phase behind the copy, because an
   error of the patch to RollingBack is only logged.
6. `DryRunsHarmless`: the invariant `DryInv` lists the steps that a dry run
   reaches; no step that writes a pair or a manifest, in a crash included, is
   among them.
7. `PodsReload`. The invariant `ReloadInv` says which pods have caught up at each
   point: during the restarts those that have been restarted, from the probes on
   all (`Current`: the pod has the pairs of the disk, is pending, or its manifest
   is incomplete). A pod keeps that through any restart as long as no pair is
   written, and no pair is written from the first restart to the end of the call.
   That `RestartOrder` has every owner is an assumption on the constants.

`WholePairProofs`: `BackupAlwaysWhole`, `IdleAlwaysWhole`, assuming that `Faults` has
neither `"write"` nor `"crash"`. The invariant says that the pairs on disk are
whole but for the one whose key is about to be written, and that server, cache,
call and fresh backup hold whole pairs.

`ClusterStatusProofs`: `TypeCorrect`; `OnlyOwnEntries`, because of each patch the
base and the new status differ in the own entry only, so `Merge` leaves
the others to the server; `ShowsInOrder`, the refinement of `NodePhase` by each
node, with the same `OwnPhase` for each pod. That a step of one pod is a stutter
of the others' is the lemma behind `OnlyOwnEntries`.

`WorkQueueProofs`: `TypeCorrect`; `NeverGoesToSleep`. The cache differs
from the server only while an event is pending (`Delivered`). A call has caused
an event, or been overtaken by one, unless the phase was Detecting when it began;
the phase Renewing is a change in any case (`Awake`).

`NodeFilesProofs`: `TypeCorrect`; `Implements`, with the invariant that during
`Create` the directory equals the files for everything the call is through
with, and that neither `Create` nor `Cleanup` works on a directory that is intact;
`RestoresExactly`, `WriteAllWhole` and `RenewAllWhole`, with the corresponding
invariant of those calls (`Progress`): what a call is through with is as it
should be, and what it skipped is missing.

`RollbackProofs`: `TypeCorrect`; `TriedInOrder`. Nothing is computed by recursion:
the loop that removes duplicates is a step per node, and the invariant `Turns`
says, of results and queue together, that they hold the nodes looked at so far,
in the order of their first places in the list. `PlacesInOrder` turns first places
in `<<failed>> \o Reverse(renewed)` into last places in `renewed`, which the
property speaks of; `LeastNatural` (every non-empty set of naturals has a least
element) gives the first place. `StateAgrees` follows from `Turns`: a later record
does not overwrite an earlier one because no node has two turns.
`SuccessAfterRestore`, with the invariant that the local files are those of the
current node from the restore until its report, if its backup was complete.

`ExpiryProofs`: `TypeCorrect`; `Renewed`: under `EarlyEnough` no certificate
expires. The invariant `Covered` says that the certificate outlives the attempts
that are left, each a whole `Gap` after the other, less the time since the last
call. `OKMeansFar` is the arithmetic of truncation: a certificate that is
classified OK has at least `(ThresholdDays + 1)` days left. `ReplacedInWindow`:
under `LongEnough` (a new certificate is not due) the invariant `Window` bounds
how long a certificate has been due by the failures so far; `FarMeansOK` is the
other direction of the arithmetic. `EarlyEnough` and `LongEnough` are assumptions
about the settings that nothing in the code enforces (see below).

`NotifierProofs`: `TypeCorrect`, `CriticalOnBoth` and `NotifyHonest`, for every set
of settings. `Progress` says that the wanted channels that the call has left
behind are those that took the message or have an error.

Every invariant, action property and refinement that a passing run checks is a
theorem. Only model-checked is liveness, for which the prover would need ENABLED:
`PhaseSettles`, `DueEventuallyServed`, `CriticalCatchesUp`, `HealthyCatchesUp`,
`RequestServed`, `Attended`, `DeletionQuiets`. So are the counterexamples of the
runs that expect a violation.

## Where the code and its documents differ

Shown by a run:

- A rollback restores nothing and is not resumed (`ReconcilerRollbackRestores`;
  README.md:100, 102).
- CriticalFailure may turn False while a node is Critical
  (`ClusterCriticalHidden`; `types.go:218`).
- A critical alert reaches nobody (`NotifierCritical`; README.md:101).

Visible in the models, or in the code beside them, without a run:

- After a crash between certificate and key the retry finds the certificate no
  longer due, and the node becomes Idle with a mixed pair (README.md:162).
- A due kubeconfig is never renewed and fails each renewal of its node
  (README.md:69–71; `generator.go:114` wants PEM, a kubeconfig is YAML).
- A dry run stamps `LastRenewedAt` (`types.go:164`), and one whose backup fails
  makes a node without a backup path Critical (controller 128–152).
- A renewal whose restart or probe fails is never completed: the next call finds
  nothing due (`CompletedOnceWritten`; README.md:100).
- Calls follow each other at once and not `checkIntervalHours` apart, because
  each patches the status, its patches are events and there is no predicate
  (README.md:76; controller 566). `Deliver` shows it.
- What `kubeconfig.RenewAll` writes fails every later detection: "no users field"
  (`Source` of `NodeFiles`; `detector.go:182` names the problem of the tags).
- `backupRetentionDays` has no effect: `Cleanup` is never called.
- `Restore` from a directory that was removed restores nothing and returns nil, so
  `RollbackAll` reports the node as rolled back with the files that failed
  (`Discard` and `Copied` of `Rollback`; backup.go:156–158, 174–176).
- A node whose rollback failed is recorded as critical in memory first. If the
  save fails and the process dies, `Load` finds a state without it (`Save` and
  `Crash` of `Rollback`; state.go:155, rollback.go:79).
- `writer.Verify` reports "safe to proceed" for pairs that do not belong together
  (`writer.go:148`).
- With a stale cache a call overwrites Critical with Detecting (controller 67–69).
- All nodes may renew at the same time (README.md:50; `main.go:66–70`).
- `RestartAll` waits ten seconds, not for the pod, so kubelet may restart the API
  server before etcd (`podrestart.go:36`), and the probes may reach the pods of before
  (`healthcheck.go:158` does not look at the certificate it is shown).
- `RenewalInProgress` is never set to true by the pod that renews: conditions are
  computed only at the end of a call (`types.go:215`).
- `RollbackAll` restores the backups of all nodes into the same local directory
  (README.md:99; `rollback.go:62`, 141).
- A crash in `Save` leaves a `state.json` that `Load` refuses (`state.go:56`,
  88–111).
- A dry run of `RollbackAll` records its failures in the state (`rollback.go:121`).
- The settings admit `thresholdDays` 1 with `checkIntervalHours` 168, for which
  a certificate expires (`types.go:28–38`); and a threshold of 364 days or more,
  for which one that was just issued is due again (`generator.go:21`).
- A certificate with less than a day left is logged as already expired
  (`detector.go:341`).

## What is not modelled

- `config`, `writer.Verify`, `podrestart.WaitForReady`, `healthcheck.TCPOnlyCheck`,
  `CheckAllDetailed`, `validateEnvironment`: the program never calls them, and
  none of them changes state.
- `SetPhase`, `SetNodeRenewed` and `IsInProgress` of `state.go`: the first two set
  fields that only the third reads, which nothing but tests calls.
- The fields of certificates, the choice of the CA, YAML beyond what the detector
  finds, HTTP and SMTP: data that no property here tells apart; that they may
  fail is in the models. Servers that never answer a notification: the
  controller's notifier is never configured, so it does not get that far.
- A pair that is missing at the start: every detection then fails.
- The number of backups, the attempts of a probe, durations of requeues.
- Logger, command line, chart, generated deep copies: no state of their own.

## Plan

Done, in this order, the most important behaviour first: `Reconciler` with
`RestorePoint` and its proofs, `ClusterStatus`, `Rollback`, `Expiry` with its
proof, `Notifier`; then manifests and `Recovery`, the phase of the cluster,
`WorkQueue`, `NodeFiles` with `BackupVault`, the theorems of all of them, and
`NodePhase`, what the views of one call have in common.

What could still be added:

1. `ClusterStatus` as a composition: that each pod's entry implements all of
   `Reconciler`'s and not only `NodePhase`, and the vault of `NodeFiles` in place of the backup of
   `Reconciler`.
2. A notifier with servers that never answer, when the controller configures one.
