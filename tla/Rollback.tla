------------------------------ MODULE Rollback ------------------------------
(***************************************************************************)
(* The full cluster rollback of pkg/rollback with the state it keeps       *)
(* (state/state.go), used as its tests use it: by a caller that records a  *)
(* backup for every node it renews and calls RollbackAll when one fails.   *)
(* (The controller's own call, with a nil state, is Reconciler.tla's.)     *)
(*                                                                         *)
(* One process on one host: every Restore of the backup manager writes     *)
(* into the same local directories.  A backup is told by its node, the     *)
(* state file is its content or Torn; time stamps and phases are left out. *)
(***************************************************************************)
EXTENDS Naturals, Sequences, SequencesExt

CONSTANTS
    Nodes,       \* control plane nodes
    Faults,      \* the kinds of failure the environment may cause
    DryRuns,     \* the values dryRun takes
    MaxRenewed,  \* bound on the length of renewedNodes
    Torn,        \* a state file whose write did not complete
    Mixed,       \* local files from two backups, or one of them incomplete
    Original     \* local files as the renewal left them

ASSUME RollbackAssumption ==
    /\ Faults \subseteq {"restore", "restart", "health", "save", "discard", "crash"}
    /\ DryRuns \subseteq BOOLEAN
    /\ MaxRenewed \in Nat

\* NodeState: whether BackupPath is set, and RollbackFailed.  A missing one
\* reads as both FALSE.
NodeState == [backup : BOOLEAN, failed : BOOLEAN]
State     == [nodes : [Nodes -> NodeState], critical : BOOLEAN]
Unrecorded == [backup |-> FALSE, failed |-> FALSE]

VARIABLES
    mem,      \* the State of the process
    file,     \* the state file
    pki,      \* the local files
    complete, \* whether the directory of the current node's backup has every
              \* file that Create copied into it
    pc,       \* where RollbackAll is; "idle" outside it, "down" after a crash
    call,     \* the arguments of the call, and dryRun
    seen,     \* how many of nodesToRollback the call has listed
    queue,    \* nodes still to be rolled back, the current one first
    success,  \* the outcome of the current node
    results   \* the []RollbackResult of the last call

vars == <<mem, file, pki, complete, pc, call, seen, queue, success, results>>

Calls == [renewed : BoundedSeq(Nodes, MaxRenewed), failed : Nodes, dry : DryRuns]

TypeOK ==
    /\ mem \in State /\ file \in State \cup {Torn}
    /\ pki \in Nodes \cup {Mixed, Original} /\ complete \in BOOLEAN
    /\ pc \in {"idle", "list", "node", "restart", "health", "record", "down"}
    /\ call \in Calls
    /\ seen \in 0..MaxRenewed + 1
    /\ queue \in Seq(Nodes)
    /\ pc \in {"node", "restart", "health", "record"} => queue # <<>>
    /\ pc \in {"idle", "down"} => queue = <<>>
    /\ success \in BOOLEAN
    /\ results \in Seq([node : Nodes, success : BOOLEAN])

\* state.New
New == [nodes |-> [n \in Nodes |-> Unrecorded], critical |-> FALSE]

Init ==
    /\ mem = New /\ file = New /\ pki = Original /\ complete = TRUE /\ pc = "idle"
    /\ call \in Calls /\ call.renewed = <<>> /\ seen = 0
    /\ queue = <<>> /\ success = FALSE /\ results = <<>>

---------------------------------------------------------------------------
(* The state.                                                              *)

\* State.Save of the changed state: written, refused, or left incomplete.
Save(s) ==
    /\ mem' = s
    /\ \/ file' = s
       \/ "save" \in Faults /\ file' \in {file, Torn}

\* SetNodeBackup, by the caller, before it renews the node.
SetNodeBackup(n) ==
    /\ pc = "idle" /\ ~mem.nodes[n].backup
    /\ Save([mem EXCEPT !.nodes[n].backup = TRUE])
    /\ UNCHANGED <<pki, complete, pc, call, seen, queue, success, results>>

\* Reset, by an operator.
Reset ==
    /\ pc = "idle"
    /\ Save(New)
    /\ results' = <<>>
    /\ UNCHANGED <<pki, complete, pc, call, seen, queue, success>>

\* Load, when the process starts again.
Load ==
    /\ pc = "down" /\ file # Torn
    /\ mem' = file /\ pc' = "idle"
    /\ UNCHANGED <<file, pki, complete, call, seen, queue, success, results>>

\* (Variant with a bug: the flag is that of the last node.)
SetNodeRollbackLast(s, n, failed) ==
    [nodes    |-> [s.nodes EXCEPT ![n].failed = failed],
     critical |-> failed]

\* SetNodeRollback
SetNodeRollback(s, n, failed) ==
    [nodes    |-> [s.nodes EXCEPT ![n].failed = failed],
     critical |-> s.critical \/ failed]

---------------------------------------------------------------------------
(* RollbackAll.                                                            *)

\* nodesToRollback: the failed node, then the renewed ones from the last to the
\* first.
ToRollBack(c) == <<c.failed>> \o Reverse(c.renewed)

RollbackAll ==
    /\ pc = "idle"
    /\ call' \in Calls
    /\ seen' = 0 /\ results' = <<>>
    /\ pc' = "list"
    /\ UNCHANGED <<mem, file, pki, complete, queue, success>>

\* (Variant with a bug: a node is compared with the one before it only.)
ListAdjacent ==
    /\ pc = "list"
    /\ LET n == ToRollBack(call)[seen + 1]
       IN  queue' = IF queue # <<>> /\ Last(queue) = n THEN queue ELSE Append(queue, n)
    /\ seen' = seen + 1
    /\ pc' = IF seen' = Len(ToRollBack(call)) THEN "node" ELSE "list"
    /\ UNCHANGED <<mem, file, pki, complete, call, success, results>>

\* The first loop, which fills unique: only the first occurrence of a node is
\* kept.
List ==
    /\ pc = "list"
    /\ LET n == ToRollBack(call)[seen + 1]
       IN  queue' = IF Contains(queue, n) THEN queue ELSE Append(queue, n)
    /\ seen' = seen + 1
    /\ pc' = IF seen' = Len(ToRollBack(call)) THEN "node" ELSE "list"
    /\ UNCHANGED <<mem, file, pki, complete, call, success, results>>

Conclude(outcome) == success' = outcome /\ pc' = "record"

Restoring == pc = "node" /\ mem.nodes[Head(queue)].backup /\ ~call.dry

\* Cleanup or an operator removed the directory of the current node, or files in
\* it, since the backup was made.  (Only Restore reads it; it may be put back
\* before the next call.)
Discard ==
    /\ "discard" \in Faults /\ Restoring
    /\ complete' = FALSE
    /\ UNCHANGED <<mem, file, pki, pc, call, seen, queue, success, results>>

\* The local files after a Restore of n that returns nil: a file that the
\* directory does not have is passed over, even when it has none.  (The nodes
\* have files in common, such as the authorities: all may be n's even so.)
Copied(n) == IF complete \/ pki = n THEN {n} ELSE {pki, n, Mixed}

\* (Variant with a bug: the error of Restore is only logged.)
RestoreErrorIgnored ==
    /\ Restoring
    /\ \/ pki' \in Copied(Head(queue))
       \/ "restore" \in Faults /\ pki' \in {pki, Mixed}
    /\ pc' = "restart"
    /\ UNCHANGED <<mem, file, complete, call, seen, queue, success, results>>

\* rollbackNode: no backup path is an error, and a dry run succeeds.
Lookup ==
    /\ pc = "node"
    /\ \/ ~mem.nodes[Head(queue)].backup /\ Conclude(FALSE)
       \/ mem.nodes[Head(queue)].backup /\ call.dry /\ Conclude(TRUE)
    /\ UNCHANGED <<mem, file, pki, complete, call, seen, queue, results>>

\* backupMgr.Restore, into the local directories whatever the node is.
Restore ==
    /\ Restoring
    /\ \/ pki' \in Copied(Head(queue)) /\ pc' = "restart" /\ success' = success
       \/ "restore" \in Faults /\ pki' \in {pki, Mixed} /\ Conclude(FALSE)
    /\ UNCHANGED <<mem, file, complete, call, seen, queue, results>>

\* restartMgr.RestartAll
Restart ==
    /\ pc = "restart"
    /\ \/ pc' = "health" /\ success' = success
       \/ "restart" \in Faults /\ Conclude(FALSE)
    /\ UNCHANGED <<mem, file, pki, complete, call, seen, queue, results>>

\* CheckAllWithRetry
CheckHealth ==
    /\ pc = "health"
    /\ \/ Conclude(TRUE)
       \/ "health" \in Faults /\ Conclude(FALSE)
    /\ UNCHANGED <<mem, file, pki, complete, call, seen, queue, results>>

\* (Variant with a bug: the loop does not end with the list.)
RecordEndless ==
    /\ pc = "record"
    /\ Save(SetNodeRollback(mem, Head(queue), ~success))
    /\ results' = Append(results, [node |-> Head(queue), success |-> success])
    /\ queue' = Tail(queue)
    /\ pc' = "node" /\ success' = FALSE /\ complete' = TRUE
    /\ UNCHANGED <<pki, call, seen>>

\* The result is appended and recorded, an error of the save is only logged;
\* the next node's turn, whatever became of this one.
Record ==
    /\ pc = "record"
    /\ Save(SetNodeRollback(mem, Head(queue), ~success))
    /\ results' = Append(results, [node |-> Head(queue), success |-> success])
    /\ queue' = Tail(queue)
    /\ pc' = IF Tail(queue) = <<>> THEN "idle" ELSE "node"
    /\ success' = FALSE /\ complete' = TRUE
    /\ UNCHANGED <<pki, call, seen>>

\* The process is killed; a file it was writing may be left incomplete.
Crash ==
    /\ "crash" \in Faults /\ pc # "down"
    /\ file' \in IF pc = "record" THEN {file, Torn} ELSE {file}
    /\ pki'  \in IF Restoring THEN {pki, Mixed} ELSE {pki}
    /\ mem' = New /\ complete' = TRUE
    /\ seen' = 0 /\ queue' = <<>> /\ success' = FALSE /\ results' = <<>>
    /\ pc' = "down"
    /\ UNCHANGED call

Next ==
    \/ \E n \in Nodes : SetNodeBackup(n)
    \/ Reset \/ Load \/ RollbackAll \/ List \/ Lookup \/ Discard \/ Restore
    \/ Restart \/ CheckHealth \/ Record \/ Crash

Spec == Init /\ [][Next]_vars

---------------------------------------------------------------------------
(* What is checked.                                                        *)

\* IsCritical
IsCritical == \E i \in DOMAIN results : ~results[i].success

Returned == pc = "idle" /\ results # <<>>

\* The place of a node in a list, counted from its last occurrence.
Place(s, n) == SelectLastInSeq(s, LAMBDA m : m = n)

\* A call that returns has tried every node exactly once, also after another
\* one failed: first the node that failed, then each renewed node before
\* those renewed before it.  (TestRollbackAll_ReversesOrder and
\* TestRollbackAll_Deduplication, for every list of nodes.)
RollbackOrder ==
    Returned =>
        /\ results[1].node = call.failed
        /\ {results[i].node : i \in DOMAIN results}
               = ToSet(call.renewed) \cup {call.failed}
        /\ \A i, j \in DOMAIN results : i # j => results[i].node # results[j].node
        /\ \A i, j \in DOMAIN results : 1 < i /\ i < j =>
               Place(call.renewed, results[j].node) < Place(call.renewed, results[i].node)

\* The state tells the same story as the results: the nodes whose rollback
\* failed are flagged, and the whole is critical, whatever succeeded later.
StateMatchesResults ==
    Returned =>
        /\ IsCritical => mem.critical
        /\ \A i \in DOMAIN results :
               mem.nodes[results[i].node].failed = ~results[i].success

\* A node whose backup still had its files is reported as rolled back only when
\* the local files are exactly those of its backup.  (One whose backup had not
\* may be reported as rolled back with any files.)
SuccessMeansRestored ==
    pc = "record" /\ success /\ ~call.dry /\ complete => pki = Head(queue)
=============================================================================
