----------------------------- MODULE WorkQueue -----------------------------
(***************************************************************************)
(* When Reconcile is called: one CertRotationConfig, the informer cache    *)
(* and the work queue of one pod (controller-runtime v0.17, client-go      *)
(* v0.29), and the events that the pod's own status patches cause.         *)
(*                                                                         *)
(* The call of Reconcile is Reconciler.tla's, with what it does to files   *)
(* left to chance.  Of the object only what an operator asked for last (a  *)
(* counter) and the phase of this pod's entry are told apart; a change of  *)
(* anything else is an event.  The durations of requeues are not compared: *)
(* one pending timer stands for the soonest of those added.                *)
(***************************************************************************)
EXTENDS Naturals

CONSTANT MaxRevision \* bound on the requests of operators

ASSUME RevisionAssumption == MaxRevision \in Nat

Phases == {"None", "Idle", "Detecting", "Renewing", "RollingBack", "Failed",
           "Critical"}

Object == [revision : 0..MaxRevision, phase : Phases, exists : BOOLEAN]

VARIABLES
    server,  \* the object at the API server
    cache,   \* the object in the informer cache
    event,   \* has the watch something to deliver?
    queued,  \* is the object in the queue?
    again,   \* was it added while it is being processed?
    timer,   \* is an AddAfter or AddRateLimited pending?
    pc,      \* where Reconcile is
    cfg,     \* the phase in the cfg object of the call
    acted    \* the newest revision that a call read and worked on

queue == <<queued, again, timer>>
vars  == <<server, cache, event, queued, again, timer, pc, cfg, acted>>

Steps == {"idle", "started", "detect", "settle", "announce", "renew", "finish",
          "fail", "critical"}

TypeOK ==
    /\ server \in Object /\ cache \in Object
    /\ event \in BOOLEAN
    /\ queued \in BOOLEAN /\ again \in BOOLEAN /\ timer \in BOOLEAN
    /\ pc \in Steps
    /\ cfg \in Phases
    /\ acted \in 0..MaxRevision

Init ==
    /\ server = [revision |-> 0, phase |-> "None", exists |-> TRUE]
    /\ cache = server
    /\ event = FALSE
    /\ queued = TRUE /\ again = FALSE /\ timer = FALSE
    /\ pc = "idle" /\ cfg = "None" /\ acted = 0

---------------------------------------------------------------------------
(* The queue.                                                              *)

\* Add: an object that is being processed is queued again when that is done.
Add ==
    IF pc = "idle" THEN queued' = TRUE /\ UNCHANGED again
                   ELSE again' = TRUE /\ UNCHANGED queued

\* (Variant with a bug: the phase in the copy is forgotten.)
DoneUnset == pc' = "idle" /\ cfg' = "" /\ queued' = again /\ again' = FALSE

\* The call returns, Done queues the object if it was added meanwhile.
Done == pc' = "idle" /\ cfg' = "None" /\ queued' = again /\ again' = FALSE

\* Result{RequeueAfter} or an error: called again after some time.
ReturnRequeue == Done /\ timer' = TRUE

\* Result{} without an error: nothing is added.
ReturnNothing == Done /\ UNCHANGED timer

---------------------------------------------------------------------------
(* Status patches.                                                         *)

\* What a patch of the own phase leaves at the server: only a phase that the
\* call changed is sent.
Patched(phase) ==
    [server EXCEPT !.phase = IF cfg # phase THEN phase ELSE @]

\* The patch is applied.  The time stamps and conditions sent with it may
\* change the object even if the phase does not.
Apply(phase) ==
    /\ server.exists
    /\ server' = Patched(phase)
    /\ event' \in IF server' = server THEN {event, TRUE} ELSE {TRUE}

\* The patch is refused; on an object that was deleted it always is.
Refuse == UNCHANGED <<server, event>>

\* A patch whose error is returned: without one the call goes on at step.
PatchOrError(phase, step) ==
    \/ /\ Apply(phase) /\ pc' = step /\ cfg' = server'.phase
       /\ UNCHANGED queue
    \/ (Apply(phase) \/ Refuse) /\ ReturnRequeue

\* A patch whose error is only logged.
PatchOrLog(phase) == Apply(phase) \/ Refuse

---------------------------------------------------------------------------
(* Reconcile.                                                              *)

\* (Variant with a bug: NotFound is an error like every other.)
GetNotFoundRetried ==
    /\ pc = "idle" /\ queued
    /\ queued' = FALSE
    /\ IF cache.exists /\ cache.phase # "Critical"
       THEN /\ pc' = "started" /\ cfg' = cache.phase
            /\ acted' = IF acted > cache.revision THEN acted ELSE cache.revision
            /\ UNCHANGED timer
       ELSE timer' = TRUE /\ UNCHANGED <<pc, cfg, acted>>
    /\ UNCHANGED <<server, cache, event, again>>

\* The worker takes the object, and Get reads it from the cache.  NotFound ends
\* the call for good; a Critical entry is looked at again in an hour.
Get ==
    /\ pc = "idle" /\ queued
    /\ queued' = FALSE
    /\ IF cache.exists /\ cache.phase # "Critical"
       THEN /\ pc' = "started" /\ cfg' = cache.phase
            /\ acted' = IF acted > cache.revision THEN acted ELSE cache.revision
            /\ UNCHANGED timer
       ELSE timer' = (timer \/ cache.exists) /\ UNCHANGED <<pc, cfg, acted>>
    /\ UNCHANGED <<server, cache, event, again>>

\* (Variant with a bug: the error is logged and nil returned.)
StartDropsError ==
    /\ pc = "started"
    /\ \/ /\ Apply("Detecting") /\ pc' = "detect" /\ cfg' = server'.phase
          /\ UNCHANGED queue
       \/ (Apply("Detecting") \/ Refuse) /\ ReturnNothing
    /\ UNCHANGED <<cache, acted>>

Start ==
    /\ pc = "started"
    /\ PatchOrError("Detecting", "detect")
    /\ UNCHANGED <<cache, acted>>

\* Detection fails, or its result is stored.
Detect ==
    /\ pc = "detect"
    /\ \/ PatchOrLog("Failed") /\ ReturnRequeue
       \/ \E step \in {"settle", "announce"} : PatchOrError(cfg, step)
    /\ UNCHANGED <<cache, acted>>

Settle ==
    /\ pc = "settle"
    /\ PatchOrLog("Idle") /\ ReturnRequeue
    /\ UNCHANGED <<cache, acted>>

Announce ==
    /\ pc = "announce"
    /\ PatchOrError("Renewing", "renew")
    /\ UNCHANGED <<cache, acted>>

\* runRenewal; its own patch stores the backup path.
Renew ==
    /\ pc = "renew"
    /\ PatchOrLog(cfg)
    /\ pc' \in {"finish", "fail"}
    /\ UNCHANGED <<cache, queue, cfg, acted>>

Finish ==
    /\ pc = "finish"
    /\ PatchOrLog("Idle") /\ ReturnRequeue
    /\ UNCHANGED <<cache, acted>>

\* Phase RollingBack, and a rollback that returns an error.
Fail ==
    /\ pc = "fail"
    /\ PatchOrLog("RollingBack")
    /\ pc' = "critical" /\ cfg' = "RollingBack"
    /\ UNCHANGED <<cache, queue, acted>>

\* Phase Critical, the alert, and no requeue.
DeclareCritical ==
    /\ pc = "critical"
    /\ PatchOrLog("Critical") /\ ReturnNothing
    /\ UNCHANGED <<cache, acted>>

\* The process ends, killed or by the panic of runRollback, and is restarted:
\* the queue is empty and the informer lists what there is.
Restart ==
    /\ pc' = "idle" /\ cfg' = "None"
    /\ cache' = server /\ event' = FALSE
    /\ queued' = server.exists /\ again' = FALSE /\ timer' = FALSE
    /\ UNCHANGED <<server, acted>>

---------------------------------------------------------------------------
(* The world around.                                                       *)

\* (Variant with a bug: a predicate drops the changes of a phase.)
DeliverUnlessPhase ==
    /\ event
    /\ event' = FALSE /\ cache' = server
    /\ IF cache.phase = server.phase \/ cache.exists # server.exists
       THEN Add ELSE UNCHANGED <<queued, again>>
    /\ UNCHANGED <<server, timer, pc, cfg, acted>>

\* The watch delivers the newest object; there is no predicate, so every
\* change of it adds it to the queue.
Deliver ==
    /\ event
    /\ event' = FALSE /\ cache' = server
    /\ Add
    /\ UNCHANGED <<server, timer, pc, cfg, acted>>

TimerFires ==
    /\ timer /\ timer' = FALSE
    /\ Add
    /\ UNCHANGED <<server, cache, event, pc, cfg, acted>>

\* The informer's resync, every ten hours.
Resync ==
    /\ cache.exists
    /\ Add
    /\ UNCHANGED <<server, cache, event, timer, pc, cfg, acted>>

\* The pods of the other nodes patch their entries.
OthersPatch ==
    /\ server.exists /\ event' = TRUE
    /\ UNCHANGED <<server, cache, queue, pc, cfg, acted>>

\* An operator edits the spec, clears a Critical entry, deletes the object or
\* creates it anew.
Request(new) ==
    /\ server.revision < MaxRevision
    /\ server' = [new EXCEPT !.revision = @ + 1]
    /\ event' = TRUE
    /\ UNCHANGED <<cache, queue, pc, cfg, acted>>

Edit == server.exists /\ Request(server)

ClearCritical ==
    /\ server.exists /\ server.phase = "Critical"
    /\ \E p \in {"Idle", "None"} : Request([server EXCEPT !.phase = p])

Delete == server.exists /\ Request([server EXCEPT !.exists = FALSE, !.phase = "None"])

Create == ~server.exists /\ Request([server EXCEPT !.exists = TRUE])

---------------------------------------------------------------------------
Worker ==
    \/ Get \/ Start \/ Detect \/ Settle \/ Announce \/ Renew \/ Finish
    \/ Fail \/ DeclareCritical

Next ==
    \/ Worker \/ Restart
    \/ Deliver \/ TimerFires \/ Resync
    \/ OthersPatch \/ Edit \/ ClearCritical \/ Delete \/ Create

\* The worker runs, the watch delivers and timers fire.  Nothing is asked of
\* operators, of the other pods, of restarts or of the resync.
Fairness == WF_vars(Worker) /\ WF_vars(Deliver) /\ WF_vars(TimerFires)

Spec == Init /\ [][Next]_vars /\ Fairness

---------------------------------------------------------------------------
\* A pod never goes to sleep on an object it should attend to: whenever no call
\* is running and the object is there and not Critical, a call is queued, timed
\* or will be caused by an event.  A call that ends without a requeue (a patch
\* of Critical that is refused, controller line 149) is no exception.
NeverAsleep ==
    pc = "idle" /\ cache.exists /\ cache.phase # "Critical" =>
        queued \/ timer \/ event

\* What an operator asked for (an edit, a cleared node, a new object) is worked
\* on by a later call, unless another request or Critical comes before it.
RequestServed ==
    \A r \in 1..MaxRevision :
        server.exists /\ server.revision = r
            ~> acted >= r \/ server.phase = "Critical" \/ ~server.exists

\* Calls do not end: as long as the object is there and not Critical, there is
\* always another call.  (What WF of the program stands for in Reconciler.)
Attended ==
    [](server.exists /\ server.phase # "Critical")
        => []<>(pc = "idle") /\ []<>(pc # "idle")

\* An object that is deleted for good is left alone in the end: no call, no
\* queue, no timer.
DeletionQuiets ==
    <>[](~server.exists) =>
        <>[](pc = "idle" /\ ~queued /\ ~timer)
=============================================================================
