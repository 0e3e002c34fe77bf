-------------------------- MODULE WorkQueueProofs --------------------------
(* A pod never goes to sleep on an object it should attend to, however many *)
(* operators' requests, refused patches, deletions and restarts there are.  *)
EXTENDS WorkQueue, TLAPS

\* Without anything to deliver the cache is up to date.
Delivered == ~event => cache = server

\* The call that Get began has not caused an event, or been overtaken by one,
\* only as long as the phase was Detecting already; the phase Renewing is a
\* change in any case.
Awake ==
    /\ pc = "started" => event \/ again \/ cfg = server.phase
    /\ pc \in {"detect", "settle", "announce"} =>
         event \/ again \/ (cfg = "Detecting" /\ server.phase = "Detecting")
    /\ pc \in {"renew", "finish", "fail", "critical"} => event \/ again

IInv == TypeOK /\ Delivered /\ Awake /\ NeverAsleep

LEMMA InitIInv == Init => IInv
<1> SUFFICES ASSUME Init PROVE IInv
  OBVIOUS
<1>1. 0 \in 0..MaxRevision
  BY RevisionAssumption
<1>2. server \in Object /\ cache \in Object
  BY <1>1 DEF Init, Object, Phases
<1>3. TypeOK
  BY <1>1, <1>2 DEF Init, TypeOK, Phases, Steps
<1> QED
  BY <1>3 DEF Init, IInv, Delivered, Awake, NeverAsleep

LEMMA Objects ==
    ASSUME NEW o \in Object
    PROVE  /\ o.revision \in 0..MaxRevision /\ o.phase \in Phases /\ o.exists \in BOOLEAN
           /\ \A p \in Phases : [o EXCEPT !.phase = p] \in Object
           /\ \A p : [o EXCEPT !.phase = p].phase = p
           /\ \A p : [o EXCEPT !.phase = p] = o => o.phase = p
BY DEF Object

LEMMA ApplyStep ==
    ASSUME TypeOK, Delivered, NEW p \in Phases, Apply(p)
    PROVE  /\ server' \in Object /\ event' \in BOOLEAN
           /\ event => event'
           /\ ~event' => server' = server
           /\ server'.phase = IF cfg # p THEN p ELSE server.phase
<1>1. server \in Object /\ server' = Patched(p)
  BY DEF TypeOK, Apply
<1>2. /\ Patched(p) \in Object
      /\ Patched(p).phase = IF cfg # p THEN p ELSE server.phase
  BY <1>1, Objects DEF Patched
<1>3. event' \in IF server' = server THEN {event, TRUE} ELSE {TRUE}
  BY DEF Apply
<1> QED
  BY <1>1, <1>2, <1>3 DEF TypeOK

LEMMA LogStep ==
    ASSUME TypeOK, Delivered, NEW p \in Phases, PatchOrLog(p)
    PROVE  /\ server' \in Object /\ event' \in BOOLEAN
           /\ event => event'
           /\ ~event' => server' = server
BY ApplyStep DEF PatchOrLog, Refuse, TypeOK

LEMMA DoneTyped ==
    ASSUME TypeOK, Done
    PROVE  /\ pc' \in Steps /\ cfg' \in Phases /\ queued' \in BOOLEAN
           /\ again' \in BOOLEAN /\ pc' = "idle" /\ queued' = again
BY DEF Done, TypeOK, Steps, Phases

\* A call that ends with a requeue.
LEMMA RequeueStep ==
    ASSUME TypeOK, server' \in Object, event' \in BOOLEAN,
           ~event' => server' = server /\ ~event, Delivered,
           ReturnRequeue, UNCHANGED <<cache, acted>>
    PROVE  IInv'
<1>1. TypeOK' /\ pc' = "idle" /\ timer' = TRUE
  BY DoneTyped DEF ReturnRequeue, TypeOK
<1> QED
  BY <1>1 DEF IInv, Delivered, Awake, NeverAsleep

\* A patch whose error is returned.
LEMMA ErrorStep ==
    ASSUME IInv, NEW p \in Phases, NEW step \in Steps \ {"idle"},
           PatchOrError(p, step), UNCHANGED <<cache, acted>>
    PROVE  \/ IInv'
           \/ /\ TypeOK' /\ Delivered' /\ pc' = step /\ again' = again
              /\ cfg' = server'.phase
              /\ server'.phase = IF cfg # p THEN p ELSE server.phase
              /\ event => event'
              /\ ~event' => server' = server
<1> USE DEF IInv
<1>1. CASE (Apply(p) \/ Refuse) /\ ReturnRequeue
  <2>1. /\ server' \in Object /\ event' \in BOOLEAN
        /\ ~event' => server' = server /\ ~event
    BY <1>1, LogStep DEF PatchOrLog, TypeOK
  <2> QED
    BY <1>1, <2>1, RequeueStep
<1>2. CASE Apply(p) /\ pc' = step /\ cfg' = server'.phase /\ UNCHANGED queue
  <2>1. /\ server' \in Object /\ event' \in BOOLEAN
        /\ event => event'
        /\ ~event' => server' = server
        /\ server'.phase = IF cfg # p THEN p ELSE server.phase
    BY <1>2, ApplyStep
  <2>2. TypeOK'
    BY <1>2, <2>1, Objects DEF TypeOK, queue
  <2>3. Delivered'
    BY <2>1 DEF Delivered
  <2> QED
    BY <1>2, <2>1, <2>2, <2>3 DEF queue
<1> QED
  BY <1>1, <1>2 DEF PatchOrError

\* Steps of the world: the call is where it was, and a change is an event.
LEMMA WorldStep ==
    ASSUME IInv, TypeOK', UNCHANGED <<cache, queue, pc, cfg>>, event' = TRUE
    PROVE  IInv'
BY DEF IInv, queue, Delivered, Awake, NeverAsleep

LEMMA RequestStep ==
    ASSUME IInv, NEW new \in Object, new.revision = server.revision, Request(new)
    PROVE  IInv'
<1>1. server.revision + 1 \in 0..MaxRevision
  BY RevisionAssumption, Objects DEF Request, IInv, TypeOK
<1>2. [new EXCEPT !.revision = server.revision + 1] \in Object
  BY <1>1 DEF Object
<1>3. server' = [new EXCEPT !.revision = server.revision + 1]
  BY DEF Request, Object
<1> QED
  BY <1>2, <1>3, WorldStep DEF Request, IInv, TypeOK, queue

LEMMA AddStep ==
    ASSUME IInv, Add, UNCHANGED <<server, pc, cfg, acted>>, timer' \in BOOLEAN,
           \/ cache' = cache /\ event' = event
           \/ cache' = server /\ event' = FALSE
    PROVE  IInv'
<1>1. TypeOK'
  BY DEF Add, IInv, TypeOK
<1>2. Delivered'
  BY DEF IInv, Delivered
<1>3. pc = "idle" => queued' = TRUE
  BY DEF Add
<1>4. pc # "idle" => again' = TRUE
  BY DEF Add
<1> QED
  BY <1>1, <1>2, <1>3, <1>4 DEF IInv, Awake, NeverAsleep

LEMMA NextIInv == IInv /\ [Next]_vars => IInv'
<1> SUFFICES ASSUME IInv, [Next]_vars PROVE IInv'
  OBVIOUS
<1> USE DEF IInv
<1>a. {"Detecting", "Failed", "Idle", "Renewing", "RollingBack", "Critical", cfg}
        \subseteq Phases
  BY DEF Phases, TypeOK
<1>1. CASE Get
  <2>1. cache.phase \in Phases /\ cache.revision \in 0..MaxRevision
        /\ cache.exists \in BOOLEAN
    BY Objects DEF TypeOK
  <2>2. TypeOK'
    BY <1>1, <2>1 DEF Get, TypeOK, Steps
  <2>3. CASE cache.exists /\ cache.phase # "Critical"
    BY <1>1, <2>2, <2>3 DEF Get, Delivered, Awake, NeverAsleep
  <2>4. CASE ~(cache.exists /\ cache.phase # "Critical")
    BY <1>1, <2>2, <2>4 DEF Get, Delivered, Awake, NeverAsleep
  <2> QED
    BY <2>3, <2>4
<1>2. CASE Start
  <2>1. /\ pc = "started" /\ PatchOrError("Detecting", "detect")
        /\ UNCHANGED <<cache, acted>>
    BY <1>2 DEF Start
  <2>2. \/ IInv'
        \/ /\ TypeOK' /\ Delivered' /\ pc' = "detect" /\ again' = again
           /\ cfg' = server'.phase
           /\ server'.phase = IF cfg # "Detecting" THEN "Detecting" ELSE server.phase
           /\ event => event'
           /\ ~event' => server' = server
    BY <1>a, <2>1, ErrorStep DEF Steps
  <2> QED
    BY <2>1, <2>2 DEF Awake, NeverAsleep
<1>3. CASE Detect
  <2>1. pc = "detect" /\ UNCHANGED <<cache, acted>>
    BY <1>3 DEF Detect
  <2>2. CASE PatchOrLog("Failed") /\ ReturnRequeue
    BY <1>a, <2>1, <2>2, LogStep, RequeueStep
  <2>3. ASSUME NEW step \in {"settle", "announce"}, PatchOrError(cfg, step)
        PROVE  IInv'
    <3>1. \/ IInv'
          \/ /\ TypeOK' /\ Delivered' /\ pc' = step /\ again' = again
             /\ cfg' = server'.phase
             /\ server'.phase = server.phase
             /\ event => event'
             /\ ~event' => server' = server
      BY <1>a, <2>1, <2>3, ErrorStep DEF Steps
    <3> QED
      BY <2>1, <3>1 DEF Awake, NeverAsleep
  <2> QED
    BY <1>3, <2>2, <2>3 DEF Detect
<1>4. CASE Settle
  BY <1>4, <1>a, LogStep, RequeueStep DEF Settle
<1>5. CASE Announce
  <2>1. /\ pc = "announce" /\ PatchOrError("Renewing", "renew")
        /\ UNCHANGED <<cache, acted>>
    BY <1>5 DEF Announce
  <2>2. \/ IInv'
        \/ /\ TypeOK' /\ Delivered' /\ pc' = "renew" /\ again' = again
           /\ cfg' = server'.phase
           /\ server'.phase = IF cfg # "Renewing" THEN "Renewing" ELSE server.phase
           /\ event => event'
           /\ ~event' => server' = server
    BY <1>a, <2>1, ErrorStep DEF Steps
  <2> QED
    BY <2>1, <2>2 DEF Awake, NeverAsleep
<1>6. CASE Renew
  <2>1. /\ server' \in Object /\ event' \in BOOLEAN
        /\ event => event'
        /\ ~event' => server' = server
    BY <1>6, <1>a, LogStep DEF Renew
  <2>2. /\ pc = "renew" /\ pc' \in {"finish", "fail"}
        /\ UNCHANGED <<cache, queue, cfg, acted>>
    BY <1>6 DEF Renew
  <2>3. TypeOK'
    BY <2>1, <2>2 DEF TypeOK, queue, Steps
  <2> QED
    BY <2>1, <2>2, <2>3 DEF Delivered, Awake, NeverAsleep, queue
<1>7. CASE Finish
  BY <1>7, <1>a, LogStep, RequeueStep DEF Finish
<1>8. CASE Fail
  <2>1. /\ server' \in Object /\ event' \in BOOLEAN
        /\ event => event'
        /\ ~event' => server' = server
    BY <1>8, <1>a, LogStep DEF Fail
  <2>2. /\ pc = "fail" /\ pc' = "critical" /\ cfg' = "RollingBack"
        /\ UNCHANGED <<cache, queue, acted>>
    BY <1>8 DEF Fail
  <2>3. TypeOK'
    BY <1>a, <2>1, <2>2 DEF TypeOK, queue, Steps
  <2> QED
    BY <2>1, <2>2, <2>3 DEF Delivered, Awake, NeverAsleep, queue
<1>9. CASE DeclareCritical
  <2>1. /\ server' \in Object /\ event' \in BOOLEAN
        /\ event => event'
        /\ ~event' => server' = server
    BY <1>9, <1>a, LogStep DEF DeclareCritical
  <2>2. pc = "critical" /\ ReturnNothing /\ UNCHANGED <<cache, acted>>
    BY <1>9 DEF DeclareCritical
  <2>3. /\ TypeOK' /\ pc' = "idle" /\ queued' = again
    BY <2>1, <2>2, DoneTyped DEF ReturnNothing, TypeOK
  <2> QED
    BY <2>1, <2>2, <2>3 DEF Delivered, Awake, NeverAsleep
<1>10. CASE Restart
  <2>1. server.exists \in BOOLEAN
    BY Objects DEF TypeOK
  <2> QED
    BY <1>10, <2>1 DEF Restart, TypeOK, Steps, Phases, Delivered, Awake, NeverAsleep
<1>11. CASE Deliver
  BY <1>11, AddStep DEF Deliver, TypeOK
<1>12. CASE TimerFires
  BY <1>12, AddStep DEF TimerFires
<1>13. CASE Resync
  BY <1>13, AddStep DEF Resync, TypeOK
<1>14. CASE OthersPatch
  <2>1. TypeOK'
    BY <1>14 DEF OthersPatch, TypeOK, queue
  <2> QED
    BY <1>14, <2>1, WorldStep DEF OthersPatch
<1>15. CASE Edit
  BY <1>15, RequestStep DEF Edit, TypeOK
<1>16. CASE ClearCritical
  <2>1. PICK p \in {"Idle", "None"} : Request([server EXCEPT !.phase = p])
    BY <1>16 DEF ClearCritical
  <2>2. /\ [server EXCEPT !.phase = p] \in Object
        /\ [server EXCEPT !.phase = p].revision = server.revision
    BY DEF TypeOK, Object, Phases
  <2> QED
    BY <2>1, <2>2, RequestStep
<1>17. CASE Delete
  <2>1. /\ [server EXCEPT !.exists = FALSE, !.phase = "None"] \in Object
        /\ [server EXCEPT !.exists = FALSE, !.phase = "None"].revision = server.revision
    BY DEF TypeOK, Object, Phases
  <2> QED
    BY <1>17, <2>1, RequestStep DEF Delete
<1>18. CASE Create
  <2>1. /\ [server EXCEPT !.exists = TRUE] \in Object
        /\ [server EXCEPT !.exists = TRUE].revision = server.revision
    BY DEF TypeOK, Object
  <2> QED
    BY <1>18, <2>1, RequestStep DEF Create
<1>19. CASE UNCHANGED vars
  BY <1>19 DEF vars, queue, TypeOK, Delivered, Awake, NeverAsleep
<1> QED
  BY <1>1, <1>2, <1>3, <1>4, <1>5, <1>6, <1>7, <1>8, <1>9, <1>10, <1>11, <1>12,
     <1>13, <1>14, <1>15, <1>16, <1>17, <1>18, <1>19 DEF Next, Worker

LEMMA AlwaysIInv == Spec => []IInv
BY InitIInv, NextIInv, PTL DEF Spec

\* The object, its copies and the queue keep their types, for every number of
\* requests.
THEOREM TypeCorrect == Spec => []TypeOK
BY AlwaysIInv, PTL DEF IInv

\* Whenever no call runs and the object is there and not Critical, a call is
\* queued, timed or will be caused by an event.
THEOREM NeverGoesToSleep == Spec => []NeverAsleep
BY AlwaysIInv, PTL DEF IInv
=============================================================================
