--------------------------- MODULE RollbackProofs ---------------------------
(***************************************************************************)
(* For every set of nodes, every list of renewed nodes and every kind of   *)
(* failure: each node is tried once and in its turn, the state tells what  *)
(* became of it, and a node whose backup still has its files is reported as *)
(* rolled back only with its own files.                                    *)
(***************************************************************************)
EXTENDS Rollback, FiniteSetTheorems, TLAPS

\* What RollbackAll is doing once the list is made.
Running == {"node", "restart", "health", "record"}

---------------------------------------------------------------------------
(* Types.                                                                  *)

\* A new state is a State, and is not critical.
LEMMA NewFacts == New \in State /\ ~New.critical
BY DEF New, State, NodeState, Unrecorded

\* The operations on a state give a state.
LEMMA StateFacts ==
    ASSUME NEW s \in State
    PROVE  /\ \A n \in Nodes : [s EXCEPT !.nodes[n].backup = TRUE] \in State
           /\ \A n : \A failed \in BOOLEAN : SetNodeRollback(s, n, failed) \in State
<1>1. ASSUME NEW n \in Nodes PROVE [s EXCEPT !.nodes[n].backup = TRUE] \in State
  BY DEF State, NodeState
<1>2. ASSUME NEW n, NEW failed \in BOOLEAN
      PROVE  SetNodeRollback(s, n, failed) \in State
  BY DEF SetNodeRollback, State, NodeState
<1> QED
  BY <1>1, <1>2

\* The list of nodes to roll back: the failed one, then the renewed ones from
\* the last to the first.
LEMMA ListFacts ==
    ASSUME NEW c \in Calls
    PROVE  /\ c.failed \in Nodes
           /\ c.renewed \in Seq(Nodes) /\ Len(c.renewed) \in 0..MaxRenewed
           /\ ToRollBack(c) \in Seq(Nodes)
           /\ Len(ToRollBack(c)) = Len(c.renewed) + 1
           /\ DOMAIN ToRollBack(c) = 1..Len(c.renewed) + 1
           /\ ToRollBack(c)[1] = c.failed
           /\ \A p \in 2..Len(c.renewed) + 1 :
                  ToRollBack(c)[p] = c.renewed[Len(c.renewed) + 2 - p]
<1> DEFINE r == c.renewed
<1>1. c.failed \in Nodes
  BY DEF Calls
<1>2. r \in Seq(Nodes) /\ Len(r) \in 0..MaxRenewed
  <2>1. PICK m \in 0..MaxRenewed : r \in [1..m -> Nodes]
    BY DEF Calls, BoundedSeq, SeqOf
  <2>2. r \in Seq(Nodes) /\ Len(r) = m
    BY <2>1, RollbackAssumption
  <2> QED
    BY <2>2
<1>3. /\ Reverse(r) \in Seq(Nodes) /\ Len(Reverse(r)) = Len(r)
      /\ \A i \in 1..Len(r) : Reverse(r)[i] = r[Len(r) - i + 1]
  <2>1. Reverse(r) \in [1..Len(r) -> Nodes]
    BY <1>2 DEF Reverse
  <2>2. \A i \in 1..Len(r) : Reverse(r)[i] = r[Len(r) - i + 1]
    BY DEF Reverse
  <2> QED
    BY <1>2, <2>1, <2>2
<1>4. <<c.failed>> \in Seq(Nodes) /\ Len(<<c.failed>>) = 1
  BY <1>1
<1> HIDE DEF r
<1>5. /\ ToRollBack(c) \in Seq(Nodes)
      /\ Len(ToRollBack(c)) = Len(r) + 1
      /\ DOMAIN ToRollBack(c) = 1..Len(r) + 1
      /\ ToRollBack(c)[1] = c.failed
  BY <1>2, <1>3, <1>4 DEF ToRollBack, r
<1>6. ASSUME NEW p \in 2..Len(r) + 1 PROVE ToRollBack(c)[p] = r[Len(r) + 2 - p]
  <2>1. p - 1 \in 1..Len(r) /\ Len(r) - (p - 1) + 1 = Len(r) + 2 - p
    BY <1>2
  <2>2. ToRollBack(c)[p] = Reverse(r)[p - 1]
    BY <1>2, <1>3, <1>4, <2>1 DEF ToRollBack, r
  <2> QED
    BY <1>3, <2>1, <2>2
<1> QED
  BY <1>1, <1>2, <1>5, <1>6 DEF r

\* A result names a node.
LEMMA ResultFacts ==
    ASSUME TypeOK, NEW i \in DOMAIN results
    PROVE  results[i] \in [node : Nodes, success : BOOLEAN] /\ results[i].node \in Nodes
<1> DEFINE Result == [node : Nodes, success : BOOLEAN]
<1>1. results \in Seq(Result) /\ i \in 1..Len(results)
  BY DEF TypeOK
<1> HIDE DEF Result
<1>2. results[i] \in Result
  BY <1>1
<1> QED
  BY <1>2 DEF Result

LEMMA NextTypeOK ==
    ASSUME TypeOK, pc = "list" => seen < Len(ToRollBack(call)), [Next]_vars
    PROVE  TypeOK'
<1> USE RollbackAssumption DEF TypeOK
<1>1. ASSUME NEW n \in Nodes, SetNodeBackup(n) PROVE TypeOK'
  BY <1>1, StateFacts DEF SetNodeBackup, Save
<1>1a. ASSUME Discard PROVE TypeOK'
  BY <1>1a DEF Discard
<1>2. ASSUME Reset PROVE TypeOK'
  BY <1>2, NewFacts DEF Reset, Save
<1>3. ASSUME Load PROVE TypeOK'
  BY <1>3 DEF Load
<1>4. ASSUME RollbackAll PROVE TypeOK'
  BY <1>4 DEF RollbackAll
<1>5. ASSUME List PROVE TypeOK'
  <2>1. seen + 1 \in DOMAIN ToRollBack(call) /\ ToRollBack(call)[seen + 1] \in Nodes
    BY <1>5, ListFacts DEF List
  <2>2. /\ queue' \in {queue, Append(queue, ToRollBack(call)[seen + 1])}
        /\ seen' = seen + 1 /\ pc' \in {"list", "node"}
        /\ UNCHANGED <<mem, file, pki, complete, call, success, results>>
    BY <1>5 DEF List
  <2>3. queue' # <<>>
    <3>1. CASE Contains(queue, ToRollBack(call)[seen + 1])
      BY <1>5, <3>1 DEF List, Contains
    <3>2. CASE ~Contains(queue, ToRollBack(call)[seen + 1])
      BY <1>5, <2>1, <3>2 DEF List
    <3> QED
      BY <3>1, <3>2
  <2>4. seen' \in 0..MaxRenewed + 1
    BY <2>1, <2>2, ListFacts
  <2>5. queue' \in Seq(Nodes)
    BY <2>1, <2>2
  <2> QED
    BY <2>2, <2>3, <2>4, <2>5
<1>6. ASSUME Lookup PROVE TypeOK'
  BY <1>6 DEF Lookup, Conclude
<1>7. ASSUME Restore PROVE TypeOK'
  <2>1. Head(queue) \in Nodes
    BY <1>7 DEF Restore, Restoring
  <2>2. Copied(Head(queue)) \subseteq Nodes \cup {Mixed, Original}
    BY <2>1 DEF Copied
  <2> QED
    BY <1>7, <2>1, <2>2 DEF Restore, Restoring, Conclude
<1>8. ASSUME Restart PROVE TypeOK'
  BY <1>8 DEF Restart, Conclude
<1>9. ASSUME CheckHealth PROVE TypeOK'
  BY <1>9 DEF CheckHealth, Conclude
<1>10. ASSUME Record PROVE TypeOK'
  <2>1. Head(queue) \in Nodes /\ Tail(queue) \in Seq(Nodes)
    BY <1>10 DEF Record
  <2>2. mem' \in State
    <3>1. mem' = SetNodeRollback(mem, Head(queue), ~success)
      BY <1>10 DEF Record, Save
    <3>2. (~success) \in BOOLEAN
      OBVIOUS
    <3> QED
      BY <3>1, <3>2, StateFacts
  <2>3. file' \in {mem', file, Torn}
    BY <1>10 DEF Record, Save
  <2>4. results' \in Seq([node : Nodes, success : BOOLEAN])
    BY <1>10, <2>1 DEF Record
  <2>5. /\ queue' = Tail(queue) /\ success' = FALSE /\ complete' = TRUE
        /\ pc' = IF Tail(queue) = <<>> THEN "idle" ELSE "node"
        /\ UNCHANGED <<pki, call, seen>>
    BY <1>10 DEF Record
  <2> QED
    BY <2>1, <2>2, <2>3, <2>4, <2>5
<1>11. ASSUME Crash PROVE TypeOK'
  <2>1. /\ file' \in {file, Torn} /\ pki' \in {pki, Mixed} /\ mem' = New /\ complete' = TRUE
        /\ seen' = 0 /\ queue' = <<>> /\ success' = FALSE /\ results' = <<>>
        /\ pc' = "down" /\ UNCHANGED call
    BY <1>11 DEF Crash
  <2>2. mem' \in State /\ file' \in State \cup {Torn}
    BY <2>1, NewFacts
  <2>3. pki' \in Nodes \cup {Mixed, Original} /\ seen' \in 0..MaxRenewed + 1
    BY <2>1
  <2>4. call' \in Calls /\ success' \in BOOLEAN
    BY <2>1
  <2>5. queue' \in Seq(Nodes) /\ results' \in Seq([node : Nodes, success : BOOLEAN])
    BY <2>1
  <2> QED
    BY <2>1, <2>2, <2>3, <2>4, <2>5
<1>12. ASSUME UNCHANGED vars PROVE TypeOK'
  BY <1>12 DEF vars
<1> QED
  BY <1>1, <1>1a, <1>2, <1>3, <1>4, <1>5, <1>6, <1>7, <1>8, <1>9, <1>10, <1>11,
     <1>12 DEF Next

---------------------------------------------------------------------------
(* The order.                                                              *)

\* In the list of the call c, m has its first place before every place of n.
Before(c, m, n) ==
    \E p \in DOMAIN ToRollBack(c) :
        /\ ToRollBack(c)[p] = m
        /\ \A q \in DOMAIN ToRollBack(c) : ToRollBack(c)[q] = n => p < q

\* The nodes that have a result, and those whose turn is still to come.
Tried  == {results[i].node : i \in DOMAIN results}
Queued == {queue[i] : i \in DOMAIN queue}

\* The nodes that the first loop has looked at.
Seen == {ToRollBack(call)[p] :
            p \in 1..IF pc = "list" THEN seen ELSE Len(ToRollBack(call))}

\* How far the call is.
Phases ==
    /\ pc = "list" => results = <<>> /\ seen < Len(ToRollBack(call))
    /\ pc = "down" => results = <<>>

\* Each node of the list is tried or queued, once, in the order of its first
\* place, and the failed node is the first.
Turns ==
    /\ pc \in {"list"} \cup Running \/ Returned => Tried \cup Queued = Seen
    /\ \A i, j \in DOMAIN results : i < j => Before(call, results[i].node, results[j].node)
    /\ \A i \in DOMAIN results, j \in DOMAIN queue : Before(call, results[i].node, queue[j])
    /\ \A i, j \in DOMAIN queue : i < j => Before(call, queue[i], queue[j])
    /\ results # <<>> => results[1].node = call.failed
    /\ results = <<>> /\ queue # <<>> => queue[1] = call.failed

\* A node comes before none of its own places.
LEMMA BeforeIrreflexive ==
    ASSUME NEW c \in Calls, NEW n
    PROVE  ~Before(c, n, n)
BY ListFacts DEF Before

LEMMA NextPhases ==
    ASSUME TypeOK, Phases, [Next]_vars
    PROVE  Phases'
<1> USE DEF Phases
<1>1. ASSUME RollbackAll PROVE Phases'
  <2>1. /\ call' \in Calls /\ seen' = 0 /\ results' = <<>> /\ pc' = "list"
    BY <1>1 DEF RollbackAll
  <2>2. Len(ToRollBack(call')) > 0
    BY <2>1, ListFacts
  <2> QED
    BY <2>1, <2>2
<1>2. ASSUME List PROVE Phases'
  <2>1. call \in Calls /\ seen \in Nat
    BY RollbackAssumption DEF TypeOK
  <2>2. Len(ToRollBack(call)) \in Nat
    BY <2>1, ListFacts
  <2> QED
    BY <1>2, <2>1, <2>2 DEF List
<1>3. ASSUME NEW n \in Nodes, SetNodeBackup(n) PROVE Phases'
  BY <1>3 DEF SetNodeBackup
<1>4. ASSUME Reset \/ Load \/ Lookup \/ Discard \/ Restore \/ Restart \/ CheckHealth
             \/ Record \/ Crash
      PROVE  Phases'
  BY <1>4 DEF Reset, Load, Lookup, Discard, Restore, Restoring, Restart, CheckHealth, Record,
              Crash, Conclude
<1>5. ASSUME UNCHANGED vars PROVE Phases'
  BY <1>5 DEF vars
<1> QED
  BY <1>1, <1>2, <1>3, <1>4, <1>5 DEF Next

\* The first loop looks at one more node, and queues it if it is new.
LEMMA ListTurns ==
    ASSUME TypeOK, Phases, Turns, List
    PROVE  Turns'
<1> DEFINE L == ToRollBack(call)
           n == L[seen + 1]
<1>1. /\ call \in Calls /\ seen \in Nat /\ queue \in Seq(Nodes)
      /\ results = <<>> /\ seen < Len(L)
  BY RollbackAssumption DEF TypeOK, Phases, List
<1>2. /\ L \in Seq(Nodes) /\ Len(L) \in Nat /\ DOMAIN L = 1..Len(L)
      /\ L[1] = call.failed
  BY <1>1, ListFacts
<1>3. /\ seen' = seen + 1 /\ results' = <<>> /\ call' = call
      /\ pc' = IF seen + 1 = Len(L) THEN "node" ELSE "list"
      /\ queue' = IF Contains(queue, n) THEN queue ELSE Append(queue, n)
  BY <1>1 DEF List
<1>4. /\ Queued = {L[p] : p \in 1..seen}
      /\ \A i, j \in DOMAIN queue : i < j => Before(call, queue[i], queue[j])
      /\ queue # <<>> => queue[1] = call.failed
  <2>1. Tried = {}
    BY <1>1 DEF Tried
  <2> QED
    BY <1>1, <2>1 DEF Turns, Seen, List
<1>5. Seen' = {L[p] : p \in 1..seen + 1}
  BY <1>3 DEF Seen
<1>6. Tried' = {}
  BY <1>3 DEF Tried
<1> HIDE DEF L
<1>7. CASE Contains(queue, n)
  <2>1. queue' = queue /\ n \in Queued
    BY <1>1, <1>3, <1>7 DEF Contains, Queued
  <2>2. Queued' = Seen'
    <3>1. {L[p] : p \in 1..seen + 1} = {L[p] : p \in 1..seen} \cup {n}
      BY <1>1
    <3> QED
      BY <1>4, <1>5, <2>1, <3>1 DEF Queued
  <2> QED
    BY <1>3, <1>4, <1>6, <2>1, <2>2 DEF Turns
<1>8. CASE ~Contains(queue, n)
  <2>1. queue' = Append(queue, n) /\ n \notin Queued
    BY <1>1, <1>3, <1>8 DEF Contains, Queued
  <2>2. /\ Len(queue') = Len(queue) + 1 /\ queue'[Len(queue) + 1] = n
        /\ \A i \in 1..Len(queue) : queue'[i] = queue[i]
        /\ DOMAIN queue' = 1..Len(queue) + 1 /\ DOMAIN queue = 1..Len(queue)
        /\ Len(queue) \in Nat
    BY <1>1, <1>2, <2>1
  <2>3. Queued' = Seen'
    <3>1. {L[p] : p \in 1..seen + 1} = {L[p] : p \in 1..seen} \cup {n}
      BY <1>1
    <3>2. Queued' = Queued \cup {n}
      BY <2>2 DEF Queued
    <3> QED
      BY <1>4, <1>5, <3>1, <3>2
  <2>4. ASSUME NEW m \in Queued PROVE Before(call, m, n)
    <3>1. PICK p \in 1..seen : L[p] = m
      BY <1>4, <2>4
    <3>2. p \in DOMAIN L
      BY <1>1, <1>2, <3>1
    <3>3. ASSUME NEW q \in DOMAIN L, L[q] = n PROVE p < q
      <4>1. q \notin 1..seen
        BY <1>4, <2>1, <3>3
      <4> QED
        BY <1>1, <1>2, <3>1, <4>1
    <3> QED
      BY <3>1, <3>2, <3>3 DEF Before, L
  <2>5. \A i, j \in DOMAIN queue' : i < j => Before(call, queue'[i], queue'[j])
    <3> SUFFICES ASSUME NEW i \in DOMAIN queue', NEW j \in DOMAIN queue', i < j
                 PROVE  Before(call, queue'[i], queue'[j])
      OBVIOUS
    <3>1. i \in DOMAIN queue /\ queue'[i] = queue[i] /\ queue[i] \in Queued
      BY <2>2 DEF Queued
    <3>2. CASE j = Len(queue) + 1
      BY <2>2, <2>4, <3>1, <3>2
    <3>3. CASE j # Len(queue) + 1
      BY <1>4, <2>2, <3>1, <3>3
    <3> QED
      BY <3>2, <3>3
  <2>6. queue'[1] = call.failed
    <3>1. CASE queue = <<>>
      <4>1. seen = 0
        <5>1. Queued = {}
          BY <3>1 DEF Queued
        <5>2. seen # 0 => L[1] \in {L[p] : p \in 1..seen}
          BY <1>1
        <5> QED
          BY <1>4, <5>1, <5>2
      <4> QED
        BY <1>2, <2>2, <3>1, <4>1
    <3>2. CASE queue # <<>>
      BY <1>1, <1>4, <2>2, <3>2
    <3> QED
      BY <3>1, <3>2
  <2> QED
    BY <1>3, <1>6, <2>3, <2>5, <2>6 DEF Turns
<1> QED
  BY <1>7, <1>8

\* The current node gets its result, and the others stay behind it.
LEMMA RecordTurns ==
    ASSUME TypeOK, Turns, Record
    PROVE  Turns'
<1> DEFINE k == Len(results)
           h == queue[1]
<1>1. /\ queue \in Seq(Nodes) /\ queue # <<>> /\ pc = "record"
      /\ results \in Seq([node : Nodes, success : BOOLEAN])
  BY DEF TypeOK, Record
<1>2. /\ queue' = Tail(queue) /\ call' = call
      /\ results' = Append(results, [node |-> h, success |-> success])
      /\ pc' \in {"idle", "node"}
  BY <1>1 DEF Record
<1>3. /\ k \in Nat /\ DOMAIN results = 1..k /\ DOMAIN results' = 1..k + 1
      /\ \A i \in 1..k : results'[i] = results[i]
      /\ results'[k + 1].node = h /\ results' # <<>>
  BY <1>1, <1>2
<1>4. /\ Len(queue) \in Nat /\ DOMAIN queue = 1..Len(queue) /\ 1 \in DOMAIN queue
      /\ DOMAIN queue' = 1..Len(queue) - 1
      /\ \A i \in DOMAIN queue' : i + 1 \in DOMAIN queue /\ queue'[i] = queue[i + 1]
  BY <1>1, <1>2
<1> HIDE DEF k, h
<1>5. Tried' \cup Queued' = Tried \cup Queued
  <2>1. Tried' = Tried \cup {h}
    BY <1>3 DEF Tried
  <2>2. Queued = Queued' \cup {h}
    <3>1. \A i \in DOMAIN queue : i = 1 \/ i - 1 \in DOMAIN queue'
      BY <1>4
    <3>2. \A i \in DOMAIN queue : i # 1 => queue[i] = queue'[i - 1]
      BY <1>4, <3>1
    <3> QED
      BY <1>4, <3>1, <3>2 DEF Queued, h
  <2> QED
    BY <2>1, <2>2
<1>6. Seen' = Seen
  BY <1>1, <1>2 DEF Seen
<1>7. Tried \cup Queued = Seen
  BY <1>1 DEF Turns, Running
<1>8. \A i, j \in DOMAIN results' :
          i < j => Before(call, results'[i].node, results'[j].node)
  <2> SUFFICES ASSUME NEW i \in DOMAIN results', NEW j \in DOMAIN results', i < j
               PROVE  Before(call, results'[i].node, results'[j].node)
    OBVIOUS
  <2>1. i \in DOMAIN results /\ results'[i] = results[i]
    BY <1>3
  <2>2. CASE j = k + 1
    BY <1>3, <1>4, <2>1, <2>2 DEF Turns, h
  <2>3. CASE j # k + 1
    BY <1>3, <2>1, <2>3 DEF Turns
  <2> QED
    BY <2>2, <2>3
<1>9. \A i \in DOMAIN results', j \in DOMAIN queue' :
          Before(call, results'[i].node, queue'[j])
  <2> SUFFICES ASSUME NEW i \in DOMAIN results', NEW j \in DOMAIN queue'
               PROVE  Before(call, results'[i].node, queue'[j])
    OBVIOUS
  <2>1. j + 1 \in DOMAIN queue /\ 1 < j + 1 /\ queue'[j] = queue[j + 1]
    BY <1>4
  <2>2. CASE i = k + 1
    BY <1>3, <1>4, <2>1, <2>2 DEF Turns, h
  <2>3. CASE i # k + 1
    BY <1>3, <2>1, <2>3 DEF Turns
  <2> QED
    BY <2>2, <2>3
<1>10. \A i, j \in DOMAIN queue' : i < j => Before(call, queue'[i], queue'[j])
  <2> SUFFICES ASSUME NEW i \in DOMAIN queue', NEW j \in DOMAIN queue', i < j
               PROVE  Before(call, queue'[i], queue'[j])
    OBVIOUS
  <2>1. i + 1 \in DOMAIN queue /\ j + 1 \in DOMAIN queue /\ i + 1 < j + 1
    BY <1>4
  <2> QED
    BY <1>4, <2>1 DEF Turns
<1>11. results'[1].node = call.failed
  <2>1. CASE results = <<>>
    BY <1>1, <1>3, <2>1 DEF Turns, h, k
  <2>2. CASE results # <<>>
    BY <1>1, <1>3, <2>2 DEF Turns, k
  <2> QED
    BY <2>1, <2>2
<1> QED
  BY <1>2, <1>3, <1>5, <1>6, <1>7, <1>8, <1>9, <1>10, <1>11 DEF Turns

LEMMA NextTurns ==
    ASSUME TypeOK, Phases, Turns, [Next]_vars
    PROVE  Turns'
<1>1. ASSUME UNCHANGED <<call, seen, queue, results>>,
             (pc \in Running /\ pc' \in Running) \/ pc' = pc
      PROVE  Turns'
  <2>1. Tried' = Tried /\ Queued' = Queued
    BY <1>1 DEF Tried, Queued
  <2>2. (pc = "list") = (pc' = "list")
    BY <1>1 DEF Running
  <2>3. Seen' = Seen
    BY <1>1, <2>2 DEF Seen
  <2>4. (pc \in {"list"} \cup Running \/ Returned)' => (pc \in {"list"} \cup Running \/ Returned)
    BY <1>1 DEF Returned
  <2> QED
    BY <1>1, <2>1, <2>3, <2>4 DEF Turns
<1>2. ASSUME queue' = <<>>, results' = <<>>, pc' \in {"idle", "down"} PROVE Turns'
  BY <1>2 DEF Turns, Running, Returned
<1>3. ASSUME NEW n \in Nodes, SetNodeBackup(n) PROVE Turns'
  BY <1>1, <1>3 DEF SetNodeBackup
<1>4. ASSUME Reset PROVE Turns'
  BY <1>2, <1>4 DEF Reset, TypeOK
<1>5. ASSUME Load PROVE Turns'
  BY <1>2, <1>5 DEF Load, TypeOK, Phases
<1>6. ASSUME RollbackAll PROVE Turns'
  <2>1. /\ queue' = <<>> /\ results' = <<>> /\ pc' = "list" /\ seen' = 0
    BY <1>6 DEF RollbackAll, TypeOK
  <2>2. Tried' = {} /\ Queued' = {} /\ Seen' = {}
    BY <2>1 DEF Tried, Queued, Seen
  <2> QED
    BY <2>1, <2>2 DEF Turns
<1>7. ASSUME List PROVE Turns'
  BY <1>7, ListTurns
<1>8. ASSUME Lookup \/ Discard \/ Restore \/ Restart \/ CheckHealth PROVE Turns'
  BY <1>1, <1>8 DEF Lookup, Discard, Restore, Restoring, Restart, CheckHealth, Conclude, Running
<1>9. ASSUME Record PROVE Turns'
  BY <1>9, RecordTurns
<1>10. ASSUME Crash PROVE Turns'
  BY <1>2, <1>10 DEF Crash
<1>11. ASSUME UNCHANGED vars PROVE Turns'
  BY <1>1, <1>11 DEF vars
<1> QED
  BY <1>3, <1>4, <1>5, <1>6, <1>7, <1>8, <1>9, <1>10, <1>11 DEF Next

\* A set of naturals that is not empty has a least element.
LEMMA LeastNatural ==
    ASSUME NEW T \in SUBSET Nat, T # {}
    PROVE  \E x \in T : \A y \in T : x <= y
<1> DEFINE Below(x) == 1..x
           S == {Below(x) : x \in T}
           R == StrictSubsetOrdering(Nat)
<1>1. S \subseteq FiniteSubsetsOf(Nat) /\ S # {}
  <2>1. ASSUME NEW x \in T PROVE Below(x) \in SUBSET Nat /\ IsFiniteSet(Below(x))
    BY FS_Interval
  <2> QED
    BY <2>1 DEF FiniteSubsetsOf
<1>2. PICK b \in S : \A a \in S : <<a, b>> \notin R
  BY <1>1, FS_StrictSubsetOrderingWellFounded, WFMin
<1>3. PICK x \in T : b = Below(x)
  OBVIOUS
<1>4. ASSUME NEW y \in T, y < x PROVE FALSE
  <2>1. Below(y) \in S /\ Below(y) \subseteq Nat /\ Below(x) \subseteq Nat
    OBVIOUS
  <2>2. Below(y) \subseteq Below(x) /\ x \in Below(x) /\ x \notin Below(y)
    BY <1>4
  <2>3. <<Below(y), Below(x)>> \in R
    BY <2>1, <2>2 DEF StrictSubsetOrdering
  <2> QED
    BY <1>2, <1>3, <2>1, <2>3
<1> QED
  BY <1>4

\* Place is the last occurrence.
LEMMA PlaceFacts ==
    ASSUME NEW s \in Seq(Nodes), NEW n \in Nodes, NEW p \in DOMAIN s, s[p] = n
    PROVE  /\ Place(s, n) \in DOMAIN s /\ s[Place(s, n)] = n
           /\ p <= Place(s, n)
<1> DEFINE I == {i \in 1..Len(s) : s[i] = n}
           T == {t \in Nat : \E i \in I : t = Len(s) - i}
<1>1. p \in I /\ \A i \in I : i \in 1..Len(s)
  OBVIOUS
<1>2. Len(s) - p \in T
  BY <1>1
<1>3. PICK t \in T : \A u \in T : t <= u
  BY <1>2, LeastNatural
<1>4. PICK x \in I : t = Len(s) - x
  BY <1>3
<1>5. ASSUME NEW y \in I PROVE x >= y
  <2>1. Len(s) - y \in T
    BY <1>1
  <2>2. Len(s) \in Nat /\ x \in Nat /\ y \in Nat
    BY <1>1
  <2>3. t <= Len(s) - y
    BY <1>3, <2>1
  <2> HIDE DEF I, T
  <2> QED
    BY <1>4, <2>2, <2>3
<1>6. Place(s, n) = CHOOSE z \in I : \A y \in I : z >= y
  BY <1>1 DEF Place, SelectLastInSeq, Max
<1>7. Place(s, n) \in I /\ \A y \in I : Place(s, n) >= y
  BY <1>4, <1>5, <1>6
<1> QED
  BY <1>1, <1>7

\* A result that comes before another names a node that was renewed later, or
\* the one that failed.
LEMMA PlacesInOrder ==
    ASSUME NEW c \in Calls, NEW m \in Nodes, NEW n \in Nodes,
           Before(c, m, n), m # c.failed,
           \E q \in DOMAIN ToRollBack(c) : ToRollBack(c)[q] = n
    PROVE  Place(c.renewed, n) < Place(c.renewed, m)
<1> DEFINE L == ToRollBack(c)
           r == c.renewed
           d == Len(r) + 2
<1>1. /\ r \in Seq(Nodes) /\ Len(r) \in Nat /\ DOMAIN r = 1..Len(r)
      /\ DOMAIN L = 1..Len(r) + 1 /\ L[1] = c.failed
      /\ \A i \in 2..Len(r) + 1 : L[i] = r[d - i]
  BY ListFacts
<1>2. PICK p \in DOMAIN L : L[p] = m /\ \A q \in DOMAIN L : L[q] = n => p < q
  BY DEF Before
<1>3. PICK q \in DOMAIN L : L[q] = n
  OBVIOUS
<1> HIDE DEF L, r
<1>4. d - p \in DOMAIN r /\ r[d - p] = m
  BY <1>1, <1>2
<1>5. d - q \in DOMAIN r /\ r[d - q] = n
  BY <1>1, <1>2, <1>3
<1>6. Place(r, n) \in DOMAIN r /\ r[Place(r, n)] = n
  BY <1>1, <1>5, PlaceFacts
<1>7. p < d - Place(r, n)
  <2>1. d - Place(r, n) \in DOMAIN L /\ d - (d - Place(r, n)) = Place(r, n)
    BY <1>1, <1>6
  <2>2. d - Place(r, n) \in 2..Len(r) + 1
    BY <1>1, <1>6
  <2>3. L[d - Place(r, n)] = n
    BY <1>1, <1>6, <2>1, <2>2
  <2> QED
    BY <1>2, <2>1, <2>3
<1>8. Place(r, m) \in DOMAIN r /\ d - p <= Place(r, m)
  BY <1>1, <1>4, PlaceFacts
<1> QED
  BY <1>1, <1>2, <1>4, <1>6, <1>7, <1>8 DEF r

\* The results of a call that has returned name every node of its list.
LEMMA ReturnedInOrder ==
    ASSUME TypeOK, Turns
    PROVE  RollbackOrder
<1> SUFFICES ASSUME Returned PROVE RollbackOrder
  BY DEF RollbackOrder
<1> DEFINE L == ToRollBack(call)
           r == call.renewed
<1>1. /\ call \in Calls /\ queue = <<>> /\ pc = "idle" /\ results # <<>>
      /\ results \in Seq([node : Nodes, success : BOOLEAN])
  BY DEF TypeOK, Returned
<1>2. /\ r \in Seq(Nodes) /\ Len(r) \in Nat /\ DOMAIN r = 1..Len(r)
      /\ Len(L) = Len(r) + 1 /\ DOMAIN L = 1..Len(r) + 1
      /\ L[1] = call.failed /\ call.failed \in Nodes
      /\ \A i \in 2..Len(r) + 1 : L[i] = r[Len(r) + 2 - i]
  BY <1>1, ListFacts
<1>3. Tried = {L[p] : p \in 1..Len(L)}
  <2>1. Queued = {}
    BY <1>1 DEF Queued
  <2> QED
    BY <1>1, <2>1 DEF Turns, Seen
<1>4. \A i \in DOMAIN results : results[i].node \in Nodes
  BY ResultFacts
<1>5. results[1].node = call.failed
  BY <1>1 DEF Turns
<1> HIDE DEF L, r
<1>6. ASSUME NEW n
      PROVE  n \in {L[p] : p \in 1..Len(L)} <=> n \in ToSet(r) \cup {call.failed}
  <2>1. ASSUME NEW p \in 1..Len(L) PROVE L[p] \in ToSet(r) \cup {call.failed}
    <3>1. CASE p = 1
      BY <1>2, <3>1
    <3>2. CASE p # 1
      <4>1. p \in 2..Len(r) + 1 /\ Len(r) + 2 - p \in DOMAIN r
        BY <1>2, <3>2
      <4> QED
        BY <1>2, <4>1 DEF ToSet
    <3> QED
      BY <3>1, <3>2
  <2>2. ASSUME NEW i \in DOMAIN r PROVE \E p \in 1..Len(L) : L[p] = r[i]
    <3>1. Len(r) + 2 - i \in 2..Len(r) + 1 /\ Len(r) + 2 - (Len(r) + 2 - i) = i
      BY <1>2
    <3>2. L[Len(r) + 2 - i] = r[i]
      BY <1>2, <3>1
    <3> QED
      BY <1>2, <3>1, <3>2
  <2>3. 1 \in 1..Len(L) /\ L[1] = call.failed
    BY <1>2
  <2>4. ToSet(r) = {r[i] : i \in DOMAIN r}
    BY DEF ToSet
  <2>5. CASE n \in {L[p] : p \in 1..Len(L)}
    BY <2>1, <2>5
  <2>6. CASE n \in ToSet(r)
    BY <2>2, <2>4, <2>6
  <2>7. CASE n = call.failed
    BY <2>3, <2>7
  <2> QED
    BY <2>5, <2>6, <2>7
<1>7. ASSUME NEW i \in DOMAIN results, NEW j \in DOMAIN results, i < j
      PROVE  results[i].node # results[j].node
  BY <1>1, <1>7, BeforeIrreflexive DEF Turns
<1>8. ASSUME NEW i \in DOMAIN results, NEW j \in DOMAIN results, i # j
      PROVE  results[i].node # results[j].node
  <2>1. i < j \/ j < i
    BY <1>1, <1>8
  <2> QED
    BY <1>7, <2>1
<1>9. ASSUME NEW i \in DOMAIN results, NEW j \in DOMAIN results, 1 < i, i < j
      PROVE  Place(r, results[j].node) < Place(r, results[i].node)
  <2>1. Before(call, results[i].node, results[j].node)
    BY <1>9 DEF Turns
  <2>2. 1 \in DOMAIN results
    BY <1>1
  <2>3. results[i].node # call.failed
    BY <1>5, <1>8, <1>9, <2>2
  <2>4. results[j].node \in Tried
    BY DEF Tried
  <2>5. \E q \in DOMAIN L : L[q] = results[j].node
    BY <1>2, <1>3, <2>4
  <2> QED
    BY <1>1, <1>4, <2>1, <2>3, <2>5, PlacesInOrder DEF L, r
<1>10. {results[i].node : i \in DOMAIN results} = ToSet(r) \cup {call.failed}
  <2>1. Tried = ToSet(r) \cup {call.failed}
    BY <1>3, <1>6
  <2> QED
    BY <2>1 DEF Tried
<1> QED
  BY <1>5, <1>8, <1>9, <1>10 DEF RollbackOrder, r

\* The types, the place in the call and the order of the nodes hold together.
LEMMA InOrder == Spec => [](TypeOK /\ Phases /\ Turns)
<1>1. Init => TypeOK /\ Phases /\ Turns
  <2> SUFFICES ASSUME Init PROVE TypeOK /\ Phases /\ Turns
    OBVIOUS
  <2>1. TypeOK
    <3>1. mem \in State /\ file \in State \cup {Torn}
      BY NewFacts DEF Init
    <3>2. 0 \in 0..MaxRenewed + 1
      BY RollbackAssumption
    <3>3. success \in BOOLEAN
      BY DEF Init
    <3> QED
      BY <3>1, <3>2, <3>3 DEF Init, TypeOK
  <2>2. Phases /\ Turns
    BY DEF Init, Phases, Turns, Running, Returned
  <2> QED
    BY <2>1, <2>2
<1>2. TypeOK /\ Phases /\ Turns /\ [Next]_vars => (TypeOK /\ Phases /\ Turns)'
  BY NextTypeOK, NextPhases, NextTurns DEF Phases
<1> QED
  BY <1>1, <1>2, PTL DEF Spec

\* Every variable keeps its type, for every set of nodes and every bound on
\* the list.
THEOREM TypeCorrect == Spec => []TypeOK
BY InOrder, PTL

\* RollbackAll tries every node of its list exactly once, the failed one
\* first and each renewed node before those renewed before it, for every list
\* and whatever fails on the way.
THEOREM TriedInOrder == Spec => []RollbackOrder
<1>1. TypeOK /\ Phases /\ Turns => RollbackOrder
  BY ReturnedInOrder
<1> QED
  BY <1>1, InOrder, PTL

---------------------------------------------------------------------------
(* The state and the results.                                              *)

\* What the state says of the nodes that have a result.
Flags ==
    /\ IsCritical => mem.critical
    /\ \A i \in DOMAIN results :
           mem.nodes[results[i].node].failed = ~results[i].success

\* The record of a node leaves the flags of the others alone, which it can
\* only because no node has two turns.
LEMMA RecordFlags ==
    ASSUME TypeOK, Turns, Flags, Record
    PROVE  Flags'
<1> DEFINE k == Len(results)
           h == queue[1]
           Result == [node : Nodes, success : BOOLEAN]
           r == [node |-> h, success |-> success]
<1>1. /\ queue \in Seq(Nodes) /\ queue # <<>> /\ results \in Seq(Result)
      /\ mem \in State /\ success \in BOOLEAN
  BY DEF TypeOK, Record
<1>2. h \in Nodes /\ 1 \in DOMAIN queue
  BY <1>1
<1>3. /\ mem' = SetNodeRollback(mem, h, ~success)
      /\ results' = Append(results, r)
  BY <1>1 DEF Record, Save
<1>3a. r \in Result /\ r.node = h /\ r.success = success
  BY <1>1, <1>2
<1> HIDE DEF k, h, Result, r
<1>4. /\ k \in Nat /\ DOMAIN results = 1..k /\ DOMAIN results' = 1..k + 1
      /\ \A i \in 1..k : results'[i] = results[i] /\ results[i] \in Result
      /\ results'[k + 1] = r
  BY <1>1, <1>3, <1>3a DEF k
<1>5. ASSUME NEW i \in DOMAIN results PROVE results[i].node # h
  <2>1. Before(call, results[i].node, h)
    BY <1>2 DEF Turns, h
  <2> QED
    BY <2>1, BeforeIrreflexive DEF TypeOK
<1>6. /\ mem.critical \/ ~success => mem'.critical
      /\ mem'.nodes[h].failed = ~success
      /\ \A n \in Nodes : n # h => mem'.nodes[n] = mem.nodes[n]
  BY <1>1, <1>2, <1>3 DEF SetNodeRollback, State, NodeState
<1>7. ASSUME NEW i \in DOMAIN results'
      PROVE  mem'.nodes[results'[i].node].failed = ~results'[i].success
  <2>1. CASE i = k + 1
    BY <1>4, <1>6, <1>3a, <2>1
  <2>2. CASE i # k + 1
    <3>1. i \in DOMAIN results /\ results'[i] = results[i] /\ results[i].node \in Nodes
      BY <1>4, <2>2 DEF Result
    <3>2. mem'.nodes[results[i].node] = mem.nodes[results[i].node]
      BY <1>5, <1>6, <3>1
    <3> QED
      BY <3>1, <3>2 DEF Flags
  <2> QED
    BY <2>1, <2>2
<1>8. ASSUME NEW i \in DOMAIN results', ~results'[i].success PROVE mem'.critical
  <2>1. CASE i = k + 1
    <3>1. ~success
      BY <1>4, <1>8, <1>3a, <2>1
    <3> QED
      BY <1>6, <3>1
  <2>2. CASE i # k + 1
    <3>1. i \in DOMAIN results /\ ~results[i].success
      BY <1>4, <1>8, <2>2
    <3>2. mem.critical
      BY <3>1 DEF Flags, IsCritical
    <3> QED
      BY <1>6, <3>2
  <2> QED
    BY <2>1, <2>2
<1> QED
  BY <1>7, <1>8 DEF Flags, IsCritical

LEMMA NextFlags ==
    ASSUME TypeOK, Phases, Turns, Flags, [Next]_vars
    PROVE  Flags'
<1>1. ASSUME results' = <<>> PROVE Flags'
  BY <1>1 DEF Flags, IsCritical
<1>2. ASSUME UNCHANGED <<mem, results>> PROVE Flags'
  BY <1>2 DEF Flags, IsCritical
<1>3. ASSUME NEW n \in Nodes, SetNodeBackup(n) PROVE Flags'
  <2>1. mem' = [mem EXCEPT !.nodes[n].backup = TRUE] /\ results' = results
    BY <1>3 DEF SetNodeBackup, Save
  <2>2. /\ mem'.critical = mem.critical
        /\ \A m \in Nodes : mem'.nodes[m].failed = mem.nodes[m].failed
    BY <2>1 DEF TypeOK, State, NodeState
  <2>3. \A i \in DOMAIN results : results[i].node \in Nodes
    BY ResultFacts
  <2> QED
    BY <2>1, <2>2, <2>3 DEF Flags, IsCritical
<1>4. ASSUME Reset \/ RollbackAll \/ Crash PROVE Flags'
  BY <1>1, <1>4 DEF Reset, RollbackAll, Crash
<1>5. ASSUME Load PROVE Flags'
  BY <1>1, <1>5 DEF Load, Phases
<1>6. ASSUME List \/ Lookup \/ Discard \/ Restore \/ Restart \/ CheckHealth \/ UNCHANGED vars
      PROVE  Flags'
  BY <1>2, <1>6 DEF List, Lookup, Discard, Restore, Restart, CheckHealth, vars
<1>7. ASSUME Record PROVE Flags'
  BY <1>7, RecordFlags
<1> QED
  BY <1>3, <1>4, <1>5, <1>6, <1>7 DEF Next

\* When RollbackAll returns, the state flags exactly the nodes of its list
\* that failed, and is critical if one did, whatever succeeded after it.
THEOREM StateAgrees == Spec => []StateMatchesResults
<1>1. Init => Flags
  BY DEF Init, Flags, IsCritical
<1>2. TypeOK /\ Phases /\ Turns /\ Flags /\ [Next]_vars => Flags'
  BY NextFlags
<1>3. Flags => StateMatchesResults
  BY DEF Flags, StateMatchesResults
<1> QED
  BY <1>1, <1>2, <1>3, InOrder, PTL DEF Spec

---------------------------------------------------------------------------
(* The local files.                                                        *)

\* Files restored and not yet reported: between Restore and Record the local
\* files are those of the current node, if its backup had them, and no node has
\* an outcome before its turn.
Restored ==
    /\ pc \in {"restart", "health"} => (complete => pki = Head(queue)) /\ ~call.dry
    /\ pc = "record" /\ success /\ ~call.dry /\ complete => pki = Head(queue)
    /\ pc \in {"idle", "list", "node", "down", "restart", "health"} => success = FALSE
    /\ success \in BOOLEAN

\* No step writes local files between the restore of a node and its report.
LEMMA NextRestored ==
    ASSUME Restored, [Next]_vars
    PROVE  Restored'
<1> USE DEF Restored
<1>1. ASSUME NEW n \in Nodes, SetNodeBackup(n) PROVE Restored'
  BY <1>1 DEF SetNodeBackup
<1>2. ASSUME Reset PROVE Restored'
  BY <1>2 DEF Reset
<1>3. ASSUME Load PROVE Restored'
  BY <1>3 DEF Load
<1>4. ASSUME RollbackAll PROVE Restored'
  BY <1>4 DEF RollbackAll
<1>4a. ASSUME List PROVE Restored'
  BY <1>4a DEF List
<1>5. ASSUME Lookup PROVE Restored'
  BY <1>5 DEF Lookup, Conclude
<1>5a. ASSUME Discard PROVE Restored'
  BY <1>5a DEF Discard, Restoring
<1>6. ASSUME Restore PROVE Restored'
  BY <1>6 DEF Restore, Restoring, Copied, Conclude
<1>7. ASSUME Restart PROVE Restored'
  BY <1>7 DEF Restart, Conclude
<1>8. ASSUME CheckHealth PROVE Restored'
  BY <1>8 DEF CheckHealth, Conclude
<1>9. ASSUME Record PROVE Restored'
  BY <1>9 DEF Record
<1>10. ASSUME Crash PROVE Restored'
  BY <1>10 DEF Crash
<1>11. ASSUME UNCHANGED vars PROVE Restored'
  BY <1>11 DEF vars
<1> QED
  BY <1>1, <1>2, <1>3, <1>4, <1>4a, <1>5, <1>5a, <1>6, <1>7, <1>8, <1>9, <1>10,
     <1>11 DEF Next

\* A node whose backup still had its files is reported as rolled back only when the
\* local files are exactly those of its backup, whatever failed before it and in
\* whatever order.
THEOREM SuccessAfterRestore == Spec => []SuccessMeansRestored
<1>1. Init => Restored
  BY DEF Init, Restored
<1>2. Restored /\ [Next]_vars => Restored'
  BY NextRestored
<1>3. Restored => SuccessMeansRestored
  BY DEF Restored, SuccessMeansRestored
<1> QED
  BY <1>1, <1>2, <1>3, PTL DEF Spec
=============================================================================
