-------------------------- MODULE NodeFilesProofs --------------------------
(***************************************************************************)
(* Proofs about NodeFiles, for every set of files, every list of them and  *)
(* every bound: the type invariant, the refinement of BackupVault, that a  *)
(* restore is exact, that WriteAllCerts mends every pair and that RenewAll  *)
(* passes no kubeconfig over.                                              *)
(***************************************************************************)
EXTENDS NodeFiles, TLAPS

\* What RenewAll leaves of a kubeconfig.
Renewed == {Missing, [form |-> "struct", gen |-> newest]}

\* What each call has done so far, in terms of the files it has left.
Progress ==
    /\ op = "idle" => left = {} /\ open = {}
    /\ op = "create" =>
         path \notin intact /\ \A f \in Files \ left : store[path][f] = files[f]
    /\ op = "clean" => path \notin intact /\ open = {}
    /\ op = "restore" =>
         \A f \in Files \ left :
            store[path][f] # Missing => files[f] = store[path][f]
    /\ op = "write" =>
         left \subseteq Pairs /\ \A f \in Pairs \ left : files[f] = [form |-> "pem", gen |-> newest]
    /\ op = "renew" =>
         left \subseteq Confs /\ \A f \in Confs \ left : files[f] \in Renewed

\* A file that the node lacks is in no backup, and what is being written is
\* not the copy of a missing file.
NeverRemoved ==
    /\ \A t \in Seconds, f \in Files : files[f] = Missing => store[t][f] = Missing
    /\ op = "restore" => \A f \in open : store[path][f] # Missing

IInv == TypeOK /\ Progress /\ NeverRemoved

LEMMA Contents ==
    /\ Missing \in Content /\ Torn \in Content
    /\ Missing # Torn
    /\ \A g \in 0..MaxGen :
         /\ [form |-> "pem", gen |-> g] \in Content \ {Missing}
         /\ [form |-> "native", gen |-> g] \in Content \ {Missing}
         /\ [form |-> "struct", gen |-> g] \in Content \ {Missing}
BY BoundAssumption DEF Missing, Torn, Content

LEMMA InitIInv == Init => IInv
<1> SUFFICES ASSUME Init PROVE IInv
  OBVIOUS
<1>1. 0 \in Seconds /\ 0 \in 0..MaxGen
  BY BoundAssumption DEF Seconds
<1>2. files \in [Files -> Content]
  BY <1>1, Contents DEF Init
<1>3. store \in [Seconds -> [Files -> Content]]
  BY Contents DEF Init
<1>4. TypeOK
  BY <1>1, <1>2, <1>3 DEF Init, TypeOK
<1>5. Progress
  BY DEF Init, Progress
<1>6. NeverRemoved
  BY DEF Init, NeverRemoved
<1> QED
  BY <1>4, <1>5, <1>6 DEF IInv

\* What a file is set to, wherever it is.
LEMMA Destinations ==
    ASSUME TypeOK, NEW f \in Files, NEW content \in Content,
           Destination(f, content)
    PROVE  /\ op = "create" =>
                /\ files' = files
                /\ store'[path][f] = content
                /\ \A g \in Files \ {f} : store'[path][g] = store[path][g]
                /\ \A t \in Seconds \ {path} : store'[t] = store[t]
           /\ op # "create" =>
                /\ store' = store
                /\ files'[f] = content
                /\ \A g \in Files \ {f} : files'[g] = files[g]
           /\ files' \in [Files -> Content]
           /\ store' \in [Seconds -> [Files -> Content]]
<1>1. CASE op = "create"
  <2>1. files' = files /\ store' = [store EXCEPT ![path][f] = content]
    BY <1>1 DEF Destination
  <2>2. path \in Seconds /\ store \in [Seconds -> [Files -> Content]]
    BY DEF TypeOK
  <2>3. store' = [store EXCEPT ![path] = [store[path] EXCEPT ![f] = content]]
    BY <2>1
  <2>4. [store[path] EXCEPT ![f] = content] \in [Files -> Content]
    BY <2>2
  <2>5. store'[path] = [store[path] EXCEPT ![f] = content]
    BY <2>2, <2>3
  <2>6. store' \in [Seconds -> [Files -> Content]]
    BY <2>2, <2>3, <2>4
  <2>7. \A t \in Seconds \ {path} : store'[t] = store[t]
    BY <2>2, <2>3
  <2>8. /\ store'[path][f] = content
        /\ \A g \in Files \ {f} : store'[path][g] = store[path][g]
    BY <2>2, <2>5
  <2> QED
    BY <1>1, <2>1, <2>6, <2>7, <2>8 DEF TypeOK
<1>2. CASE op # "create"
  BY <1>2 DEF Destination, TypeOK
<1> QED
  BY <1>1, <1>2

LEMMA Sources ==
    ASSUME IInv, NEW f \in open
    PROVE  /\ f \in left /\ open = {f} /\ f \in Files
           /\ op # "idle" /\ op # "clean"
           /\ Source(f) \in Content
           /\ files[f] # Missing /\ op # "create" => Source(f) # Missing
           /\ op = "restore" => Source(f) # Missing
<1>1. f \in left /\ open = {f} /\ f \in Files
  BY DEF IInv, TypeOK
<1>2. op \in {"create", "restore", "write", "renew"}
  BY DEF IInv, TypeOK, Progress
<1>3. CASE op = "create"
  BY <1>1, <1>3 DEF Source, IInv, TypeOK
<1>4. CASE op = "restore"
  BY <1>1, <1>4 DEF Source, IInv, TypeOK, NeverRemoved
<1>5. CASE op = "write"
  BY <1>1, <1>5, Contents DEF Source, IInv, TypeOK
<1>6. CASE op = "renew"
  BY <1>1, <1>6, Contents DEF Source, IInv, TypeOK
<1> QED
  BY <1>1, <1>2, <1>3, <1>4, <1>5, <1>6

LEMMA NextIInv == IInv /\ [Next]_vars => IInv'
<1> SUFFICES ASSUME IInv, [Next]_vars PROVE IInv'
  OBVIOUS
<1> USE DEF IInv
<1>1. CASE Create
  BY <1>1 DEF Create, Call, TypeOK, Progress, NeverRemoved
<1>2. CASE Restore
  BY <1>2 DEF Restore, Call, TypeOK, Progress, NeverRemoved
<1>3. CASE Cleanup
  BY <1>3 DEF Cleanup, Call, TypeOK, Progress, NeverRemoved
<1>4. CASE WriteAllCerts
  <2>1. newest' \in 0..MaxGen /\ 0 \in Seconds
    BY <1>4, BoundAssumption DEF WriteAllCerts, Generate, TypeOK, Seconds
  <2>2. Pairs \subseteq Files
    BY DEF Files
  <2> QED
    BY <1>4, <2>1, <2>2
    DEF WriteAllCerts, Generate, Call, TypeOK, Progress, NeverRemoved
<1>5. CASE RenewAll
  <2>1. newest' \in 0..MaxGen /\ 0 \in Seconds
    BY <1>5, BoundAssumption DEF RenewAll, Generate, TypeOK, Seconds
  <2>2. Confs \subseteq Files
    BY DEF Files
  <2> QED
    BY <1>5, <2>1, <2>2
    DEF RenewAll, Generate, Call, TypeOK, Progress, NeverRemoved
<1>6. CASE Skip
  <2>1. PICK f \in left :
          /\ open = {} /\ Skipped(f) /\ left' = left \ {f}
          /\ UNCHANGED <<files, store, now, newest, op, path, open, handed, intact>>
    BY <1>6 DEF Skip
  <2>2. f \in Files
    BY DEF TypeOK
  <2>3. TypeOK'
    BY <2>1 DEF TypeOK
  <2>4. op = "create" => store[path][f] = files[f]
    BY <2>1, <2>2 DEF Skipped, NeverRemoved, TypeOK
  <2>5. op = "restore" => store[path][f] = Missing
    BY <2>1 DEF Skipped
  <2>6. op \in {"create", "renew", "restore"}
    BY <2>1 DEF Skipped
  <2>6a. op = "renew" => files[f] = Missing
    BY <2>1 DEF Skipped
  <2>7. Progress'
    BY <2>1, <2>4, <2>5, <2>6, <2>6a DEF Progress, Renewed
  <2>8. NeverRemoved'
    BY <2>1 DEF NeverRemoved
  <2> QED
    BY <2>3, <2>7, <2>8
<1>7. CASE Truncate
  <2>1. PICK f \in left :
          /\ op \in {"create", "restore", "write", "renew"}
          /\ open = {} /\ ~Skipped(f)
          /\ Destination(f, Torn)
          /\ open' = {f}
          /\ UNCHANGED <<now, newest, op, path, left, handed, intact>>
    BY <1>7 DEF Truncate
  <2>2. f \in Files /\ path \in Seconds
    BY DEF TypeOK
  <2>3. /\ op = "create" =>
                /\ files' = files
                /\ store'[path][f] = Torn
                /\ \A g \in Files \ {f} : store'[path][g] = store[path][g]
                /\ \A t \in Seconds \ {path} : store'[t] = store[t]
        /\ op # "create" =>
                /\ store' = store
                /\ files'[f] = Torn
                /\ \A g \in Files \ {f} : files'[g] = files[g]
        /\ files' \in [Files -> Content]
        /\ store' \in [Seconds -> [Files -> Content]]
    BY <2>1, <2>2, Contents, Destinations
  <2>4. TypeOK'
    BY <2>1, <2>3 DEF TypeOK
  <2>5. Progress'
    <3>1. \A g \in Files \ left : g \in Files \ {f}
      BY <2>1
    <3>2. Pairs \subseteq Files
      BY DEF Files
    <3>3. op = "create" => \A g \in Files \ left : store'[path][g] = files'[g]
      BY <2>3, <3>1 DEF Progress
    <3>4. op = "restore" =>
            \A g \in Files \ left :
               store'[path][g] # Missing => files'[g] = store'[path][g]
      BY <2>3, <3>1 DEF Progress
    <3>5. op = "write" =>
            \A g \in Pairs \ left : files'[g] = [form |-> "pem", gen |-> newest]
      BY <2>3, <3>1, <3>2 DEF Progress
    <3>6. op = "renew" => \A g \in Confs \ left : files'[g] \in Renewed
      <4>1. Confs \subseteq Files
        BY DEF Files
      <4> QED
        BY <2>3, <3>1, <4>1 DEF Progress
    <3>7. Renewed' = Renewed
      BY <2>1 DEF Renewed
    <3> QED
      BY <2>1, <3>3, <3>4, <3>5, <3>6, <3>7 DEF Progress
  <2>6. op = "create" => files[f] # Missing
    BY <2>1 DEF Skipped
  <2>7. \A t \in Seconds, g \in Files : files'[g] = Missing => store'[t][g] = Missing
    BY <2>2, <2>3, <2>6, Contents DEF NeverRemoved
  <2>8. op = "restore" => store'[path][f] # Missing
    BY <2>1, <2>3 DEF Skipped
  <2>9. NeverRemoved'
    BY <2>1, <2>7, <2>8 DEF NeverRemoved
  <2> QED
    BY <2>4, <2>5, <2>9
<1>8. CASE Fill
  <2>1. PICK f \in open :
          /\ Destination(f, Source(f))
          /\ left' = left \ {f} /\ open' = {}
          /\ UNCHANGED <<now, newest, op, path, handed, intact>>
    BY <1>8 DEF Fill
  <2>2. /\ f \in left /\ open = {f} /\ f \in Files
        /\ op # "idle" /\ op # "clean"
        /\ Source(f) \in Content
        /\ op = "restore" => Source(f) # Missing
    BY Sources
  <2>3. /\ op = "create" =>
                /\ files' = files
                /\ store'[path][f] = Source(f)
                /\ \A g \in Files \ {f} : store'[path][g] = store[path][g]
                /\ \A t \in Seconds \ {path} : store'[t] = store[t]
        /\ op # "create" =>
                /\ store' = store
                /\ files'[f] = Source(f)
                /\ \A g \in Files \ {f} : files'[g] = files[g]
        /\ files' \in [Files -> Content]
        /\ store' \in [Seconds -> [Files -> Content]]
    BY <2>1, <2>2, Destinations
  <2>4. TypeOK'
    BY <2>1, <2>3 DEF TypeOK
  <2>5. CASE op = "create"
    <3>1. Source(f) = files[f]
      BY <2>5 DEF Source
    <3>2. Progress'
      BY <2>1, <2>2, <2>3, <2>5, <3>1 DEF Progress
    <3>3. NeverRemoved'
      BY <2>1, <2>2, <2>3, <2>5, <3>1 DEF NeverRemoved
    <3> QED
      BY <2>4, <3>2, <3>3
  <2>6. CASE op = "restore"
    <3>1. Source(f) = store[path][f]
      BY <2>6 DEF Source
    <3>2. Progress'
      BY <2>1, <2>2, <2>3, <2>6, <3>1 DEF Progress
    <3>3. NeverRemoved'
      BY <2>1, <2>2, <2>3, <2>6, <3>1 DEF NeverRemoved
    <3> QED
      BY <2>4, <3>2, <3>3
  <2>7. CASE op = "write"
    <3>1. Source(f) = [form |-> "pem", gen |-> newest] /\ Source(f) # Missing
      BY <2>7, Contents DEF Source, TypeOK
    <3>2. Pairs \subseteq Files
      BY DEF Files
    <3>3. Progress'
      BY <2>1, <2>2, <2>3, <2>7, <3>1, <3>2 DEF Progress
    <3>4. NeverRemoved'
      BY <2>1, <2>2, <2>3, <2>7, <3>1 DEF NeverRemoved
    <3> QED
      BY <2>4, <3>3, <3>4
  <2>8. CASE op = "renew"
    <3>1. Source(f) # Missing /\ Source(f) \in Renewed
      BY <2>8, Contents DEF Source, TypeOK, Renewed
    <3>a. Confs \subseteq Files /\ Renewed' = Renewed
      BY <2>1 DEF Files, Renewed
    <3>2. Progress'
      BY <2>1, <2>2, <2>3, <2>8, <3>1, <3>a DEF Progress
    <3>3. NeverRemoved'
      BY <2>1, <2>2, <2>3, <2>8, <3>1 DEF NeverRemoved
    <3> QED
      BY <2>4, <3>2, <3>3
  <2> QED
    BY <2>2, <2>5, <2>6, <2>7, <2>8 DEF TypeOK
<1>9. CASE Remove
  <2>1. PICK f \in left :
          /\ op = "clean"
          /\ store' = [store EXCEPT ![path][f] = Missing]
          /\ left' = left \ {f}
          /\ UNCHANGED <<files, now, newest, op, path, open, handed, intact>>
    BY <1>9 DEF Remove
  <2>2. f \in Files /\ path \in Seconds /\ store \in [Seconds -> [Files -> Content]]
    BY DEF TypeOK
  <2>3. /\ store' \in [Seconds -> [Files -> Content]]
        /\ \A t \in Seconds, g \in Files :
             store'[t][g] = store[t][g] \/ store'[t][g] = Missing
    BY <2>1, <2>2, Contents
  <2>4. open = {}
    BY <2>1 DEF Progress
  <2>5. TypeOK'
    BY <2>1, <2>3, <2>4 DEF TypeOK
  <2>6. Progress'
    BY <2>1 DEF Progress
  <2>7. NeverRemoved'
    BY <2>1, <2>3 DEF NeverRemoved
  <2> QED
    BY <2>5, <2>6, <2>7
<1>10. CASE Return
  <2>1. 0 \in Seconds
    BY BoundAssumption DEF Seconds
  <2>2. TypeOK'
    BY <1>10, <2>1 DEF Return, TypeOK
  <2>3. Progress'
    BY <1>10 DEF Return, Progress, TypeOK
  <2>4. NeverRemoved'
    BY <1>10 DEF Return, NeverRemoved
  <2> QED
    BY <2>2, <2>3, <2>4
<1>11. CASE BreakOff
  <2>1. 0 \in Seconds
    BY BoundAssumption DEF Seconds
  <2> QED
    BY <1>11, <2>1 DEF BreakOff, TypeOK, Progress, NeverRemoved
<1>12. CASE Tick
  <2>1. now' \in Seconds
    BY <1>12, BoundAssumption DEF Tick, TypeOK, Seconds
  <2> QED
    BY <1>12, <2>1 DEF Tick, call, TypeOK, Progress, NeverRemoved, Renewed
<1>13. CASE UNCHANGED vars
  BY <1>13 DEF vars, call, TypeOK, Progress, NeverRemoved, Renewed
<1> QED
  BY <1>1, <1>2, <1>3, <1>4, <1>5, <1>6, <1>7, <1>8, <1>9, <1>10, <1>11, <1>12,
     <1>13 DEF Next

LEMMA AlwaysIInv == Spec => []IInv
BY InitIInv, NextIInv, PTL DEF Spec

\* The type invariant, for every set of files and every bound.
THEOREM TypeCorrect == Spec => []TypeOK
BY AlwaysIInv, PTL DEF IInv

---------------------------------------------------------------------------
\* A Restore that returns nil has put back every file that the backup has,
\* whatever renewals, failures and crashes had left of it.
THEOREM RestoresExactly == Spec => RestoreExact
<1>1. IInv /\ [Next]_vars =>
        [ReturnsNil("restore") /\ path \in intact =>
           \A f \in Files : store[path][f] # Missing => files'[f] = store[path][f]]_vars
  <2> SUFFICES ASSUME IInv, [Next]_vars, ReturnsNil("restore"), NEW f \in Files,
                      store[path][f] # Missing
               PROVE  files'[f] = store[path][f] \/ UNCHANGED vars
    OBVIOUS
  <2>1. files[f] = store[path][f]
    BY DEF ReturnsNil, IInv, Progress
  <2>2. open = {}
    BY DEF ReturnsNil, IInv, TypeOK
  <2>3. files' = files
    BY <2>2 DEF ReturnsNil, Next, Create, Restore, Cleanup, WriteAllCerts, RenewAll,
         Call, Skip, Truncate, Fill, Remove, Return, BreakOff, Tick, call, vars
  <2> QED
    BY <2>1, <2>3
<1> QED
  BY <1>1, AlwaysIInv, PTL DEF Spec, RestoreExact

\* A WriteAllCerts that returns nil leaves every pair whole, also those that
\* earlier calls left torn, mixed or missing.
THEOREM WriteAllWhole == Spec => WriteAllMends
<1>1. IInv /\ [Next]_vars =>
        [ReturnsNil("write") =>
           \A f \in Pairs : files'[f] = [form |-> "pem", gen |-> newest]]_vars
  <2> SUFFICES ASSUME IInv, [Next]_vars, ReturnsNil("write"), NEW f \in Pairs
               PROVE  files'[f] = [form |-> "pem", gen |-> newest] \/ UNCHANGED vars
    OBVIOUS
  <2>1. files[f] = [form |-> "pem", gen |-> newest]
    BY DEF ReturnsNil, IInv, Progress
  <2>2. open = {}
    BY DEF ReturnsNil, IInv, TypeOK
  <2>3. files' = files
    BY <2>2 DEF ReturnsNil, Next, Create, Restore, Cleanup, WriteAllCerts, RenewAll,
         Call, Skip, Truncate, Fill, Remove, Return, BreakOff, Tick, call, vars
  <2> QED
    BY <2>1, <2>3
<1> QED
  BY <1>1, AlwaysIInv, PTL DEF Spec, WriteAllMends

\* A RenewAll that returns nil has renewed every kubeconfig that the node has,
\* also one that earlier calls left torn.
THEOREM RenewAllWhole == Spec => RenewAllComplete
<1>1. IInv /\ [Next]_vars =>
        [ReturnsNil("renew") =>
           \A f \in Confs : files'[f] \in {Missing, [form |-> "struct", gen |-> newest]}]_vars
  <2> SUFFICES ASSUME IInv, [Next]_vars, ReturnsNil("renew"), NEW f \in Confs
               PROVE  files'[f] \in Renewed \/ UNCHANGED vars
    BY DEF Renewed
  <2>1. files[f] \in Renewed
    BY DEF ReturnsNil, IInv, Progress
  <2>2. open = {}
    BY DEF ReturnsNil, IInv, TypeOK
  <2>3. files' = files
    BY <2>2 DEF ReturnsNil, Next, Create, Restore, Cleanup, WriteAllCerts, RenewAll,
         Call, Skip, Truncate, Fill, Remove, Return, BreakOff, Tick, call, vars
  <2> QED
    BY <2>1, <2>3
<1> QED
  BY <1>1, AlwaysIInv, PTL DEF Spec, RenewAllComplete

---------------------------------------------------------------------------
\* The backups that were handed out and not touched since.
Kept == [t \in Seconds |-> IF t \in intact THEN store[t] ELSE Nothing]

LEMMA SameVault ==
    ASSUME intact' = intact, \A t \in intact : store'[t] = store[t]
    PROVE  Kept' = Kept
BY DEF Kept

LEMMA NextVault ==
    ASSUME IInv, [Next]_vars
    PROVE  \/ Kept' = Kept
           \/ files' = files /\ \E p \in Seconds :
                \/ Kept[p] = Nothing /\ Kept' = [Kept EXCEPT ![p] = files]
                \/ Kept' = [Kept EXCEPT ![p] = Nothing]
<1> USE DEF IInv
<1>1. CASE Create
  <2>1. now \in Seconds /\ intact' = intact \ {now} /\ store' = store /\ files' = files
    BY <1>1 DEF Create, Call, TypeOK
  <2>2. Kept' = [Kept EXCEPT ![now] = Nothing]
    BY <2>1 DEF Kept
  <2> QED
    BY <2>1, <2>2
<1>2. CASE Cleanup
  <2>1. PICK t \in Seconds : intact' = intact \ {t} /\ store' = store /\ files' = files
    BY <1>2 DEF Cleanup, Call
  <2>2. Kept' = [Kept EXCEPT ![t] = Nothing]
    BY <2>1 DEF Kept
  <2> QED
    BY <2>1, <2>2
<1>3. CASE Return /\ op = "create"
  <2>1. /\ path \in Seconds /\ path \notin intact
        /\ intact' = intact \cup {path} /\ store' = store /\ files' = files
    BY <1>3 DEF Return, TypeOK, Progress
  <2>2. \A f \in Files : store[path][f] = files[f]
    BY <1>3 DEF Return, Progress
  <2>3. store[path] = files
    BY <2>1, <2>2 DEF TypeOK
  <2>4. Kept[path] = Nothing /\ Kept' = [Kept EXCEPT ![path] = files]
    BY <2>1, <2>3 DEF Kept
  <2> QED
    BY <2>1, <2>4
<1>4. CASE Return /\ op # "create"
  BY <1>4, SameVault DEF Return
<1>5. CASE Restore \/ WriteAllCerts \/ RenewAll
  BY <1>5, SameVault DEF Restore, WriteAllCerts, RenewAll, Generate, Call
<1>6. CASE Skip \/ BreakOff \/ Tick \/ UNCHANGED vars
  BY <1>6, SameVault DEF Skip, BreakOff, Tick, vars
<1>7. CASE Truncate
  <2>1. PICK f \in Files : Destination(f, Torn) /\ UNCHANGED intact
    BY <1>7 DEF Truncate, TypeOK
  <2>2. \A t \in intact : store'[t] = store[t]
    BY <2>1, Contents, Destinations DEF TypeOK, Progress
  <2> QED
    BY <2>1, <2>2, SameVault
<1>8. CASE Fill
  <2>1. PICK f \in open : Destination(f, Source(f)) /\ UNCHANGED intact
    BY <1>8 DEF Fill
  <2>2. f \in Files /\ Source(f) \in Content
    BY Sources
  <2>3. \A t \in intact : store'[t] = store[t]
    BY <2>1, <2>2, Destinations DEF TypeOK, Progress
  <2> QED
    BY <2>1, <2>3, SameVault
<1>9. CASE Remove
  <2>1. PICK f \in left :
          /\ op = "clean" /\ UNCHANGED intact
          /\ store' = [store EXCEPT ![path][f] = Missing]
    BY <1>9 DEF Remove
  <2>2. \A t \in intact : store'[t] = store[t]
    BY <2>1 DEF TypeOK, Progress
  <2> QED
    BY <2>1, <2>2, SameVault
<1> QED
  BY <1>1, <1>2, <1>3, <1>4, <1>5, <1>6, <1>7, <1>8, <1>9 DEF Next

\* A path that Create returned names an exact copy of all files as they were,
\* until Cleanup takes the directory or a Create of the same second reuses it.
THEOREM Implements == Spec => ImplementsVault
<1>1. Init => Vault!Init
  BY DEF Init, Vault!Init
<1>2. IInv /\ [Next]_vars => [Vault!Next]_<<files, Kept>>
  <2> SUFFICES ASSUME IInv, [Next]_vars PROVE Vault!Next
    OBVIOUS
  <2> QED
    BY NextVault DEF Vault!Next, Vault!Change, Vault!Put, Vault!Drop, Kept
<1> QED
  BY <1>1, <1>2, AlwaysIInv, PTL DEF Spec, ImplementsVault, Vault!Spec, Kept
=============================================================================
