--------------------------- MODULE NotifierProofs ---------------------------
(***************************************************************************)
(* Whoever made the notifier, whatever the settings and whichever servers  *)
(* fail: a critical event is tried on both channels, and Notify reports an *)
(* error exactly when an enabled channel did not take the message.         *)
(***************************************************************************)
EXTENDS Notifier, TLAPS

\* The channels that the call has left behind.
Passed == {Channels[i] : i \in 1..channel - 1}

\* Each wanted channel among them took the message or has an error, not both,
\* and no other channel was used.
Progress ==
    call # "none" => delivered \cup errs = {c \in Passed : Wanted(c)}

LEMMA ChannelFacts ==
    /\ Len(Channels) = 2
    /\ \A i \in {1, 2} : Channels[i] \in Names
    /\ {Channels[i] : i \in 1..2} = Names
    /\ Channels[1] # Channels[2]
BY DEF Channels, Names

\* A notifier has settings like those of the spec.
LEMMA BuildFacts ==
    ASSUME spec \in Settings, NEW b
    PROVE  Build(b) \in Settings
BY DEF Build, Settings

\* The current channel is one that the call has not passed; the next one
\* passes it and no other.
LEMMA CurrentFacts ==
    ASSUME TypeOK, channel <= Len(Channels), channel' = channel + 1
    PROVE  /\ Current \in Names /\ Current \notin Passed
           /\ Passed' = Passed \cup {Current}
           /\ channel' \in 1..Len(Channels) + 1
<1>1. channel \in {1, 2}
  BY ChannelFacts DEF TypeOK
<1>2. CASE channel = 1
  BY <1>2, ChannelFacts DEF Passed, Current
<1>3. CASE channel = 2
  BY <1>3, ChannelFacts DEF Passed, Current
<1> QED
  BY <1>1, <1>2, <1>3

LEMMA NextInvariant ==
    ASSUME TypeOK, Progress, [Next]_vars
    PROVE  TypeOK' /\ Progress'
<1>1. ASSUME Event PROVE TypeOK' /\ Progress'
  <2>1. /\ notifier' \in Settings /\ call' \in {"Notify", "NotifyCritical"}
        /\ channel' = 1 /\ delivered' = {} /\ errs' = {} /\ result' = "none"
        /\ spec' = spec
    BY <1>1, BuildFacts DEF Event, TypeOK
  <2>2. Passed' = {}
    BY <2>1 DEF Passed
  <2> QED
    BY <2>1, <2>2, ChannelFacts DEF TypeOK, Progress
<1>2. ASSUME Skip PROVE TypeOK' /\ Progress'
  <2>1. /\ call # "none" /\ channel <= Len(Channels) /\ ~Wanted(Current)
        /\ channel' = channel + 1
        /\ UNCHANGED <<spec, notifier, call, delivered, errs, result>>
    BY <1>2 DEF Skip
  <2>2. \A c : Wanted(c)' = Wanted(c)
    BY <2>1 DEF Wanted
  <2> QED
    BY <2>1, <2>2, CurrentFacts DEF TypeOK, Progress
<1>3. ASSUME SendFails \/ Send PROVE TypeOK' /\ Progress'
  <2>1. /\ call # "none" /\ channel <= Len(Channels) /\ Wanted(Current)
        /\ channel' = channel + 1
        /\ UNCHANGED <<spec, notifier, call, result>>
        /\ \/ errs' = errs \cup {Current} /\ delivered' = delivered
           \/ delivered' = delivered \cup {Current} /\ errs' = errs
    BY <1>3 DEF SendFails, Send
  <2>2. \A c : Wanted(c)' = Wanted(c)
    BY <2>1 DEF Wanted
  <2>3. Current \notin delivered \cup errs
    BY <2>1, CurrentFacts DEF Progress
  <2> QED
    BY <2>1, <2>2, <2>3, CurrentFacts DEF TypeOK, Progress
<1>4. ASSUME Return PROVE TypeOK' /\ Progress'
  BY <1>4 DEF Return, TypeOK, Progress
<1>5. ASSUME UNCHANGED vars PROVE TypeOK' /\ Progress'
  <2>1. Passed' = Passed /\ \A c : Wanted(c)' = Wanted(c)
    BY <1>5 DEF vars, Passed, Wanted
  <2> QED
    BY <1>5, <2>1 DEF vars, TypeOK, Progress
<1> QED
  BY <1>1, <1>2, <1>3, <1>4, <1>5 DEF Next

LEMMA Invariant == Spec => [](TypeOK /\ Progress)
<1>1. Init => TypeOK /\ Progress
  BY ChannelFacts DEF Init, TypeOK, Progress
<1>2. TypeOK /\ Progress /\ [Next]_vars => (TypeOK /\ Progress)'
  BY NextInvariant
<1> QED
  BY <1>1, <1>2, PTL DEF Spec

\* Every variable keeps its type, and no channel both takes a message and
\* fails, for every builder and with or without outages.
THEOREM TypeCorrect == Spec => []TypeOK
BY Invariant, PTL

---------------------------------------------------------------------------
(* What a call that ends has done.                                         *)

CriticalStep ==
    call = "NotifyCritical" /\ call' = "none" => delivered \cup errs = Names

HonestStep ==
    call = "Notify" /\ call' = "none" =>
        LET enabled == {c \in Names : notifier[c].enabled}
        IN  /\ delivered \subseteq enabled
            /\ result' = "ok" <=> delivered = enabled

\* A call ends only by Return, when it has passed every channel.
LEMMA EndFacts ==
    ASSUME TypeOK, Progress, [Next]_vars, call # "none", call' = "none"
    PROVE  Return /\ Passed = Names
<1>1. Return
  BY DEF Next, Event, Skip, SendFails, Send, vars
<1>2. channel = 3
  BY <1>1, ChannelFacts DEF Return, TypeOK
<1> QED
  BY <1>1, <1>2, ChannelFacts DEF Passed

\* A critical event is tried on both channels, enabled or not, also when the
\* first one fails.
THEOREM CriticalOnBoth == Spec => CriticalTriesAll
<1>1. TypeOK /\ Progress /\ [Next]_vars => [CriticalStep]_vars
  <2> SUFFICES ASSUME TypeOK, Progress, [Next]_vars,
                      call = "NotifyCritical", call' = "none"
               PROVE  delivered \cup errs = Names
    BY DEF CriticalStep
  <2> QED
    BY EndFacts DEF Progress, Wanted
<1> QED
  BY <1>1, Invariant, PTL DEF Spec, CriticalTriesAll, CriticalStep

\* Notify uses enabled channels only, and returns no error exactly when each
\* of them took the message.
THEOREM NotifyHonest == Spec => NotifyIsHonest
<1>1. TypeOK /\ Progress /\ [Next]_vars => [HonestStep]_vars
  <2> SUFFICES ASSUME TypeOK, Progress, [Next]_vars, call = "Notify", call' = "none"
               PROVE  HonestStep
    BY DEF HonestStep
  <2> DEFINE enabled == {c \in Names : notifier[c].enabled}
  <2>1. delivered \cup errs = enabled
    BY EndFacts DEF Progress, Wanted
  <2>2. result' = "ok" <=> errs = {}
    BY EndFacts DEF Return
  <2>3. delivered \cap errs = {}
    BY DEF TypeOK
  <2>4. errs = {} <=> delivered = enabled
    BY <2>1, <2>3
  <2> QED
    BY <2>1, <2>2, <2>4 DEF HonestStep
<1> QED
  BY <1>1, Invariant, PTL DEF Spec, NotifyIsHonest, HonestStep
=============================================================================
