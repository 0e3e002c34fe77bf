---------------------------- MODULE ExpiryProofs ----------------------------
(***************************************************************************)
(* No certificate expires, for every threshold, interval, jitter, validity *)
(* and number of failures for which the settings leave enough time, and    *)
(* none is replaced outside the window around its threshold.               *)
(***************************************************************************)
EXTENDS Expiry, TLAPS

\* The time that is needed at least for the attempts that are left: every one
\* of them may come a whole Gap after the one before.
Reserve(f) == (MaxFailures - f + 1) * Gap

\* The certificate outlives the attempts that are left.
Covered == since <= Gap /\ left > Reserve(fails) - since

IInv == TypeOK /\ Covered

\* requeueWithJitter and Late are natural numbers, hence the longest gap is.
LEMMA GapType == Gap \in Nat
BY ExpiryAssumption DEF Gap, Requeue, HOUR

\* The products of Gap that the steps compare.
LEMMA Products ==
    ASSUME NEW g \in Nat, NEW m \in Nat, NEW f \in 0..m
    PROVE  /\ (m - f + 1) * g \in Nat
           /\ (m - f + 1) * g <= (m + 1) * g
           /\ (m - f + 1) * g >= g
           /\ (m - (f + 1) + 1) * g = (m - f + 1) * g - g
<1>1. m - f \in Nat
  OBVIOUS
<1>2. (m - f) * g \in Nat /\ f * g \in Nat
  BY <1>1
<1>3. (m - f + 1) * g = (m - f) * g + g
  BY <1>1
<1>4. (m + 1) * g = (m - f + 1) * g + f * g
  BY <1>1
<1>5. m - (f + 1) + 1 = m - f
  OBVIOUS
<1> QED
  BY <1>1, <1>2, <1>3, <1>4, <1>5

\* Reserve is a natural number that covers one more gap, and falls by a gap
\* with every failure.
LEMMA ReserveFacts ==
    ASSUME NEW f \in 0..MaxFailures
    PROVE  /\ Reserve(f) \in Nat
           /\ Reserve(f) <= (MaxFailures + 1) * Gap
           /\ Reserve(f) >= Gap
           /\ Reserve(f + 1) = Reserve(f) - Gap
BY GapType, Products, ExpiryAssumption DEF Reserve

\* classify and the truncation of the detector: OK means that at least one day
\* more than the threshold is left.
LEMMA OKMeansFar ==
    ASSUME NEW s \in Int, Classify(ResidualDays(s)) = "OK"
    PROVE  s >= (ThresholdDays + 1) * DAY
<1>1. ResidualDays(s) > ThresholdDays /\ ResidualDays(s) > 0
  BY ExpiryAssumption DEF Classify, ResidualDays, DAY, HOUR
<1>2. s >= 0
  BY <1>1 DEF ResidualDays, DAY, HOUR
<1>3. s \div DAY >= ThresholdDays + 1
  BY <1>1, <1>2, ExpiryAssumption DEF ResidualDays, DAY, HOUR
<1> QED
  BY <1>2, <1>3, ExpiryAssumption DEF DAY, HOUR

\* A detection gives one of the three statuses of detector.go.
LEMMA ClassifyType == \A d \in Int : Classify(d) \in Statuses
BY DEF Classify, Statuses

LEMMA InitCovered ==
    ASSUME EarlyEnough, Init
    PROVE  IInv
<1>1. TypeOK
  BY ExpiryAssumption DEF Init, TypeOK, Statuses
<1>2. Reserve(0) = (MaxFailures + 1) * Gap
  BY ExpiryAssumption DEF Reserve
<1>3. Covered
  BY <1>2, GapType, ExpiryAssumption DEF Init, EarlyEnough, Covered
<1> QED
  BY <1>1, <1>3 DEF IInv

LEMMA NextCovered ==
    ASSUME EarlyEnough, IInv, [Next]_vars
    PROVE  IInv'
<1> USE DEF IInv, TypeOK, Covered
<1>1. ASSUME Elapse PROVE IInv'
  <2>1. PICK d \in Elapses : /\ since + d <= Gap
                             /\ since' = since + d
                             /\ left' = left - d
    BY <1>1 DEF Elapse
  <2>2. d \in Nat
    BY ExpiryAssumption
  <2>3. Reserve(fails) \in Nat /\ Reserve(fails)' = Reserve(fails)
    BY <1>1, ReserveFacts DEF Elapse, Reserve
  <2> QED
    BY <1>1, <2>1, <2>2, <2>3 DEF Elapse
<1>2. ASSUME Check PROVE IInv'
  <2>1. status' \in Statuses /\ since' = 0
    <3>1. ResidualDays(left) \in Int
      BY DEF ResidualDays, DAY, HOUR
    <3> QED
      BY <1>2, <3>1, ClassifyType DEF Check
  <2>2. CASE status' = "OK" /\ UNCHANGED <<left, fails>>
    <3>1. left >= (ThresholdDays + 1) * DAY
      BY <1>2, <2>2, OKMeansFar DEF Check
    <3>2. Reserve(fails) \in Nat /\ Reserve(fails) <= (MaxFailures + 1) * Gap
      BY ReserveFacts
    <3>3. left > Reserve(fails)
      BY <3>1, <3>2, ExpiryAssumption, GapType DEF EarlyEnough, DAY, HOUR
    <3>4. Reserve(fails') = Reserve(fails)
      BY <2>2
    <3> QED
      BY <2>1, <2>2, <3>2, <3>3, <3>4, GapType
  <2>3. CASE status' # "OK" /\ left' = Validity /\ fails' = 0
    <3>1. Reserve(0) \in Nat /\ Reserve(0) <= (MaxFailures + 1) * Gap
      BY ReserveFacts, ExpiryAssumption
    <3>2. Validity > Reserve(0)
      BY <3>1, ExpiryAssumption, GapType DEF EarlyEnough
    <3> QED
      BY <2>1, <2>3, <3>1, <3>2, GapType, ExpiryAssumption
  <2>4. CASE status' # "OK" /\ fails < MaxFailures /\ fails' = fails + 1 /\ left' = left
    <3>1. Reserve(fails) \in Nat /\ Reserve(fails + 1) = Reserve(fails) - Gap
      BY ReserveFacts
    <3>2. Reserve(fails') = Reserve(fails) - Gap
      BY <3>1, <2>4
    <3>3. left > Reserve(fails) - Gap
      BY <3>1, GapType
    <3> QED
      BY <2>1, <2>4, <3>1, <3>2, <3>3, GapType, ExpiryAssumption
  <2> QED
    BY <1>2, <2>2, <2>3, <2>4 DEF Check
<1>3. ASSUME UNCHANGED vars PROVE IInv'
  BY <1>3 DEF vars, Reserve
<1> QED
  BY <1>1, <1>2, <1>3 DEF Next

LEMMA CoveredNotExpired == IInv => NeverExpired
BY ReserveFacts, GapType DEF IInv, TypeOK, Covered, NeverExpired

\* For every threshold, interval, jitter, validity and number of failures that
\* leave enough time, no certificate expires between two calls of Reconcile.
THEOREM Renewed ==
    ASSUME EarlyEnough
    PROVE  Spec => []NeverExpired
<1>1. Init => IInv
  BY InitCovered
<1>2. IInv /\ [Next]_vars => IInv'
  BY NextCovered
<1> QED
  BY <1>1, <1>2, CoveredNotExpired, PTL DEF Spec
---------------------------------------------------------------------------
(* The window in which a certificate is replaced.                          *)

\* The settings give every certificate a day more than the threshold at the
\* start of its life, so that a new one is not due at once.
LongEnough ==
    /\ Validity >= (ThresholdDays + 1) * DAY
    /\ \A s \in Installed : s >= (ThresholdDays + 1) * DAY

\* The time a certificate has been due is at most that since the last call and
\* a gap for every renewal that failed.
Window ==
    /\ since <= Gap
    /\ left + since + fails * Gap >= (ThresholdDays + 1) * DAY

WInv == TypeOK /\ Window

\* The converse of OKMeansFar: what is not OK has less than a day more than
\* the threshold left.
LEMMA FarMeansOK ==
    ASSUME NEW s \in Int, s >= (ThresholdDays + 1) * DAY
    PROVE  Classify(ResidualDays(s)) = "OK"
<1>1. s >= 0 /\ s \div DAY >= ThresholdDays + 1
  BY ExpiryAssumption DEF DAY, HOUR
<1>2. ResidualDays(s) >= ThresholdDays + 1 /\ ResidualDays(s) \in Int
  BY <1>1 DEF ResidualDays, DAY, HOUR
<1> QED
  BY <1>2, ExpiryAssumption DEF Classify

\* A failure adds one gap to the product.
LEMMA OneMore ==
    ASSUME NEW g \in Nat, NEW f \in Nat
    PROVE  f * g \in Nat /\ (f + 1) * g = f * g + g
OBVIOUS

\* The steps keep the types whatever the settings are.
LEMMA NextType ==
    ASSUME TypeOK, [Next]_vars
    PROVE  TypeOK'
<1> USE DEF TypeOK
<1>1. ASSUME Elapse PROVE TypeOK'
  BY <1>1, ExpiryAssumption DEF Elapse
<1>2. ASSUME Check PROVE TypeOK'
  <2>1. ResidualDays(left) \in Int
    BY DEF ResidualDays, DAY, HOUR
  <2>2. status' \in Statuses
    BY <1>2, <2>1, ClassifyType DEF Check
  <2> QED
    BY <1>2, <2>2, ExpiryAssumption DEF Check
<1>3. ASSUME UNCHANGED vars PROVE TypeOK'
  BY <1>3 DEF vars
<1> QED
  BY <1>1, <1>2, <1>3 DEF Next

\* The schedule starts with the types of its variables.
LEMMA InitType == Init => TypeOK
BY ExpiryAssumption DEF Init, TypeOK, Statuses

\* The type invariant, for every setting.
THEOREM TypeCorrect == Spec => []TypeOK
BY InitType, NextType, PTL DEF Spec

LEMMA InitWindow ==
    ASSUME LongEnough, Init
    PROVE  WInv
<1>1. Window
  BY GapType, ExpiryAssumption DEF Init, LongEnough, Window, DAY, HOUR
<1> QED
  BY <1>1, InitType DEF WInv

LEMMA NextWindow ==
    ASSUME LongEnough, WInv, [Next]_vars
    PROVE  WInv'
<1> TypeOK'
  BY NextType DEF WInv
<1> SUFFICES Window'
  BY DEF WInv
<1> DEFINE Far == (ThresholdDays + 1) * DAY
<1>0. Gap \in Nat /\ Gap' = Gap /\ Far \in Nat
  BY GapType, ExpiryAssumption DEF Gap, Requeue, HOUR, DAY
<1>t. /\ left \in Int /\ since \in Nat /\ fails \in Nat
      /\ since <= Gap /\ left + since + fails * Gap >= Far
      /\ fails * Gap \in Nat
  BY <1>0, OneMore, ExpiryAssumption DEF WInv, Window, TypeOK
<1>w. ASSUME since' <= Gap, left' + since' + fails' * Gap >= Far
      PROVE  Window'
  BY <1>0, <1>w DEF Window
<1> HIDE DEF Far
<1>1. CASE Elapse
  <2>1. PICK d \in Elapses : /\ since + d <= Gap
                             /\ since' = since + d
                             /\ left' = left - d
    BY <1>1 DEF Elapse
  <2>2. d \in Nat /\ fails' * Gap = fails * Gap
    BY <1>1, ExpiryAssumption DEF Elapse
  <2>3. left' + since' + fails' * Gap >= Far
    BY <1>0, <1>t, <2>1, <2>2
  <2> QED
    BY <2>1, <2>3, <1>w
<1>2. CASE Check
  <2>1. since' = 0 /\ since' <= Gap
    BY <1>2, <1>0 DEF Check
  <2>2. CASE status' = "OK" /\ UNCHANGED <<left, fails>>
    <3>1. left >= Far
      BY <1>2, <2>2, <1>t, OKMeansFar DEF Check, Far
    <3>2. left' + since' + fails' * Gap >= Far
      BY <3>1, <2>1, <2>2, <1>t, <1>0
    <3> QED
      BY <2>1, <3>2, <1>w
  <2>3. CASE left' = Validity /\ fails' = 0
    <3>1. Validity >= Far /\ Validity \in Nat
      BY ExpiryAssumption DEF LongEnough, Far
    <3>2. left' + since' + fails' * Gap >= Far
      BY <3>1, <2>1, <2>3, <1>0
    <3> QED
      BY <2>1, <3>2, <1>w
  <2>4. CASE fails' = fails + 1 /\ left' = left
    <3>1. fails' * Gap = fails * Gap + Gap
      BY <2>4, <1>0, <1>t, OneMore
    <3>2. left' + since' + fails' * Gap >= Far
      BY <3>1, <2>1, <2>4, <1>0, <1>t
    <3> QED
      BY <2>1, <3>2, <1>w
  <2> QED
    BY <1>2, <2>2, <2>3, <2>4 DEF Check
<1>3. CASE UNCHANGED vars
  <2>1. since' <= Gap /\ left' + since' + fails' * Gap >= Far
    BY <1>3, <1>t DEF vars
  <2> QED
    BY <2>1, <1>w
<1> QED
  BY <1>1, <1>2, <1>3 DEF Next

\* A step that replaces the certificate finds it due, and after no more gaps
\* than there may be failures.
LEMMA StepInWindow ==
    ASSUME WInv, [Next]_vars, left' > left
    PROVE  /\ left < (ThresholdDays + 1) * DAY
           /\ left >= (ThresholdDays + 1) * DAY - (MaxFailures + 1) * Gap
<1> DEFINE Far == (ThresholdDays + 1) * DAY
<1>0. Gap \in Nat /\ Far \in Nat
  BY GapType, ExpiryAssumption DEF DAY, HOUR
<1>t. /\ left \in Int /\ since \in Nat /\ fails \in 0..MaxFailures /\ MaxFailures \in Nat
      /\ since <= Gap /\ left + since + fails * Gap >= Far
  BY ExpiryAssumption DEF WInv, Window, TypeOK
<1>1. Check
  BY ExpiryAssumption, <1>t DEF Next, Elapse, vars
<1>2. status' # "OK"
  BY <1>1, <1>t DEF Check
<1>3. left < Far
  BY <1>1, <1>2, <1>t, <1>0, FarMeansOK DEF Check
<1>4. /\ fails * Gap \in Nat
      /\ (MaxFailures + 1) * Gap >= fails * Gap + Gap
  <2>1. (MaxFailures - fails) \in Nat
    BY <1>t
  <2>2. (MaxFailures - fails) * Gap \in Nat /\ fails * Gap \in Nat
    BY <2>1, <1>t, <1>0
  <2>3. (MaxFailures + 1) * Gap = (MaxFailures - fails) * Gap + fails * Gap + Gap
    BY <1>t, <1>0
  <2> QED
    BY <2>2, <2>3, <1>0
<1>5. left >= Far - (fails * Gap + Gap)
  BY <1>t, <1>0, <1>4
<1>6. left >= Far - (MaxFailures + 1) * Gap
  <2> HIDE DEF Far
  <2>1. (MaxFailures + 1) * Gap \in Nat
    BY <1>t, <1>0
  <2> QED
    BY <1>5, <1>4, <2>1, <1>t, <1>0
<1> QED
  BY <1>3, <1>6

\* For every setting that makes a new certificate outlast its threshold, one
\* is replaced not more than a day before it is due and not later than the
\* calls that may fail allow.
THEOREM ReplacedInWindow ==
    ASSUME LongEnough
    PROVE  Spec => RenewedInWindow
<1>1. Init => WInv
  BY InitWindow
<1>2. WInv /\ [Next]_vars => WInv'
  BY NextWindow
<1>3. WInv /\ [Next]_vars =>
          [left' > left =>
             /\ left < (ThresholdDays + 1) * DAY
             /\ left >= (ThresholdDays + 1) * DAY - (MaxFailures + 1) * Gap]_vars
  BY StepInWindow
<1> QED
  BY <1>1, <1>2, <1>3, PTL DEF Spec, RenewedInWindow
=============================================================================
