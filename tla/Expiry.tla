------------------------------- MODULE Expiry -------------------------------
(***************************************************************************)
(* When a certificate is renewed: the day arithmetic of the detector, the  *)
(* validity the generator gives a new certificate, and the schedule of     *)
(* Reconcile.  Time is in seconds.                                         *)
(*                                                                         *)
(* A call of Reconcile is an instant here; what it takes, and what a crash *)
(* or a retry adds before the next one, is in Late.  Calls may come        *)
(* earlier than scheduled (watch events, resync, restarts).  Reconciler.tla*)
(* has what may fail in a renewal; here it just fails, at most MaxFailures *)
(* times in a row, and the node never becomes Critical.                    *)
(***************************************************************************)
EXTENDS Integers

CONSTANTS
    ThresholdDays,       \* spec.thresholdDays
    CheckIntervalHours,  \* spec.checkIntervalHours
    Validity,            \* certValidity
    Jitter,              \* the jitter of this node
    Late,                \* bound on how late a scheduled call is
    MaxFailures,         \* bound on renewals that fail in a row
    Installed,           \* what the certificate may have left at the start
    Elapses              \* the intervals in which time advances

HOUR == 3600
DAY  == 24 * HOUR

ASSUME ExpiryAssumption ==
    /\ ThresholdDays \in 1..365 /\ CheckIntervalHours \in 1..168
    /\ Jitter \in 0..119
    /\ Validity \in Nat /\ Late \in Nat /\ MaxFailures \in Nat
    /\ Installed \subseteq Int /\ Elapses \subseteq Nat \ {0}

Statuses == {"OK", "APPROACHING", "EXPIRED"}

VARIABLES
    left,    \* NotAfter minus the current time
    since,   \* time since the last call
    status,  \* what the last call made of the certificate
    fails    \* renewals that failed since the last that did not

vars == <<left, since, status, fails>>

TypeOK ==
    /\ left \in Int /\ since \in Nat
    /\ status \in Statuses /\ fails \in 0..MaxFailures

Init ==
    /\ left \in Installed
    /\ since = 0 /\ status = "OK" /\ fails = 0

---------------------------------------------------------------------------
\* requeueWithJitter
Requeue == CheckIntervalHours * HOUR + Jitter

\* The longest time between two calls.
Gap == Requeue + Late

\* (Variant with a bug: the part of a day counts as a day.)
ResidualDaysRoundedUp(seconds) ==
    IF seconds >= 0 THEN (seconds + DAY - 1) \div DAY ELSE -((-seconds) \div DAY)

\* int(residual.Hours() / 24) truncates towards zero.
ResidualDays(seconds) ==
    IF seconds >= 0 THEN seconds \div DAY ELSE -((-seconds) \div DAY)

\* (Variant with a bug: no certificate is ever APPROACHING.)
ClassifyExpiredOnly(days) == IF days <= 0 THEN "EXPIRED" ELSE "OK"

\* (Variant with a bug: the name of a status is misspelt.)
ClassifyUnknown(days) ==
    IF days <= 0 THEN "EXPIRED"
    ELSE IF days <= ThresholdDays THEN "EXPIRING" ELSE "OK"

\* classify
Classify(days) ==
    IF days <= 0 THEN "EXPIRED"
    ELSE IF days <= ThresholdDays THEN "APPROACHING" ELSE "OK"

Elapse ==
    /\ \E d \in Elapses : /\ since + d <= Gap
                          /\ since' = since + d
                          /\ left' = left - d
    /\ UNCHANGED <<status, fails>>

\* A call: unless the certificate is OK it is replaced by a new one, or its
\* renewal fails.
Check ==
    /\ status' = Classify(ResidualDays(left))
    /\ since' = 0
    /\ \/ status' = "OK" /\ UNCHANGED <<left, fails>>
       \/ status' # "OK" /\ left' = Validity /\ fails' = 0
       \/ status' # "OK" /\ fails < MaxFailures /\ fails' = fails + 1 /\ left' = left

Next == Elapse \/ Check

Spec == Init /\ [][Next]_vars

---------------------------------------------------------------------------
\* The settings of the schedule leave time for one more attempt than may
\* fail: before the certificate expires, counted from the last call that
\* still found it OK, from its renewal, and from the start.
EarlyEnough ==
    /\ (MaxFailures + 1) * Gap < (ThresholdDays + 1) * DAY
    /\ (MaxFailures + 1) * Gap < Validity
    /\ \A s \in Installed : (MaxFailures + 1) * Gap < s

\* No certificate expires.  (types.go line 28: "the number of days before
\* expiry at which renewal is triggered".)
NeverExpired == left > 0

\* A certificate is replaced only in a window around its threshold: not more
\* than a day early, the truncated part of ResidualDays, and after the calls
\* that failed.
RenewedInWindow ==
    [][left' > left =>
         /\ left < (ThresholdDays + 1) * DAY
         /\ left >= (ThresholdDays + 1) * DAY - (MaxFailures + 1) * Gap]_vars
=============================================================================
