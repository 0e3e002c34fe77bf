------------------------------ MODULE Notifier ------------------------------
(***************************************************************************)
(* pkg/notifier and the controller's use of it (buildNotifier,             *)
(* sendRenewalSuccess, sendRollbackNotification, sendCriticalAlert): the   *)
(* two channels of a notifier are tried one after the other.               *)
(*                                                                         *)
(* Left out: the text of a message, and that the caller ignores the error  *)
(* Notify returns.                                                         *)
(***************************************************************************)
EXTENDS Naturals, Sequences

CONSTANTS
    Builders,  \* who makes the notifier: "New" with every setting, as a user
               \* of the package can, or the controller's "buildNotifier"
    Outages    \* may a server refuse a message?

Channels == <<"smtp", "slack">>
Names    == {"smtp", "slack"}

ASSUME NotifierAssumption ==
    /\ Builders \subseteq {"New", "buildNotifier"}
    /\ Outages \in BOOLEAN

\* A channel's settings: enabled, and whether what sending needs is there (Host
\* and To, or WebhookURL; in the spec, a Secret of SecretRef that holds them).
Settings == [Names -> [enabled : BOOLEAN, configured : BOOLEAN]]

VARIABLES
    spec,       \* spec.notifications
    notifier,   \* the settings the notifier was made with
    call,       \* "none", "Notify" or "NotifyCritical"
    channel,    \* the channel it is at, an index of Channels
    delivered,  \* channels that took the message
    errs,       \* channels whose sending failed
    result      \* what the last call returned: "ok", "error", or "none"

vars == <<spec, notifier, call, channel, delivered, errs, result>>

TypeOK ==
    /\ spec \in Settings /\ notifier \in Settings
    /\ call \in {"none", "Notify", "NotifyCritical"}
    /\ channel \in 1..Len(Channels) + 1
    /\ delivered \subseteq Names /\ errs \subseteq Names
    /\ delivered \cap errs = {}
    /\ result \in {"ok", "error", "none"}

Init ==
    /\ spec \in Settings /\ notifier = spec
    /\ call = "none" /\ channel = 1
    /\ delivered = {} /\ errs = {} /\ result = "none"

---------------------------------------------------------------------------
\* buildNotifier passes on Enabled and nothing else.
Build(builder) ==
    IF builder = "New" THEN spec
    ELSE [c \in Names |-> [enabled |-> spec[c].enabled, configured |-> FALSE]]

\* An event: a notifier is made and one of its methods is called.
Event ==
    /\ call = "none"
    /\ \E b \in Builders : notifier' = Build(b)
    /\ call' \in {"Notify", "NotifyCritical"}
    /\ channel' = 1 /\ delivered' = {} /\ errs' = {} /\ result' = "none"
    /\ UNCHANGED spec

Current == Channels[channel]

\* (Variant with a bug: a critical event goes the way of all others.)
WantedIfEnabled(c) == notifier[c].enabled

\* Notify tries the enabled channels, NotifyCritical all of them.
Wanted(c) == notifier[c].enabled \/ call = "NotifyCritical"

Skip ==
    /\ call # "none" /\ channel <= Len(Channels)
    /\ ~Wanted(Current)
    /\ channel' = channel + 1
    /\ UNCHANGED <<spec, notifier, call, delivered, errs, result>>

\* (Variant with a bug: the first channel that fails ends the call.)
SendFailsAtOnce ==
    /\ call # "none" /\ channel <= Len(Channels)
    /\ Wanted(Current)
    /\ ~notifier[Current].configured \/ Outages
    /\ errs' = errs \cup {Current}
    /\ channel' = Len(Channels) + 1
    /\ UNCHANGED <<spec, notifier, call, delivered, result>>

\* (Variant with a bug: a channel that fails is tried again.)
SendFailsRetried ==
    /\ call # "none" /\ channel <= Len(Channels)
    /\ Wanted(Current)
    /\ ~notifier[Current].configured \/ Outages
    /\ errs' = errs \cup {Current}
    /\ UNCHANGED <<spec, notifier, call, channel, delivered, result>>

\* sendSMTP or sendSlack returns an error, which is only logged: the channel
\* is not configured, or its server does not take the message.
SendFails ==
    /\ call # "none" /\ channel <= Len(Channels)
    /\ Wanted(Current)
    /\ ~notifier[Current].configured \/ Outages
    /\ errs' = errs \cup {Current}
    /\ channel' = channel + 1
    /\ UNCHANGED <<spec, notifier, call, delivered, result>>

\* The server takes the message.  (One that never answers would hold the call
\* for ever, neither channel has a timeout; this is left out.)
Send ==
    /\ call # "none" /\ channel <= Len(Channels)
    /\ Wanted(Current) /\ notifier[Current].configured
    /\ delivered' = delivered \cup {Current}
    /\ channel' = channel + 1
    /\ UNCHANGED <<spec, notifier, call, errs, result>>

\* (Variant with a bug: the error of the last channel is the result.)
ReturnLast ==
    /\ call # "none" /\ channel > Len(Channels)
    /\ result' = IF call = "Notify" /\ "slack" \in errs THEN "error" ELSE "ok"
    /\ call' = "none"
    /\ UNCHANGED <<spec, notifier, channel, delivered, errs>>

\* Notify reports the errors it met, NotifyCritical reports nothing.
Return ==
    /\ call # "none" /\ channel > Len(Channels)
    /\ result' = IF call = "Notify" /\ errs # {} THEN "error" ELSE "ok"
    /\ call' = "none"
    /\ UNCHANGED <<spec, notifier, channel, delivered, errs>>

Next == Event \/ Skip \/ SendFails \/ Send \/ Return

Spec == Init /\ [][Next]_vars

---------------------------------------------------------------------------
\* A critical event is tried on both channels, enabled or not, also when the
\* first one fails: at the end each of them either took the message or has an
\* error in the log.  (notifier.go line 109: "firing unconditionally via all
\* channels regardless of notification config".)
CriticalTriesAll ==
    [][call = "NotifyCritical" /\ call' = "none" => delivered \cup errs = Names]_vars

\* Notify returns no error only when every enabled channel took the message,
\* and uses no channel that is not enabled.
NotifyIsHonest ==
    [][call = "Notify" /\ call' = "none" =>
         LET enabled == {c \in Names : notifier[c].enabled}
         IN  /\ delivered \subseteq enabled
             /\ result' = "ok" <=> delivered = enabled]_vars

---------------------------------------------------------------------------
\* README line 101: "a P0 critical alert fires unconditionally via both SMTP
\* and Slack": a channel that is configured takes it unless its server fails.
CriticalDelivered ==
    [][call = "NotifyCritical" /\ call' = "none" =>
         \A c \in Names : spec[c].configured => c \in delivered]_vars
=============================================================================
