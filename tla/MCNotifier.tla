----------------------------- MODULE MCNotifier -----------------------------
(* Instances of Notifier for TLC.                                           *)
EXTENDS Notifier
=============================================================================
