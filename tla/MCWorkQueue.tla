---------------------------- MODULE MCWorkQueue ----------------------------
(* The instance of WorkQueue for TLC.                                       *)
EXTENDS WorkQueue
=============================================================================
