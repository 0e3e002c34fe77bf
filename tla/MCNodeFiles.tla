---------------------------- MODULE MCNodeFiles ----------------------------
(* Instances of NodeFiles for TLC.                                         *)
EXTENDS NodeFiles

CONSTANTS c1, k1

InOrder == <<<<c1, "crt">>, <<c1, "key">>, <<k1, "conf">>>>
=============================================================================
