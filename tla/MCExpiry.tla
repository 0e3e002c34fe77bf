------------------------------ MODULE MCExpiry ------------------------------
(* Instances of Expiry for TLC.                                             *)
EXTENDS Expiry
=============================================================================
