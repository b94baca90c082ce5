----------------------------- MODULE MCFailover -----------------------------
(* Instance of Failover for TLC.                                           *)
EXTENDS Failover
=============================================================================
