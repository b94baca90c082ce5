------------------------------ MODULE MCEgress ------------------------------
(* Instance of Egress for TLC.                                              *)
EXTENDS Egress
=============================================================================
