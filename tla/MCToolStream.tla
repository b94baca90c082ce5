---------------------------- MODULE MCToolStream ----------------------------
(* Instance of ToolStream for TLC: three calls whose fragments overflow one *)
(* call's cap or, with none of them over its own, the cap of all.           *)
EXTENDS ToolStream
=============================================================================
