----------------------------- MODULE MCWakeStream -----------------------------
(* Instances of WakeStream for TLC.                                          *)
EXTENDS WakeStream
=============================================================================
