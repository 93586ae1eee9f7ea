---------------------------- MODULE MCDevicePath ----------------------------
(* A queue of two slots, one retry, windows of two requests; four commands  *)
(* of the runner, two accidents.                                            *)
EXTENDS DevicePath
=============================================================================
