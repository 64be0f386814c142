----------------------------- MODULE MCHeartbeat -----------------------------
(* The instances of Heartbeat for TLC take their constants from the code.  *)
EXTENDS Heartbeat
=============================================================================
