---------------------------- MODULE MCBroadcast ----------------------------
(* Broadcast on a small instance for TLC.                                  *)
EXTENDS Broadcast
CONSTANTS c1, c2, t1, t2
=============================================================================
