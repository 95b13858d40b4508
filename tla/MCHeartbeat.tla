------------------------------ MODULE MCHeartbeat ------------------------------
(* A small instance of Heartbeat for TLC: the bounds are in the .cfg file. *)
EXTENDS Heartbeat, TLC
=============================================================================
