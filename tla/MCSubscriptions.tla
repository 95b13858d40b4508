---------------------------- MODULE MCSubscriptions ----------------------------
(* Small instances of Subscriptions for TLC: the bounds are in the .cfg files. *)
EXTENDS Subscriptions, TLC
=============================================================================
