-------------------------------- MODULE MCInbox --------------------------------
(* A small instance of Inbox for TLC: the bounds are in MCInbox.cfg. *)
EXTENDS Inbox, TLC

Symmetry == Permutations(Users)
=============================================================================
