--------------------------- MODULE MCSendNotification ---------------------------
(* A small instance of SendNotification for TLC: the bounds are in the .cfg file. *)
EXTENDS SendNotification, TLC

CONSTANTS alice, bob

MCLists == {<< >>, <<alice, Blank, alice>>, <<Blank, bob, alice>>, <<alice, bob>>}
=============================================================================
