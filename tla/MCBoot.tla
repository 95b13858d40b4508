--------------------------------- MODULE MCBoot ---------------------------------
(* A small instance of Boot for TLC: the bounds are in the .cfg file. *)
EXTENDS Boot, TLC

CONSTANTS old, other, new

\* Two nodes of the release before, one of the release that adds a migration.
MCLast == [n \in Nodes |-> IF n = new THEN 2 ELSE 1]
=============================================================================
