------------------------------ MODULE MCConnection ------------------------------
(* Small instances of Connection for TLC: the bounds are in the .cfg files. *)
EXTENDS Connection, TLC
=============================================================================
