------------------------------- MODULE MCDelivery -------------------------------
(* Small instances of Delivery for TLC: the bounds are in the .cfg files. *)
EXTENDS Delivery, TLC

\* Tabs differ by their names only.
TabSymmetry == Permutations(Tabs)
=============================================================================
