------------------------------- MODULE MCSlots -------------------------------
(***************************************************************************)
(* Slots with a hash that makes the nodes take turns.                      *)
(***************************************************************************)
EXTENDS Slots, TLC

MCHash == [x \in Slot \X SUBSET Node |-> x[1]]
==============================================================================
