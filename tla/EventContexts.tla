---------------------------- MODULE EventContexts ----------------------------
(***************************************************************************)
(* What the event loop, the whiteboard and the scheduler share about       *)
(* events: an EventContext carries an event number and a slot, and the     *)
(* slot of the scheduler is forced to be the whiteboard's store.           *)
(***************************************************************************)
EXTENDS Integers

CONSTANTS
  NumSlots,   \* whiteboard stores, and so event slots of the scheduler
  MaxEvents   \* bound: event numbers the loop may use

ASSUME EventContextsAssumption == NumSlots \in Nat \ {0} /\ MaxEvents \in Nat

Slots  == 0 .. (NumSlots - 1)
Events == 0 .. (MaxEvents - 1)
NoEvent == -1   \* a null EventContext pointer; eventNumber of a free store
NoSlot  == -1
=============================================================================
