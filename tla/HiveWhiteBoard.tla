--------------------------- MODULE HiveWhiteBoard ---------------------------
(***************************************************************************)
(* The event store of GaudiHive, HiveWhiteBoard: NumSlots partitions, each *)
(* with the number of the event it holds, and the queue of free ones.      *)
(***************************************************************************)
EXTENDS Integers, Sequences, EventContexts

VARIABLES
  eventNumber,   \* Partition::eventNumber of each store, NoEvent when free
  freeStores     \* HiveWhiteBoard::m_freeSlots

boardVars == <<eventNumber, freeStores>>

\* initialize() pushes the stores in order.
BoardInit ==
  /\ eventNumber = [s \in Slots |-> NoEvent]
  /\ freeStores = [i \in 1 .. NumSlots |-> i - 1]

\* Mutant: the store stays in the queue.
AllocateStorePeek(e, s) ==
  /\ freeStores # <<>> /\ s = Head(freeStores)
  /\ eventNumber' = [eventNumber EXCEPT ![s] = e]
  /\ UNCHANGED freeStores

\* allocateStore, when try_pop finds store s.
AllocateStore(e, s) ==
  /\ freeStores # <<>> /\ s = Head(freeStores)
  /\ freeStores' = Tail(freeStores)
  /\ eventNumber' = [eventNumber EXCEPT ![s] = e]

\* Mutant: the store is not put back in the queue.
FreeStoreForgets(s) ==
  /\ eventNumber' = [eventNumber EXCEPT ![s] = NoEvent]
  /\ UNCHANGED freeStores

\* freeStore.  Freeing a store that is free fails and leaves it alone.
FreeStore(s) ==
  /\ eventNumber' = [eventNumber EXCEPT ![s] = NoEvent]
  /\ freeStores' = IF eventNumber[s] = NoEvent THEN freeStores ELSE Append(freeStores, s)

\* allocateStore followed by freeStore of the same store.
BounceStore ==
  /\ freeStores # <<>>
  /\ freeStores' = Append(Tail(freeStores), Head(freeStores))
  /\ UNCHANGED eventNumber
=============================================================================
