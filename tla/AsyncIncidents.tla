--------------------------- MODULE AsyncIncidents ---------------------------
(***************************************************************************)
(* The asynchronous incidents of IncidentSvc in one event slot, with those *)
(* who fire and who collect them: the event loop fires BeginEvent and      *)
(* BeginProcessing before it pushes an event, algorithms fire while they   *)
(* run, and instances of IncidentProcAlg call the listeners, without the   *)
(* mutex, for what the queue of the slot holds.  Nothing but the control   *)
(* flow orders the algorithms of an event; queue and m_slotEvent are looked*)
(* up and changed by several calls, each of them a step here.              *)
(***************************************************************************)
EXTENDS IncidentSvc

CONSTANTS
  Algs,       \* algorithms that fire
  Procs       \* instances of IncidentProcAlg

\* client.slot = [events, fires, before, chain]: how many events the slot gets;
\* what each algorithm fires; for each IncidentProcAlg the algorithms that the
\* control flow has before it; what the listeners of an incident fire
\* themselves.

Loop   == "loop"
Actors == {Loop} \cup Algs \cup Procs

ASSUME ActorsAssumption ==
  Loop \notin Algs /\ Loop \notin Procs /\ Algs \cap Procs = {}
ASSUME SlotAssumption ==
  \A c \in Clients :
    /\ c.slot.events \in Nat
    /\ \A a \in Algs : c.slot.fires[a] \in Seq(IncidentTypes)
    /\ \A k \in DOMAIN c.slot.chain : c.slot.chain[k] \in Seq(IncidentTypes)

VARIABLES
  event,      \* the event in the slot
  phase,      \* "begin", "run" or "over"
  queue,      \* m_firedIncidents of the slot
  slotEvent,  \* m_slotEvent of the slot; -1: not yet there
  todo,       \* actor |-> types of incident to fire
  firing,     \* actor |-> the fireIncident it is in: [at, type]
  proc,       \* IncidentProcAlg |-> "idle", "collect", "handle", "done"
  pack,       \* its incPack
  fired, delivered, unheard,  \* history: the incidents of the event
  owed                        \* history: what was queued when a proc began

slotVars == <<event, phase, queue, slotEvent, todo, firing, proc, pack, fired, delivered,
              unheard, owed>>
vars == <<syncVars, slotVars>>

Idle   == [at |-> "idle", type |-> ""]

\* What is to be fired in an event; executeEvent fires BeginEvent and
\* BeginProcessing.
ToFire ==
  [a \in Actors |-> IF a = Loop THEN <<"Begin", "Processing">>
                    ELSE IF a \in Algs THEN client.slot.fires[a] ELSE <<>>]

\* An event comes to the slot.
NewEvent(e) ==
  /\ event' = e /\ phase' = "begin"
  /\ todo' = ToFire
  /\ proc' = [p \in Procs |-> "idle"]
  /\ fired' = {} /\ delivered' = <<>> /\ unheard' = {} /\ owed' = [p \in Procs |-> {}]

Init ==
  /\ SyncInit
  /\ event = 0
  /\ phase = IF client.slot.events = 0 THEN "over" ELSE "begin"
  /\ queue = <<>> /\ slotEvent = -1
  /\ todo = ToFire
  /\ firing = [a \in Actors |-> Idle]
  /\ proc = [p \in Procs |-> "idle"] /\ pack = [p \in Procs |-> <<>>]
  /\ fired = {} /\ delivered = <<>> /\ unheard = {} /\ owed = [p \in Procs |-> {}]

-----------------------------------------------------------------------------
(* fireIncident( std::unique_ptr<Incident> ).                              *)

MayFire(a) == phase = IF a = Loop THEN "begin" ELSE "run"

\* Insert the slot's queue and event if they are not there, and compare.
LookUpSlot(a) ==
  /\ firing[a] = Idle /\ todo[a] # <<>> /\ MayFire(a)
  /\ slotEvent' = IF slotEvent = -1 THEN event ELSE slotEvent
  /\ firing' = [firing EXCEPT ![a] = [type |-> Head(todo[a]),
                                      at |-> IF slotEvent' # event THEN "write" ELSE "push"]]
  /\ todo' = [todo EXCEPT ![a] = Tail(@)]
  /\ UNCHANGED <<event, phase, queue, proc, pack, fired, delivered, unheard, owed>>

\* "if new event in slot, clear all remaining old incidents"
WriteSlotEvent(a) ==
  /\ firing[a].at = "write"
  /\ slotEvent' = event
  /\ firing' = [firing EXCEPT ![a].at = "clear"]
  /\ UNCHANGED <<event, phase, queue, todo, proc, pack, fired, delivered, unheard, owed>>

ClearQueue(a) ==
  /\ firing[a].at = "clear"
  /\ queue' = <<>>
  /\ firing' = [firing EXCEPT ![a].at = "push"]
  /\ UNCHANGED <<slotEvent, event, phase, todo, proc, pack, fired, delivered, unheard, owed>>

PushIncident(a) ==
  /\ firing[a].at = "push"
  /\ LET inc == [evt |-> event, type |-> firing[a].type, by |-> a, nr |-> Cardinality(fired)]
     IN  queue' = Append(queue, inc) /\ fired' = fired \cup {inc}
  /\ firing' = [firing EXCEPT ![a] = Idle]
  /\ UNCHANGED <<slotEvent, event, phase, todo, proc, pack, delivered, unheard, owed>>

FireIncident(a) == LookUpSlot(a) \/ WriteSlotEvent(a) \/ ClearQueue(a) \/ PushIncident(a)

Finished(a) == firing[a] = Idle /\ todo[a] = <<>>

-----------------------------------------------------------------------------
(* IncidentProcAlg::execute and getIncidents.                              *)

StartProc(p) ==
  /\ phase = "run" /\ proc[p] = "idle"
  /\ \A a \in client.slot.before[p] : Finished(a)
  /\ proc' = [proc EXCEPT ![p] = "collect"]
  /\ owed' = [owed EXCEPT ![p] = fired]
  /\ UNCHANGED <<event, phase, queue, slotEvent, todo, firing, pack, fired, delivered, unheard>>

\* One round of getIncidents: an incident of this event, with listeners, is
\* packed; others are dropped.
CollectIncident(p) ==
  /\ proc[p] = "collect" /\ queue # <<>>
  /\ LET inc   == Head(queue)
         heard == listeners[inc.type] # <<>>
     IN  /\ inc.evt = event => \A t \in Threads : ~HasLock(t)
         /\ pack' = IF inc.evt = event /\ heard THEN [pack EXCEPT ![p] = Append(@, inc)] ELSE pack
         /\ unheard' = IF heard THEN unheard ELSE unheard \cup {inc}
  /\ queue' = Tail(queue)
  /\ UNCHANGED <<event, phase, slotEvent, todo, firing, proc, fired, delivered, owed>>

\* The queue is empty.  A pack is handled; an empty one ends execute().
CollectEnds(p) ==
  /\ proc[p] = "collect" /\ queue = <<>>
  /\ proc' = [proc EXCEPT ![p] = IF pack[p] = <<>> THEN "done" ELSE "handle"]
  /\ UNCHANGED <<event, phase, queue, slotEvent, todo, firing, pack, fired, delivered, unheard, owed>>

\* Call the listeners of the next incident; they may fire in turn.
HandleIncident(p) ==
  /\ proc[p] = "handle" /\ pack[p] # <<>> /\ Finished(p)
  /\ delivered' = Append(delivered, Head(pack[p]))
  /\ todo' = [todo EXCEPT ![p] = IF Head(pack[p]).type \in DOMAIN client.slot.chain
                                 THEN client.slot.chain[Head(pack[p]).type] ELSE <<>>]
  /\ pack' = [pack EXCEPT ![p] = Tail(@)]
  /\ UNCHANGED <<event, phase, queue, slotEvent, firing, proc, fired, unheard, owed>>

\* Mutant: execute() does not look at the queue again.
PackIsLast(p) ==
  /\ proc[p] = "handle" /\ pack[p] = <<>> /\ Finished(p)
  /\ proc' = [proc EXCEPT ![p] = "done"]
  /\ UNCHANGED <<event, phase, queue, slotEvent, todo, firing, pack, fired, delivered, unheard, owed>>

\* The pack is handled; getIncidents is called again.
CollectAgain(p) ==
  /\ proc[p] = "handle" /\ pack[p] = <<>> /\ Finished(p)
  /\ proc' = [proc EXCEPT ![p] = "collect"]
  /\ UNCHANGED <<event, phase, queue, slotEvent, todo, firing, pack, fired, delivered, unheard, owed>>

ProcAlg(p) ==
  StartProc(p) \/ CollectIncident(p) \/ CollectEnds(p) \/ HandleIncident(p) \/ CollectAgain(p)

-----------------------------------------------------------------------------
\* The event is pushed, once the loop has fired its incidents; it ends when all
\* its algorithms are done; another event may come to the slot.
PushEvent ==
  /\ phase = "begin" /\ Finished(Loop)
  /\ phase' = "run"
  /\ UNCHANGED <<event, queue, slotEvent, todo, firing, proc, pack, fired, delivered, unheard, owed>>

EndEvent ==
  /\ phase = "run" /\ (\A a \in Algs : Finished(a)) /\ \A p \in Procs : proc[p] = "done"
  /\ IF event + 1 < client.slot.events THEN NewEvent(event + 1)
     ELSE phase' = "over" /\ UNCHANGED <<event, todo, proc, fired, delivered, unheard, owed>>
  /\ UNCHANGED <<queue, slotEvent, firing, pack>>

SlotNext ==
  \/ \E a \in Actors : FireIncident(a)
  \/ \E p \in Procs : ProcAlg(p)
  \/ PushEvent \/ EndEvent

Done == CallsMade /\ phase = "over" /\ UNCHANGED vars

Next ==
  \/ SyncNext /\ UNCHANGED slotVars
  \/ Registered /\ SlotNext /\ UNCHANGED syncVars
  \/ Done

Spec == Init /\ [][Next]_vars

-----------------------------------------------------------------------------
(* Properties.                                                             *)

\* What was queued when an IncidentProcAlg began, and what its own listeners
\* fire, is handled when the algorithms collecting are done: it was not
\* cleared, and unless nobody listens it was delivered, once.
AsyncDelivered ==
  /\ \A i, j \in DOMAIN delivered : delivered[i] = delivered[j] => i = j
  /\ (\A p \in Procs : proc[p] \in {"idle", "done"}) =>
       \A p \in Procs : proc[p] = "done" =>
         \A inc \in owed[p] \cup {i \in fired : i.by = p} :
           inc \in unheard \/ \E i \in DOMAIN delivered : delivered[i] = inc

\* "ensure incident is for this event (should not be necessary)": it is not
\* while an event runs, although algorithms may fire after the last
\* IncidentProcAlg, because the loop fires before it pushes the next event.
QueueOfThisEvent ==
  phase = "run" => \A i \in DOMAIN queue : queue[i].evt = event

\* Asynchronous incidents are exact: delivered to the event they were fired
\* for, and all of those that somebody was still to collect, once.
AsyncExact == AsyncDelivered /\ QueueOfThisEvent
=============================================================================
