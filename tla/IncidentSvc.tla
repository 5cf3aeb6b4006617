---------------------------- MODULE IncidentSvc ----------------------------
(***************************************************************************)
(* IncidentSvc: listeners are registered for a type of incident, or for    *)
(* all, and are called when an incident is fired.  A handler may itself    *)
(* call the service: add, remove, fire another incident, throw.  Threads   *)
(* share the listener map under a recursive mutex, which a thread holds    *)
(* while it calls the listeners of one list and which is free between the  *)
(* listeners of the type and those of "ALL".                               *)
(*                                                                         *)
(* Incidents fired asynchronously are queued by event slot and collected by*)
(* IncidentProcAlg: see AsyncIncidents.                                    *)
(***************************************************************************)
EXTENDS Integers, Sequences, SequencesExt, FiniteSets, Lists

CONSTANTS
  Threads,
  Listeners,
  Clients     \* records [initial, outside, inside, throws, calls]: the listeners
              \* registered at the start, the calls a thread may make outside and
              \* a listener inside its handler, the listeners that may throw, and
              \* the bound on calls

All   == "ALL"
Null  == "null"    \* the pointer is nullptr
Freed == "freed"   \* it points to the type of an incident that is gone

\* The types of incident there are.
IncidentTypes == {"Begin", "Processing", "End", All}

\* The calls, with the types of incident they are about; "" stands for all.
Adding(lis, type, prio, rethrow, single) ==
  [op |-> "add", lis |-> lis, type |-> type, prio |-> prio, rethrow |-> rethrow, single |-> single]
Removing(lis, type) == [op |-> "remove", lis |-> lis, type |-> type]
Firing(type) == [op |-> "fire", type |-> type]

Registrations == [op : {"add"}, lis : Listeners, type : IncidentTypes \cup {""}, prio : Int,
                  rethrow : BOOLEAN, single : BOOLEAN]
Requests == Registrations \cup [op : {"remove"}, lis : Listeners, type : IncidentTypes \cup {""}]
                          \cup [op : {"fire"}, type : IncidentTypes]

ASSUME ClientsAssumption ==
  \A c \in Clients :
    /\ c.calls \in Nat
    /\ c.initial \in Seq(Registrations)
    /\ \A t \in Threads : c.outside[t] \subseteq Requests
    /\ \A l \in Listeners : c.inside[l] \subseteq Requests

VARIABLES
  client,     \* rigid
  listeners,  \* m_listenerMap: type |-> list; a type without listeners is absent
              \* from the map and has the empty list here
  current,    \* m_currentIncidentType
  stack,      \* thread |-> its calls of fireIncident, the innermost last
  left,       \* calls left to make
  nodes,      \* type |-> the nodes of the std::list that hold these values, by place
  nextId,     \* the next listener and list node
  missed,     \* history: listeners a loop went by without calling them
  escaped     \* history: the lists a loop over which was left by an exception

syncVars == <<client, listeners, nodes, current, stack, left, nextId, missed, escaped>>

Types == DOMAIN listeners

-----------------------------------------------------------------------------
(* addListener and removeListener.                                         *)

\* A value in the list.  calls and gone are history: how often it was called, and
\* how often since it was removed (-1: it was not); once: registered as single shot.
Entry(x, id) ==
  [id |-> id, lis |-> x.lis, prio |-> x.prio, rethrow |-> x.rethrow, single |-> x.single,
   once |-> x.single, calls |-> 0, gone |-> -1]

\* "higher priority first, and then add behind listeners with the same
\* priority": the partition point of a list that is sorted
Position(list, prio) == Cardinality({i \in DOMAIN list : list[i].prio >= prio}) + 1

\* Mutant: removeListener does not care whether a loop is running.
NeverSchedules(type) == {FALSE}

\* scheduleForRemoval: the incident being fired has the type given.  What a
\* pointer to a string that is gone compares to is anybody's guess.
ScheduleForRemoval(type) == IF current = Freed THEN BOOLEAN ELSE {current = type}

Flagged(n) == [n EXCEPT !.single = TRUE, !.gone = 0]

\* removeListenerFromList: erase the values, or flag them as single shot.  No
\* caller passes the null listener that stands for all of them.
RemoveFromList(list, lis, schedule) ==
  IF schedule
  THEN [i \in DOMAIN list |-> IF list[i].lis = lis THEN Flagged(list[i]) ELSE list[i]]
  ELSE Selected(list, {i \in DOMAIN list : list[i].lis # lis})

TypeOf(x) == IF x.type = "" THEN All ELSE x.type

\* erase( remove_if() ): the values that stay move forward, to the first nodes
\* of the std::list, and the nodes at its tail are destroyed, whosever they were.
EraseTail == nodes' = [k \in Types |-> SubSeq(nodes[k], 1, Len(listeners'[k]))]

\* emplace() makes a node at the position of the value.
AddListener(x) ==
  LET type == TypeOf(x)
      at   == Position(listeners[type], x.prio)
  IN  /\ listeners' = [listeners EXCEPT ![type] = InsertAt(@, at, Entry(x, nextId))]
      /\ nodes' = [nodes EXCEPT ![type] = InsertAt(@, at, nextId)]
      /\ nextId' = nextId + 1

\* An empty type stands for all the lists.
RemoveListener(x) ==
  /\ \E schedule \in ScheduleForRemoval(x.type) :
       listeners' = [t \in Types |-> IF x.type \in {"", t} THEN RemoveFromList(listeners[t], x.lis, schedule)
                                     ELSE listeners[t]]
  /\ EraseTail
  /\ UNCHANGED nextId

-----------------------------------------------------------------------------
(* fireIncident.  A frame is a call of it: inc is the type of the incident,*)
(* pass says which list is looped over or is next, that of the type (1) or *)
(* then that of "ALL" (2), at is the node the loop is at, lis the listener *)
(* it calls, shot is firedSingleShot; in is "enter", then "handle" or      *)
(* "throw" while a listener is called.  due (who was in the list at the    *)
(* start) and seen (who was called) are history.                           *)

NewFrame(inc) ==
  [inc |-> inc, pass |-> 1, at |-> -1, lis |-> Null, shot |-> FALSE, in |-> "enter", due |-> {}, seen |-> <<>>]

ListOf(f) == IF f.pass = 1 THEN f.inc ELSE All

Looping(f) == f.in # "enter"

HasLock(t) == \E i \in DOMAIN stack[t] : Looping(stack[t][i])

\* The recursive mutex can be taken.
LockIsFree(t) == \A u \in Threads \ {t} : ~HasLock(u)

Top(t) == Last(stack[t])

\* The node the range-for is at is still there, ...
IteratorValid(f) == \E i \in DOMAIN nodes[ListOf(f)] : nodes[ListOf(f)][i] = f.at

\* ... at this place of the list, ...
Place(f) == CHOOSE i \in DOMAIN nodes[ListOf(f)] : nodes[ListOf(f)][i] = f.at

\* ... and this is what "listener" refers to: the value in the node by now.
Here(f) == listeners[ListOf(f)][Place(f)]

\* A thread runs client code: outside, or in a handler.
Calling(t) == stack[t] # <<>> => Top(t).in = "handle"

\* What the thread may call here.
Calls(t) == IF stack[t] = <<>> THEN client.outside[t] ELSE client.inside[Top(t).lis]

Ids(list) == {list[i].id : i \in DOMAIN list}

\* handle() of the i-th listener is called: the list and the frame after that.
Hit(n) == [n EXCEPT !.calls = @ + 1, !.gone = IF @ = -1 THEN -1 ELSE @ + 1]

Called(list, i) == [list EXCEPT ![i] = Hit(@)]

AtNode(f, list, i) ==
  [f EXCEPT !.at = nodes[ListOf(f)][i], !.lis = list[i].lis, !.in = "handle",
            !.seen = Append(@, [id |-> list[i].id, prio |-> list[i].prio, pass |-> f.pass])]

WithTop(s, f) == [s EXCEPT ![Len(s)] = f]

\* A call by client code.
Call(t, x) ==
  /\ left > 0
  /\ left' = left - 1
  /\ \/ /\ x.op \in {"add", "remove"} /\ LockIsFree(t)
        /\ IF x.op = "add" THEN AddListener(x) ELSE RemoveListener(x)
        /\ UNCHANGED stack
     \/ /\ x.op = "fire"
        /\ stack' = [stack EXCEPT ![t] = Append(@, NewFrame(x.type))]
        /\ UNCHANGED <<listeners, nodes, nextId>>
  /\ UNCHANGED <<client, current, missed, escaped>>

SecondPass(f) ==
  [f EXCEPT !.pass = 2, !.in = "enter", !.at = -1, !.lis = Null, !.due = {}]

\* fireIncident goes on with the listeners of "ALL": "avoid double calls if
\* somebody fires the incident ALL"
AfterList(s, f) == IF f.pass = 1 /\ f.inc # All THEN WithTop(s, SecondPass(f)) ELSE Front(s)

\* i_fireIncident takes the lock and finds the list.
EnterList(t) ==
  /\ stack[t] # <<>> /\ Top(t).in = "enter" /\ LockIsFree(t)
  /\ LET f    == Top(t)
         list == listeners[ListOf(f)]
     IN  \/ /\ list = <<>>
            /\ stack' = [stack EXCEPT ![t] = AfterList(@, f)]
            /\ UNCHANGED <<listeners, current>>
         \/ /\ list # <<>>
            /\ current' = f.inc
            /\ listeners' = [listeners EXCEPT ![ListOf(f)] = Called(@, 1)]
            /\ stack' = [stack EXCEPT ![t] =
                           WithTop(@, AtNode([f EXCEPT !.shot = FALSE, !.due = Ids(list)], list, 1))]
  /\ UNCHANGED <<client, nodes, left, nextId, missed, escaped>>

\* Mutant: the last listener called decides whether there is something to erase.
ShotAssigned(f) == Here(f).single

\* "check whether one of the listeners is singleShot"
Shot(f) == f.shot \/ Here(f).single

\* "remove all the singleshot listeners that got their shot"
Survivors(f) ==
  LET list == listeners[ListOf(f)]
  IN  IF Shot(f) THEN Selected(list, {i \in DOMAIN list : ~list[i].single}) ELSE list

\* Those that the loop should have called and has not.
PassedOver(f) ==
  (f.due \cap Ids(listeners[ListOf(f)])) \ {f.seen[k].id : k \in DOMAIN f.seen}

\* The handler is done and the loop goes on: the next node, or the end.
NextNode(t, f) ==
  LET list == listeners[ListOf(f)]
      i    == Place(f)
  IN  \/ /\ i < Len(list)
         /\ listeners' = [listeners EXCEPT ![ListOf(f)] = Called(@, i + 1)]
         /\ stack' = [stack EXCEPT ![t] = WithTop(@, AtNode([f EXCEPT !.shot = Shot(f)], list, i + 1))]
         /\ UNCHANGED <<nodes, current, missed>>
      \/ /\ i = Len(list)
         /\ listeners' = [listeners EXCEPT ![ListOf(f)] = Survivors(f)]
         /\ EraseTail
         /\ missed' = missed \cup PassedOver(f)
         /\ current' = Null
         /\ stack' = [stack EXCEPT ![t] = AfterList(@, f)]

\* If its node is gone, what the loop does is undefined: IteratorsValid.
HandlerReturns(t) ==
  /\ stack[t] # <<>> /\ Top(t).in = "handle" /\ IteratorValid(Top(t))
  /\ NextNode(t, Top(t))
  /\ UNCHANGED <<client, left, nextId, escaped>>

Thrown(f) == [f EXCEPT !.in = "throw"]

HandlerThrows(t) ==
  /\ stack[t] # <<>> /\ Top(t).in = "handle"
  /\ Top(t).lis \in client.throws
  /\ stack' = [stack EXCEPT ![t] = WithTop(@, Thrown(Top(t)))]
  /\ UNCHANGED <<client, listeners, nodes, current, left, nextId, missed, escaped>>

\* Mutant: the loop ends at an exception, rethrown or not.
SwallowAndStop(t, f) ==
  /\ missed' = missed \cup PassedOver(f)
  /\ stack' = [stack EXCEPT ![t] = AfterList(@, f)]
  /\ current' = Null /\ UNCHANGED <<listeners, nodes>>

\* An exception that is not rethrown is reported, and the loop goes on.
Swallow(t, f) == NextNode(t, f)

\* One that is rethrown leaves fireIncident: nothing is erased, and the pointer
\* still points into the incident, which the caller destroys.  A handler that
\* fired the incident is left as well.
Rethrow(t, f) ==
  /\ current' = IF current = Null THEN Null ELSE Freed
  /\ escaped' = escaped \cup {ListOf(f)}
  /\ stack' = [stack EXCEPT ![t] =
                 IF Len(@) = 1 THEN <<>> ELSE WithTop(Front(@), Thrown(Last(Front(@))))]
  /\ UNCHANGED <<listeners, nodes, missed>>

CatchException(t) ==
  /\ stack[t] # <<>> /\ Top(t).in = "throw" /\ IteratorValid(Top(t))
  /\ \/ ~Here(Top(t)).rethrow /\ Swallow(t, Top(t)) /\ UNCHANGED escaped
     \/ Here(Top(t)).rethrow /\ Rethrow(t, Top(t))
  /\ UNCHANGED <<client, left, nextId>>

-----------------------------------------------------------------------------
SyncInit ==
  /\ client \in Clients
  /\ listeners = [k \in IncidentTypes |-> <<>>] /\ nodes = [k \in IncidentTypes |-> <<>>]
  /\ nextId = 1
  /\ current = Null /\ stack = [t \in Threads |-> <<>>] /\ left = client.calls
  /\ missed = {} /\ escaped = {}

\* The listeners of the start are added before the threads run.
Registered == nextId > Len(client.initial)

Register ==
  /\ ~Registered
  /\ AddListener(client.initial[nextId])
  /\ UNCHANGED <<client, current, stack, left, missed, escaped>>

\* All calls are made.
CallsMade == left = 0 /\ \A t \in Threads : stack[t] = <<>>

SyncNext ==
  \/ Register
  \/ /\ Registered
     /\ \E t \in Threads :
          \/ Calling(t) /\ \E x \in Calls(t) : Call(t, x)
          \/ EnterList(t) \/ HandlerReturns(t) \/ HandlerThrows(t) \/ CatchException(t)

-----------------------------------------------------------------------------
(* Properties.                                                             *)

FrameAt(p) == stack[p[1]][p[2]]
Frames ==
  {p \in Threads \X (1 .. client.calls) : p[2] <= Len(stack[p[1]]) /\ Looping(FrameAt(p))}

\* The pointer m_currentIncidentType is only used while the incident exists,
\* but for the exceptions that leave it behind.
TypeOK ==
  /\ current \in {FrameAt(p).inc : p \in Frames} \cup {Null, Freed}
  /\ left \in 0 .. client.calls
  /\ \A k \in Types : Len(nodes[k]) = Len(listeners[k])
  /\ \A k \in Types : \A i \in DOMAIN listeners[k] :
       listeners[k][i].id < nextId /\ nodes[k][i] < nextId
  /\ \A p \in Frames : ListOf(FrameAt(p)) \in Types /\ FrameAt(p).inc \in Types

\* "a call to removeListener() during the loop" does not destroy the node the
\* loop is at, on any level of nested incidents: the range-for would go on from
\* freed memory.  That is so for clients that keep NotNested and RemovalsSafe;
\* otherwise erase() may take the node, if it is at the tail by then.
IteratorsValid == \A p \in Frames : IteratorValid(FrameAt(p))

\* An incident reaches a registration at most once, although its list may
\* grow, shrink or be looped over by a nested incident meanwhile, and the
\* listeners of one list are called by priority, first come first served.
CalledOnceInOrder ==
  \A p \in Frames :
    LET seen == FrameAt(p).seen
    IN  \A i, j \in DOMAIN seen : i < j =>
          /\ seen[i].id # seen[j].id
          /\ seen[i].pass = seen[j].pass =>
               \/ seen[i].prio > seen[j].prio
               \/ seen[i].prio = seen[j].prio /\ seen[i].id < seen[j].id

\* Nobody is passed over: whoever was registered when the incident was fired
\* and still is when the loop ends was called, exceptions that are not rethrown
\* included, whatever the handlers before it did within NotNested and
\* RemovalsSafe.  A handler that erases its own registration or an earlier one
\* at once moves the next listener to the node the loop is at, or before it.
NobodyMissed == missed = {}

\* A single-shot listener has one shot, unless an exception left the loop
\* before the fired listeners were erased (or a client broke RemovalsSafe: the
\* flag is read from the node, which may hold another listener by then).
SingleShotOnce ==
  \A k \in Types \ escaped : \A i \in DOMAIN listeners[k] :
    listeners[k][i].once => listeners[k][i].calls <= 1

\* A removed listener may be called once more, because the removal during a
\* loop only flags it and is noticed when it has been called again; never twice
\* (with the same exceptions).
RemovedFallsSilent ==
  \A k \in Types \ escaped : \A i \in DOMAIN listeners[k] : listeners[k][i].gone <= 1

\* No pointer of the service dangles, but m_currentIncidentType after an
\* exception: not that pointer, and no iterator of a loop, on any level.
PointersValid == TypeOK /\ IteratorsValid

\* An incident is handled by whom it should be: everybody registered, once, in
\* order (i_fireIncident, while handlers change the list it loops over).
ListenersServed == CalledOnceInOrder /\ NobodyMissed

\* Removal and single shot, which share a flag in a running loop, do silence
\* the listener (removeListener, the erasure at the end of i_fireIncident).
SilencedAfterShot == SingleShotOnce /\ RemovedFallsSilent

\* What a client has to keep to.  A handler does not fire, on whatever detour,
\* an incident whose listeners are being looped over.
NotNested ==
  \A t \in Threads : \A i, j \in DOMAIN stack[t] :
    Looping(stack[t][i]) /\ Looping(stack[t][j]) /\ ListOf(stack[t][i]) = ListOf(stack[t][j]) => i = j

\* And it removes listeners of the incident that is current, or of a type that
\* is named and that nobody up the call chain is looping over.
RemovalsSafe ==
  \A t \in Threads : stack[t] # <<>> /\ Calling(t) =>
    \A x \in Calls(t) : x.op = "remove" =>
      \/ current = x.type
      \/ /\ x.type # ""
         /\ \A i \in DOMAIN stack[t] : Looping(stack[t][i]) => ListOf(stack[t][i]) # x.type
=============================================================================
