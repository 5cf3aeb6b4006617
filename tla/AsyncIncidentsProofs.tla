------------------------ MODULE AsyncIncidentsProofs ------------------------
(***************************************************************************)
(* AsyncExact, for every number of algorithms, of instances of             *)
(* IncidentProcAlg and of events, whatever they fire and in whatever order *)
(* they run.  The invariant follows an incident through its places: the    *)
(* queue of the slot, the pack of one IncidentProcAlg, and then it has been*)
(* delivered or found without listener.                                    *)
(***************************************************************************)
EXTENDS AsyncIncidents, FiniteSetTheorems, TLAPS

-----------------------------------------------------------------------------
(* Queues.                                                                 *)

\* What pushing x changes.
LEMMA PushRange ==
  ASSUME NEW S, NEW q \in Seq(S), NEW x \in S
  PROVE  /\ Append(q, x) \in Seq(S) /\ Range(Append(q, x)) = Range(q) \cup {x}
         /\ IsInjective(q) /\ x \notin Range(q) => IsInjective(Append(q, x))
<1> DEFINE p == Append(q, x)
<1>1. p \in Seq(S) /\ DOMAIN p = DOMAIN q \cup {Len(q) + 1} /\ Len(q) + 1 \notin DOMAIN q
  OBVIOUS
<1>2. p[Len(q) + 1] = x /\ \A i \in DOMAIN q : p[i] = q[i]
  OBVIOUS
<1> HIDE DEF p
<1>3. Range(p) = Range(q) \cup {x}
  BY <1>1, <1>2 DEF Range
<1>4. IsInjective(q) /\ x \notin Range(q) => IsInjective(p)
  BY <1>1, <1>2 DEF Range, IsInjective
<1> QED
  BY <1>1, <1>3, <1>4 DEF p

\* What popping the head changes.
LEMMA PopRange ==
  ASSUME NEW S, NEW q \in Seq(S), q # <<>>
  PROVE  /\ Head(q) \in S /\ Tail(q) \in Seq(S) /\ Range(q) = Range(Tail(q)) \cup {Head(q)}
         /\ IsInjective(q) => IsInjective(Tail(q)) /\ Head(q) \notin Range(Tail(q))
<1> DEFINE p == Tail(q)
           h == Head(q)
<1>1. h \in S /\ p \in Seq(S) /\ 1 \in DOMAIN q /\ q[1] = h
  OBVIOUS
<1>2. /\ \A i \in DOMAIN p : i + 1 \in DOMAIN q /\ q[i + 1] = p[i] /\ i + 1 # 1
      /\ \A i \in DOMAIN q : i = 1 \/ (i - 1 \in DOMAIN p /\ p[i - 1] = q[i])
      /\ \A i, j \in DOMAIN p : i + 1 = j + 1 => i = j
  OBVIOUS
<1> HIDE DEF p, h
<1>3. Range(q) = Range(p) \cup {h}
  <2>1. ASSUME NEW i \in DOMAIN q
        PROVE  q[i] \in Range(p) \cup {h}
    <3>1. CASE i = 1
      BY <1>1, <3>1
    <3>2. CASE i - 1 \in DOMAIN p /\ p[i - 1] = q[i]
      <4>1. p[i - 1] \in Range(p)
        BY <3>2, Zenon DEF Range
      <4> QED
        BY <3>2, <4>1
    <3> QED
      BY <1>2, <3>1, <3>2
  <2>2. \A i \in DOMAIN p : p[i] \in Range(q)
    BY <1>2 DEF Range
  <2> QED
    BY <1>1, <2>1, <2>2 DEF Range
<1>4. IsInjective(q) => IsInjective(p) /\ h \notin Range(p)
  BY <1>1, <1>2 DEF Range, IsInjective
<1> QED
  BY <1>1, <1>3, <1>4 DEF p, h

\* The empty queue.
LEMMA EmptyRange ==
  ASSUME NEW S
  PROVE  <<>> \in Seq(S) /\ Range(<<>>) = {} /\ IsInjective(<<>>)
BY DEF Range, IsInjective

-----------------------------------------------------------------------------
(* The invariant.                                                          *)

Incident == [evt : Nat, type : IncidentTypes, by : Actors, nr : Nat]

SlotType ==
  /\ client \in Clients
  /\ event \in Nat /\ phase \in {"begin", "run", "over"} /\ slotEvent \in Nat \cup {-1}
  /\ queue \in Seq(Incident) /\ pack \in [Procs -> Seq(Incident)] /\ delivered \in Seq(Incident)
  /\ todo \in [Actors -> Seq(IncidentTypes)]
  /\ firing \in [Actors -> {Idle} \cup [at : {"write", "clear", "push"}, type : IncidentTypes]]
  /\ proc \in [Procs -> {"idle", "collect", "handle", "done"}]
  /\ fired \in SUBSET Incident /\ IsFiniteSet(fired)
  /\ owed \in [Procs -> SUBSET fired]

\* Only the loop finds the slot with an old event, before anything of the new
\* one is fired, and it has cleared the queue when it pushes the event.
SlotFresh ==
  /\ phase # "begin" => firing[Loop] = Idle
  /\ phase # "run" => \A a \in Algs \cup Procs : firing[a] = Idle
  /\ \A a \in Algs \cup Procs : firing[a].at \in {"idle", "push"}
  /\ phase = "run" => slotEvent = event
  /\ slotEvent <= event
  /\ slotEvent # event => /\ firing[Loop].at \in {"idle", "write"}
                          /\ fired = {} \/ phase # "begin"
                          /\ todo[Loop] # <<>> \/ firing[Loop] # Idle \/ phase # "begin"
  /\ firing[Loop].at = "write" => slotEvent # event
  /\ firing[Loop].at = "clear" => slotEvent = event /\ fired = {}
  /\ slotEvent = event /\ firing[Loop].at # "clear" => \A x \in Range(queue) : x.evt = event
  /\ slotEvent = -1 => queue = <<>>

\* An IncidentProcAlg fires only while it handles its pack, which is empty
\* before it begins and when it is done.
ProcsTidy ==
  \A p \in Procs :
    /\ proc[p] \in {"idle", "done"} => pack[p] = <<>>
    /\ proc[p] # "handle" => Finished(p)
    /\ phase = "begin" => proc[p] = "idle"
    /\ phase = "over" => proc[p] \in {"idle", "done"}

\* The incidents of the event are numbered; only they are packed or delivered.
Numbered ==
  /\ \A x \in fired : x.evt = event /\ x.nr < Cardinality(fired)
  /\ \A x \in Range(queue) : x.evt <= event /\ (x.evt = event => x \in fired)
  /\ Range(delivered) \subseteq fired
  /\ \A p \in Procs : Range(pack[p]) \subseteq fired

\* An incident is in one place, once.
InOnePlace ==
  /\ IsInjective(queue) /\ IsInjective(delivered) /\ Range(queue) \cap Range(delivered) = {}
  /\ \A p \in Procs :
       /\ IsInjective(pack[p])
       /\ Range(pack[p]) \cap Range(queue) = {} /\ Range(pack[p]) \cap Range(delivered) = {}
       /\ \A q \in Procs : q # p => Range(pack[p]) \cap Range(pack[q]) = {}

\* None is lost.
Kept ==
  \A x \in fired : \/ x \in Range(queue) \/ x \in Range(delivered) \/ x \in unheard
                   \/ \E p \in Procs : x \in Range(pack[p])

\* An IncidentProcAlg that is done has seen all it was to see leave the queue.
Collected ==
  \A p \in Procs : proc[p] = "done" =>
    \A x \in fired : x \in owed[p] \/ x.by = p => x \notin Range(queue)

SlotInv == SlotType /\ SlotFresh /\ ProcsTidy /\ Numbered /\ InOnePlace /\ Kept /\ Collected

\* The invariant is what AsyncExact needs.
LEMMA InvIsExact == ASSUME SlotInv PROVE AsyncExact
<1>1. \A i, j \in DOMAIN delivered : delivered[i] = delivered[j] => i = j
  BY DEF SlotInv, InOnePlace, IsInjective
<1>2. ASSUME \A p \in Procs : proc[p] \in {"idle", "done"}, NEW p \in Procs, proc[p] = "done",
             NEW inc \in owed[p] \cup {i \in fired : i.by = p}
      PROVE  inc \in unheard \/ \E i \in DOMAIN delivered : delivered[i] = inc
  <2>1. inc \in fired
    BY DEF SlotInv, SlotType
  <2>2. inc \notin Range(queue)
    BY <1>2, <2>1 DEF SlotInv, Collected
  <2>3. \A q \in Procs : inc \notin Range(pack[q])
    BY <1>2, EmptyRange DEF SlotInv, ProcsTidy
  <2>4. inc \in Range(delivered) \/ inc \in unheard
    BY <2>1, <2>2, <2>3 DEF SlotInv, Kept
  <2> QED
    BY <2>4 DEF Range
<1>3. QueueOfThisEvent
  <2> SUFFICES ASSUME phase = "run", NEW i \in DOMAIN queue PROVE queue[i].evt = event
    BY DEF QueueOfThisEvent
  <2>1. firing[Loop] = Idle /\ slotEvent = event
    BY DEF SlotInv, SlotFresh
  <2>2. Idle.at # "clear"
    BY DEF Idle
  <2> QED
    BY <2>1, <2>2 DEF SlotInv, SlotFresh, Range
<1> QED
  BY <1>1, <1>2, <1>3 DEF AsyncExact, AsyncDelivered

-----------------------------------------------------------------------------
(* The steps that move no incident.                                        *)

\* Who fires is the loop, an algorithm or an IncidentProcAlg.
LEMMA ActorKinds ==
  /\ Loop \in Actors /\ (\A a \in Algs : a \in Actors /\ a # Loop /\ a \notin Procs)
  /\ \A p \in Procs : p \in Actors /\ p # Loop /\ p \notin Algs
  /\ \A a \in Actors : a = Loop \/ a \in Algs \cup Procs
BY ActorsAssumption DEF Actors

\* The state of a fireIncident call.
LEMMA FiringCases ==
  ASSUME SlotType, NEW a \in Actors
  PROVE  /\ firing[a] = Idle \/ firing[a].at \in {"write", "clear", "push"}
         /\ firing[a].at \in {"write", "clear", "push"} =>
              firing[a] # Idle /\ firing[a].type \in IncidentTypes
         /\ firing[a] = Idle => firing[a].at = "idle"
<1>1. firing[a] = Idle \/ firing[a] \in [at : {"write", "clear", "push"}, type : IncidentTypes]
  BY DEF SlotType
<1>2. Idle.at = "idle"
  BY DEF Idle
<1> QED
  BY <1>1, <1>2

\* Where the incidents are does not change.
LEMMA PlacesFrame ==
  ASSUME SlotInv, UNCHANGED <<queue, pack, delivered, fired, unheard, event>>,
         \A p \in Procs : proc'[p] = "done" =>
           (proc[p] = "done" /\ owed'[p] = owed[p]) \/ queue = <<>>
  PROVE  Numbered' /\ InOnePlace' /\ Kept' /\ Collected'
<1>1. Numbered' /\ InOnePlace' /\ Kept'
  BY DEF SlotInv, Numbered, InOnePlace, Kept
<1>2. Collected'
  BY EmptyRange DEF SlotInv, Collected
<1> QED
  BY <1>1, <1>2

\* The first call of fireIncident: look the slot up.
LEMMA LookUpInv ==
  ASSUME SlotInv, NEW a \in Actors, LookUpSlot(a), client' = client PROVE SlotInv'
<1>1. /\ firing[a] = Idle /\ todo[a] # <<>> /\ phase = (IF a = Loop THEN "begin" ELSE "run")
      /\ slotEvent' = (IF slotEvent = -1 THEN event ELSE slotEvent)
      /\ firing' = [firing EXCEPT ![a] = [type |-> Head(todo[a]),
                                          at |-> IF slotEvent' # event THEN "write" ELSE "push"]]
      /\ todo' = [todo EXCEPT ![a] = Tail(@)]
      /\ UNCHANGED <<event, phase, queue, proc, pack, fired, delivered, unheard, owed>>
  BY DEF LookUpSlot, MayFire
<1>2. /\ event \in Nat /\ slotEvent \in Nat \cup {-1} /\ todo \in [Actors -> Seq(IncidentTypes)]
      /\ firing \in [Actors -> {Idle} \cup [at : {"write", "clear", "push"}, type : IncidentTypes]]
  BY DEF SlotInv, SlotType
<1>3. Head(todo[a]) \in IncidentTypes /\ Tail(todo[a]) \in Seq(IncidentTypes)
  BY <1>1, <1>2, PopRange
<1>4. /\ \A b \in Actors : b # a => firing'[b] = firing[b] /\ todo'[b] = todo[b]
      /\ firing'[a].at = (IF slotEvent' # event THEN "write" ELSE "push")
      /\ firing'[a] \in [at : {"write", "clear", "push"}, type : IncidentTypes]
  <2> DEFINE new == [type |-> Head(todo[a]), at |-> IF slotEvent' # event THEN "write" ELSE "push"]
  <2>1. /\ new \in [at : {"write", "clear", "push"}, type : IncidentTypes]
        /\ new.at = (IF slotEvent' # event THEN "write" ELSE "push")
    BY <1>3
  <2>2. firing' = [firing EXCEPT ![a] = new]
    BY <1>1
  <2> HIDE DEF new
  <2>3. firing'[a] = new /\ \A b \in Actors : b # a => firing'[b] = firing[b]
    BY <1>2, <2>2
  <2>4. \A b \in Actors : b # a => todo'[b] = todo[b]
    BY <1>1, <1>2
  <2> QED
    BY <2>1, <2>3, <2>4, Zenon
<1>5. SlotType'
  <2>1. todo' \in [Actors -> Seq(IncidentTypes)] /\ slotEvent' \in Nat \cup {-1}
        /\ firing' \in [Actors -> {Idle} \cup [at : {"write", "clear", "push"}, type : IncidentTypes]]
    BY <1>1, <1>2, <1>3, <1>4
  <2> QED
    BY <1>1, <2>1 DEF SlotInv, SlotType
<1>6. firing'[a] # Idle
  <2>1. Idle.at = "idle"
    BY DEF Idle
  <2> QED
    BY <1>4, <2>1
<1>7. SlotFresh'
  <2>1. CASE a = Loop
    <3>1. \A b \in Algs \cup Procs : b \in Actors /\ firing'[b] = firing[b]
      BY <1>4, <2>1, ActorKinds
    <3>2. phase = "begin" /\ firing[Loop].at = "idle"
      BY <1>1, <2>1, FiringCases DEF SlotInv
    <3>3. slotEvent' # event => slotEvent' = slotEvent /\ fired = {}
      BY <1>1, <3>2 DEF SlotInv, SlotFresh
    <3>4. slotEvent' = event => \A x \in Range(queue) : x.evt = event
      BY <1>1, <3>2, EmptyRange DEF SlotInv, SlotFresh
    <3>5. slotEvent' <= event /\ slotEvent' # -1
      BY <1>1, <1>2 DEF SlotInv, SlotFresh
    <3> QED
      BY <1>1, <1>4, <1>6, <2>1, <3>1, <3>2, <3>3, <3>4, <3>5 DEF SlotInv, SlotFresh
  <2>2. CASE a # Loop
    <3>1. phase = "run" /\ slotEvent = event /\ slotEvent' = event /\ firing[Loop] = Idle
      BY <1>1, <1>2, <2>2 DEF SlotInv, SlotFresh
    <3>2. firing'[Loop] = firing[Loop] /\ todo'[Loop] = todo[Loop]
      BY <1>4, <2>2, ActorKinds
    <3>3. \A b \in Algs \cup Procs : firing'[b].at \in {"idle", "push"}
      BY <1>4, <3>1, ActorKinds DEF SlotInv, SlotFresh
    <3> QED
      BY <1>1, <1>2, <3>1, <3>2, <3>3 DEF SlotInv, SlotFresh
  <2> QED
    BY <2>1, <2>2
<1>8. ProcsTidy'
  <2>1. \A p \in Procs : proc[p] # "handle" => p # a
    BY <1>1 DEF SlotInv, ProcsTidy, Finished
  <2>2. \A p \in Procs : p # a => firing'[p] = firing[p] /\ todo'[p] = todo[p]
    BY <1>4, ActorKinds
  <2> QED
    BY <1>1, <2>1, <2>2 DEF SlotInv, ProcsTidy, Finished
<1> QED
  BY <1>1, <1>5, <1>7, <1>8, PlacesFrame DEF SlotInv

\* The loop finds the slot with an old event and writes the new one,
LEMMA WriteInv ==
  ASSUME SlotInv, NEW a \in Actors, WriteSlotEvent(a), client' = client PROVE SlotInv'
<1>1. /\ firing[a].at = "write" /\ slotEvent' = event /\ firing' = [firing EXCEPT ![a].at = "clear"]
      /\ UNCHANGED <<event, phase, queue, todo, proc, pack, fired, delivered, unheard, owed>>
  BY DEF WriteSlotEvent
<1>2. a = Loop
  BY <1>1, ActorKinds DEF SlotInv, SlotFresh
<1>3. /\ firing \in [Actors -> {Idle} \cup [at : {"write", "clear", "push"}, type : IncidentTypes]]
      /\ event \in Nat /\ firing[a] # Idle /\ firing[a].type \in IncidentTypes
  BY <1>1, FiringCases DEF SlotInv, SlotType
<1>4. phase = "begin" /\ slotEvent # event /\ fired = {}
  BY <1>1, <1>2, <1>3 DEF SlotInv, SlotFresh
<1>5. firing[a] \in [at : {"write", "clear", "push"}, type : IncidentTypes]
  BY <1>3
<1>6. /\ \A b \in Actors : b # a => firing'[b] = firing[b]
      /\ firing'[a].at = "clear" /\ firing'[a] \in [at : {"write", "clear", "push"}, type : IncidentTypes]
  BY <1>1, <1>3, <1>5
<1>7. SlotType'
  <2>1. firing' \in [Actors -> {Idle} \cup [at : {"write", "clear", "push"}, type : IncidentTypes]]
    BY <1>1, <1>3, <1>6
  <2> QED
    BY <1>1, <1>3, <2>1 DEF SlotInv, SlotType
<1>8. \A b \in Algs \cup Procs : firing'[b] = firing[b]
  BY <1>2, <1>6, ActorKinds
<1>9. SlotFresh'
  BY <1>1, <1>2, <1>3, <1>4, <1>6, <1>8 DEF SlotInv, SlotFresh
<1>10. ProcsTidy'
  BY <1>1, <1>8 DEF SlotInv, ProcsTidy, Finished
<1> QED
  BY <1>1, <1>7, <1>9, <1>10, PlacesFrame DEF SlotInv

\* and clears what is left in the queue.
LEMMA ClearInv ==
  ASSUME SlotInv, NEW a \in Actors, ClearQueue(a), client' = client PROVE SlotInv'
<1>1. /\ firing[a].at = "clear" /\ queue' = <<>> /\ firing' = [firing EXCEPT ![a].at = "push"]
      /\ UNCHANGED <<slotEvent, event, phase, todo, proc, pack, fired, delivered, unheard, owed>>
  BY DEF ClearQueue
<1>2. a = Loop
  BY <1>1, ActorKinds DEF SlotInv, SlotFresh
<1>3. /\ firing \in [Actors -> {Idle} \cup [at : {"write", "clear", "push"}, type : IncidentTypes]]
      /\ event \in Nat /\ firing[a] # Idle /\ firing[a].type \in IncidentTypes
  BY <1>1, FiringCases DEF SlotInv, SlotType
<1>4. phase = "begin" /\ slotEvent = event /\ fired = {}
  BY <1>1, <1>2, <1>3 DEF SlotInv, SlotFresh
<1>5. firing[a] \in [at : {"write", "clear", "push"}, type : IncidentTypes]
  BY <1>3
<1>6. /\ \A b \in Actors : b # a => firing'[b] = firing[b]
      /\ firing'[a].at = "push" /\ firing'[a] \in [at : {"write", "clear", "push"}, type : IncidentTypes]
  BY <1>1, <1>3, <1>5
<1>7. SlotType'
  <2>1. firing' \in [Actors -> {Idle} \cup [at : {"write", "clear", "push"}, type : IncidentTypes]]
        /\ queue' \in Seq(Incident)
    BY <1>1, <1>3, <1>6
  <2> QED
    BY <1>1, <2>1 DEF SlotInv, SlotType
<1>8. \A b \in Algs \cup Procs : firing'[b] = firing[b]
  BY <1>2, <1>6, ActorKinds
<1>9. Range(queue') = {} /\ IsInjective(queue')
  BY <1>1, EmptyRange
<1>10. SlotFresh'
  BY <1>1, <1>2, <1>4, <1>6, <1>8, <1>9 DEF SlotInv, SlotFresh
<1>11. ProcsTidy'
  BY <1>1, <1>8 DEF SlotInv, ProcsTidy, Finished
<1>12. Numbered' /\ InOnePlace' /\ Kept' /\ Collected'
  BY <1>1, <1>4, <1>9 DEF SlotInv, Numbered, InOnePlace, Kept, Collected
<1> QED
  BY <1>7, <1>10, <1>11, <1>12 DEF SlotInv

-----------------------------------------------------------------------------
(* The steps that move an incident.                                        *)

\* fireIncident pushes the incident: it is new to every place.
LEMMA PushInv ==
  ASSUME SlotInv, NEW a \in Actors, PushIncident(a), client' = client PROVE SlotInv'
<1> DEFINE inc == [evt |-> event, type |-> firing[a].type, by |-> a, nr |-> Cardinality(fired)]
<1>1. /\ firing[a].at = "push" /\ queue' = Append(queue, inc) /\ fired' = fired \cup {inc}
      /\ firing' = [firing EXCEPT ![a] = Idle]
      /\ UNCHANGED <<slotEvent, event, phase, todo, proc, pack, delivered, unheard, owed>>
  BY DEF PushIncident
<1>2. /\ firing \in [Actors -> {Idle} \cup [at : {"write", "clear", "push"}, type : IncidentTypes]]
      /\ event \in Nat /\ queue \in Seq(Incident) /\ fired \in SUBSET Incident /\ IsFiniteSet(fired)
      /\ owed \in [Procs -> SUBSET fired]
  BY DEF SlotInv, SlotType
<1>3. Cardinality(fired) \in Nat
  BY <1>2, FS_CardinalityType
<1>4. firing[a] # Idle /\ firing[a].type \in IncidentTypes
  BY <1>1, FiringCases DEF SlotInv
<1>5. inc \in Incident /\ inc.evt = event /\ inc.nr = Cardinality(fired) /\ inc.by = a
  BY <1>2, <1>3, <1>4 DEF Incident
<1> HIDE DEF inc
<1>6. inc \notin fired
  BY <1>3, <1>5 DEF SlotInv, Numbered
<1>7. /\ inc \notin Range(queue) /\ inc \notin Range(delivered)
      /\ \A p \in Procs : inc \notin Range(pack[p])
  BY <1>5, <1>6 DEF SlotInv, Numbered
<1>8. /\ queue' \in Seq(Incident) /\ Range(queue') = Range(queue) \cup {inc}
      /\ IsInjective(queue) => IsInjective(queue')
  BY <1>1, <1>2, <1>5, <1>7, PushRange
<1>9. IsFiniteSet(fired') /\ Cardinality(fired') = Cardinality(fired) + 1
  BY <1>1, <1>2, <1>6, FS_AddElement
<1>10. /\ \A b \in Actors : b # a => firing'[b] = firing[b]
       /\ firing'[a] = Idle /\ Idle.at = "idle"
  BY <1>1, <1>2 DEF Idle
<1>11. SlotType'
  <2>1. firing' \in [Actors -> {Idle} \cup [at : {"write", "clear", "push"}, type : IncidentTypes]]
    BY <1>1, <1>2
  <2>2. fired' \in SUBSET Incident /\ owed' \in [Procs -> SUBSET fired']
    BY <1>1, <1>2, <1>5
  <2> QED
    BY <1>1, <1>8, <1>9, <2>1, <2>2 DEF SlotInv, SlotType
<1>12. slotEvent = event /\ firing[Loop].at # "clear"
  <2>1. CASE a = Loop
    BY <1>1, <2>1 DEF SlotInv, SlotFresh
  <2>2. CASE a # Loop
    BY <1>4, <1>10, <2>2, ActorKinds DEF SlotInv, SlotFresh
  <2> QED
    BY <2>1, <2>2
<1>13. SlotFresh'
  <2>1. \A b \in Algs \cup Procs : /\ firing'[b] = Idle \/ firing'[b] = firing[b]
                                   /\ firing'[b].at \in {"idle", "push"}
    BY <1>10, ActorKinds DEF SlotInv, SlotFresh
  <2>2. firing'[Loop] = Idle \/ firing'[Loop] = firing[Loop]
    BY <1>10, ActorKinds
  <2>3. \A x \in Range(queue') : x.evt = event
    BY <1>5, <1>8, <1>12 DEF SlotInv, SlotFresh
  <2>4. firing'[Loop].at \notin {"clear", "write"} /\ event # -1
    BY <1>2, <1>10, <1>12, <2>2 DEF SlotInv, SlotFresh
  <2> QED
    BY <1>1, <1>12, <2>1, <2>2, <2>3, <2>4 DEF SlotInv, SlotFresh
<1>14. ProcsTidy'
  <2>1. \A p \in Procs : firing[p] = Idle => firing'[p] = Idle
    BY <1>10, ActorKinds
  <2> QED
    BY <1>1, <2>1 DEF SlotInv, ProcsTidy, Finished
<1>15. Numbered'
  <2>1. \A x \in fired' : x.evt = event' /\ x.nr < Cardinality(fired')
    <3>1. \A x \in fired : x \in Incident /\ x.nr \in Nat
      BY <1>2 DEF Incident
    <3> QED
      BY <1>1, <1>3, <1>5, <1>9, <3>1 DEF SlotInv, Numbered
  <2>2. \A x \in Range(queue') : x.evt <= event' /\ (x.evt = event' => x \in fired')
    <3>1. inc.evt <= event /\ inc \in fired'
      BY <1>1, <1>2, <1>5
    <3>2. \A x \in Range(queue) : x.evt <= event /\ (x.evt = event => x \in fired')
      BY <1>1 DEF SlotInv, Numbered
    <3> QED
      BY <1>1, <1>8, <3>1, <3>2
  <2>3. Range(delivered') \subseteq fired' /\ \A p \in Procs : Range(pack'[p]) \subseteq fired'
    BY <1>1 DEF SlotInv, Numbered
  <2> QED
    BY <2>1, <2>2, <2>3 DEF Numbered
<1>16. InOnePlace' /\ Kept'
  <2>1. InOnePlace'
    BY <1>1, <1>7, <1>8 DEF SlotInv, InOnePlace
  <2>2. Kept'
    BY <1>1, <1>8 DEF SlotInv, Kept
  <2> QED
    BY <2>1, <2>2
<1>17. Collected'
  <2> SUFFICES ASSUME NEW p \in Procs, proc[p] = "done", NEW x \in fired', x \in owed[p] \/ x.by = p
               PROVE  x \notin Range(queue')
    BY <1>1 DEF Collected
  <2>1. p # a
    BY <1>4 DEF SlotInv, ProcsTidy, Finished
  <2>2. x # inc /\ x \in fired
    BY <1>1, <1>2, <1>5, <1>6, <2>1
  <2> QED
    BY <1>8, <2>2 DEF SlotInv, Collected
<1> QED
  BY <1>11, <1>13, <1>14, <1>15, <1>16, <1>17 DEF SlotInv

\* getIncidents pops an incident: it is of this event.
LEMMA CollectInv ==
  ASSUME SlotInv, NEW p \in Procs, CollectIncident(p), client' = client PROVE SlotInv'
<1> DEFINE inc == Head(queue)
           heard == listeners[inc.type] # <<>>
<1>1. /\ proc[p] = "collect" /\ queue # <<>> /\ queue' = Tail(queue)
      /\ pack' = (IF inc.evt = event /\ heard THEN [pack EXCEPT ![p] = Append(@, inc)] ELSE pack)
      /\ unheard' = (IF heard THEN unheard ELSE unheard \cup {inc})
      /\ UNCHANGED <<event, phase, slotEvent, todo, firing, proc, fired, delivered, owed>>
  BY DEF CollectIncident
<1> HIDE DEF heard
<1>2. /\ queue \in Seq(Incident) /\ pack \in [Procs -> Seq(Incident)]
      /\ phase \in {"begin", "run", "over"}
  BY DEF SlotInv, SlotType
<1>3. /\ inc \in Incident /\ queue' \in Seq(Incident) /\ Range(queue) = Range(queue') \cup {inc}
      /\ IsInjective(queue') /\ inc \notin Range(queue')
  BY <1>1, <1>2, PopRange DEF SlotInv, InOnePlace
<1> HIDE DEF inc
<1>4. phase = "run" /\ slotEvent = event
  BY <1>1, <1>2 DEF SlotInv, SlotFresh, ProcsTidy
<1>5. firing[Loop] = Idle /\ Idle.at = "idle"
  BY <1>4 DEF SlotInv, SlotFresh, Idle
<1>6. inc.evt = event
  BY <1>3, <1>4, <1>5 DEF SlotInv, SlotFresh
<1>7. inc \in fired /\ inc \notin Range(delivered) /\ \A q \in Procs : inc \notin Range(pack[q])
  BY <1>3, <1>6 DEF SlotInv, Numbered, InOnePlace
<1>8. /\ Append(pack[p], inc) \in Seq(Incident)
      /\ Range(Append(pack[p], inc)) = Range(pack[p]) \cup {inc}
      /\ IsInjective(Append(pack[p], inc))
  BY <1>2, <1>3, <1>7, PushRange DEF SlotInv, InOnePlace
<1>9. /\ pack' \in [Procs -> Seq(Incident)]
      /\ \A q \in Procs : q # p => pack'[q] = pack[q]
      /\ pack'[p] = pack[p] \/ pack'[p] = Append(pack[p], inc)
      /\ heard => pack'[p] = Append(pack[p], inc)
  BY <1>1, <1>2, <1>6, <1>8
<1>10. \A q \in Procs : /\ IsInjective(pack'[q])
                        /\ Range(pack[q]) \subseteq Range(pack'[q])
                        /\ Range(pack'[q]) \subseteq Range(pack[q]) \cup (IF q = p THEN {inc} ELSE {})
  BY <1>8, <1>9 DEF SlotInv, InOnePlace
<1>11. SlotType'
  BY <1>1, <1>3, <1>9 DEF SlotInv, SlotType
<1>12. SlotFresh'
  BY <1>1, <1>3, <1>4, <1>5, EmptyRange DEF SlotInv, SlotFresh
<1>13. ProcsTidy'
  BY <1>1, <1>9 DEF SlotInv, ProcsTidy, Finished
<1>14. Numbered'
  BY <1>1, <1>3, <1>7, <1>10 DEF SlotInv, Numbered
<1>15. InOnePlace'
  <2>1. /\ IsInjective(queue') /\ IsInjective(delivered') /\ Range(queue') \cap Range(delivered') = {}
    BY <1>1, <1>3 DEF SlotInv, InOnePlace
  <2>2. ASSUME NEW q \in Procs
        PROVE  Range(pack'[q]) \cap Range(queue') = {} /\ Range(pack'[q]) \cap Range(delivered') = {}
    <3>1. Range(pack[q]) \cap Range(queue) = {} /\ Range(pack[q]) \cap Range(delivered) = {}
      BY DEF SlotInv, InOnePlace
    <3>2. Range(pack'[q]) \subseteq Range(pack[q]) \cup {inc}
      BY <1>10
    <3>3. Range(queue') \subseteq Range(queue) /\ Range(delivered') = Range(delivered)
      BY <1>1, <1>3
    <3> QED
      BY <1>3, <1>7, <3>1, <3>2, <3>3
  <2>3. \A q, r \in Procs : q # r => Range(pack'[q]) \cap Range(pack'[r]) = {}
    BY <1>7, <1>10 DEF SlotInv, InOnePlace
  <2> QED
    BY <1>10, <2>1, <2>2, <2>3 DEF InOnePlace
<1>16. Kept'
  <2>1. inc \in unheard' \/ inc \in Range(pack'[p])
    BY <1>1, <1>8, <1>9
  <2>2. \A x \in fired : x # inc /\ x \in Range(queue) => x \in Range(queue')
    BY <1>3
  <2>3. unheard \subseteq unheard'
    BY <1>1
  <2> QED
    BY <1>1, <1>10, <2>1, <2>2, <2>3 DEF SlotInv, Kept
<1>17. Collected'
  BY <1>1, <1>3 DEF SlotInv, Collected
<1> QED
  BY <1>11, <1>12, <1>13, <1>14, <1>15, <1>16, <1>17 DEF SlotInv

\* execute() calls the listeners of the next incident of its pack.
LEMMA HandleInv ==
  ASSUME SlotInv, NEW p \in Procs, HandleIncident(p), client' = client PROVE SlotInv'
<1> DEFINE inc == Head(pack[p])
           next == IF inc.type \in DOMAIN client.slot.chain THEN client.slot.chain[inc.type] ELSE <<>>
<1>1. /\ proc[p] = "handle" /\ pack[p] # <<>> /\ delivered' = Append(delivered, inc)
      /\ todo' = [todo EXCEPT ![p] = next] /\ pack' = [pack EXCEPT ![p] = Tail(@)]
      /\ UNCHANGED <<event, phase, queue, slotEvent, firing, proc, fired, unheard, owed>>
  BY DEF HandleIncident
<1>2. /\ delivered \in Seq(Incident) /\ pack \in [Procs -> Seq(Incident)] /\ client \in Clients
      /\ todo \in [Actors -> Seq(IncidentTypes)]
  BY DEF SlotInv, SlotType
<1>3. next \in Seq(IncidentTypes)
  BY <1>2, SlotAssumption
<1> HIDE DEF next
<1>4. /\ inc \in Incident /\ Tail(pack[p]) \in Seq(Incident)
      /\ Range(pack[p]) = Range(Tail(pack[p])) \cup {inc}
      /\ IsInjective(Tail(pack[p])) /\ inc \notin Range(Tail(pack[p]))
  BY <1>1, <1>2, PopRange DEF SlotInv, InOnePlace
<1> HIDE DEF inc
<1>5. /\ inc \in fired /\ inc \notin Range(delivered) /\ inc \notin Range(queue)
      /\ \A q \in Procs : q # p => inc \notin Range(pack[q])
  BY <1>4 DEF SlotInv, Numbered, InOnePlace
<1>6. /\ delivered' \in Seq(Incident) /\ Range(delivered') = Range(delivered) \cup {inc}
      /\ IsInjective(delivered')
  BY <1>1, <1>2, <1>4, <1>5, PushRange DEF SlotInv, InOnePlace
<1>7. /\ pack' \in [Procs -> Seq(Incident)]
      /\ pack'[p] = Tail(pack[p]) /\ \A q \in Procs : q # p => pack'[q] = pack[q]
  BY <1>1, <1>2, <1>4
<1>8. \A q \in Procs : /\ IsInjective(pack'[q]) /\ inc \notin Range(pack'[q])
                       /\ Range(pack'[q]) \subseteq Range(pack[q])
                       /\ Range(pack[q]) \subseteq Range(pack'[q]) \cup {inc}
  BY <1>4, <1>5, <1>7 DEF SlotInv, InOnePlace
<1>9. SlotType'
  <2>1. todo' \in [Actors -> Seq(IncidentTypes)]
    BY <1>1, <1>2, <1>3
  <2> QED
    BY <1>1, <1>6, <1>7, <2>1 DEF SlotInv, SlotType
<1>10. todo'[Loop] = todo[Loop] /\ \A q \in Procs : q # p => todo'[q] = todo[q]
  BY <1>1, <1>2, ActorKinds
<1>11. SlotFresh'
  BY <1>1, <1>10 DEF SlotInv, SlotFresh
<1>12. ProcsTidy'
  BY <1>1, <1>7, <1>10 DEF SlotInv, ProcsTidy, Finished
<1>13. Numbered' /\ Collected'
  BY <1>1, <1>5, <1>6, <1>8 DEF SlotInv, Numbered, Collected
<1>14. InOnePlace'
  <2>1. IsInjective(queue') /\ IsInjective(delivered') /\ Range(queue') \cap Range(delivered') = {}
    BY <1>1, <1>5, <1>6 DEF SlotInv, InOnePlace
  <2>2. ASSUME NEW q \in Procs
        PROVE  Range(pack'[q]) \cap Range(queue') = {} /\ Range(pack'[q]) \cap Range(delivered') = {}
    <3>1. Range(pack[q]) \cap Range(queue) = {} /\ Range(pack[q]) \cap Range(delivered) = {}
      BY DEF SlotInv, InOnePlace
    <3>2. Range(pack'[q]) \subseteq Range(pack[q]) /\ inc \notin Range(pack'[q])
      BY <1>8
    <3>3. Range(queue') = Range(queue) /\ Range(delivered') = Range(delivered) \cup {inc}
      BY <1>1, <1>6
    <3> QED
      BY <3>1, <3>2, <3>3
  <2>3. \A q, r \in Procs : q # r => Range(pack'[q]) \cap Range(pack'[r]) = {}
    BY <1>8 DEF SlotInv, InOnePlace
  <2> QED
    BY <1>8, <2>1, <2>2, <2>3 DEF InOnePlace
<1>15. Kept'
  BY <1>1, <1>6, <1>8 DEF SlotInv, Kept
<1> QED
  BY <1>9, <1>11, <1>12, <1>13, <1>14, <1>15 DEF SlotInv

-----------------------------------------------------------------------------
(* IncidentProcAlg begins, finds the queue empty, or looks again.          *)

\* It begins.
LEMMA StartInv ==
  ASSUME SlotInv, NEW p \in Procs, StartProc(p), client' = client PROVE SlotInv'
<1>1. /\ phase = "run" /\ proc[p] = "idle" /\ proc' = [proc EXCEPT ![p] = "collect"]
      /\ owed' = [owed EXCEPT ![p] = fired]
      /\ UNCHANGED <<event, phase, queue, slotEvent, todo, firing, pack, fired, delivered, unheard>>
  BY DEF StartProc
<1>2. /\ proc \in [Procs -> {"idle", "collect", "handle", "done"}]
      /\ owed \in [Procs -> SUBSET fired]
  BY DEF SlotInv, SlotType
<1>3. /\ proc' \in [Procs -> {"idle", "collect", "handle", "done"}]
      /\ owed' \in [Procs -> SUBSET fired']
      /\ proc'[p] = "collect" /\ \A q \in Procs : q # p => proc'[q] = proc[q] /\ owed'[q] = owed[q]
  BY <1>1, <1>2
<1>4. SlotType'
  BY <1>1, <1>3 DEF SlotInv, SlotType
<1>5. SlotFresh'
  BY <1>1 DEF SlotInv, SlotFresh
<1>6. ProcsTidy'
  BY <1>1, <1>3 DEF SlotInv, ProcsTidy, Finished
<1>7. \A q \in Procs : proc'[q] = "done" => proc[q] = "done" /\ owed'[q] = owed[q]
  BY <1>3
<1> QED
  BY <1>1, <1>4, <1>5, <1>6, <1>7, PlacesFrame DEF SlotInv

\* It has emptied the queue.
LEMMA CollectEndsInv ==
  ASSUME SlotInv, NEW p \in Procs, CollectEnds(p), client' = client PROVE SlotInv'
<1>1. /\ proc[p] = "collect" /\ queue = <<>>
      /\ proc' = [proc EXCEPT ![p] = IF pack[p] = <<>> THEN "done" ELSE "handle"]
      /\ UNCHANGED <<event, phase, queue, slotEvent, todo, firing, pack, fired, delivered, unheard, owed>>
  BY DEF CollectEnds
<1>2. proc \in [Procs -> {"idle", "collect", "handle", "done"}]
  BY DEF SlotInv, SlotType
<1>3. /\ proc' \in [Procs -> {"idle", "collect", "handle", "done"}]
      /\ proc'[p] = (IF pack[p] = <<>> THEN "done" ELSE "handle")
      /\ \A q \in Procs : q # p => proc'[q] = proc[q]
  BY <1>1, <1>2
<1>4. SlotType'
  BY <1>1, <1>3 DEF SlotInv, SlotType
<1>5. SlotFresh'
  BY <1>1 DEF SlotInv, SlotFresh
<1>6. ProcsTidy'
  BY <1>1, <1>3 DEF SlotInv, ProcsTidy, Finished
<1>7. \A q \in Procs : proc'[q] = "done" => (proc[q] = "done" /\ owed'[q] = owed[q]) \/ queue = <<>>
  BY <1>1
<1> QED
  BY <1>1, <1>4, <1>5, <1>6, <1>7, PlacesFrame DEF SlotInv

\* It looks at the queue again.
LEMMA CollectAgainInv ==
  ASSUME SlotInv, NEW p \in Procs, CollectAgain(p), client' = client PROVE SlotInv'
<1>1. /\ proc[p] = "handle" /\ pack[p] = <<>> /\ Finished(p) /\ proc' = [proc EXCEPT ![p] = "collect"]
      /\ UNCHANGED <<event, phase, queue, slotEvent, todo, firing, pack, fired, delivered, unheard, owed>>
  BY DEF CollectAgain
<1>2. proc \in [Procs -> {"idle", "collect", "handle", "done"}]
  BY DEF SlotInv, SlotType
<1>3. /\ proc' \in [Procs -> {"idle", "collect", "handle", "done"}] /\ proc'[p] = "collect"
      /\ \A q \in Procs : q # p => proc'[q] = proc[q]
  BY <1>1, <1>2
<1>4. SlotType'
  BY <1>1, <1>3 DEF SlotInv, SlotType
<1>5. SlotFresh'
  BY <1>1 DEF SlotInv, SlotFresh
<1>6. ProcsTidy'
  BY <1>1, <1>3 DEF SlotInv, ProcsTidy, Finished
<1>7. \A q \in Procs : proc'[q] = "done" => proc[q] = "done" /\ owed'[q] = owed[q]
  BY <1>1, <1>3
<1> QED
  BY <1>1, <1>4, <1>5, <1>6, <1>7, PlacesFrame DEF SlotInv

-----------------------------------------------------------------------------
(* The event comes and goes.                                               *)

\* What is to be fired is typed.
LEMMA ToFireType ==
  ASSUME client \in Clients
  PROVE  ToFire \in [Actors -> Seq(IncidentTypes)] /\ ToFire[Loop] # <<>>
         /\ \A p \in Procs : ToFire[p] = <<>>
<1>1. <<"Begin", "Processing">> \in Seq(IncidentTypes) /\ <<"Begin", "Processing">> # <<>>
  BY DEF IncidentTypes
<1>2. \A a \in Algs : client.slot.fires[a] \in Seq(IncidentTypes)
  BY SlotAssumption
<1>3. <<>> \in Seq(IncidentTypes)
  OBVIOUS
<1> QED
  BY <1>1, <1>2, <1>3, ActorKinds DEF ToFire

\* The loop pushes the event; it has fired its incidents, so the slot is of
\* this event.
LEMMA PushEventInv == ASSUME SlotInv, PushEvent, client' = client PROVE SlotInv'
<1>1. /\ phase = "begin" /\ firing[Loop] = Idle /\ todo[Loop] = <<>> /\ phase' = "run"
      /\ UNCHANGED <<event, queue, slotEvent, todo, firing, proc, pack, fired, delivered, unheard, owed>>
  BY DEF PushEvent, Finished
<1>2. slotEvent = event
  BY <1>1 DEF SlotInv, SlotFresh
<1>3. SlotType'
  BY <1>1 DEF SlotInv, SlotType
<1>4. SlotFresh'
  BY <1>1, <1>2 DEF SlotInv, SlotFresh
<1>5. ProcsTidy'
  BY <1>1 DEF SlotInv, ProcsTidy, Finished
<1>6. \A q \in Procs : proc'[q] = "done" => proc[q] = "done" /\ owed'[q] = owed[q]
  BY <1>1
<1> QED
  BY <1>1, <1>3, <1>4, <1>5, <1>6, PlacesFrame DEF SlotInv

\* The event ends: nobody is firing, no pack is left, and what is left in the
\* queue is of an event that is over when the next one comes.
LEMMA EndEventInv == ASSUME SlotInv, EndEvent, client' = client PROVE SlotInv'
<1>1. /\ phase = "run" /\ (\A a \in Algs : Finished(a)) /\ (\A p \in Procs : proc[p] = "done")
      /\ UNCHANGED <<queue, slotEvent, firing, pack>>
      /\ \/ NewEvent(event + 1)
         \/ phase' = "over" /\ UNCHANGED <<event, todo, proc, fired, delivered, unheard, owed>>
  BY DEF EndEvent
<1>2. /\ slotEvent = event /\ firing[Loop] = Idle /\ Idle.at = "idle" /\ event \in Nat
      /\ client \in Clients /\ queue \in Seq(Incident) /\ pack \in [Procs -> Seq(Incident)]
  BY <1>1 DEF SlotInv, SlotFresh, SlotType, Idle
<1>3. \A a \in Algs \cup Procs : firing[a] = Idle
  BY <1>1 DEF SlotInv, ProcsTidy, Finished
<1>4. \A p \in Procs : pack[p] = <<>> /\ Finished(p)
  BY <1>1 DEF SlotInv, ProcsTidy
<1>5. CASE NewEvent(event + 1)
  <2>1. /\ event' = event + 1 /\ phase' = "begin" /\ todo' = ToFire
        /\ proc' = [p \in Procs |-> "idle"] /\ owed' = [p \in Procs |-> {}]
        /\ fired' = {} /\ delivered' = <<>> /\ unheard' = {}
    BY <1>5 DEF NewEvent
  <2>2. /\ todo' \in [Actors -> Seq(IncidentTypes)] /\ todo'[Loop] # <<>>
        /\ \A p \in Procs : todo'[p] = <<>>
    BY <1>2, <2>1, ToFireType
  <2>3. SlotType'
    <3>1. /\ IsFiniteSet(fired') /\ fired' \in SUBSET Incident /\ delivered' \in Seq(Incident)
          /\ owed' \in [Procs -> SUBSET fired']
          /\ proc' \in [Procs -> {"idle", "collect", "handle", "done"}]
      BY <2>1, FS_EmptySet
    <3>2. event' \in Nat /\ phase' \in {"begin", "run", "over"}
      BY <1>2, <2>1
    <3> QED
      BY <1>1, <2>2, <3>1, <3>2 DEF SlotInv, SlotType
  <2>4. SlotFresh'
    <3>1. slotEvent' # event' /\ slotEvent' <= event' /\ slotEvent' # -1
      BY <1>1, <1>2, <2>1
    <3>2. firing'[Loop] = Idle /\ \A a \in Algs \cup Procs : firing'[a] = Idle
      BY <1>1, <1>2, <1>3
    <3> QED
      BY <1>2, <2>1, <2>2, <3>1, <3>2 DEF SlotFresh
  <2>5. ProcsTidy'
    BY <1>1, <1>3, <1>4, <2>1, <2>2 DEF ProcsTidy, Finished
  <2>6. Range(delivered') = {} /\ IsInjective(delivered') /\ \A p \in Procs : Range(pack'[p]) = {}
    BY <1>1, <1>4, <2>1, EmptyRange
  <2>7. Numbered'
    <3>1. \A x \in Range(queue') : x.evt = event
      BY <1>1, <1>2 DEF SlotInv, SlotFresh
    <3>2. \A x \in Range(queue') : x.evt <= event' /\ x.evt # event'
      BY <1>2, <2>1, <3>1
    <3> QED
      BY <2>1, <2>6, <3>2 DEF Numbered
  <2>8. InOnePlace'
    <3>1. \A p \in Procs : IsInjective(pack'[p])
      BY <1>1 DEF SlotInv, InOnePlace
    <3>2. IsInjective(queue')
      BY <1>1 DEF SlotInv, InOnePlace
    <3> QED
      BY <2>6, <3>1, <3>2 DEF InOnePlace
  <2>9. Kept' /\ Collected'
    BY <2>1 DEF Kept, Collected
  <2> QED
    BY <2>3, <2>4, <2>5, <2>7, <2>8, <2>9 DEF SlotInv
<1>6. CASE phase' = "over" /\ UNCHANGED <<event, todo, proc, fired, delivered, unheard, owed>>
  <2>1. SlotType'
    BY <1>1, <1>6 DEF SlotInv, SlotType
  <2>2. SlotFresh'
    BY <1>1, <1>2, <1>3, <1>6 DEF SlotInv, SlotFresh
  <2>3. ProcsTidy'
    BY <1>1, <1>6 DEF SlotInv, ProcsTidy, Finished
  <2>4. \A q \in Procs : proc'[q] = "done" => proc[q] = "done" /\ owed'[q] = owed[q]
    BY <1>6
  <2> QED
    BY <1>1, <1>6, <2>1, <2>2, <2>3, <2>4, PlacesFrame DEF SlotInv
<1> QED
  BY <1>1, <1>5, <1>6

-----------------------------------------------------------------------------
(* The theorem.                                                            *)

\* The synchronous calls leave the client, which is rigid, alone.
LEMMA SyncKeepsClient == SyncNext => client' = client
<1>0. CASE Register
  BY <1>0 DEF Register
<1> SUFFICES ASSUME NEW t \in Threads,
                    \/ \E x \in Calls(t) : Call(t, x)
                    \/ EnterList(t) \/ HandlerReturns(t) \/ HandlerThrows(t) \/ CatchException(t)
             PROVE  client' = client
  BY <1>0 DEF SyncNext
<1>1. CASE \E x \in Calls(t) : Call(t, x)
  BY <1>1 DEF Call
<1>2. CASE EnterList(t)
  BY <1>2, Zenon DEF EnterList
<1>3. CASE HandlerReturns(t)
  BY <1>3 DEF HandlerReturns
<1>4. CASE HandlerThrows(t)
  BY <1>4, Zenon DEF HandlerThrows
<1>5. CASE CatchException(t)
  BY <1>5 DEF CatchException
<1> QED
  BY <1>1, <1>2, <1>3, <1>4, <1>5

\* A new slot.
LEMMA InitSlotInv == Init => SlotInv
<1> SUFFICES ASSUME Init PROVE SlotInv
  OBVIOUS
<1>1. /\ event = 0 /\ phase \in {"begin", "over"} /\ queue = <<>> /\ slotEvent = -1
      /\ todo = ToFire /\ firing = [a \in Actors |-> Idle]
      /\ proc = [p \in Procs |-> "idle"] /\ pack = [p \in Procs |-> <<>>]
      /\ fired = {} /\ delivered = <<>> /\ owed = [p \in Procs |-> {}] /\ client \in Clients
  <2>1. client \in Clients
    BY Zenon DEF Init, SyncInit
  <2> QED
    BY <2>1 DEF Init
<1>2. /\ todo \in [Actors -> Seq(IncidentTypes)] /\ todo[Loop] # <<>>
      /\ \A p \in Procs : todo[p] = <<>>
  BY <1>1, ToFireType
<1>3. /\ \A a \in Actors : firing[a] = Idle
      /\ \A p \in Procs : proc[p] = "idle" /\ pack[p] = <<>> /\ owed[p] = {}
      /\ Idle.at = "idle"
  BY <1>1 DEF Idle
<1>4. SlotType
  <2>1. /\ queue \in Seq(Incident) /\ pack \in [Procs -> Seq(Incident)] /\ delivered \in Seq(Incident)
        /\ owed \in [Procs -> SUBSET fired]
        /\ proc \in [Procs -> {"idle", "collect", "handle", "done"}]
        /\ IsFiniteSet(fired) /\ fired \in SUBSET Incident
    BY <1>1, FS_EmptySet
  <2>2. firing \in [Actors -> {Idle} \cup [at : {"write", "clear", "push"}, type : IncidentTypes]]
    BY <1>1
  <2> QED
    BY <1>1, <1>2, <2>1, <2>2 DEF SlotType
<1>5. SlotFresh
  BY <1>1, <1>2, <1>3, ActorKinds DEF SlotFresh
<1>6. ProcsTidy
  BY <1>1, <1>2, <1>3, ActorKinds DEF ProcsTidy, Finished
<1>7. /\ Range(queue) = {} /\ IsInjective(queue) /\ Range(delivered) = {} /\ IsInjective(delivered)
      /\ \A p \in Procs : Range(pack[p]) = {} /\ IsInjective(pack[p])
  BY <1>1, <1>3, EmptyRange
<1>8. Numbered /\ InOnePlace /\ Kept /\ Collected
  BY <1>1, <1>3, <1>7 DEF Numbered, InOnePlace, Kept, Collected
<1> QED
  BY <1>4, <1>5, <1>6, <1>8 DEF SlotInv

\* A step that leaves the slot alone.
LEMMA SlotFrame == ASSUME SlotInv, UNCHANGED slotVars, client' = client PROVE SlotInv'
<1> USE DEF slotVars
<1>1. SlotType' /\ SlotFresh' /\ ProcsTidy'
  BY DEF SlotInv, SlotType, SlotFresh, ProcsTidy, Finished
<1>2. Numbered' /\ InOnePlace' /\ Kept' /\ Collected'
  BY DEF SlotInv, Numbered, InOnePlace, Kept, Collected
<1> QED
  BY <1>1, <1>2 DEF SlotInv

\* Every step preserves the invariant.
LEMMA StepSlotInv == SlotInv /\ [Next]_vars => SlotInv'
<1> SUFFICES ASSUME SlotInv, [Next]_vars PROVE SlotInv'
  OBVIOUS
<1>1. CASE SyncNext /\ UNCHANGED slotVars
  BY <1>1, SyncKeepsClient, SlotFrame
<1>2. CASE Registered /\ SlotNext /\ UNCHANGED syncVars
  <2>1. client' = client
    BY <1>2 DEF syncVars
  <2>2. ASSUME NEW a \in Actors, FireIncident(a) PROVE SlotInv'
    BY <2>1, <2>2, LookUpInv, WriteInv, ClearInv, PushInv DEF FireIncident
  <2>3. ASSUME NEW p \in Procs, ProcAlg(p) PROVE SlotInv'
    BY <2>1, <2>3, StartInv, CollectInv, CollectEndsInv, HandleInv, CollectAgainInv DEF ProcAlg
  <2>4. CASE PushEvent
    BY <2>1, <2>4, PushEventInv
  <2>5. CASE EndEvent
    BY <2>1, <2>5, EndEventInv
  <2> QED
    BY <1>2, <2>2, <2>3, <2>4, <2>5 DEF SlotNext
<1>3. CASE UNCHANGED vars
  <2>1. UNCHANGED slotVars /\ client' = client
    BY <1>3 DEF vars, syncVars
  <2> QED
    BY <2>1, SlotFrame
<1> QED
  BY <1>1, <1>2, <1>3 DEF Next, Done

\* Asynchronous incidents are exact, however many algorithms fire, whatever
\* their listeners fire in turn, and with any number of IncidentProcAlg
\* collecting at the same time: fireIncident's look-up, its write of
\* m_slotEvent and its clearing of the queue are separate steps, but only the
\* loop ever takes the last two.
THEOREM AsyncIsExact == Spec => []AsyncExact
<1>1. Init => SlotInv
  BY InitSlotInv
<1>2. SlotInv /\ [Next]_vars => SlotInv'
  BY StepSlotInv
<1>3. SlotInv => AsyncExact
  BY InvIsExact
<1> QED
  BY <1>1, <1>2, <1>3, PTL DEF Spec
=============================================================================
