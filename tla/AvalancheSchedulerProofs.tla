---------------------- MODULE AvalancheSchedulerProofs ----------------------
(***************************************************************************)
(* The scheduler for every precedence graph, every number of slots, events *)
(* and algorithms, every pool and every configuration.  SchedulerInv is    *)
(* inductive, which gives type correctness, and then who holds what.       *)
(* EventsPlaced: every event is in one place.  WorkBacked: every task,     *)
(* sign-off and retry belongs to one algorithm of a resident event,        *)
(* without blocking tasks (PreemptiveBlockingTasks is off by default);     *)
(* with them one can be queued twice, as SchedulerThrottle.cfg shows.      *)
(***************************************************************************)
EXTENDS AvalancheScheduler, NaturalsInduction, WellFoundedInduction, TLAPS

-----------------------------------------------------------------------------
(* The operators the actions are built from.                               *)

\* A set of naturals that is not empty has a least element.
LEMMA MinInSet ==
  ASSUME NEW S \in SUBSET Nat, S # {}
  PROVE  Min(S) \in S /\ \A n \in S : Min(S) <= n
<1>1. PICK m \in S : \A n \in S : ~(<<n, m>> \in OpToRel(<, Nat))
  BY NatLessThanWellFounded, WFMin
<1>2. ASSUME NEW n \in S PROVE m <= n
  <2>1. n \in Nat /\ m \in Nat
    OBVIOUS
  <2>2. n < m => <<n, m>> \in OpToRel(<, Nat)
    BY <2>1 DEF OpToRel
  <2>3. ~(n < m)
    BY <1>1, <2>2, Zenon
  <2> QED
    BY <2>1, <2>3
<1> QED
  BY <1>2 DEF Min

\* set() leaves a state of the state machine.
LEMMA SetStateType ==
  ASSUME NEW old \in AState, NEW new \in AState
  PROVE  SetState(old, new) \in AState
BY DEF SetState, AState

\* The promotions of the precedence rules keep a slot well-formed and do not
\* touch its context.
LEMMA PromotedType ==
  ASSUME NEW slot \in SlotState, NEW r
  PROVE  Promoted(slot, r) \in SlotState /\ Promoted(slot, r).ctx = slot.ctx
<1>1. \A a \in Algs : Promote(slot.algs[a], a, r) \in AState
  BY DEF SlotState, Promote, AState
<1>2. \A n \in CFNodes : Decide(slot.cf[n], n, r) \in {-1, 0, 1}
  BY DEF SlotState, Decide
<1> QED
  BY <1>1, <1>2 DEF SlotState, Promoted

\* A slot taken over by an event is well-formed.
LEMMA ResetSlotType ==
  ASSUME NEW e \in Events
  PROVE  ResetSlot(e) \in SlotState /\ ResetSlot(e).ctx = e
BY DEF ResetSlot, SlotState, EmptyAlgs, EmptyCF, AState

\* revise() changes the state of one algorithm and no context.
LEMMA RevisedType ==
  ASSUME slots \in [Slots -> SlotState], NEW ts \in TaskSpecs, NEW st \in AState
  PROVE  /\ Revised(ts, st) \in [Slots -> SlotState]
         /\ \A s \in Slots : Revised(ts, st)[s].ctx = slots[s].ctx
<1>1. CASE slotOf[ts.evt] \in Slots
  <2> DEFINE s0 == slotOf[ts.evt]
             x  == SetState(slots[s0].algs[ts.alg], st)
  <2>1. x \in AState
    BY <1>1, SetStateType DEF SlotState, TaskSpecs
  <2> DEFINE y == [slots[s0] EXCEPT !.algs[ts.alg] = x]
  <2>2. Revised(ts, st) = [slots EXCEPT ![s0] = y]
    BY <1>1 DEF Revised
  <2> HIDE DEF x
  <2>3. y \in SlotState /\ y.ctx = slots[s0].ctx
    BY <1>1, <2>1 DEF SlotState, TaskSpecs
  <2> HIDE DEF y
  <2> QED
    BY <1>1, <2>2, <2>3
<1>2. CASE slotOf[ts.evt] \notin Slots
  BY <1>2 DEF Revised
<1> QED
  BY <1>1, <1>2

\* What the scheduler thread's position must be.
SchedType ==
  [at : {"pop", "check", "retry", "slot", "exited"}, n : Nat,
   slot : Slots \cup {NoSlot}, todo : SUBSET Algs]

\* The scheduler thread goes on with a slot that has a context, or to the
\* action queue.
LEMMA FromSlotType ==
  ASSUME NEW sl \in [Slots -> SlotState], NEW k \in Int
  PROVE  LET c == FromSlot(k, sl)
         IN  /\ c \in SchedType /\ c.at \in {"pop", "slot"}
             /\ c.at = "slot" => c.slot \in Slots /\ sl[c.slot].ctx # NoEvent
<1> DEFINE busy == {s \in Slots : s >= k /\ sl[s].ctx # NoEvent}
<1>1. CASE busy = {}
  BY <1>1 DEF FromSlot, AtPop, SchedType, NoSlot
<1>2. CASE busy # {}
  <2>1. busy \in SUBSET Nat
    BY EventContextsAssumption DEF Slots
  <2>2. Min(busy) \in busy
    BY <1>2, <2>1, MinInSet
  <2>3. FromSlot(k, sl) = EnterSlot(Min(busy), sl)
    BY <1>2 DEF FromSlot
  <2>4. AlgsInState(sl[Min(busy)].algs, "DATAREADY") \subseteq Algs
    BY <2>2 DEF AlgsInState, SlotState
  <2> QED
    BY <2>2, <2>3, <2>4 DEF EnterSlot, SchedType
<1> QED
  BY <1>1, <1>2

\* iterate() starts with the retry queue, if there is something in it.
LEMMA StartIterateType ==
  ASSUME NEW sl \in [Slots -> SlotState], NEW rq \in Seq(TaskSpecs)
  PROVE  LET c == StartIterate(sl, rq)
         IN  /\ c \in SchedType /\ c.at \in {"pop", "retry", "slot"}
             /\ c.at = "retry" => c.n \in 1 .. Len(rq)
             /\ c.at = "slot" => c.slot \in Slots /\ sl[c.slot].ctx # NoEvent
<1>1. CASE rq = <<>>
  BY <1>1, FromSlotType DEF StartIterate
<1>2. CASE rq # <<>>
  <2>1. Len(rq) \in Nat /\ Len(rq) >= 1
    BY <1>2
  <2>2. StartIterate(sl, rq) = [at |-> "retry", n |-> Len(rq), slot |-> NoSlot, todo |-> {}]
    BY <1>2 DEF StartIterate, AtPop
  <2> QED
    BY <2>1, <2>2 DEF SchedType
<1> QED
  BY <1>1, <1>2

-----------------------------------------------------------------------------
(* The initial state.                                                      *)

\* What initialize() leaves satisfies the invariant.
LEMMA InitSchedulerInv == SchedulerInit => SchedulerInv
<1> SUFFICES ASSUME SchedulerInit PROVE SchedulerInv
  OBVIOUS
<1> USE EventContextsAssumption, AlgorithmsAssumption DEF SchedulerInit
<1>1. EmptySlot \in SlotState /\ EmptySlot.ctx = NoEvent
  BY DEF EmptySlot, SlotState, EmptyAlgs, EmptyCF, AState
<1>2. TypeOK
  BY <1>1 DEF TypeOK, AtPop, NoSlot, ExecState, Status
<1>3. CursorOK
  BY DEF CursorOK, AtPop
<1>4. ContextsBorn
  BY <1>1 DEF ContextsBorn
<1> QED
  BY <1>2, <1>3, <1>4 DEF SchedulerInv

-----------------------------------------------------------------------------
(* schedule().                                                             *)

\* Every specification in q names an event that was pushed.
BornSeq(q) == \A i \in DOMAIN q : owner[q[i].evt] # "unborn"

\* What one call of schedule() does to the types: the contexts of the slots
\* stay, and the retry queue loses nothing it had left.
ScheduleResult(pending) ==
  /\ slots' \in [Slots -> SlotState]
  /\ \A s \in Slots : slots'[s].ctx = slots[s].ctx
  /\ retryQueue' \in Seq(TaskSpecs) /\ BornSeq(retryQueue') /\ Len(retryQueue') >= Len(pending)
  /\ tasks' \subseteq Tasks /\ \A t \in tasks' : owner[t.ts.evt] # "unborn"
  /\ blockingInFlight' \in Int
  /\ instances' \in [Algs -> Int] /\ available' \subseteq Resources

\* schedule() on a well-formed specification gives that result.
LEMMA ScheduleType ==
  ASSUME SchedulerInv,
         NEW ts \in TaskSpecs, owner[ts.evt] # "unborn",
         NEW pending \in Seq(TaskSpecs), BornSeq(pending),
         Schedule(ts, pending)
  PROVE  ScheduleResult(pending)
<1> USE AlgorithmsAssumption DEF SchedulerInv, TypeOK, ContextsBorn, ScheduleResult
<1>0. "RESOURCELESS" \in AState /\ "SCHEDULED" \in AState /\ ts.alg \in Algs
  BY DEF AState, TaskSpecs
<1>1. /\ Append(pending, ts) \in Seq(TaskSpecs) /\ BornSeq(Append(pending, ts))
      /\ Len(Append(pending, ts)) >= Len(pending)
  BY DEF BornSeq
<1>2. CASE Throttled(ts) /\ retryQueue' = Append(pending, ts) /\ UNCHANGED <<slots, poolVars, taskVars>>
  BY <1>1, <1>2 DEF poolVars, taskVars
<1>3. CASE /\ slots' = Revised(ts, "RESOURCELESS") /\ retryQueue' = Append(pending, ts)
           /\ UNCHANGED <<poolVars, taskVars>>
  BY <1>0, <1>1, <1>3, RevisedType DEF poolVars, taskVars
<1>4. CASE /\ AcquireAlgorithm(ts.alg)
           /\ slots' = Revised(ts, "SCHEDULED") /\ retryQueue' = pending
           /\ IF DirectExecution THEN UNCHANGED taskVars
              ELSE /\ SpawnTask(ts)
                   /\ blockingInFlight' = IF ts.alg \in Blocking THEN blockingInFlight + 1
                                          ELSE blockingInFlight
  <2>1. instances' \in [Algs -> Int] /\ available' \subseteq Resources
    BY <1>0, <1>4 DEF AcquireAlgorithm
  <2>2. slots' \in [Slots -> SlotState] /\ \A s \in Slots : slots'[s].ctx = slots[s].ctx
    BY <1>0, <1>4, RevisedType
  <2>3. /\ tasks' \subseteq Tasks /\ \A t \in tasks' : owner[t.ts.evt] # "unborn"
        /\ blockingInFlight' \in Int
    <3>1. CASE DirectExecution
      BY <1>4, <3>1 DEF taskVars
    <3>2. CASE ~DirectExecution
      <4>1. PICK k \in 0 .. Cardinality(tasks) : tasks' = tasks \cup {NewTask(ts, k)}
        BY <1>4, <3>2 DEF SpawnTask
      <4>2. NewTask(ts, k) \in Tasks /\ NewTask(ts, k).ts = ts
        BY DEF NewTask, Tasks, Status
      <4> QED
        BY <1>4, <3>2, <4>1, <4>2
    <3> QED
      BY <3>1, <3>2
  <2> QED
    BY <1>4, <2>1, <2>2, <2>3
<1> QED
  BY <1>2, <1>3, <1>4 DEF Schedule

-----------------------------------------------------------------------------
(* The actions of the scheduler thread.                                    *)

\* A turn of the retry loop keeps SchedulerInv: it takes one entry of the
\* retry queue and puts at most that one back.
LEMMA RetryScheduleInv == ASSUME SchedulerInv, RetrySchedule PROVE SchedulerInv'
<1> USE DEF SchedulerInv, RetrySchedule, statusVars, ctxVars, activeVars
<1>1. retryQueue # <<>> /\ sched.n \in 1 .. Len(retryQueue)
  BY DEF CursorOK, TypeOK
<1>2. /\ Head(retryQueue) \in TaskSpecs /\ Tail(retryQueue) \in Seq(TaskSpecs)
      /\ owner[Head(retryQueue).evt] # "unborn" /\ BornSeq(Tail(retryQueue))
      /\ Len(Tail(retryQueue)) = Len(retryQueue) - 1
  BY <1>1 DEF TypeOK, ContextsBorn, BornSeq
<1>3. ScheduleResult(Tail(retryQueue))
  BY <1>2, ScheduleType
<1>4. /\ sched' \in SchedType
      /\ sched'.at = "retry" => sched'.n \in 1 .. Len(retryQueue')
      /\ sched'.at = "slot" => sched'.slot \in Slots /\ slots'[sched'.slot].ctx # NoEvent
  <2>1. CASE sched.n > 1
    <3>1. sched' = [sched EXCEPT !.n = @ - 1] /\ sched \in SchedType /\ sched.at = "retry"
      BY <2>1 DEF TypeOK, SchedType
    <3>2. Len(retryQueue') >= Len(retryQueue) - 1 /\ Len(retryQueue) \in Nat
          /\ Len(retryQueue') \in Nat
      BY <1>2, <1>3 DEF ScheduleResult, TypeOK
    <3> QED
      BY <1>1, <2>1, <3>1, <3>2 DEF SchedType
  <2>2. CASE ~(sched.n > 1)
    BY <1>3, <2>2, FromSlotType DEF ScheduleResult
  <2> QED
    BY <2>1, <2>2
<1>5. TypeOK'
  BY <1>3, <1>4 DEF ScheduleResult, TypeOK, ClearNeedsUpdate, SchedType
<1>6. CursorOK'
  BY <1>4 DEF CursorOK
<1>7. ContextsBorn'
  BY <1>3 DEF ScheduleResult, ContextsBorn, BornSeq
<1> QED
  BY <1>5, <1>6, <1>7

\* So does scheduling a DATAREADY algorithm of the slot at hand,
LEMMA SlotScheduleInv == ASSUME SchedulerInv, SlotSchedule PROVE SchedulerInv'
<1> USE DEF SchedulerInv, SlotSchedule, statusVars, ctxVars, activeVars
<1> DEFINE a  == Min(sched.todo)
           ts == TaskSpec(a, slots[sched.slot].ctx)
<1>1. a \in Algs
  <2>1. sched.todo \subseteq Algs /\ sched.todo # {} /\ Algs \subseteq Nat
    BY SizesAssumption DEF TypeOK, Algs
  <2>2. a \in sched.todo
    BY <2>1, MinInSet
  <2> QED
    BY <2>1, <2>2
<1>2. ts \in TaskSpecs /\ owner[ts.evt] # "unborn"
  BY <1>1 DEF TypeOK, CursorOK, ContextsBorn, TaskSpec, TaskSpecs, SlotState
<1>3. retryQueue \in Seq(TaskSpecs) /\ BornSeq(retryQueue)
  BY DEF TypeOK, ContextsBorn, BornSeq
<1>4. ScheduleResult(retryQueue)
  BY <1>2, <1>3, ScheduleType
<1>5. sched' = [sched EXCEPT !.todo = @ \ {a}]
  OBVIOUS
<1>6. TypeOK'
  BY <1>4, <1>5 DEF ScheduleResult, TypeOK
<1>7. CursorOK'
  BY <1>4, <1>5 DEF CursorOK, ScheduleResult, TypeOK
<1>8. ContextsBorn'
  BY <1>4 DEF ScheduleResult, ContextsBorn, BornSeq
<1> QED
  BY <1>6, <1>7, <1>8

\* emptying the slot when its event is complete or stalled,
LEMMA SlotUpdateInv == ASSUME SchedulerInv, SlotUpdate PROVE SchedulerInv'
<1> USE DEF SchedulerInv
<1> DEFINE s == sched.slot
           e == slots[s].ctx
           z == [slots[s] EXCEPT !.ctx = NoEvent, !.complete = TRUE]
           Free == [slots EXCEPT ![s] = z]
<1>1. s \in Slots /\ e \in Events /\ owner[e] # "unborn"
  BY DEF SlotUpdate, TypeOK, CursorOK, ContextsBorn, SlotState
<1>2. z \in SlotState /\ z.ctx = NoEvent
  <2>1. slots[s] \in SlotState
    BY <1>1 DEF TypeOK
  <2> QED
    BY <2>1 DEF SlotState
<1>3. Free \in [Slots -> SlotState]
  BY <1>1, <1>2 DEF TypeOK
<1>4. Free[s].ctx = NoEvent /\ \A t \in Slots : t # s => Free[t] = slots[t]
  BY <1>1, <1>2 DEF TypeOK
<1>5. \/ /\ slots' = Free /\ eventStatus' = eventStatus
         /\ \/ finishedEvents' = Append(finishedEvents, e) /\ owner' = owner
            \/ owner' = [owner EXCEPT ![e] = "lost"] /\ finishedEvents' = finishedEvents
      \/ /\ slots' = Free /\ eventStatus' = [eventStatus EXCEPT ![s] = "AlgStall"]
         /\ finishedEvents' = Append(finishedEvents, e) /\ owner' = owner
      \/ UNCHANGED <<slots, eventStatus, finishedEvents, owner>>
  BY <1>1 DEF SlotUpdate, TypeOK
<1>6. sched' = FromSlot(s + 1, slots')
  BY DEF SlotUpdate
<1> HIDE DEF z, Free
<1>7. /\ slots' \in [Slots -> SlotState]
      /\ \A t \in Slots : slots'[t].ctx # NoEvent => slots'[t].ctx = slots[t].ctx
  BY <1>1, <1>3, <1>4, <1>5 DEF TypeOK
<1>8. /\ finishedEvents' \in Seq(Events)
      /\ \A i \in DOMAIN finishedEvents' : owner[finishedEvents'[i]] # "unborn"
  <2>1. finishedEvents \in Seq(Events) /\ Append(finishedEvents, e) \in Seq(Events)
    BY <1>1 DEF TypeOK
  <2>2. \A i \in DOMAIN finishedEvents : owner[finishedEvents[i]] # "unborn"
    BY DEF ContextsBorn
  <2>3. \A i \in DOMAIN Append(finishedEvents, e) :
          owner[Append(finishedEvents, e)[i]] # "unborn"
    <3> HIDE DEF e
    <3> QED
      BY <1>1, <2>1, <2>2
  <2> QED
    BY <1>5, <2>1, <2>2, <2>3
<1>9. eventStatus' \in [Slots -> Status]
  BY <1>5 DEF TypeOK, Status
<1>10. /\ owner' \in [Events -> {"unborn", "scheduler", "client", "deleted", "lost"}]
       /\ \A d \in Events : owner[d] # "unborn" <=> owner'[d] # "unborn"
  BY <1>1, <1>5 DEF TypeOK
<1>11. /\ sched' \in SchedType /\ sched'.at \in {"pop", "slot"}
       /\ sched'.at = "slot" => sched'.slot \in Slots /\ slots'[sched'.slot].ctx # NoEvent
  <2>1. s + 1 \in Int
    BY <1>1, EventContextsAssumption DEF Slots
  <2> QED
    BY <1>6, <1>7, <2>1, FromSlotType
<1>12. TypeOK'
  BY <1>7, <1>8, <1>9, <1>10, <1>11
  DEF SlotUpdate, TypeOK, SchedType, ClearNeedsUpdate, taskVars, poolVars, activeVars
<1>13. CursorOK'
  BY <1>11 DEF CursorOK
<1>14. ContextsBorn'
  <2>1. UNCHANGED <<slotOf, tasks, retryQueue, actionsQueue>>
    BY DEF SlotUpdate, taskVars
  <2>2. \A i \in DOMAIN actionsQueue :
          actionsQueue[i].kind # "deactivate" => actionsQueue[i].ts.evt \in Events
    BY DEF TypeOK, Actions, DeactivateAction, TaskSpecs
  <2>3. \A i \in DOMAIN retryQueue : retryQueue[i].evt \in Events
    <3>1. \A i \in DOMAIN retryQueue : retryQueue[i] \in TaskSpecs
      BY DEF TypeOK
    <3> QED
      BY <3>1 DEF TaskSpecs
  <2>4. \A t \in tasks : t.ts.evt \in Events
    BY DEF TypeOK, Tasks, TaskSpecs
  <2>5. \A t \in Slots : slots[t].ctx # NoEvent => slots[t].ctx \in Events
    BY DEF TypeOK, SlotState
  <2>6. \A i \in DOMAIN finishedEvents' : finishedEvents'[i] \in Events
    BY <1>8
  <2> QED
    BY <1>7, <1>8, <1>10, <2>1, <2>2, <2>3, <2>4, <2>5, <2>6 DEF ContextsBorn
<1> QED
  BY <1>12, <1>13, <1>14

\* The closure at the head of the action queue, and what popping it leaves.
LEMMA PopActionType ==
  ASSUME SchedulerInv, actionsQueue # <<>>
  PROVE  /\ Tail(actionsQueue) \in Seq(Actions)
         /\ \A i \in DOMAIN Tail(actionsQueue) :
              Tail(actionsQueue)[i].kind # "deactivate" =>
                owner[Tail(actionsQueue)[i].ts.evt] # "unborn"
         /\ Head(actionsQueue).kind = "newEvent" =>
              /\ Head(actionsQueue).ts.evt \in Events
              /\ owner[Head(actionsQueue).ts.evt] # "unborn"
              /\ slotOf[Head(actionsQueue).ts.evt] \in Slots
         /\ Head(actionsQueue).kind = "signoff" =>
              /\ Head(actionsQueue).ts \in TaskSpecs
              /\ owner[Head(actionsQueue).ts.evt] # "unborn"
              /\ slotOf[Head(actionsQueue).ts.evt] \in Slots
<1> DEFINE h == Head(actionsQueue)
<1>1. actionsQueue \in Seq(Actions)
  BY DEF SchedulerInv, TypeOK
<1>2. h \in Actions /\ h = actionsQueue[1] /\ 1 \in DOMAIN actionsQueue
  BY <1>1
<1>3. Tail(actionsQueue) \in Seq(Actions)
  BY <1>1
<1>4. \A i \in DOMAIN Tail(actionsQueue) :
        i + 1 \in DOMAIN actionsQueue /\ Tail(actionsQueue)[i] = actionsQueue[i + 1]
  BY <1>1
<1>5. h.kind # "deactivate" => owner[h.ts.evt] # "unborn"
  BY <1>2 DEF SchedulerInv, ContextsBorn
<1> HIDE DEF h
<1>6. h.kind = "newEvent" => h.ts.evt \in Events
  BY <1>2 DEF Actions, DeactivateAction
<1>7. h.kind = "signoff" => h.ts \in TaskSpecs
  BY <1>2 DEF Actions, DeactivateAction
<1>8. \A e \in Events : owner[e] # "unborn" => slotOf[e] \in Slots
  BY DEF SchedulerInv, ContextsBorn
<1>9. h.kind = "signoff" => h.ts.evt \in Events
  BY <1>7 DEF TaskSpecs
<1>10. \A i \in DOMAIN Tail(actionsQueue) :
         Tail(actionsQueue)[i].kind # "deactivate" =>
           owner[Tail(actionsQueue)[i].ts.evt] # "unborn"
  BY <1>4 DEF SchedulerInv, ContextsBorn
<1> QED
  BY <1>3, <1>5, <1>6, <1>7, <1>8, <1>9, <1>10 DEF h

\* the closure of pushNewEvent,
LEMMA RunNewEventInv == ASSUME SchedulerInv, RunNewEvent PROVE SchedulerInv'
<1> DEFINE e == Head(actionsQueue).ts.evt
           s == slotOf[e]
<1>1. /\ sched.at = "pop" /\ actionsQueue # <<>> /\ Head(actionsQueue).kind = "newEvent"
      /\ actionsQueue' = Tail(actionsQueue)
      /\ UNCHANGED <<retryQueue, tasks, blockingInFlight, instances, available, execState,
                     eventStatus, owner, slotOf, finishedEvents, isActive, closing, freeSlots>>
  BY DEF RunNewEvent, PopAction, taskVars, poolVars, statusVars, ctxVars, activeVars
<1>2. /\ actionsQueue' \in Seq(Actions)
      /\ \A i \in DOMAIN actionsQueue' : actionsQueue'[i].kind # "deactivate" =>
           owner[actionsQueue'[i].ts.evt] # "unborn"
      /\ e \in Events /\ owner[e] # "unborn" /\ s \in Slots
  BY <1>1, PopActionType
<1>3. CASE ~slots[s].complete /\ sched' = AtCheck /\ UNCHANGED <<slots, needsUpdate>>
  <2>1. TypeOK'
    BY <1>1, <1>2, <1>3 DEF SchedulerInv, TypeOK, AtCheck, AtPop, NoSlot
  <2>2. CursorOK'
    BY <1>3 DEF CursorOK, AtCheck, AtPop
  <2>3. ContextsBorn'
    BY <1>1, <1>2, <1>3 DEF SchedulerInv, ContextsBorn
  <2> QED
    BY <2>1, <2>2, <2>3 DEF SchedulerInv
<1>4. CASE /\ \E r \in Iterate(EmptyAlgs, EmptyCF, Root) :
                slots' = [slots EXCEPT ![s] = Promoted(ResetSlot(e), r)]
           /\ sched' = StartIterate(slots', retryQueue)
           /\ ClearNeedsUpdate
  <2>1. PICK r \in Iterate(EmptyAlgs, EmptyCF, Root) :
          slots' = [slots EXCEPT ![s] = Promoted(ResetSlot(e), r)]
    BY <1>4
  <2>2. Promoted(ResetSlot(e), r) \in SlotState /\ Promoted(ResetSlot(e), r).ctx = e
    BY <1>2, ResetSlotType, PromotedType
  <2>3. /\ slots' \in [Slots -> SlotState]
        /\ \A t \in Slots : slots'[t].ctx = slots[t].ctx \/ slots'[t].ctx = e
    BY <1>2, <2>1, <2>2 DEF SchedulerInv, TypeOK
  <2>4. retryQueue \in Seq(TaskSpecs) /\ sched' = StartIterate(slots', retryQueue)
    BY <1>4 DEF SchedulerInv, TypeOK
  <2>5. /\ sched' \in SchedType
        /\ sched'.at = "retry" => sched'.n \in 1 .. Len(retryQueue)
        /\ sched'.at = "slot" => sched'.slot \in Slots /\ slots'[sched'.slot].ctx # NoEvent
    BY <2>3, <2>4, StartIterateType
  <2>6. needsUpdate' \in BOOLEAN
    BY <1>4 DEF ClearNeedsUpdate
  <2>7. TypeOK'
    BY <1>1, <1>2, <2>3, <2>5, <2>6 DEF SchedulerInv, TypeOK, SchedType
  <2>8. CursorOK'
    BY <1>1, <2>5 DEF CursorOK
  <2>9. ContextsBorn'
    BY <1>1, <1>2, <2>3 DEF SchedulerInv, ContextsBorn
  <2> QED
    BY <2>7, <2>8, <2>9 DEF SchedulerInv
<1> QED
  BY <1>3, <1>4 DEF RunNewEvent

\* the closure of signoff(),
LEMMA RunSignoffInv == ASSUME SchedulerInv, RunSignoff PROVE SchedulerInv'
<1> DEFINE ts  == Head(actionsQueue).ts
           s   == slotOf[ts.evt]
           new == SignoffState(execState[s][ts.alg])
           set == Revised(ts, new)
<1>1. /\ sched.at = "pop" /\ actionsQueue # <<>> /\ Head(actionsQueue).kind = "signoff"
      /\ actionsQueue' = Tail(actionsQueue)
      /\ needsUpdate' = TRUE /\ sched' = AtCheck
      /\ UNCHANGED <<retryQueue, tasks, instances, available, execState,
                     eventStatus, owner, slotOf, finishedEvents, isActive, closing, freeSlots>>
  BY DEF RunSignoff, PopAction, poolVars, statusVars, ctxVars, activeVars
<1>2. /\ actionsQueue' \in Seq(Actions)
      /\ \A i \in DOMAIN actionsQueue' : actionsQueue'[i].kind # "deactivate" =>
           owner[actionsQueue'[i].ts.evt] # "unborn"
      /\ ts \in TaskSpecs /\ s \in Slots
  BY <1>1, PopActionType
<1>3. new \in AState
  BY DEF SignoffState, AState
<1>4. /\ set \in [Slots -> SlotState]
      /\ \A t \in Slots : set[t].ctx = slots[t].ctx
  <2>1. slots \in [Slots -> SlotState]
    BY DEF SchedulerInv, TypeOK
  <2> HIDE DEF ts, new
  <2> QED
    BY <1>2, <1>3, <2>1, RevisedType
<1>5. \/ slots' = set
      \/ \E r \in Iterate(set[s].algs, set[s].cf, ts.alg) :
           slots' = [set EXCEPT ![s] = Promoted(@, r)]
  BY DEF RunSignoff
<1>6. /\ slots' \in [Slots -> SlotState]
      /\ \A t \in Slots : slots'[t].ctx = slots[t].ctx
  <2> HIDE DEF set, s, ts
  <2>1. CASE slots' = set
    BY <1>4, <2>1
  <2>2. CASE \E r \in Iterate(set[s].algs, set[s].cf, ts.alg) :
               slots' = [set EXCEPT ![s] = Promoted(@, r)]
    <3>1. PICK r \in Iterate(set[s].algs, set[s].cf, ts.alg) :
            slots' = [set EXCEPT ![s] = Promoted(set[s], r)]
      BY <1>4, <2>2
    <3>2. Promoted(set[s], r) \in SlotState /\ Promoted(set[s], r).ctx = set[s].ctx
      BY <1>2, <1>4, PromotedType
    <3> QED
      BY <1>2, <1>4, <3>1, <3>2
  <2> QED
    BY <1>5, <2>1, <2>2
<1>7. blockingInFlight' \in Int
  <2>1. blockingInFlight' = blockingInFlight \/ blockingInFlight' = blockingInFlight - 1
    BY DEF RunSignoff
  <2>2. blockingInFlight \in Int
    BY DEF SchedulerInv, TypeOK
  <2> QED
    BY <2>1, <2>2
<1> HIDE DEF ts, s, new, set
<1>8. TypeOK'
  BY <1>1, <1>2, <1>6, <1>7 DEF SchedulerInv, TypeOK, AtCheck, AtPop, NoSlot
<1>9. CursorOK'
  BY <1>1 DEF CursorOK, AtCheck, AtPop
<1>10. ContextsBorn'
  BY <1>1, <1>2, <1>6 DEF SchedulerInv, ContextsBorn
<1> QED
  BY <1>8, <1>9, <1>10 DEF SchedulerInv

\* the closure of deactivate(),
LEMMA RunDeactivateInv == ASSUME SchedulerInv, RunDeactivate PROVE SchedulerInv'
<1>1. /\ actionsQueue # <<>> /\ actionsQueue' = Tail(actionsQueue)
      /\ isActive' = FALSE /\ sched' = AtCheck
      /\ UNCHANGED <<slots, finishedEvents, retryQueue, needsUpdate, tasks, blockingInFlight,
                     instances, available, execState, eventStatus, owner, slotOf, closing,
                     freeSlots>>
  BY DEF RunDeactivate, PopAction, slotVars, taskVars, poolVars, statusVars, ctxVars
<1>2. /\ actionsQueue' \in Seq(Actions)
      /\ \A i \in DOMAIN actionsQueue' : actionsQueue'[i].kind # "deactivate" =>
           owner[actionsQueue'[i].ts.evt] # "unborn"
  BY <1>1, PopActionType
<1>3. TypeOK'
  BY <1>1, <1>2 DEF SchedulerInv, TypeOK, AtCheck, AtPop, NoSlot
<1>4. CursorOK'
  BY <1>1 DEF CursorOK, AtCheck, AtPop
<1>5. ContextsBorn'
  BY <1>1, <1>2 DEF SchedulerInv, ContextsBorn
<1> QED
  BY <1>3, <1>4, <1>5 DEF SchedulerInv

\* the test of m_needsUpdate after a closure,
LEMMA CheckUpdateInv == ASSUME SchedulerInv, CheckUpdate PROVE SchedulerInv'
<1>1. UNCHANGED <<slots, finishedEvents, actionsQueue, retryQueue, tasks, blockingInFlight,
                  instances, available, execState, eventStatus, owner, slotOf, isActive,
                  closing, freeSlots>>
  BY DEF CheckUpdate, slotVars, taskVars, poolVars, statusVars, ctxVars, activeVars
<1>2. needsUpdate' \in BOOLEAN
  BY DEF CheckUpdate
<1>3. slots \in [Slots -> SlotState] /\ retryQueue \in Seq(TaskSpecs)
  BY DEF SchedulerInv, TypeOK
<1>4. sched' = StartIterate(slots, retryQueue) \/ sched' = AtPop
  BY DEF CheckUpdate
<1>5. AtPop \in SchedType /\ AtPop.at = "pop"
  BY DEF AtPop, SchedType
<1>6. /\ sched' \in SchedType
      /\ sched'.at = "retry" => sched'.n \in 1 .. Len(retryQueue)
      /\ sched'.at = "slot" => sched'.slot \in Slots /\ slots[sched'.slot].ctx # NoEvent
  BY <1>3, <1>4, <1>5, StartIterateType
<1>7. TypeOK'
  BY <1>1, <1>2, <1>6 DEF SchedulerInv, TypeOK, SchedType
<1>8. CursorOK'
  BY <1>1, <1>6 DEF CursorOK
<1>9. ContextsBorn'
  BY <1>1 DEF SchedulerInv, ContextsBorn
<1> QED
  BY <1>7, <1>8, <1>9 DEF SchedulerInv

\* and the end of activate().
LEMMA ExitInv == ASSUME SchedulerInv, Exit PROVE SchedulerInv'
<1>1. UNCHANGED <<slots, finishedEvents, actionsQueue, retryQueue, needsUpdate, tasks,
                  blockingInFlight, instances, available, execState, eventStatus, owner,
                  slotOf, isActive, closing, freeSlots>>
  BY DEF Exit, slotVars, queueVars, taskVars, poolVars, statusVars, ctxVars, activeVars
<1>2. sched' = Exited
  BY DEF Exit
<1>3. TypeOK'
  BY <1>1, <1>2 DEF SchedulerInv, TypeOK, Exited, AtPop, NoSlot
<1>4. CursorOK'
  BY <1>2 DEF CursorOK, Exited, AtPop
<1>5. ContextsBorn'
  BY <1>1 DEF SchedulerInv, ContextsBorn
<1> QED
  BY <1>3, <1>4, <1>5 DEF SchedulerInv

-----------------------------------------------------------------------------
(* The tasks.                                                              *)

\* A task names an algorithm and an event that has a slot.
LEMMA TaskType ==
  ASSUME SchedulerInv, NEW t \in tasks
  PROVE  /\ t \in Tasks /\ t.ts \in TaskSpecs /\ t.ts.alg \in Algs /\ t.ts.evt \in Events
         /\ owner[t.ts.evt] # "unborn" /\ slotOf[t.ts.evt] \in Slots
<1>1. t \in Tasks /\ t.ts \in TaskSpecs /\ t.ts.alg \in Algs /\ t.ts.evt \in Events
  BY DEF SchedulerInv, TypeOK, Tasks, TaskSpecs
<1> QED
  BY <1>1 DEF SchedulerInv, ContextsBorn

\* Executing an algorithm keeps SchedulerInv,
LEMMA TaskExecuteInv ==
  ASSUME SchedulerInv, NEW t \in tasks, NEW out \in Outcome, TaskExecute(t, out)
  PROVE  SchedulerInv'
<1> DEFINE s == slotOf[t.ts.evt]
           u == [t EXCEPT !.stage = "executed", !.failed = (out = "fail"),
                          !.seen = eventStatus[s]]
<1>1. UNCHANGED <<slots, finishedEvents, actionsQueue, retryQueue, needsUpdate,
                  blockingInFlight, instances, available, eventStatus, owner, slotOf,
                  isActive, closing, freeSlots, sched>>
  BY DEF TaskExecute, slotVars, queueVars, poolVars, ctxVars, activeVars
<1>2. /\ tasks' = (tasks \ {t}) \cup {u}
      /\ execState' = IF out = "disabled" THEN execState
                      ELSE [execState EXCEPT ![s][t.ts.alg] = out]
  BY DEF TaskExecute
<1>3. t \in Tasks /\ t.ts.alg \in Algs /\ owner[t.ts.evt] # "unborn" /\ s \in Slots
  BY TaskType
<1>4. u \in Tasks /\ u.ts = t.ts
  <2>1. eventStatus[s] \in Status
    BY <1>3 DEF SchedulerInv, TypeOK
  <2> QED
    BY <1>3, <2>1 DEF Tasks
<1> HIDE DEF u
<1>5. tasks' \subseteq Tasks /\ \A v \in tasks' : owner[v.ts.evt] # "unborn"
  BY <1>2, <1>3, <1>4 DEF SchedulerInv, TypeOK, ContextsBorn
<1>6. execState' \in [Slots -> [Algs -> ExecState]]
  <2>1. execState \in [Slots -> [Algs -> ExecState]]
    BY DEF SchedulerInv, TypeOK
  <2>2. out # "disabled" => out \in ExecState
    BY DEF Outcome, ExecState
  <2> HIDE DEF s
  <2> QED
    BY <1>2, <1>3, <2>1, <2>2
<1> HIDE DEF s
<1>7. TypeOK'
  BY <1>1, <1>5, <1>6 DEF SchedulerInv, TypeOK
<1>8. CursorOK'
  BY <1>1 DEF SchedulerInv, CursorOK
<1>9. ContextsBorn'
  BY <1>1, <1>5 DEF SchedulerInv, ContextsBorn
<1> QED
  BY <1>7, <1>8, <1>9 DEF SchedulerInv

\* so does the update of the event status with the release,
LEMMA TaskReleaseInv ==
  ASSUME SchedulerInv, NEW t \in tasks, TaskRelease(t)
  PROVE  SchedulerInv'
<1> DEFINE s == slotOf[t.ts.evt]
           u == [t EXCEPT !.stage = "released"]
           new == UpdatedStatus(t.seen, t.failed, eventStatus[s])
<1>1. UNCHANGED <<slots, finishedEvents, actionsQueue, retryQueue, needsUpdate,
                  blockingInFlight, execState, owner, slotOf,
                  isActive, closing, freeSlots, sched>>
  BY DEF TaskRelease, slotVars, queueVars, ctxVars, activeVars
<1>2. t \in Tasks /\ t.ts.alg \in Algs /\ owner[t.ts.evt] # "unborn" /\ s \in Slots
  BY TaskType
<1>3. new \in Status
  BY <1>2 DEF SchedulerInv, TypeOK, UpdatedStatus, Status
<1>4. eventStatus' = [eventStatus EXCEPT ![s] = new] /\ tasks' = (tasks \ {t}) \cup {u}
  BY <1>2 DEF TaskRelease, SchedulerInv, TypeOK
<1>5. u \in Tasks /\ u.ts = t.ts
  BY <1>2 DEF Tasks
<1> HIDE DEF u, new
<1>6. tasks' \subseteq Tasks /\ \A v \in tasks' : owner[v.ts.evt] # "unborn"
  BY <1>2, <1>4, <1>5 DEF SchedulerInv, TypeOK, ContextsBorn
<1>7. eventStatus' \in [Slots -> Status]
  BY <1>2, <1>3, <1>4 DEF SchedulerInv, TypeOK
<1>8. instances' \in [Algs -> Int] /\ available' \subseteq Resources
  <2>1. ReleaseAlgorithm(t.ts.alg)
    BY DEF TaskRelease
  <2>2. instances \in [Algs -> Int] /\ available \subseteq Resources
    BY DEF SchedulerInv, TypeOK
  <2> QED
    BY <1>2, <2>1, <2>2, AlgorithmsAssumption DEF ReleaseAlgorithm
<1> HIDE DEF s
<1>9. TypeOK'
  BY <1>1, <1>6, <1>7, <1>8 DEF SchedulerInv, TypeOK
<1>10. CursorOK'
  BY <1>1 DEF SchedulerInv, CursorOK
<1>11. ContextsBorn'
  BY <1>1, <1>6 DEF SchedulerInv, ContextsBorn
<1> QED
  BY <1>9, <1>10, <1>11 DEF SchedulerInv

\* What pushing a closure leaves in the action queue.
LEMMA PushActionType ==
  ASSUME SchedulerInv, NEW x \in Actions,
         x.kind # "deactivate" => owner[x.ts.evt] # "unborn"
  PROVE  /\ Append(actionsQueue, x) \in Seq(Actions)
         /\ \A i \in DOMAIN Append(actionsQueue, x) :
              Append(actionsQueue, x)[i].kind # "deactivate" =>
                owner[Append(actionsQueue, x)[i].ts.evt] # "unborn"
<1>1. actionsQueue \in Seq(Actions)
  BY DEF SchedulerInv, TypeOK
<1>2. Append(actionsQueue, x) \in Seq(Actions)
  BY <1>1
<1>3. \A i \in DOMAIN Append(actionsQueue, x) :
        \/ i \in DOMAIN actionsQueue /\ Append(actionsQueue, x)[i] = actionsQueue[i]
        \/ Append(actionsQueue, x)[i] = x
  BY <1>1
<1> QED
  BY <1>2, <1>3 DEF SchedulerInv, ContextsBorn

\* and so does queueing the sign-off.
LEMMA TaskSignoffInv ==
  ASSUME SchedulerInv, NEW t \in tasks, TaskSignoff(t)
  PROVE  SchedulerInv'
<1>1. UNCHANGED <<slots, finishedEvents, retryQueue, needsUpdate,
                  blockingInFlight, instances, available, execState, eventStatus, owner,
                  slotOf, isActive, closing, freeSlots, sched>>
  BY DEF TaskSignoff, slotVars, poolVars, statusVars, ctxVars, activeVars
<1>2. actionsQueue' = Append(actionsQueue, SignoffAction(t.ts)) /\ tasks' = tasks \ {t}
  BY DEF TaskSignoff
<1>3. t.ts \in TaskSpecs /\ owner[t.ts.evt] # "unborn"
  BY TaskType
<1>4. SignoffAction(t.ts) \in Actions /\ SignoffAction(t.ts).ts = t.ts
  BY <1>3 DEF SignoffAction, Actions
<1>5. /\ actionsQueue' \in Seq(Actions)
      /\ \A i \in DOMAIN actionsQueue' : actionsQueue'[i].kind # "deactivate" =>
           owner[actionsQueue'[i].ts.evt] # "unborn"
  BY <1>2, <1>3, <1>4, PushActionType
<1>6. TypeOK'
  BY <1>1, <1>2, <1>5 DEF SchedulerInv, TypeOK
<1>7. CursorOK'
  BY <1>1 DEF SchedulerInv, CursorOK
<1>8. ContextsBorn'
  BY <1>1, <1>2, <1>5 DEF SchedulerInv, ContextsBorn
<1> QED
  BY <1>6, <1>7, <1>8 DEF SchedulerInv

-----------------------------------------------------------------------------
(* The client.                                                             *)

\* The events that slots, queues and tasks refer to.
LEMMA ReferredEvents ==
  ASSUME SchedulerInv
  PROVE  /\ \A s \in Slots : slots[s].ctx # NoEvent => slots[s].ctx \in Events
         /\ \A t \in tasks : t.ts.evt \in Events
         /\ \A i \in DOMAIN retryQueue : retryQueue[i].evt \in Events
         /\ \A i \in DOMAIN actionsQueue :
              actionsQueue[i].kind # "deactivate" => actionsQueue[i].ts.evt \in Events
         /\ \A i \in DOMAIN finishedEvents : finishedEvents[i] \in Events
<1>1. \A s \in Slots : slots[s].ctx # NoEvent => slots[s].ctx \in Events
  BY DEF SchedulerInv, TypeOK, SlotState
<1>2. \A t \in tasks : t.ts.evt \in Events
  BY TaskType
<1>3. \A i \in DOMAIN retryQueue : retryQueue[i].evt \in Events
  <2>1. \A i \in DOMAIN retryQueue : retryQueue[i] \in TaskSpecs
    BY DEF SchedulerInv, TypeOK
  <2> QED
    BY <2>1 DEF TaskSpecs
<1>4. \A i \in DOMAIN actionsQueue :
        actionsQueue[i].kind # "deactivate" => actionsQueue[i].ts.evt \in Events
  BY DEF SchedulerInv, TypeOK, Actions, DeactivateAction, TaskSpecs
<1>5. \A i \in DOMAIN finishedEvents : finishedEvents[i] \in Events
  BY DEF SchedulerInv, TypeOK
<1> QED
  BY <1>1, <1>2, <1>3, <1>4, <1>5

\* A new event gets a slot before anything refers to it.
LEMMA PushNewEventInv ==
  ASSUME SchedulerInv, NEW e \in Events, NEW s \in Slots, PushNewEvent(e, s)
  PROVE  SchedulerInv'
<1>1. UNCHANGED <<slots, finishedEvents, retryQueue, needsUpdate, tasks,
                  blockingInFlight, instances, available, isActive, closing, sched>>
  BY DEF PushNewEvent, slotVars, taskVars, poolVars, activeVars
<1>2. /\ owner' = [owner EXCEPT ![e] = "scheduler"]
      /\ slotOf' = [slotOf EXCEPT ![e] = s]
      /\ execState' = [execState EXCEPT ![s] = [a \in Algs |-> "none"]]
      /\ eventStatus' = [eventStatus EXCEPT ![s] = "Invalid"]
      /\ freeSlots' = freeSlots - 1
      /\ actionsQueue' = Append(actionsQueue, NewEventAction(e))
  BY DEF PushNewEvent, ResetStatus
<1>3. /\ owner' \in [Events -> {"unborn", "scheduler", "client", "deleted", "lost"}]
      /\ owner'[e] = "scheduler" /\ \A d \in Events \ {e} : owner'[d] = owner[d]
      /\ slotOf' \in [Events -> Slots \cup {NoSlot}]
      /\ slotOf'[e] = s /\ \A d \in Events \ {e} : slotOf'[d] = slotOf[d]
  BY <1>2 DEF SchedulerInv, TypeOK
<1>4. actionsQueue \in Seq(Actions) /\ NewEventAction(e) \in Actions
      /\ NewEventAction(e).ts.evt = e
  BY DEF SchedulerInv, TypeOK, NewEventAction, Actions, TaskSpec
<1>5. /\ actionsQueue' \in Seq(Actions)
      /\ \A i \in DOMAIN actionsQueue' :
           \/ i \in DOMAIN actionsQueue /\ actionsQueue'[i] = actionsQueue[i]
           \/ actionsQueue'[i].ts.evt = e
  <2> DEFINE x == NewEventAction(e)
  <2>1. x \in Actions /\ x.ts.evt = e /\ actionsQueue' = Append(actionsQueue, x)
    BY <1>2, <1>4
  <2> HIDE DEF x
  <2> QED
    BY <1>4, <2>1
<1>6. execState' \in [Slots -> [Algs -> ExecState]]
  BY <1>2 DEF SchedulerInv, TypeOK, ExecState
<1>7. eventStatus' \in [Slots -> Status] /\ freeSlots' \in Int
  BY <1>2 DEF SchedulerInv, TypeOK, Status
<1>8. TypeOK'
  BY <1>1, <1>3, <1>5, <1>6, <1>7 DEF SchedulerInv, TypeOK
<1>9. CursorOK'
  BY <1>1 DEF SchedulerInv, CursorOK
<1>10. ContextsBorn'
  <2>1. \A d \in Events : owner[d] # "unborn" => owner'[d] # "unborn"
    BY <1>3
  <2>2. \A d \in Events : owner'[d] # "unborn" => slotOf'[d] \in Slots
    BY <1>3 DEF SchedulerInv, ContextsBorn
  <2>3. \A i \in DOMAIN actionsQueue' :
          actionsQueue'[i].kind # "deactivate" => owner'[actionsQueue'[i].ts.evt] # "unborn"
    BY <1>3, <1>5, <2>1, ReferredEvents DEF SchedulerInv, ContextsBorn
  <2> QED
    BY <1>1, <2>1, <2>2, <2>3, ReferredEvents DEF SchedulerInv, ContextsBorn
<1> QED
  BY <1>8, <1>9, <1>10 DEF SchedulerInv

\* Resetting the status of a skipped event touches nothing else.
LEMMA ResetOnlyInv ==
  ASSUME SchedulerInv, NEW s \in Slots, ResetOnly(s)
  PROVE  SchedulerInv'
<1>1. UNCHANGED <<slots, finishedEvents, actionsQueue, retryQueue, needsUpdate, tasks,
                  blockingInFlight, instances, available, owner, slotOf, isActive, closing,
                  freeSlots, sched>>
  BY DEF ResetOnly, slotVars, queueVars, taskVars, poolVars, ctxVars, activeVars
<1>2. execState' \in [Slots -> [Algs -> ExecState]] /\ eventStatus' \in [Slots -> Status]
  BY DEF ResetOnly, ResetStatus, SchedulerInv, TypeOK, ExecState, Status
<1>3. TypeOK'
  BY <1>1, <1>2 DEF SchedulerInv, TypeOK
<1>4. CursorOK'
  BY <1>1 DEF SchedulerInv, CursorOK
<1>5. ContextsBorn'
  BY <1>1 DEF SchedulerInv, ContextsBorn
<1> QED
  BY <1>3, <1>4, <1>5 DEF SchedulerInv

\* A change of ownership that brings no new event about.
LEMMA OwnershipInv ==
  ASSUME SchedulerInv, NEW e \in Events, owner[e] # "unborn",
         NEW o \in {"client", "deleted"}, owner' = [owner EXCEPT ![e] = o],
         finishedEvents' \in Seq(Events), freeSlots' \in Int,
         \A i \in DOMAIN finishedEvents' : owner[finishedEvents'[i]] # "unborn",
         UNCHANGED <<slots, actionsQueue, retryQueue, needsUpdate, tasks, blockingInFlight,
                     instances, available, execState, eventStatus, slotOf, isActive, closing,
                     sched>>
  PROVE  SchedulerInv'
<1>1. /\ owner' \in [Events -> {"unborn", "scheduler", "client", "deleted", "lost"}]
      /\ \A d \in Events : owner[d] # "unborn" <=> owner'[d] # "unborn"
  BY DEF SchedulerInv, TypeOK
<1>2. TypeOK'
  BY <1>1 DEF SchedulerInv, TypeOK
<1>3. CursorOK'
  BY DEF SchedulerInv, CursorOK
<1>4. ContextsBorn'
  <2>1. \A i \in DOMAIN finishedEvents' : finishedEvents'[i] \in Events
    OBVIOUS
  <2> QED
    BY <1>1, <2>1, ReferredEvents DEF SchedulerInv, ContextsBorn
<1> QED
  BY <1>2, <1>3, <1>4 DEF SchedulerInv

\* An event handed back has been pushed before.
LEMMA TryPopInv == ASSUME SchedulerInv, TryPopFinishedEvent PROVE SchedulerInv'
<1> DEFINE e == Head(finishedEvents)
           q == Tail(finishedEvents)
<1>1. /\ finishedEvents # <<>> /\ finishedEvents' = q
      /\ owner' = [owner EXCEPT ![e] = "client"] /\ freeSlots' = freeSlots + 1
      /\ UNCHANGED <<slots, actionsQueue, retryQueue, needsUpdate, tasks, blockingInFlight,
                     instances, available, execState, eventStatus, slotOf, isActive, closing,
                     sched>>
  BY DEF TryPopFinishedEvent, queueVars, taskVars, poolVars, statusVars, activeVars
<1>2. finishedEvents \in Seq(Events)
  BY DEF SchedulerInv, TypeOK
<1>3. /\ e \in Events /\ e = finishedEvents[1] /\ 1 \in DOMAIN finishedEvents
      /\ q \in Seq(Events)
      /\ \A i \in DOMAIN q : i + 1 \in DOMAIN finishedEvents /\ q[i] = finishedEvents[i + 1]
  BY <1>1, <1>2
<1> HIDE DEF e, q
<1>4. owner[e] # "unborn" /\ \A i \in DOMAIN q : owner[q[i]] # "unborn"
  BY <1>3 DEF SchedulerInv, ContextsBorn
<1>5. freeSlots' \in Int
  BY <1>1 DEF SchedulerInv, TypeOK
<1> QED
  BY <1>1, <1>3, <1>4, <1>5, OwnershipInv

\* The client deletes only a context it was given.
LEMMA DeleteContextInv ==
  ASSUME SchedulerInv, NEW e \in Events, DeleteContext(e)
  PROVE  SchedulerInv'
<1>1. /\ owner[e] = "client" /\ owner' = [owner EXCEPT ![e] = "deleted"]
      /\ UNCHANGED <<slots, finishedEvents, freeSlots, actionsQueue, retryQueue, needsUpdate,
                     tasks, blockingInFlight, instances, available, execState, eventStatus,
                     slotOf, isActive, closing, sched>>
  BY DEF DeleteContext, slotVars, queueVars, taskVars, poolVars, statusVars, activeVars
<1>2. finishedEvents' \in Seq(Events) /\ freeSlots' \in Int
  BY <1>1 DEF SchedulerInv, TypeOK
<1>3. \A i \in DOMAIN finishedEvents' : owner[finishedEvents'[i]] # "unborn"
  BY <1>1 DEF SchedulerInv, ContextsBorn
<1> QED
  BY <1>1, <1>2, <1>3, OwnershipInv

\* The first step of deactivate() closes the slots.
LEMMA DeactivateInv == ASSUME SchedulerInv, Deactivate PROVE SchedulerInv'
<1>1. /\ closing' = "draining" /\ freeSlots' = 0
      /\ UNCHANGED <<slots, finishedEvents, actionsQueue, retryQueue, needsUpdate,
                     tasks, blockingInFlight, instances, available, execState, eventStatus,
                     owner, slotOf, isActive, sched>>
  BY DEF Deactivate, slotVars, queueVars, taskVars, poolVars, statusVars, ctxVars
<1>2. TypeOK'
  BY <1>1 DEF SchedulerInv, TypeOK
<1>3. CursorOK'
  BY <1>1 DEF SchedulerInv, CursorOK
<1>4. ContextsBorn'
  BY <1>1 DEF SchedulerInv, ContextsBorn
<1> QED
  BY <1>2, <1>3, <1>4 DEF SchedulerInv

\* Both steps of deactivate() on the action queue.
LEMMA DeactivationInv == ASSUME SchedulerInv, Deactivation PROVE SchedulerInv'
<1>1. UNCHANGED <<slots, finishedEvents, freeSlots, retryQueue, needsUpdate, tasks,
                  blockingInFlight, instances, available, execState, eventStatus,
                  owner, slotOf, isActive, sched>>
  BY DEF Deactivation, DrainQueue, PushDeactivate, slotVars, taskVars, poolVars, statusVars,
         ctxVars
<1>2. closing' \in {"no", "draining", "drained", "closed"}
  BY DEF Deactivation, DrainQueue, PushDeactivate, SchedulerInv, TypeOK
<1>3. /\ actionsQueue' \in Seq(Actions)
      /\ \A i \in DOMAIN actionsQueue' : actionsQueue'[i].kind # "deactivate" =>
           owner[actionsQueue'[i].ts.evt] # "unborn"
  <2>1. CASE actionsQueue' = actionsQueue
    BY <2>1 DEF SchedulerInv, TypeOK, ContextsBorn
  <2>2. CASE actionsQueue # <<>> /\ actionsQueue' = Tail(actionsQueue)
    BY <2>2, PopActionType
  <2>3. CASE actionsQueue' = Append(actionsQueue, DeactivateAction)
    <3>1. DeactivateAction \in Actions /\ DeactivateAction.kind = "deactivate"
      BY DEF Actions, DeactivateAction
    <3> HIDE DEF DeactivateAction
    <3> QED
      BY <2>3, <3>1, PushActionType
  <2> QED
    BY <2>1, <2>2, <2>3 DEF Deactivation, DrainQueue, PushDeactivate
<1>4. TypeOK'
  BY <1>1, <1>2, <1>3 DEF SchedulerInv, TypeOK
<1>5. CursorOK'
  BY <1>1 DEF SchedulerInv, CursorOK
<1>6. ContextsBorn'
  BY <1>1, <1>3 DEF SchedulerInv, ContextsBorn
<1> QED
  BY <1>4, <1>5, <1>6 DEF SchedulerInv

\* A step that changes nothing keeps the invariant.
LEMMA StutterInv == ASSUME SchedulerInv, UNCHANGED schedulerVars PROVE SchedulerInv'
<1>1. UNCHANGED <<slots, finishedEvents, freeSlots, actionsQueue, retryQueue, needsUpdate,
                  tasks, blockingInFlight, instances, available, execState, eventStatus,
                  owner, slotOf, isActive, closing, sched>>
  BY DEF schedulerVars, slotVars, queueVars, taskVars, poolVars, statusVars, ctxVars, activeVars
<1> QED
  BY <1>1 DEF SchedulerInv, TypeOK, CursorOK, ContextsBorn

-----------------------------------------------------------------------------
(* The theorem.                                                            *)

\* One step of the scheduler thread, of a task or of the client keeps
\* SchedulerInv.
LEMMA StepSchedulerInv ==
  SchedulerInv /\ [SchedulerNext]_schedulerVars => SchedulerInv'
<1> SUFFICES ASSUME SchedulerInv, [SchedulerNext]_schedulerVars PROVE SchedulerInv'
  OBVIOUS
<1>1. CASE SchedulerThread
  BY <1>1, RunNewEventInv, RunSignoffInv, RunDeactivateInv, CheckUpdateInv,
     RetryScheduleInv, SlotScheduleInv, SlotUpdateInv, ExitInv DEF SchedulerThread
<1>2. CASE Task
  BY <1>2, TaskExecuteInv, TaskReleaseInv, TaskSignoffInv DEF Task
<1>3. CASE Client
  BY <1>3, PushNewEventInv, ResetOnlyInv, TryPopInv, DeleteContextInv, DeactivateInv
  DEF Client, PopFinishedEvent
<1>4. CASE Deactivation
  BY <1>4, DeactivationInv
<1>5. CASE Terminated
  BY <1>5, StutterInv DEF Terminated
<1>6. CASE UNCHANGED schedulerVars
  BY <1>6, StutterInv
<1> QED
  BY <1>1, <1>2, <1>3, <1>4, <1>5, <1>6 DEF SchedulerNext

\* For every job configuration, AvalancheSchedulerSvc and AlgTask never work
\* on an empty queue, on a slot without a context or on an event without a
\* slot, and every piece of their state keeps its type.
THEOREM SchedulerInvariant == SchedulerSpec => []SchedulerInv
BY InitSchedulerInv, StepSchedulerInv, PTL DEF SchedulerSpec

-----------------------------------------------------------------------------
(* Membership in a queue.                                                  *)

\* x is in the queue q, and not in two places of it.
Occurs(q, x)     == \E i \in DOMAIN q : q[i] = x
OccursOnce(q, x) == \A i, j \in DOMAIN q : q[i] = x /\ q[j] = x => i = j

\* What pushing x changes.
LEMMA AppendOccurs ==
  ASSUME NEW S, NEW q \in Seq(S), NEW x \in S
  PROVE  /\ \A y : Occurs(Append(q, x), y) <=> Occurs(q, y) \/ y = x
         /\ \A y : OccursOnce(q, y) /\ (y = x => ~Occurs(q, x)) => OccursOnce(Append(q, x), y)
<1> DEFINE p == Append(q, x)
<1>1. /\ Len(q) + 1 \in DOMAIN p /\ p[Len(q) + 1] = x
      /\ \A i \in DOMAIN q : i \in DOMAIN p /\ p[i] = q[i]
      /\ \A i \in DOMAIN p : i \in DOMAIN q \/ i = Len(q) + 1
  OBVIOUS
<1> HIDE DEF p
<1>2. \A y : Occurs(p, y) <=> Occurs(q, y) \/ y = x
  BY <1>1 DEF Occurs
<1>3. \A y : OccursOnce(q, y) /\ (y = x => ~Occurs(q, x)) => OccursOnce(p, y)
  BY <1>1 DEF Occurs, OccursOnce
<1> QED
  BY <1>2, <1>3 DEF p

\* What popping the head changes.
LEMMA TailOccurs ==
  ASSUME NEW S, NEW q \in Seq(S), q # <<>>
  PROVE  /\ Occurs(q, Head(q))
         /\ \A y : Occurs(q, y) <=> Occurs(Tail(q), y) \/ y = Head(q)
         /\ \A y : OccursOnce(q, y) => OccursOnce(Tail(q), y)
         /\ OccursOnce(q, Head(q)) => ~Occurs(Tail(q), Head(q))
<1> DEFINE p == Tail(q)
           h == Head(q)
<1>1. /\ 1 \in DOMAIN q /\ q[1] = h
      /\ \A i \in DOMAIN p : i + 1 \in DOMAIN q /\ q[i + 1] = p[i] /\ i + 1 # 1
      /\ \A i \in DOMAIN q : i = 1 \/ (i - 1 \in DOMAIN p /\ p[i - 1] = q[i])
      /\ \A i, j \in DOMAIN p : i + 1 = j + 1 => i = j
  OBVIOUS
<1> HIDE DEF p, h
<1>2. Occurs(q, h) /\ \A y : Occurs(q, y) <=> Occurs(p, y) \/ y = h
  BY <1>1 DEF Occurs
<1>3. \A y : OccursOnce(q, y) => OccursOnce(p, y)
  BY <1>1 DEF OccursOnce
<1>4. OccursOnce(q, h) => ~Occurs(p, h)
  BY <1>1 DEF Occurs, OccursOnce
<1> QED
  BY <1>2, <1>3, <1>4 DEF p, h

\* The closures of the action queue are told apart by what they are for.
LEMMA ActionsDiffer ==
  /\ \A ts, e : SignoffAction(ts) # NewEventAction(e)
  /\ \A ts : SignoffAction(ts) # DeactivateAction
  /\ \A e : NewEventAction(e) # DeactivateAction
  /\ \A ts, us : SignoffAction(ts) = SignoffAction(us) => ts = us
  /\ \A d, e : NewEventAction(d) = NewEventAction(e) => d = e
BY DEF SignoffAction, NewEventAction, DeactivateAction, TaskSpec

\* Every entry of the action queue is one of the three closures.
LEMMA ActionShape ==
  ASSUME NEW x \in Actions
  PROVE  /\ x.kind = "newEvent" => x.ts.evt \in Events /\ x = NewEventAction(x.ts.evt)
         /\ x.kind = "signoff" => x.ts \in TaskSpecs /\ x = SignoffAction(x.ts)
         /\ x.kind = "deactivate" => x = DeactivateAction
BY DEF Actions, NewEventAction, SignoffAction, DeactivateAction, TaskSpec

-----------------------------------------------------------------------------
(* What the operators do to a slot.                                        *)

\* revise() changes the state of one algorithm in one slot, nothing else.
LEMMA RevisedEffect ==
  ASSUME slots \in [Slots -> SlotState], NEW ts \in TaskSpecs, NEW st \in AState,
         slotOf[ts.evt] \in Slots
  PROVE  \A s \in Slots :
           /\ Revised(ts, st)[s].ctx = slots[s].ctx
           /\ Revised(ts, st)[s].complete = slots[s].complete
           /\ \A a \in Algs : Revised(ts, st)[s].algs[a] =
                IF s = slotOf[ts.evt] /\ a = ts.alg THEN SetState(slots[s].algs[a], st)
                ELSE slots[s].algs[a]
<1> DEFINE s0 == slotOf[ts.evt]
           x  == SetState(slots[s0].algs[ts.alg], st)
           y  == [slots[s0] EXCEPT !.algs[ts.alg] = x]
<1>1. Revised(ts, st) = [slots EXCEPT ![s0] = y]
  BY DEF Revised
<1>2. slots[s0] \in SlotState /\ ts.alg \in Algs
  BY DEF TaskSpecs
<1> HIDE DEF x
<1>3. /\ y.ctx = slots[s0].ctx /\ y.complete = slots[s0].complete
      /\ \A a \in Algs : y.algs[a] = IF a = ts.alg THEN x ELSE slots[s0].algs[a]
  BY <1>2 DEF SlotState
<1> HIDE DEF y
<1> QED
  BY <1>1, <1>3 DEF x

\* The promotions move algorithms of a slot, and leave its event in place.
LEMMA PromotedEffect ==
  ASSUME NEW slot \in SlotState, NEW r
  PROVE  /\ Promoted(slot, r).ctx = slot.ctx /\ Promoted(slot, r).complete = slot.complete
         /\ \A a \in Algs : Promoted(slot, r).algs[a] = Promote(slot.algs[a], a, r)
BY DEF SlotState, Promoted

\* schedule() leaves the events of the slots in place.
LEMMA ScheduleKeepsContexts ==
  ASSUME SchedulerInv, NEW ts \in TaskSpecs, owner[ts.evt] # "unborn", NEW pending,
         Schedule(ts, pending)
  PROVE  \A s \in Slots : slots'[s].ctx = slots[s].ctx /\ slots'[s].complete = slots[s].complete
<1>1. slots \in [Slots -> SlotState] /\ slotOf[ts.evt] \in Slots
  BY DEF SchedulerInv, TypeOK, ContextsBorn, TaskSpecs
<1>2. "RESOURCELESS" \in AState /\ "SCHEDULED" \in AState
  BY DEF AState
<1>3. slots' = slots \/ slots' = Revised(ts, "RESOURCELESS") \/ slots' = Revised(ts, "SCHEDULED")
  BY DEF Schedule
<1> QED
  BY <1>1, <1>2, <1>3, RevisedEffect

\* What a turn of the retry loop and one of the loop over a slot schedule.
LEMMA ScheduledSpecs ==
  ASSUME SchedulerInv
  PROVE  /\ RetrySchedule =>
              /\ retryQueue # <<>> /\ Head(retryQueue) \in TaskSpecs
              /\ owner[Head(retryQueue).evt] # "unborn"
         /\ SlotSchedule =>
              /\ Min(sched.todo) \in sched.todo /\ Min(sched.todo) \in Algs
              /\ sched.slot \in Slots /\ slots[sched.slot].ctx \in Events
              /\ TaskSpec(Min(sched.todo), slots[sched.slot].ctx) \in TaskSpecs
              /\ owner[slots[sched.slot].ctx] # "unborn"
<1>1. ASSUME RetrySchedule
      PROVE  /\ retryQueue # <<>> /\ Head(retryQueue) \in TaskSpecs
             /\ owner[Head(retryQueue).evt] # "unborn"
  <2>1. retryQueue # <<>> /\ retryQueue \in Seq(TaskSpecs)
    BY <1>1 DEF RetrySchedule, SchedulerInv, CursorOK, TypeOK
  <2>2. Head(retryQueue) = retryQueue[1] /\ 1 \in DOMAIN retryQueue
        /\ Head(retryQueue) \in TaskSpecs
    BY <2>1
  <2> QED
    BY <2>1, <2>2 DEF SchedulerInv, ContextsBorn
<1>2. ASSUME SlotSchedule
      PROVE  /\ Min(sched.todo) \in sched.todo /\ Min(sched.todo) \in Algs
             /\ sched.slot \in Slots /\ slots[sched.slot].ctx \in Events
             /\ TaskSpec(Min(sched.todo), slots[sched.slot].ctx) \in TaskSpecs
             /\ owner[slots[sched.slot].ctx] # "unborn"
  <2>1. sched.todo \subseteq Algs /\ sched.todo # {} /\ Algs \subseteq Nat
    BY <1>2, SizesAssumption DEF SlotSchedule, SchedulerInv, TypeOK, Algs
  <2>2. Min(sched.todo) \in sched.todo
    BY <2>1, MinInSet
  <2>3. /\ sched.slot \in Slots /\ slots[sched.slot].ctx \in Events
        /\ owner[slots[sched.slot].ctx] # "unborn"
    BY <1>2 DEF SlotSchedule, SchedulerInv, TypeOK, CursorOK, ContextsBorn, SlotState
  <2> QED
    BY <2>1, <2>2, <2>3 DEF TaskSpec, TaskSpecs
<1> QED
  BY <1>1, <1>2

-----------------------------------------------------------------------------
(* Every event in one place.                                               *)

\* The places of an event that the scheduler was given: its closure waits in
\* m_actionsQueue, it has a slot, or it is in m_finishedEvents.
Queued(e)   == Occurs(actionsQueue, NewEventAction(e))
Resident(e) == \E s \in Slots : slots[s].ctx = e
Finished(e) == Occurs(finishedEvents, e)

\* A slot is complete when it has no event, its event is the scheduler's and
\* was given that slot, and no two live events were given the same slot.
SlotsOwned ==
  /\ \A s \in Slots : slots[s].complete <=> slots[s].ctx = NoEvent
  /\ \A s \in Slots : slots[s].ctx # NoEvent =>
       owner[slots[s].ctx] = "scheduler" /\ slotOf[slots[s].ctx] = s
  /\ \A d, e \in Live : slotOf[d] = slotOf[e] => d = e

\* An event is in at most one place, once, and then it is the scheduler's;
\* until deactivate() the scheduler's events are in a place.
OnePlace ==
  \A e \in Events :
    /\ Queued(e) => /\ owner[e] = "scheduler" /\ ~Resident(e) /\ ~Finished(e)
                    /\ OccursOnce(actionsQueue, NewEventAction(e))
    /\ Finished(e) => /\ owner[e] = "scheduler" /\ ~Resident(e)
                      /\ OccursOnce(finishedEvents, e)
    /\ closing = "no" /\ owner[e] = "scheduler" => Queued(e) \/ Resident(e) \/ Finished(e)

\* pushNewEvent, its closure, iterate() and popFinishedEvent pass an event on
\* without losing or doubling it, and m_freeSlots is never negative.
EventsPlaced == SlotsOwned /\ OnePlace /\ freeSlots >= 0

\* Initially there is no event.
LEMMA InitPlaced == SchedulerInit => EventsPlaced
<1> SUFFICES ASSUME SchedulerInit PROVE EventsPlaced
  OBVIOUS
<1>1. SlotsOwned
  BY DEF SchedulerInit, SlotsOwned, EmptySlot, Live
<1>2. OnePlace
  BY DEF SchedulerInit, OnePlace, Queued, Finished, Occurs
<1>3. freeSlots >= 0
  BY EventContextsAssumption DEF SchedulerInit
<1> QED
  BY <1>1, <1>2, <1>3 DEF EventsPlaced

\* The steps that leave every event where it is.
LEMMA PlacedFrame ==
  ASSUME EventsPlaced,
         \A s \in Slots : slots'[s].ctx = slots[s].ctx /\ slots'[s].complete = slots[s].complete,
         UNCHANGED <<owner, slotOf, finishedEvents, freeSlots, closing>>,
         \A e \in Events : Queued(e)' <=> Queued(e),
         \A e \in Events : OccursOnce(actionsQueue, NewEventAction(e)) =>
                             OccursOnce(actionsQueue', NewEventAction(e))
  PROVE  EventsPlaced'
<1>1. SlotsOwned'
  BY DEF EventsPlaced, SlotsOwned, Live
<1>2. \A e \in Events : (Resident(e)' <=> Resident(e)) /\ (Finished(e)' <=> Finished(e))
  BY DEF Resident, Finished
<1>3. OnePlace'
  BY <1>2 DEF EventsPlaced, OnePlace
<1> QED
  BY <1>1, <1>3 DEF EventsPlaced

\* The closure of pushNewEvent finds its slot free: it is never refused.
LEMMA NewEventAccepted ==
  ASSUME SchedulerInv, EventsPlaced, RunNewEvent, NEW e, e = Head(actionsQueue).ts.evt
  PROVE  /\ e \in Events /\ owner[e] = "scheduler" /\ slotOf[e] \in Slots
         /\ Head(actionsQueue) = NewEventAction(e) /\ ~Resident(e) /\ ~Finished(e)
         /\ slots[slotOf[e]].ctx = NoEvent /\ slots[slotOf[e]].complete
         /\ \A d \in Events : Queued(d)' <=> Queued(d) /\ d # e
         /\ \A d \in Events : OccursOnce(actionsQueue, NewEventAction(d)) =>
                              OccursOnce(actionsQueue', NewEventAction(d))
<1>1. /\ actionsQueue \in Seq(Actions) /\ actionsQueue # <<>>
      /\ Head(actionsQueue).kind = "newEvent" /\ actionsQueue' = Tail(actionsQueue)
  BY DEF RunNewEvent, PopAction, SchedulerInv, TypeOK
<1>2. e \in Events /\ slotOf[e] \in Slots
  BY <1>1, PopActionType
<1>3. Head(actionsQueue) \in Actions
  BY <1>1
<1>4. Head(actionsQueue) = NewEventAction(e)
  BY <1>1, <1>3, ActionShape
<1>5. Queued(e)
  BY <1>1, <1>4, TailOccurs DEF Queued
<1>6. /\ owner[e] = "scheduler" /\ ~Resident(e) /\ ~Finished(e)
      /\ OccursOnce(actionsQueue, NewEventAction(e))
  BY <1>2, <1>5 DEF EventsPlaced, OnePlace
<1>7. slots[slotOf[e]].ctx = NoEvent
  <2> SUFFICES ASSUME slots[slotOf[e]].ctx # NoEvent PROVE FALSE
    OBVIOUS
  <2> DEFINE d == slots[slotOf[e]].ctx
  <2>1. owner[d] = "scheduler" /\ slotOf[d] = slotOf[e]
    BY <1>2 DEF EventsPlaced, SlotsOwned
  <2>2. d \in Events
    BY <1>2 DEF SchedulerInv, TypeOK, SlotState
  <2>3. d = e
    BY <1>2, <1>6, <2>1, <2>2 DEF EventsPlaced, SlotsOwned, Live
  <2> QED
    BY <1>2, <1>6, <2>3 DEF Resident
<1>8. slots[slotOf[e]].complete
  BY <1>2, <1>7 DEF EventsPlaced, SlotsOwned
<1>9. \A d \in Events : Queued(d)' <=> Queued(d) /\ d # e
  <2>1. \A d \in Events : Queued(d) <=> Queued(d)' \/ d = e
    BY <1>1, <1>4, TailOccurs, ActionsDiffer DEF Queued
  <2>2. ~Queued(e)'
    BY <1>1, <1>4, <1>6, TailOccurs DEF Queued
  <2> QED
    BY <2>1, <2>2
<1>10. \A d \in Events : OccursOnce(actionsQueue, NewEventAction(d)) =>
                         OccursOnce(actionsQueue', NewEventAction(d))
  BY <1>1, TailOccurs
<1> QED
  BY <1>2, <1>4, <1>6, <1>7, <1>8, <1>9, <1>10

\* So it moves its event from the action queue to the slot.
LEMMA RunNewEventSlots ==
  ASSUME SchedulerInv, EventsPlaced, RunNewEvent, NEW e, e = Head(actionsQueue).ts.evt
  PROVE  /\ \E r : slots' = [slots EXCEPT ![slotOf[e]] = Promoted(ResetSlot(e), r)]
         /\ slots'[slotOf[e]].ctx = e /\ ~slots'[slotOf[e]].complete
         /\ \A a \in Algs : slots'[slotOf[e]].algs[a] \in {"INITIAL", "CONTROLREADY", "DATAREADY"}
         /\ \A s \in Slots : s # slotOf[e] => slots'[s] = slots[s]
         /\ sched' = StartIterate(slots', retryQueue) /\ ClearNeedsUpdate
         /\ UNCHANGED <<retryQueue, tasks, blockingInFlight, instances, available, execState,
                        eventStatus, owner, slotOf, finishedEvents, isActive, closing, freeSlots>>
<1>1. e \in Events /\ slotOf[e] \in Slots /\ slots[slotOf[e]].complete
  BY NewEventAccepted
<1>2. PICK r \in Iterate(EmptyAlgs, EmptyCF, Root) :
        slots' = [slots EXCEPT ![slotOf[e]] = Promoted(ResetSlot(e), r)]
  BY <1>1 DEF RunNewEvent
<1>3. /\ sched' = StartIterate(slots', retryQueue) /\ ClearNeedsUpdate
      /\ UNCHANGED <<retryQueue, tasks, blockingInFlight, instances, available, execState,
                     eventStatus, owner, slotOf, finishedEvents, isActive, closing, freeSlots>>
  BY <1>1 DEF RunNewEvent, taskVars, poolVars, statusVars, ctxVars, activeVars
<1>4. ResetSlot(e) \in SlotState /\ ResetSlot(e).ctx = e /\ ResetSlot(e).complete = FALSE
      /\ \A a \in Algs : ResetSlot(e).algs[a] = "INITIAL"
  BY <1>1, ResetSlotType DEF ResetSlot, EmptyAlgs
<1> DEFINE z == Promoted(ResetSlot(e), r)
<1>5. z.ctx = e /\ z.complete = FALSE
  BY <1>4, PromotedEffect
<1>6. \A a \in Algs : z.algs[a] \in {"INITIAL", "CONTROLREADY", "DATAREADY"}
  BY <1>4, PromotedEffect DEF Promote
<1> HIDE DEF z
<1>7. slots' = [slots EXCEPT ![slotOf[e]] = z] /\ slots \in [Slots -> SlotState]
  BY <1>2 DEF z, SchedulerInv, TypeOK
<1>8. slots'[slotOf[e]] = z /\ \A s \in Slots : s # slotOf[e] => slots'[s] = slots[s]
  BY <1>1, <1>7
<1> QED
  BY <1>2, <1>3, <1>5, <1>6, <1>8

\* The closure of pushNewEvent keeps EventsPlaced,
LEMMA RunNewEventPlaced ==
  ASSUME SchedulerInv, EventsPlaced, RunNewEvent
  PROVE  EventsPlaced'
<1> DEFINE e == Head(actionsQueue).ts.evt
           s == slotOf[e]
<1>1. /\ e \in Events /\ owner[e] = "scheduler" /\ s \in Slots
      /\ ~Resident(e) /\ ~Finished(e) /\ slots[s].ctx = NoEvent
      /\ \A d \in Events : Queued(d)' <=> Queued(d) /\ d # e
      /\ \A d \in Events : OccursOnce(actionsQueue, NewEventAction(d)) =>
                           OccursOnce(actionsQueue', NewEventAction(d))
  BY NewEventAccepted
<1>2. /\ slots'[s].ctx = e /\ ~slots'[s].complete
      /\ \A t \in Slots : t # s => slots'[t] = slots[t]
      /\ UNCHANGED <<owner, slotOf, finishedEvents, closing, freeSlots>>
  BY RunNewEventSlots
<1> HIDE DEF e, s
<1>3. e # NoEvent /\ slotOf[e] = s
  BY <1>1 DEF e, s, Events, NoEvent
<1>4. SlotsOwned'
  BY <1>1, <1>2, <1>3 DEF EventsPlaced, SlotsOwned, Live
<1>5. \A d \in Events : /\ Resident(d)' <=> Resident(d) \/ d = e
                        /\ Finished(d)' <=> Finished(d)
  BY <1>1, <1>2 DEF Resident, Finished, Events, NoEvent
<1>6. OnePlace'
  BY <1>1, <1>2, <1>5 DEF EventsPlaced, OnePlace
<1> QED
  BY <1>2, <1>4, <1>6 DEF EventsPlaced

\* The end of the turn for a slot: its event leaves when the event is done or
\* stalled, to m_finishedEvents or, lost, with its pointer.
SlotFreed(s, e) ==
  /\ EventDone(slots[s]) \/ IsStalled(slots[s])
  /\ slots'[s] = [slots[s] EXCEPT !.ctx = NoEvent, !.complete = TRUE]
  /\ \A t \in Slots : t # s => slots'[t] = slots[t]
  /\ \/ finishedEvents' = Append(finishedEvents, e) /\ owner' = owner
     \/ owner' = [owner EXCEPT ![e] = "lost"] /\ finishedEvents' = finishedEvents

SlotKept(s) ==
  /\ ~EventDone(slots[s]) /\ ~IsStalled(slots[s])
  /\ UNCHANGED <<slots, finishedEvents, owner>>

\* That is what the code of iterate() after the scheduling loop does.
LEMMA SlotUpdateEffect ==
  ASSUME SchedulerInv, SlotUpdate, NEW s, s = sched.slot, NEW e, e = slots[s].ctx
  PROVE  /\ s \in Slots /\ e \in Events /\ sched.at = "slot" /\ sched.todo = {}
         /\ SlotFreed(s, e) \/ SlotKept(s)
         /\ sched' = FromSlot(s + 1, slots') /\ ClearNeedsUpdate
         /\ UNCHANGED <<slotOf, actionsQueue, retryQueue, tasks, blockingInFlight, instances,
                        available, execState, isActive, closing, freeSlots>>
<1>1. s \in Slots /\ e \in Events
  BY DEF SlotUpdate, SchedulerInv, TypeOK, CursorOK, SlotState
<1> DEFINE z == [slots[s] EXCEPT !.ctx = NoEvent, !.complete = TRUE]
           Free == [slots EXCEPT ![s] = z]
<1>2. \/ /\ EventDone(slots[s]) \/ IsStalled(slots[s])
         /\ slots' = Free
         /\ \/ finishedEvents' = Append(finishedEvents, e) /\ owner' = owner
            \/ owner' = [owner EXCEPT ![e] = "lost"] /\ finishedEvents' = finishedEvents
      \/ SlotKept(s)
  BY <1>1 DEF SlotUpdate, SchedulerInv, TypeOK, SlotKept
<1>3. Free[s] = z /\ \A t \in Slots : t # s => Free[t] = slots[t]
  <2> HIDE DEF z
  <2> QED
    BY <1>1 DEF SchedulerInv, TypeOK
<1>4. SlotFreed(s, e) \/ SlotKept(s)
  <2> HIDE DEF Free
  <2> QED
    BY <1>2, <1>3 DEF SlotFreed
<1>5. /\ sched' = FromSlot(s + 1, slots') /\ ClearNeedsUpdate
      /\ sched.at = "slot" /\ sched.todo = {}
      /\ UNCHANGED <<slotOf, actionsQueue, retryQueue, tasks, blockingInFlight, instances,
                     available, execState, isActive, closing, freeSlots>>
  BY DEF SlotUpdate, taskVars, poolVars, activeVars
<1> QED
  BY <1>1, <1>4, <1>5

\* so does the end of the turn for a slot,
LEMMA SlotUpdatePlaced ==
  ASSUME SchedulerInv, EventsPlaced, SlotUpdate
  PROVE  EventsPlaced'
<1> DEFINE s == sched.slot
           e == slots[s].ctx
<1>1. /\ s \in Slots /\ e \in Events
      /\ SlotFreed(s, e) \/ SlotKept(s)
      /\ UNCHANGED <<slotOf, actionsQueue, closing, freeSlots>>
  BY SlotUpdateEffect
<1>2. CASE SlotKept(s)
  BY <1>1, <1>2, PlacedFrame DEF SlotKept, Queued
<1>3. CASE SlotFreed(s, e)
  <2> DEFINE z == slots'[s]
  <2>1. e # NoEvent /\ z.ctx = NoEvent /\ z.complete = TRUE
    BY <1>1, <1>3 DEF SlotFreed, SchedulerInv, TypeOK, SlotState, Events, NoEvent
  <2>2. owner[e] = "scheduler" /\ slotOf[e] = s /\ Resident(e)
    BY <1>1, <2>1 DEF EventsPlaced, SlotsOwned, Resident
  <2>3. finishedEvents \in Seq(Events) /\ owner \in [Events -> {"unborn", "scheduler", "client", "deleted", "lost"}]
    BY DEF SchedulerInv, TypeOK
  <2>4. ~Queued(e) /\ ~Finished(e)
    BY <1>1, <2>2 DEF EventsPlaced, OnePlace
  <2>5. \A t \in Slots : t # s => slots'[t] = slots[t] /\ slots[t].ctx # e
    BY <1>1, <1>3, <2>2, <2>1 DEF SlotFreed, EventsPlaced, SlotsOwned
  <2> HIDE DEF e, s, z
  <2>6. \A d \in Events : Resident(d)' <=> Resident(d) /\ d # e
    BY <1>1, <2>1, <2>5 DEF Resident, Events, NoEvent, e, z
  <2>7. \A d \in Events : Queued(d)' <=> Queued(d)
    BY <1>1 DEF Queued
  <2>8. CASE finishedEvents' = Append(finishedEvents, e) /\ owner' = owner
    <3>1. /\ \A d \in Events : Finished(d)' <=> Finished(d) \/ d = e
          /\ \A d \in Events : OccursOnce(finishedEvents, d) /\ (d = e => ~Finished(e)) =>
                               OccursOnce(finishedEvents', d)
      BY <1>1, <2>3, <2>8, AppendOccurs DEF Finished
    <3>2. OccursOnce(finishedEvents, e)
      BY <2>4 DEF Finished, Occurs, OccursOnce
    <3>3. SlotsOwned'
      BY <1>1, <2>1, <2>5, <2>8 DEF EventsPlaced, SlotsOwned, Live, z
    <3>4. OnePlace'
      BY <1>1, <2>2, <2>4, <2>6, <2>7, <2>8, <3>1, <3>2 DEF EventsPlaced, OnePlace
    <3> QED
      BY <1>1, <3>3, <3>4 DEF EventsPlaced
  <2>9. CASE owner' = [owner EXCEPT ![e] = "lost"] /\ finishedEvents' = finishedEvents
    <3>1. owner'[e] = "lost" /\ \A d \in Events : d # e => owner'[d] = owner[d]
      BY <1>1, <2>3, <2>9
    <3>2. \A t \in Slots : slots[t].ctx # NoEvent => slots[t].ctx \in Events
      BY ReferredEvents
    <3>3. SlotsOwned'
      BY <1>1, <2>1, <2>5, <3>1, <3>2 DEF EventsPlaced, SlotsOwned, Live, z
    <3>4. OnePlace'
      BY <1>1, <2>4, <2>6, <2>7, <2>9, <3>1 DEF EventsPlaced, OnePlace, Finished
    <3> QED
      BY <1>1, <3>3, <3>4 DEF EventsPlaced
  <2> QED
    BY <1>3, <2>8, <2>9 DEF SlotFreed
<1> QED
  BY <1>1, <1>2, <1>3

\* a new event on a slot no live event uses,
LEMMA PushNewEventPlaced ==
  ASSUME SchedulerInv, EventsPlaced, NEW e \in Events, NEW s \in Slots \ InUse,
         PushNewEvent(e, s)
  PROVE  EventsPlaced'
<1>1. /\ owner[e] = "unborn" /\ freeSlots # 0
      /\ owner' = [owner EXCEPT ![e] = "scheduler"]
      /\ slotOf' = [slotOf EXCEPT ![e] = s]
      /\ freeSlots' = freeSlots - 1
      /\ actionsQueue' = Append(actionsQueue, NewEventAction(e))
      /\ UNCHANGED <<slots, finishedEvents, closing>>
  BY DEF PushNewEvent, slotVars, activeVars
<1>2. /\ actionsQueue \in Seq(Actions) /\ NewEventAction(e) \in Actions
      /\ freeSlots \in Int
      /\ owner'[e] = "scheduler" /\ slotOf'[e] = s
      /\ \A d \in Events : d # e => owner'[d] = owner[d] /\ slotOf'[d] = slotOf[d]
  BY <1>1 DEF SchedulerInv, TypeOK, NewEventAction, Actions, TaskSpec
<1>3. ~Queued(e) /\ ~Finished(e) /\ ~Resident(e)
  <2>1. ~Queued(e) /\ ~Finished(e)
    BY <1>1 DEF EventsPlaced, OnePlace
  <2>2. ~Resident(e)
    BY <1>1 DEF EventsPlaced, SlotsOwned, Resident, Events, NoEvent
  <2> QED
    BY <2>1, <2>2
<1>4. /\ \A d \in Events : Queued(d)' <=> Queued(d) \/ d = e
      /\ \A d \in Events :
           OccursOnce(actionsQueue, NewEventAction(d)) /\ (d = e => ~Queued(e)) =>
             OccursOnce(actionsQueue', NewEventAction(d))
  BY <1>1, <1>2, AppendOccurs, ActionsDiffer DEF Queued
<1>5. OccursOnce(actionsQueue, NewEventAction(e))
  BY <1>3 DEF Queued, Occurs, OccursOnce
<1>6. \A d \in Events : (Resident(d)' <=> Resident(d)) /\ (Finished(d)' <=> Finished(d))
  BY <1>1 DEF Resident, Finished
<1>7. \A d \in Live : slotOf[d] # s
  BY DEF InUse
<1>8. \A t \in Slots : slots[t].ctx # NoEvent => slots[t].ctx \in Events /\ slots[t].ctx # e
  BY <1>3, ReferredEvents DEF Resident
<1>9. SlotsOwned'
  BY <1>1, <1>2, <1>7, <1>8 DEF EventsPlaced, SlotsOwned, Live
<1>10. OnePlace'
  BY <1>1, <1>2, <1>3, <1>4, <1>5, <1>6 DEF EventsPlaced, OnePlace, Finished
<1>11. freeSlots' >= 0
  BY <1>1, <1>2 DEF EventsPlaced
<1> QED
  BY <1>9, <1>10, <1>11 DEF EventsPlaced

\* popFinishedEvent,
LEMMA TryPopPlaced ==
  ASSUME SchedulerInv, EventsPlaced, TryPopFinishedEvent
  PROVE  EventsPlaced'
<1> DEFINE e == Head(finishedEvents)
<1>1. /\ finishedEvents # <<>> /\ finishedEvents' = Tail(finishedEvents)
      /\ owner' = [owner EXCEPT ![e] = "client"] /\ freeSlots' = freeSlots + 1
      /\ UNCHANGED <<slots, actionsQueue, slotOf, closing>>
  BY DEF TryPopFinishedEvent, queueVars, activeVars
<1>2. finishedEvents \in Seq(Events) /\ e \in Events /\ freeSlots \in Int
  BY <1>1 DEF SchedulerInv, TypeOK
<1>3. /\ Finished(e)
      /\ \A d \in Events : Finished(d) <=> Finished(d)' \/ d = e
      /\ \A d \in Events : OccursOnce(finishedEvents, d) => OccursOnce(finishedEvents', d)
      /\ OccursOnce(finishedEvents, e) => \A d \in Events : d = e => ~Finished(d)'
  BY <1>1, <1>2, TailOccurs DEF Finished
<1> HIDE DEF e
<1>4. owner'[e] = "client" /\ \A d \in Events : d # e => owner'[d] = owner[d]
  BY <1>1, <1>2 DEF SchedulerInv, TypeOK
<1>5. /\ owner[e] = "scheduler" /\ ~Resident(e) /\ ~Queued(e)
      /\ \A d \in Events : d = e => ~Finished(d)'
  BY <1>2, <1>3 DEF EventsPlaced, OnePlace
<1>6. \A d \in Events : (Resident(d)' <=> Resident(d)) /\ (Queued(d)' <=> Queued(d))
  BY <1>1 DEF Resident, Queued
<1>7. \A t \in Slots : slots[t].ctx # NoEvent => slots[t].ctx \in Events /\ slots[t].ctx # e
  BY <1>5, ReferredEvents DEF Resident
<1>8. SlotsOwned'
  BY <1>1, <1>2, <1>4, <1>5, <1>7 DEF EventsPlaced, SlotsOwned, Live
<1>9. OnePlace'
  BY <1>1, <1>2, <1>3, <1>4, <1>5, <1>6 DEF EventsPlaced, OnePlace
<1> QED
  BY <1>1, <1>2, <1>8, <1>9 DEF EventsPlaced

\* the deletion of a context by the client,
LEMMA DeleteContextPlaced ==
  ASSUME SchedulerInv, EventsPlaced, NEW e \in Events, DeleteContext(e)
  PROVE  EventsPlaced'
<1>1. /\ owner[e] = "client" /\ owner' = [owner EXCEPT ![e] = "deleted"]
      /\ UNCHANGED <<slots, finishedEvents, freeSlots, actionsQueue, slotOf, closing>>
  BY DEF DeleteContext, slotVars, queueVars, activeVars
<1>2. owner'[e] = "deleted" /\ \A d \in Events : d # e => owner'[d] = owner[d]
  BY <1>1 DEF SchedulerInv, TypeOK
<1>3. ~Resident(e) /\ ~Queued(e) /\ ~Finished(e)
  BY <1>1 DEF EventsPlaced, OnePlace, SlotsOwned, Resident, Events, NoEvent
<1>4. \A d \in Events : /\ Resident(d)' <=> Resident(d)
                        /\ Queued(d)' <=> Queued(d)
                        /\ Finished(d)' <=> Finished(d)
  BY <1>1 DEF Resident, Queued, Finished
<1>5. \A t \in Slots : slots[t].ctx # NoEvent => slots[t].ctx \in Events /\ slots[t].ctx # e
  BY <1>3, ReferredEvents DEF Resident
<1>6. SlotsOwned'
  BY <1>1, <1>2, <1>5 DEF EventsPlaced, SlotsOwned, Live
<1>7. OnePlace'
  BY <1>1, <1>2, <1>3, <1>4 DEF EventsPlaced, OnePlace
<1> QED
  BY <1>1, <1>6, <1>7 DEF EventsPlaced

\* and deactivate(), which drops queued events.
LEMMA ClosingPlaced ==
  ASSUME SchedulerInv, EventsPlaced, Deactivate \/ DrainQueue
  PROVE  EventsPlaced'
<1>1. /\ UNCHANGED <<slots, finishedEvents, owner, slotOf>>
      /\ closing' # "no" /\ freeSlots' >= 0
  BY DEF Deactivate, DrainQueue, slotVars, ctxVars, EventsPlaced
<1>2. actionsQueue' = actionsQueue \/ (actionsQueue # <<>> /\ actionsQueue' = Tail(actionsQueue))
  BY DEF Deactivate, DrainQueue, queueVars
<1>3. actionsQueue \in Seq(Actions)
  BY DEF SchedulerInv, TypeOK
<1>4. /\ \A e \in Events : Queued(e)' => Queued(e)
      /\ \A e \in Events : OccursOnce(actionsQueue, NewEventAction(e)) =>
                           OccursOnce(actionsQueue', NewEventAction(e))
  BY <1>2, <1>3, TailOccurs DEF Queued
<1>5. \A e \in Events : (Resident(e)' <=> Resident(e)) /\ (Finished(e)' <=> Finished(e))
  BY <1>1 DEF Resident, Finished
<1>6. SlotsOwned'
  BY <1>1 DEF EventsPlaced, SlotsOwned, Live
<1>7. OnePlace'
  BY <1>1, <1>4, <1>5 DEF EventsPlaced, OnePlace
<1> QED
  BY <1>1, <1>6, <1>7 DEF EventsPlaced

\* Popping a closure that is not of a new event, or pushing one, leaves the
\* queued events alone.
LEMMA QueuedFrame ==
  ASSUME SchedulerInv,
         \/ actionsQueue' = actionsQueue
         \/ /\ actionsQueue # <<>> /\ Head(actionsQueue).kind # "newEvent"
            /\ actionsQueue' = Tail(actionsQueue)
         \/ \E x \in Actions : x.kind # "newEvent" /\ actionsQueue' = Append(actionsQueue, x)
  PROVE  /\ \A e \in Events : Queued(e)' <=> Queued(e)
         /\ \A e \in Events : OccursOnce(actionsQueue, NewEventAction(e)) =>
                              OccursOnce(actionsQueue', NewEventAction(e))
<1>1. actionsQueue \in Seq(Actions) /\ \A e \in Events : NewEventAction(e).kind = "newEvent"
  BY DEF SchedulerInv, TypeOK, NewEventAction
<1>2. CASE actionsQueue' = actionsQueue
  BY <1>2 DEF Queued
<1>3. CASE /\ actionsQueue # <<>> /\ Head(actionsQueue).kind # "newEvent"
           /\ actionsQueue' = Tail(actionsQueue)
  BY <1>1, <1>3, TailOccurs DEF Queued
<1>4. CASE \E x \in Actions : x.kind # "newEvent" /\ actionsQueue' = Append(actionsQueue, x)
  BY <1>1, <1>4, AppendOccurs DEF Queued
<1> QED
  BY <1>2, <1>3, <1>4

\* The states of the algorithms of slot s once ts was signed off in it and promotion r
\* was perhaps applied.
SignedOff(ts, s, r) ==
  \A a \in Algs :
    LET x == IF a = ts.alg THEN SetState(slots[s].algs[a], SignoffState(execState[s][ts.alg]))
             ELSE slots[s].algs[a]
    IN  slots'[s].algs[a] = x \/ slots'[s].algs[a] = Promote(x, a, r)

\* The closure of signoff() leaves the events of the slots in place.
LEMMA RunSignoffSlots ==
  ASSUME SchedulerInv, RunSignoff, NEW ts, ts = Head(actionsQueue).ts
  PROVE  /\ ts \in TaskSpecs /\ slotOf[ts.evt] \in Slots
         /\ \A s \in Slots : /\ slots'[s].ctx = slots[s].ctx
                             /\ slots'[s].complete = slots[s].complete
         /\ \A s \in Slots : s # slotOf[ts.evt] => slots'[s].algs = slots[s].algs
         /\ \E r : SignedOff(ts, slotOf[ts.evt], r)
<1> DEFINE s0  == slotOf[ts.evt]
           new == SignoffState(execState[s0][ts.alg])
           set == Revised(ts, new)
<1>1. ts \in TaskSpecs /\ s0 \in Slots
  BY PopActionType DEF RunSignoff, PopAction
<1>2. new \in AState
  BY DEF SignoffState, AState
<1>3. slots \in [Slots -> SlotState]
  BY DEF SchedulerInv, TypeOK
<1> HIDE DEF new
<1>4. set \in [Slots -> SlotState]
  BY <1>1, <1>2, <1>3, RevisedType
<1>5. \A s \in Slots : /\ set[s].ctx = slots[s].ctx /\ set[s].complete = slots[s].complete
                       /\ \A a \in Algs : set[s].algs[a] =
                            IF s = s0 /\ a = ts.alg THEN SetState(slots[s].algs[a], new)
                            ELSE slots[s].algs[a]
  BY <1>1, <1>2, <1>3, RevisedEffect
<1>6. slots' = set \/ \E r : slots' = [set EXCEPT ![s0] = Promoted(@, r)]
  BY DEF RunSignoff, new
<1> HIDE DEF set, s0
<1>7. PICK r : slots' = set \/ slots' = [set EXCEPT ![s0] = Promoted(set[s0], r)]
  BY <1>1, <1>4, <1>6
<1>8. set[s0] \in SlotState
  BY <1>1, <1>4
<1> DEFINE z == Promoted(set[s0], r)
<1>9. /\ z.ctx = set[s0].ctx /\ z.complete = set[s0].complete
      /\ \A a \in Algs : z.algs[a] = Promote(set[s0].algs[a], a, r)
  BY <1>8, PromotedEffect
<1>10. slots' = set \/ slots' = [set EXCEPT ![s0] = z]
  BY <1>7
<1> HIDE DEF z
<1>11. /\ \A s \in Slots : s # s0 => slots'[s] = set[s]
       /\ slots'[s0] = set[s0] \/ slots'[s0] = z
  BY <1>1, <1>4, <1>10
<1>12. \A s \in Slots : slots'[s].ctx = slots[s].ctx /\ slots'[s].complete = slots[s].complete
  BY <1>5, <1>9, <1>11, <1>1
<1>13. \A s \in Slots : s # s0 => slots'[s].algs = slots[s].algs
  <2>1. \A s \in Slots : s # s0 => \A a \in Algs : set[s].algs[a] = slots[s].algs[a]
    BY <1>5
  <2>2. \A s \in Slots : set[s].algs \in [Algs -> AState] /\ slots[s].algs \in [Algs -> AState]
    BY <1>3, <1>4 DEF SlotState
  <2> QED
    BY <1>11, <2>1, <2>2
<1>14. \A a \in Algs :
         LET x == IF a = ts.alg THEN SetState(slots[s0].algs[a], new) ELSE slots[s0].algs[a]
         IN  slots'[s0].algs[a] = x \/ slots'[s0].algs[a] = Promote(x, a, r)
  BY <1>1, <1>5, <1>9, <1>11
<1>15. SignedOff(ts, s0, r)
  BY <1>14, Zenon DEF new, SignedOff
<1> QED
  BY <1>1, <1>12, <1>13, <1>15 DEF s0

\* Every step keeps EventsPlaced.
LEMMA StepPlaced ==
  ASSUME SchedulerInv, EventsPlaced, [SchedulerNext]_schedulerVars
  PROVE  EventsPlaced'
<1> USE DEF slotVars, queueVars, taskVars, poolVars, statusVars, ctxVars, activeVars
<1> DEFINE Placed == \A s \in Slots : /\ slots'[s].ctx = slots[s].ctx
                                      /\ slots'[s].complete = slots[s].complete
           Rest   == UNCHANGED <<owner, slotOf, finishedEvents, freeSlots, closing>>
<1>0. ASSUME Placed, Rest,
             \/ actionsQueue' = actionsQueue
             \/ /\ actionsQueue # <<>> /\ Head(actionsQueue).kind # "newEvent"
                /\ actionsQueue' = Tail(actionsQueue)
             \/ \E x \in Actions : x.kind # "newEvent" /\ actionsQueue' = Append(actionsQueue, x)
      PROVE  EventsPlaced'
  BY <1>0, QueuedFrame, PlacedFrame
<1>1. CASE RunNewEvent
  BY <1>1, RunNewEventPlaced
<1>2. CASE RunSignoff
  <2>1. Placed
    BY <1>2, RunSignoffSlots
  <2>2. Rest /\ actionsQueue # <<>> /\ Head(actionsQueue).kind # "newEvent"
        /\ actionsQueue' = Tail(actionsQueue)
    BY <1>2 DEF RunSignoff, PopAction
  <2> QED
    BY <1>0, <2>1, <2>2
<1>3. CASE RunDeactivate
  BY <1>0, <1>3 DEF RunDeactivate, PopAction
<1>4. CASE CheckUpdate
  BY <1>0, <1>4 DEF CheckUpdate
<1>5. CASE RetrySchedule
  <2>1. Placed
    BY <1>5, ScheduledSpecs, ScheduleKeepsContexts DEF RetrySchedule
  <2> QED
    BY <1>0, <1>5, <2>1 DEF RetrySchedule
<1>6. CASE SlotSchedule
  <2> DEFINE ts == TaskSpec(Min(sched.todo), slots[sched.slot].ctx)
  <2>1. ts \in TaskSpecs /\ owner[ts.evt] # "unborn" /\ Schedule(ts, retryQueue)
    BY <1>6, ScheduledSpecs DEF SlotSchedule, TaskSpec
  <2>2. Placed
    BY <2>1, ScheduleKeepsContexts
  <2> QED
    BY <1>0, <1>6, <2>2 DEF SlotSchedule
<1>7. CASE SlotUpdate
  BY <1>7, SlotUpdatePlaced
<1>8. CASE Exit
  BY <1>0, <1>8 DEF Exit
<1>9. ASSUME NEW t \in tasks, NEW out \in Outcome, TaskExecute(t, out) PROVE EventsPlaced'
  BY <1>0, <1>9 DEF TaskExecute
<1>10. ASSUME NEW t \in tasks, TaskRelease(t) PROVE EventsPlaced'
  BY <1>0, <1>10 DEF TaskRelease
<1>11. ASSUME NEW t \in tasks, TaskSignoff(t) PROVE EventsPlaced'
  <2>1. SignoffAction(t.ts) \in Actions /\ SignoffAction(t.ts).kind # "newEvent"
    BY TaskType DEF SignoffAction, Actions
  <2> QED
    BY <1>0, <1>11, <2>1 DEF TaskSignoff
<1>12. CASE Client
  <2>1. ASSUME NEW s \in Slots, ResetOnly(s) PROVE EventsPlaced'
    BY <1>0, <2>1 DEF ResetOnly
  <2> QED
    BY <1>12, <2>1, PushNewEventPlaced, TryPopPlaced, DeleteContextPlaced, ClosingPlaced
    DEF Client, PopFinishedEvent
<1>13. CASE DrainQueue
  BY <1>13, ClosingPlaced
<1>14. CASE PushDeactivate
  <2>1. /\ UNCHANGED <<slots, owner, slotOf, finishedEvents, freeSlots>>
        /\ closing' # "no" /\ closing # "no"
        /\ actionsQueue' = Append(actionsQueue, DeactivateAction)
    BY <1>14 DEF PushDeactivate
  <2>2. DeactivateAction \in Actions /\ DeactivateAction.kind # "newEvent"
    BY DEF DeactivateAction, Actions
  <2>3. /\ \A e \in Events : Queued(e)' <=> Queued(e)
        /\ \A e \in Events : OccursOnce(actionsQueue, NewEventAction(e)) =>
                             OccursOnce(actionsQueue', NewEventAction(e))
    BY <2>1, <2>2, QueuedFrame
  <2>4. SlotsOwned' /\ freeSlots' >= 0
    BY <2>1 DEF EventsPlaced, SlotsOwned, Live
  <2>5. OnePlace'
    BY <2>1, <2>3 DEF EventsPlaced, OnePlace, Resident, Finished
  <2> QED
    BY <2>4, <2>5 DEF EventsPlaced
<1>15. CASE UNCHANGED schedulerVars
  BY <1>0, <1>15 DEF schedulerVars
<1> QED
  BY <1>1, <1>2, <1>3, <1>4, <1>5, <1>6, <1>7, <1>8, <1>9, <1>10, <1>11, <1>12, <1>13, <1>14,
     <1>15 DEF SchedulerNext, SchedulerThread, Task, Deactivation, Terminated

\* Whatever the job, its failures and the interleaving: an event given to the
\* scheduler waits in the action queue, has the slot it was given or is
\* finished, and is never in two of these places.
THEOREM EventsInOnePlace == SchedulerSpec => []EventsPlaced
<1>1. SchedulerInv /\ EventsPlaced /\ [SchedulerNext]_schedulerVars => EventsPlaced'
  BY StepPlaced
<1> QED
  BY <1>1, InitPlaced, SchedulerInvariant, PTL DEF SchedulerSpec

-----------------------------------------------------------------------------
(* Every task, sign-off and retry with its algorithm.                      *)

HasTask(ts) == \E t \in tasks : t.ts = ts

\* TasksOwnTheirEvent and ScheduledHasTask, queue entries by their content.
TasksBacked ==
  /\ \A t \in tasks :
       /\ InState(t.ts, "SCHEDULED") /\ ~SignoffQueued(t.ts)
       /\ \A u \in tasks : u.ts = t.ts => u = t
  /\ \A ts \in TaskSpecs : SignoffQueued(ts) =>
       InState(ts, "SCHEDULED") /\ OccursOnce(actionsQueue, SignoffAction(ts))
  /\ closing = "no" /\ ~DirectExecution =>
       \A ts \in TaskSpecs : InState(ts, "SCHEDULED") => SignoffQueued(ts) \/ HasTask(ts)

\* RetryQueueExact, queue entries by their content.
RetriesBacked ==
  \A ts \in TaskSpecs : /\ Occurs(retryQueue, ts) <=> InState(ts, "RESOURCELESS")
                        /\ OccursOnce(retryQueue, ts)

\* What is left of the copy that iterate() made of the DATAREADY algorithms
\* is still DATAREADY.
TodoReady ==
  sched.at = "slot" => \A a \in sched.todo : slots[sched.slot].algs[a] = "DATAREADY"

WorkBacked == TasksBacked /\ RetriesBacked /\ TodoReady

\* A step does not touch the states that something has to stand behind.
StateKept(ts) ==
  /\ InState(ts, "SCHEDULED")' <=> InState(ts, "SCHEDULED")
  /\ InState(ts, "RESOURCELESS")' <=> InState(ts, "RESOURCELESS")

\* Initially there is no event.
LEMMA InitBacked == SchedulerInit => WorkBacked
BY DEF SchedulerInit, WorkBacked, TasksBacked, RetriesBacked, TodoReady, InState, SignoffQueued,
       Occurs, OccursOnce, AtPop, TaskSpecs

\* A step that keeps those states, the tasks and the retry queue, and adds no
\* sign-off; only deactivate() may drop one.
LEMMA BackedFrame ==
  ASSUME SchedulerInv, WorkBacked, \A ts \in TaskSpecs : StateKept(ts),
         \A ts \in TaskSpecs : SignoffQueued(ts)' => SignoffQueued(ts),
         closing' = "no" =>
           closing = "no" /\ \A ts \in TaskSpecs : SignoffQueued(ts) => SignoffQueued(ts)',
         \A ts \in TaskSpecs : OccursOnce(actionsQueue, SignoffAction(ts)) =>
                               OccursOnce(actionsQueue', SignoffAction(ts)),
         UNCHANGED <<tasks, retryQueue>>, TodoReady'
  PROVE  WorkBacked'
<1>1. \A t \in tasks : t.ts \in TaskSpecs
  BY TaskType
<1>2. \A ts \in TaskSpecs : HasTask(ts)' <=> HasTask(ts)
  BY DEF HasTask
<1>3. TasksBacked'
  BY <1>1, <1>2 DEF WorkBacked, TasksBacked, StateKept
<1>4. RetriesBacked'
  BY DEF WorkBacked, RetriesBacked, StateKept
<1> QED
  BY <1>3, <1>4 DEF WorkBacked

\* The queued sign-offs under a change of the action queue.
LEMMA SignoffFrame ==
  ASSUME SchedulerInv
  PROVE  /\ actionsQueue # <<>> /\ actionsQueue' = Tail(actionsQueue) =>
              \A ts \in TaskSpecs :
                /\ SignoffQueued(ts) <=> SignoffQueued(ts)' \/ SignoffAction(ts) = Head(actionsQueue)
                /\ OccursOnce(actionsQueue, SignoffAction(ts)) =>
                     OccursOnce(actionsQueue', SignoffAction(ts))
                /\ OccursOnce(actionsQueue, SignoffAction(ts)) /\ SignoffAction(ts) = Head(actionsQueue)
                     => ~SignoffQueued(ts)'
         /\ \A x \in Actions : actionsQueue' = Append(actionsQueue, x) =>
              \A ts \in TaskSpecs :
                /\ SignoffQueued(ts)' <=> SignoffQueued(ts) \/ SignoffAction(ts) = x
                /\ OccursOnce(actionsQueue, SignoffAction(ts))
                     /\ (SignoffAction(ts) = x => ~SignoffQueued(ts)) =>
                     OccursOnce(actionsQueue', SignoffAction(ts))
<1>1. actionsQueue \in Seq(Actions)
  BY DEF SchedulerInv, TypeOK
<1>2. \A ts : SignoffQueued(ts) <=> Occurs(actionsQueue, SignoffAction(ts))
  BY DEF SignoffQueued, Occurs
<1>3. \A ts : SignoffQueued(ts)' <=> Occurs(actionsQueue', SignoffAction(ts))
  BY DEF SignoffQueued, Occurs
<1>4. ASSUME actionsQueue # <<>>, actionsQueue' = Tail(actionsQueue), NEW ts \in TaskSpecs
      PROVE  /\ SignoffQueued(ts) <=> SignoffQueued(ts)' \/ SignoffAction(ts) = Head(actionsQueue)
             /\ OccursOnce(actionsQueue, SignoffAction(ts)) =>
                  OccursOnce(actionsQueue', SignoffAction(ts))
             /\ OccursOnce(actionsQueue, SignoffAction(ts)) /\ SignoffAction(ts) = Head(actionsQueue)
                  => ~SignoffQueued(ts)'
  BY <1>1, <1>2, <1>3, <1>4, TailOccurs
<1>5. ASSUME NEW x \in Actions, actionsQueue' = Append(actionsQueue, x), NEW ts \in TaskSpecs
      PROVE  /\ SignoffQueued(ts)' <=> SignoffQueued(ts) \/ SignoffAction(ts) = x
             /\ OccursOnce(actionsQueue, SignoffAction(ts))
                  /\ (SignoffAction(ts) = x => ~SignoffQueued(ts)) =>
                  OccursOnce(actionsQueue', SignoffAction(ts))
  BY <1>1, <1>2, <1>3, <1>5, AppendOccurs
<1> QED
  BY <1>4, <1>5

\* A state that is kept whole is kept.
LEMMA SlotsKept ==
  ASSUME UNCHANGED <<slots, owner, slotOf>>
  PROVE  \A ts : StateKept(ts)
BY DEF StateKept, InState

\* Two specifications differ in the algorithm or in the event.
LEMMA SpecEquality ==
  ASSUME NEW ts \in TaskSpecs, NEW us \in TaskSpecs
  PROVE  ts = us <=> ts.alg = us.alg /\ ts.evt = us.evt
BY DEF TaskSpecs

\* revise() moves the algorithm of the specification in the event it names.
LEMMA RevisedState ==
  ASSUME SchedulerInv, NEW ts \in TaskSpecs, NEW old, InState(ts, old), NEW new \in AState,
         slots' = Revised(ts, new), UNCHANGED <<owner, slotOf>>
  PROVE  \A us \in TaskSpecs, st \in AState :
           InState(us, st)' <=> IF us = ts THEN st = SetState(old, new) ELSE InState(us, st)
<1> SUFFICES ASSUME NEW us \in TaskSpecs, NEW st \in AState
             PROVE  InState(us, st)' <=>
                      IF us = ts THEN st = SetState(old, new) ELSE InState(us, st)
  OBVIOUS
<1>1. /\ us.alg \in Algs /\ us.evt \in Events /\ ts.alg \in Algs /\ ts.evt \in Events
      /\ owner[us.evt] = "scheduler" => slotOf[us.evt] \in Slots
      /\ owner[ts.evt] = "scheduler" /\ slotOf[ts.evt] \in Slots
      /\ slots[slotOf[ts.evt]].ctx = ts.evt /\ slots[slotOf[ts.evt]].algs[ts.alg] = old
  BY DEF SchedulerInv, ContextsBorn, TaskSpecs, InState
<1>2. slots \in [Slots -> SlotState]
  BY DEF SchedulerInv, TypeOK
<1>3. \A s \in Slots :
        /\ slots'[s].ctx = slots[s].ctx
        /\ \A a \in Algs : slots'[s].algs[a] =
             IF s = slotOf[ts.evt] /\ a = ts.alg THEN SetState(slots[s].algs[a], new)
             ELSE slots[s].algs[a]
  BY <1>1, <1>2, RevisedEffect
<1>4. ts = us <=> ts.alg = us.alg /\ ts.evt = us.evt
  BY SpecEquality
<1> QED
  BY <1>1, <1>3, <1>4 DEF InState

\* schedule() spawns a task for an algorithm that has none, or leaves it in
\* the retry queue once.
LEMMA ScheduleBacked ==
  ASSUME SchedulerInv, WorkBacked, Blocking = {},
         NEW ts \in TaskSpecs, InState(ts, "DATAREADY") \/ InState(ts, "RESOURCELESS"),
         NEW pending \in Seq(TaskSpecs),
         \A us \in TaskSpecs : /\ Occurs(pending, us) <=> Occurs(retryQueue, us) /\ us # ts
                               /\ OccursOnce(pending, us),
         Schedule(ts, pending), UNCHANGED <<owner, slotOf, actionsQueue, closing>>
  PROVE  TasksBacked' /\ RetriesBacked'
<1> DEFINE S(us) == InState(us, "SCHEDULED")
           R(us) == InState(us, "RESOURCELESS")
<1>0. {"DATAREADY", "RESOURCELESS", "SCHEDULED"} \subseteq AState
  BY DEF AState
<1>1. PICK old \in {"DATAREADY", "RESOURCELESS"} : InState(ts, old)
  OBVIOUS
<1>2. ~S(ts) /\ ~SignoffQueued(ts) /\ ~HasTask(ts)
  <2>1. ~S(ts)
    BY <1>1 DEF InState
  <2> QED
    BY <2>1 DEF WorkBacked, TasksBacked, HasTask
<1>3. /\ \A us \in TaskSpecs : SignoffQueued(us)' <=> SignoffQueued(us)
      /\ \A t \in tasks : t.ts \in TaskSpecs
  BY TaskType DEF SignoffQueued
<1>4. CASE slots' = Revised(ts, "RESOURCELESS") /\ retryQueue' = Append(pending, ts)
           /\ UNCHANGED tasks
  <2>1. SetState(old, "RESOURCELESS") = "RESOURCELESS"
    BY DEF SetState, MaySet, Transition
  <2>2. \A us \in TaskSpecs : (S(us)' <=> S(us)) /\ (R(us)' <=> R(us) \/ us = ts)
    BY <1>0, <1>1, <1>2, <1>4, <2>1, RevisedState
  <2>3. \A us \in TaskSpecs : /\ Occurs(retryQueue', us) <=> Occurs(pending, us) \/ us = ts
                              /\ OccursOnce(retryQueue', us)
    BY <1>4, AppendOccurs
  <2>4. RetriesBacked'
    BY <2>2, <2>3 DEF WorkBacked, RetriesBacked
  <2>5. TasksBacked'
    BY <1>3, <1>4, <2>2 DEF WorkBacked, TasksBacked, HasTask
  <2> QED
    BY <2>4, <2>5
<1>5. CASE slots' = Revised(ts, "SCHEDULED") /\ retryQueue' = pending
           /\ (IF DirectExecution THEN UNCHANGED tasks ELSE SpawnTask(ts))
  <2>1. SetState(old, "SCHEDULED") = "SCHEDULED"
    BY DEF SetState, MaySet, Transition
  <2>2. \A us \in TaskSpecs : (S(us)' <=> S(us) \/ us = ts) /\ (R(us)' <=> R(us) /\ us # ts)
    BY <1>0, <1>1, <1>5, <2>1, RevisedState
  <2>3. RetriesBacked'
    BY <1>5, <2>2 DEF WorkBacked, RetriesBacked
  <2>4. TasksBacked'
    <3>1. CASE DirectExecution
      BY <1>3, <1>5, <2>2, <3>1 DEF WorkBacked, TasksBacked
    <3>2. CASE ~DirectExecution
      <4>1. PICK k \in Nat : tasks' = tasks \cup {NewTask(ts, k)}
        BY <1>5, <3>2 DEF SpawnTask
      <4> DEFINE n == NewTask(ts, k)
      <4>2. n.ts = ts /\ tasks' = tasks \cup {n}
        BY <4>1 DEF NewTask
      <4> HIDE DEF n
      <4>3. \A us \in TaskSpecs : HasTask(us)' <=> HasTask(us) \/ us = ts
        BY <4>2 DEF HasTask
      <4>4. ASSUME NEW t \in tasks'
            PROVE  /\ InState(t.ts, "SCHEDULED")' /\ ~SignoffQueued(t.ts)'
                   /\ \A u \in tasks' : u.ts = t.ts => u = t
        <5>1. CASE t \in tasks
          BY <1>2, <1>3, <2>2, <4>2, <5>1 DEF WorkBacked, TasksBacked, HasTask
        <5>2. CASE t = n
          BY <1>2, <1>3, <2>2, <4>2, <5>2 DEF HasTask
        <5> QED
          BY <4>2, <5>1, <5>2
      <4>5. \A us \in TaskSpecs : SignoffQueued(us)' =>
              InState(us, "SCHEDULED")' /\ OccursOnce(actionsQueue', SignoffAction(us))
        BY <1>3, <2>2 DEF WorkBacked, TasksBacked
      <4>6. closing' = "no" => \A us \in TaskSpecs : InState(us, "SCHEDULED")' =>
              SignoffQueued(us)' \/ HasTask(us)'
        BY <1>3, <2>2, <3>2, <4>3 DEF WorkBacked, TasksBacked
      <4> QED
        BY <4>4, <4>5, <4>6 DEF TasksBacked
    <3> QED
      BY <3>1, <3>2
  <2> QED
    BY <2>3, <2>4
<1>6. ~Throttled(ts)
  BY DEF Throttled
<1> QED
  BY <1>4, <1>5, <1>6 DEF Schedule, taskVars

\* The scheduler thread enters a slot with its DATAREADY algorithms to do.
LEMMA FromSlotReady ==
  ASSUME NEW sl \in [Slots -> SlotState], NEW k \in Int
  PROVE  LET c == FromSlot(k, sl)
         IN  c.at = "slot" => c.todo = {a \in Algs : sl[c.slot].algs[a] = "DATAREADY"}
<1> DEFINE busy == {s \in Slots : s >= k /\ sl[s].ctx # NoEvent}
<1>1. CASE busy = {}
  BY <1>1 DEF FromSlot, AtPop
<1>2. CASE busy # {}
  <2>1. busy \in SUBSET Nat
    BY EventContextsAssumption DEF Slots
  <2>2. Min(busy) \in Slots
    BY <1>2, <2>1, MinInSet
  <2>3. FromSlot(k, sl) = EnterSlot(Min(busy), sl)
    BY <1>2 DEF FromSlot
  <2>4. AlgsInState(sl[Min(busy)].algs, "DATAREADY")
          = {a \in Algs : sl[Min(busy)].algs[a] = "DATAREADY"}
    BY <2>2 DEF AlgsInState, SlotState
  <2> QED
    BY <2>3, <2>4 DEF EnterSlot
<1> QED
  BY <1>1, <1>2

\* So it does when iterate() starts.
LEMMA StartIterateReady ==
  ASSUME NEW sl \in [Slots -> SlotState], NEW rq
  PROVE  LET c == StartIterate(sl, rq)
         IN  c.at = "slot" => c.todo = {a \in Algs : sl[c.slot].algs[a] = "DATAREADY"}
<1>1. CASE rq = <<>>
  BY <1>1, FromSlotReady DEF StartIterate
<1>2. CASE rq # <<>>
  BY <1>2 DEF StartIterate, AtPop
<1> QED
  BY <1>1, <1>2

\* A turn of the retry loop keeps WorkBacked,
LEMMA RetryScheduleBacked ==
  ASSUME SchedulerInv, SchedulerInv', WorkBacked, Blocking = {}, RetrySchedule
  PROVE  WorkBacked'
<1> DEFINE ts == Head(retryQueue)
<1>1. retryQueue # <<>> /\ ts \in TaskSpecs /\ retryQueue \in Seq(TaskSpecs)
  BY ScheduledSpecs DEF SchedulerInv, TypeOK
<1>2. Tail(retryQueue) \in Seq(TaskSpecs)
  BY <1>1
<1>3. Occurs(retryQueue, ts) /\ \A us \in TaskSpecs : OccursOnce(retryQueue, us)
  BY <1>1, TailOccurs DEF WorkBacked, RetriesBacked
<1>4. InState(ts, "RESOURCELESS")
  BY <1>1, <1>3 DEF WorkBacked, RetriesBacked
<1>5. \A us \in TaskSpecs : /\ Occurs(Tail(retryQueue), us) <=> Occurs(retryQueue, us) /\ us # ts
                            /\ OccursOnce(Tail(retryQueue), us)
  BY <1>1, <1>3, TailOccurs
<1>6. Schedule(ts, Tail(retryQueue)) /\ UNCHANGED <<owner, slotOf, actionsQueue, closing>>
  BY DEF RetrySchedule, ctxVars, activeVars
<1> HIDE DEF ts
<1>7. TasksBacked' /\ RetriesBacked'
  BY <1>1, <1>2, <1>4, <1>5, <1>6, ScheduleBacked
<1>8. TodoReady'
  <2>1. slots' \in [Slots -> SlotState]
    BY DEF SchedulerInv, TypeOK
  <2>2. \/ sched' = [sched EXCEPT !.n = @ - 1] /\ sched.at = "retry"
        \/ sched' = FromSlot(0, slots')
    BY DEF RetrySchedule
  <2>3. sched' = FromSlot(0, slots') => TodoReady'
    BY <2>1, FromSlotReady DEF TodoReady
  <2>4. sched' = [sched EXCEPT !.n = @ - 1] /\ sched.at = "retry" => sched'.at = "retry"
    BY DEF SchedulerInv, TypeOK
  <2> QED
    BY <2>2, <2>3, <2>4 DEF TodoReady
<1> QED
  BY <1>7, <1>8 DEF WorkBacked

\* so does scheduling an algorithm of the slot at hand,
LEMMA SlotScheduleBacked ==
  ASSUME SchedulerInv, EventsPlaced, WorkBacked, Blocking = {}, SlotSchedule
  PROVE  WorkBacked'
<1> DEFINE a  == Min(sched.todo)
           s  == sched.slot
           ts == TaskSpec(a, slots[s].ctx)
<1>1. /\ a \in sched.todo /\ a \in Algs /\ s \in Slots /\ slots[s].ctx \in Events
      /\ ts \in TaskSpecs /\ ts.alg = a /\ ts.evt = slots[s].ctx
  BY ScheduledSpecs DEF TaskSpec
<1>2. /\ sched.at = "slot" /\ Schedule(ts, retryQueue) /\ sched' = [sched EXCEPT !.todo = @ \ {a}]
      /\ UNCHANGED <<owner, slotOf, actionsQueue, closing>>
  BY DEF SlotSchedule, ctxVars, activeVars
<1> HIDE DEF a, ts
<1>3. slots[s].ctx # NoEvent /\ owner[ts.evt] = "scheduler" /\ slotOf[ts.evt] = s
  BY <1>1 DEF EventsPlaced, SlotsOwned, Events, NoEvent
<1>4. InState(ts, "DATAREADY")
  BY <1>1, <1>2, <1>3 DEF WorkBacked, TodoReady, InState
<1>5. ~Occurs(retryQueue, ts)
  BY <1>1, <1>4 DEF WorkBacked, RetriesBacked, InState
<1>6. TasksBacked' /\ RetriesBacked'
  <2>1. retryQueue \in Seq(TaskSpecs)
    BY DEF SchedulerInv, TypeOK
  <2>2. \A us \in TaskSpecs : /\ Occurs(retryQueue, us) <=> Occurs(retryQueue, us) /\ us # ts
                              /\ OccursOnce(retryQueue, us)
    BY <1>5 DEF WorkBacked, RetriesBacked
  <2> QED
    BY <1>1, <1>2, <1>4, <2>1, <2>2, ScheduleBacked
<1>7. TodoReady'
  <2>1. slots \in [Slots -> SlotState] /\ sched \in SchedType /\ Blocking = {}
    BY DEF SchedulerInv, TypeOK, SchedType
  <2>2. slots' = Revised(ts, "RESOURCELESS") \/ slots' = Revised(ts, "SCHEDULED")
    BY <1>2, <2>1 DEF Schedule, Throttled
  <2>3. "RESOURCELESS" \in AState /\ "SCHEDULED" \in AState
    BY DEF AState
  <2>4. \A b \in Algs : b # a => slots'[s].algs[b] = slots[s].algs[b]
    BY <1>1, <1>3, <2>1, <2>2, <2>3, RevisedEffect
  <2>5. sched'.slot = s /\ sched'.todo = sched.todo \ {a} /\ sched.todo \subseteq Algs
    BY <1>2, <2>1 DEF SchedType
  <2> HIDE DEF s
  <2> QED
    BY <1>2, <2>4, <2>5 DEF WorkBacked, TodoReady, s
<1> QED
  BY <1>6, <1>7 DEF WorkBacked

\* an update of a task that does not change what it is for,
LEMMA TaskUpdateBacked ==
  ASSUME SchedulerInv, WorkBacked, NEW t \in tasks, NEW u, u.ts = t.ts,
         tasks' = (tasks \ {t}) \cup {u},
         UNCHANGED <<slots, owner, slotOf, actionsQueue, retryQueue, closing, sched>>
  PROVE  WorkBacked'
<1>1. \A ts : (InState(ts, "SCHEDULED")' <=> InState(ts, "SCHEDULED"))
              /\ (InState(ts, "RESOURCELESS")' <=> InState(ts, "RESOURCELESS"))
              /\ (SignoffQueued(ts)' <=> SignoffQueued(ts))
  BY DEF InState, SignoffQueued
<1>2. \A ts : HasTask(ts)' <=> HasTask(ts)
  BY DEF HasTask
<1>3. TasksBacked'
  <2>1. ASSUME NEW v \in tasks'
        PROVE  /\ InState(v.ts, "SCHEDULED")' /\ ~SignoffQueued(v.ts)'
               /\ \A w \in tasks' : w.ts = v.ts => w = v
    BY <1>1 DEF WorkBacked, TasksBacked
  <2>2. \A ts \in TaskSpecs : SignoffQueued(ts)' =>
          InState(ts, "SCHEDULED")' /\ OccursOnce(actionsQueue', SignoffAction(ts))
    BY <1>1 DEF WorkBacked, TasksBacked
  <2>3. closing' = "no" /\ ~DirectExecution => \A ts \in TaskSpecs :
          InState(ts, "SCHEDULED")' => SignoffQueued(ts)' \/ HasTask(ts)'
    BY <1>1, <1>2 DEF WorkBacked, TasksBacked
  <2> QED
    BY <2>1, <2>2, <2>3 DEF TasksBacked
<1>4. RetriesBacked' /\ TodoReady'
  BY <1>1 DEF WorkBacked, RetriesBacked, TodoReady
<1> QED
  BY <1>3, <1>4 DEF WorkBacked

\* the sign-off of a task,
LEMMA TaskSignoffBacked ==
  ASSUME SchedulerInv, WorkBacked, NEW t \in tasks, TaskSignoff(t)
  PROVE  WorkBacked'
<1>1. /\ actionsQueue' = Append(actionsQueue, SignoffAction(t.ts)) /\ tasks' = tasks \ {t}
      /\ UNCHANGED <<slots, owner, slotOf, retryQueue, closing, sched>>
  BY DEF TaskSignoff, slotVars, ctxVars, activeVars
<1>2. t.ts \in TaskSpecs /\ SignoffAction(t.ts) \in Actions
  BY TaskType DEF SignoffAction, Actions
<1>3. /\ InState(t.ts, "SCHEDULED") /\ ~SignoffQueued(t.ts)
      /\ \A u \in tasks : u.ts = t.ts => u = t
      /\ \A u \in tasks : u.ts \in TaskSpecs
  BY TaskType DEF WorkBacked, TasksBacked
<1>4. \A ts : (InState(ts, "SCHEDULED")' <=> InState(ts, "SCHEDULED"))
              /\ (InState(ts, "RESOURCELESS")' <=> InState(ts, "RESOURCELESS"))
  BY <1>1 DEF InState
<1>5. \A ts \in TaskSpecs :
        /\ SignoffQueued(ts)' <=> SignoffQueued(ts) \/ ts = t.ts
        /\ OccursOnce(actionsQueue, SignoffAction(ts)) /\ (ts = t.ts => ~SignoffQueued(ts)) =>
             OccursOnce(actionsQueue', SignoffAction(ts))
  BY <1>1, <1>2, SignoffFrame, ActionsDiffer
<1>6. OccursOnce(actionsQueue, SignoffAction(t.ts))
  BY <1>3 DEF SignoffQueued, OccursOnce
<1>7. TasksBacked'
  <2>1. ASSUME NEW v \in tasks'
        PROVE  /\ InState(v.ts, "SCHEDULED")' /\ ~SignoffQueued(v.ts)'
               /\ \A w \in tasks' : w.ts = v.ts => w = v
    BY <1>1, <1>3, <1>4, <1>5 DEF WorkBacked, TasksBacked
  <2>2. \A ts \in TaskSpecs : SignoffQueued(ts)' =>
          InState(ts, "SCHEDULED")' /\ OccursOnce(actionsQueue', SignoffAction(ts))
    BY <1>3, <1>4, <1>5, <1>6 DEF WorkBacked, TasksBacked
  <2>3. \A ts \in TaskSpecs : HasTask(ts) => HasTask(ts)' \/ ts = t.ts
    BY <1>1 DEF HasTask
  <2>4. closing' = "no" /\ ~DirectExecution => \A ts \in TaskSpecs :
          InState(ts, "SCHEDULED")' => SignoffQueued(ts)' \/ HasTask(ts)'
    BY <1>1, <1>4, <1>5, <2>3 DEF WorkBacked, TasksBacked
  <2> QED
    BY <2>1, <2>2, <2>4 DEF TasksBacked
<1>8. RetriesBacked' /\ TodoReady'
  BY <1>1, <1>4 DEF WorkBacked, RetriesBacked, TodoReady
<1> QED
  BY <1>7, <1>8 DEF WorkBacked

\* The promotions do not move algorithms into or out of SCHEDULED and
\* RESOURCELESS.
LEMMA PromoteKeeps ==
  ASSUME NEW x, NEW a, NEW r, NEW st \in {"SCHEDULED", "RESOURCELESS"}
  PROVE  Promote(x, a, r) = st <=> x = st
BY DEF Promote

\* What the closure of signoff() does to the states: its algorithm leaves
\* SCHEDULED, and nothing else stood behind it.
LEMMA RunSignoffStates ==
  ASSUME SchedulerInv, EventsPlaced, WorkBacked, RunSignoff,
         NEW ts, ts = Head(actionsQueue).ts
  PROVE  /\ ts \in TaskSpecs /\ InState(ts, "SCHEDULED") /\ ~HasTask(ts)
         /\ \A us \in TaskSpecs : /\ InState(us, "SCHEDULED")' <=> InState(us, "SCHEDULED") /\ us # ts
                                  /\ InState(us, "RESOURCELESS")' <=> InState(us, "RESOURCELESS")
                                  /\ SignoffQueued(us)' <=> SignoffQueued(us) /\ us # ts
                                  /\ OccursOnce(actionsQueue, SignoffAction(us)) =>
                                       OccursOnce(actionsQueue', SignoffAction(us))
<1>1. /\ actionsQueue \in Seq(Actions) /\ actionsQueue # <<>>
      /\ Head(actionsQueue).kind = "signoff" /\ actionsQueue' = Tail(actionsQueue)
      /\ UNCHANGED <<owner, slotOf>>
  BY DEF RunSignoff, PopAction, SchedulerInv, TypeOK, ctxVars
<1>2. ts \in TaskSpecs /\ slotOf[ts.evt] \in Slots
  BY RunSignoffSlots
<1>3. Head(actionsQueue) = SignoffAction(ts)
  <2>1. Head(actionsQueue) \in Actions
    BY <1>1
  <2> QED
    BY <1>1, <2>1, ActionShape
<1>4. SignoffQueued(ts)
  BY <1>1, <1>2, <1>3, SignoffFrame
<1>5. InState(ts, "SCHEDULED") /\ OccursOnce(actionsQueue, SignoffAction(ts)) /\ ~HasTask(ts)
  BY <1>2, <1>4 DEF WorkBacked, TasksBacked, HasTask
<1>6. \A us \in TaskSpecs : /\ SignoffQueued(us)' <=> SignoffQueued(us) /\ us # ts
                            /\ OccursOnce(actionsQueue, SignoffAction(us)) =>
                                 OccursOnce(actionsQueue', SignoffAction(us))
  BY <1>1, <1>3, <1>5, SignoffFrame, ActionsDiffer
<1> DEFINE s0  == slotOf[ts.evt]
           new == SignoffState(execState[s0][ts.alg])
<1>7. new \in {"EVTACCEPTED", "EVTREJECTED", "ERROR"}
  BY DEF SignoffState
<1>8. SetState(slots[s0].algs[ts.alg], new) \in {"EVTACCEPTED", "EVTREJECTED", "ERROR"}
  BY <1>7 DEF SetState
<1>9. PICK r : SignedOff(ts, s0, r)
  BY RunSignoffSlots
<1>10. ASSUME NEW a \in Algs, NEW st \in {"SCHEDULED", "RESOURCELESS"}
       PROVE  slots'[s0].algs[a] = st <=> a # ts.alg /\ slots[s0].algs[a] = st
  <2> DEFINE x == IF a = ts.alg THEN SetState(slots[s0].algs[a], new) ELSE slots[s0].algs[a]
  <2>1. slots'[s0].algs[a] = x \/ slots'[s0].algs[a] = Promote(x, a, r)
    BY <1>9, Zenon DEF SignedOff
  <2> HIDE DEF new
  <2>2. x = st <=> a # ts.alg /\ slots[s0].algs[a] = st
    BY <1>8
  <2> HIDE DEF x
  <2> QED
    BY <2>1, <2>2, PromoteKeeps
<1>11. \A s \in Slots : slots'[s].ctx = slots[s].ctx /\ (s # s0 => slots'[s].algs = slots[s].algs)
  BY RunSignoffSlots
<1>12. ASSUME NEW us \in TaskSpecs, NEW st \in {"SCHEDULED", "RESOURCELESS"}
       PROVE  InState(us, st)' <=> InState(us, st) /\ us # ts
  <2>1. /\ us.alg \in Algs /\ us.evt \in Events
        /\ owner[us.evt] = "scheduler" => slotOf[us.evt] \in Slots
    BY DEF SchedulerInv, ContextsBorn, TaskSpecs
  <2>2. us = ts <=> us.alg = ts.alg /\ us.evt = ts.evt
    BY <1>2, SpecEquality
  <2>3. slots[s0].ctx = ts.evt
    BY <1>5 DEF InState
  <2>4. CASE us.evt = ts.evt
    <3>1. /\ InState(us, st)  <=> owner[ts.evt] = "scheduler" /\ slots[s0].algs[us.alg] = st
          /\ InState(us, st)' <=> owner[ts.evt] = "scheduler" /\ slots'[s0].algs[us.alg] = st
      BY <1>1, <1>2, <1>11, <2>3, <2>4 DEF InState
    <3>2. slots'[s0].algs[us.alg] = st <=> us.alg # ts.alg /\ slots[s0].algs[us.alg] = st
      BY <1>10, <2>1
    <3> QED
      BY <2>2, <2>4, <3>1, <3>2
  <2>5. CASE us.evt # ts.evt
    BY <1>1, <1>2, <1>11, <2>1, <2>3, <2>5 DEF InState
  <2> QED
    BY <2>4, <2>5
<1>13. ~InState(ts, "RESOURCELESS")
  BY <1>5 DEF InState
<1> QED
  BY <1>2, <1>5, <1>6, <1>12, <1>13

\* the closure of signoff(),
LEMMA RunSignoffBacked ==
  ASSUME SchedulerInv, EventsPlaced, WorkBacked, RunSignoff
  PROVE  WorkBacked'
<1> DEFINE ts == Head(actionsQueue).ts
<1>1. /\ ts \in TaskSpecs /\ InState(ts, "SCHEDULED") /\ ~HasTask(ts)
      /\ \A us \in TaskSpecs : /\ InState(us, "SCHEDULED")' <=> InState(us, "SCHEDULED") /\ us # ts
                               /\ InState(us, "RESOURCELESS")' <=> InState(us, "RESOURCELESS")
                               /\ SignoffQueued(us)' <=> SignoffQueued(us) /\ us # ts
                               /\ OccursOnce(actionsQueue, SignoffAction(us)) =>
                                    OccursOnce(actionsQueue', SignoffAction(us))
  BY RunSignoffStates
<1>2. UNCHANGED <<tasks, retryQueue, closing>> /\ sched' = AtCheck
  BY DEF RunSignoff, activeVars
<1> HIDE DEF ts
<1>3. \A t \in tasks : t.ts \in TaskSpecs /\ t.ts # ts
  BY <1>1, TaskType DEF HasTask
<1>4. \A us \in TaskSpecs : HasTask(us)' <=> HasTask(us)
  BY <1>2 DEF HasTask
<1>5. TasksBacked'
  BY <1>1, <1>2, <1>3, <1>4 DEF WorkBacked, TasksBacked
<1>6. RetriesBacked'
  BY <1>1, <1>2 DEF WorkBacked, RetriesBacked
<1>7. TodoReady'
  BY <1>2 DEF TodoReady, AtCheck, AtPop
<1> QED
  BY <1>5, <1>6, <1>7 DEF WorkBacked

\* the closure of pushNewEvent,
LEMMA RunNewEventBacked ==
  ASSUME SchedulerInv, SchedulerInv', EventsPlaced, WorkBacked, RunNewEvent
  PROVE  WorkBacked'
<1> DEFINE e == Head(actionsQueue).ts.evt
           s == slotOf[e]
<1>1. /\ e \in Events /\ owner[e] = "scheduler" /\ s \in Slots
      /\ Head(actionsQueue) = NewEventAction(e) /\ ~Resident(e) /\ slots[s].ctx = NoEvent
  BY NewEventAccepted
<1>2. /\ slots'[s].ctx = e
      /\ \A a \in Algs : slots'[s].algs[a] \in {"INITIAL", "CONTROLREADY", "DATAREADY"}
      /\ \A t \in Slots : t # s => slots'[t] = slots[t]
      /\ sched' = StartIterate(slots', retryQueue)
      /\ UNCHANGED <<retryQueue, tasks, owner, slotOf, closing>>
  BY RunNewEventSlots
<1>3. actionsQueue # <<>> /\ actionsQueue' = Tail(actionsQueue)
  BY DEF RunNewEvent, PopAction
<1>4. \A ts \in TaskSpecs : /\ SignoffQueued(ts)' <=> SignoffQueued(ts)
                            /\ OccursOnce(actionsQueue, SignoffAction(ts)) =>
                                 OccursOnce(actionsQueue', SignoffAction(ts))
  BY <1>1, <1>3, SignoffFrame, ActionsDiffer
<1> HIDE DEF e, s
<1>5. ASSUME NEW ts \in TaskSpecs PROVE StateKept(ts)
  <2>1. /\ ts.alg \in Algs /\ ts.evt \in Events
        /\ owner[ts.evt] = "scheduler" => slotOf[ts.evt] \in Slots
    BY DEF SchedulerInv, ContextsBorn, TaskSpecs
  <2>2. ts.evt # NoEvent /\ slots[s].ctx # ts.evt
    BY <1>1, <2>1 DEF Events, NoEvent
  <2> QED
    BY <1>1, <1>2, <2>1, <2>2 DEF StateKept, InState
<1>6. TodoReady'
  <2>1. slots' \in [Slots -> SlotState]
    BY DEF SchedulerInv, TypeOK
  <2> QED
    BY <1>2, <2>1, StartIterateReady DEF TodoReady
<1> QED
  BY <1>2, <1>4, <1>5, <1>6, BackedFrame

\* the end of the turn for a slot: an event that leaves has no algorithm that
\* something stands behind,
LEMMA SlotUpdateBacked ==
  ASSUME SchedulerInv, SchedulerInv', EventsPlaced, WorkBacked, SlotUpdate
  PROVE  WorkBacked'
<1> DEFINE s == sched.slot
           e == slots[s].ctx
<1>1. /\ s \in Slots /\ e \in Events
      /\ SlotFreed(s, e) \/ SlotKept(s)
      /\ sched' = FromSlot(s + 1, slots')
      /\ UNCHANGED <<slotOf, actionsQueue, retryQueue, tasks, closing>>
  BY SlotUpdateEffect
<1>2. /\ \A ts \in TaskSpecs : SignoffQueued(ts)' <=> SignoffQueued(ts)
      /\ \A ts \in TaskSpecs : OccursOnce(actionsQueue, SignoffAction(ts)) =>
                               OccursOnce(actionsQueue', SignoffAction(ts))
  BY <1>1 DEF SignoffQueued
<1>3. TodoReady'
  <2>1. slots' \in [Slots -> SlotState] /\ s + 1 \in Int
    BY <1>1, EventContextsAssumption DEF SchedulerInv, TypeOK, Slots
  <2> QED
    BY <1>1, <2>1, FromSlotReady DEF TodoReady
<1>4. CASE SlotKept(s)
  <2>1. \A ts \in TaskSpecs : StateKept(ts)
    BY <1>1, <1>4, SlotsKept DEF SlotKept
  <2> QED
    BY <1>1, <1>2, <1>3, <2>1, BackedFrame
<1>5. CASE SlotFreed(s, e)
  <2>1. slots[s] \in SlotState /\ slots'[s].ctx = NoEvent /\ \A t \in Slots : t # s => slots'[t] = slots[t]
    BY <1>1, <1>5 DEF SlotFreed, SchedulerInv, TypeOK, SlotState
  <2>2. \A a \in Algs : slots[s].algs[a] \notin {"SCHEDULED", "RESOURCELESS"}
    BY <1>5, <2>1 DEF SlotFreed, EventDone, IsStalled, ContainsAny, Active, Waiting, SlotState
  <2>3. owner[e] = "scheduler" /\ slotOf[e] = s
    BY <1>1 DEF EventsPlaced, SlotsOwned, Events, NoEvent
  <2>4. \A d \in Events : d # e => owner'[d] = owner[d]
    BY <1>1, <1>5 DEF SlotFreed, SchedulerInv, TypeOK
  <2> HIDE DEF s, e
  <2>5. ASSUME NEW ts \in TaskSpecs PROVE StateKept(ts)
    <3>1. /\ ts.alg \in Algs /\ ts.evt \in Events /\ ts.evt # NoEvent
          /\ owner[ts.evt] = "scheduler" => slotOf[ts.evt] \in Slots
      BY DEF SchedulerInv, ContextsBorn, TaskSpecs, Events, NoEvent
    <3>2. CASE ts.evt = e
      BY <1>1, <2>1, <2>2, <2>3, <3>1, <3>2 DEF StateKept, InState
    <3>3. CASE ts.evt # e
      <4>1. owner'[ts.evt] = owner[ts.evt] /\ slotOf'[ts.evt] = slotOf[ts.evt]
        BY <1>1, <2>4, <3>1, <3>3
      <4>2. CASE slotOf[ts.evt] = s
        BY <2>1, <3>1, <3>3, <4>1, <4>2 DEF StateKept, InState, e
      <4>3. CASE slotOf[ts.evt] # s
        BY <2>1, <3>1, <4>1, <4>3 DEF StateKept, InState
      <4> QED
        BY <4>2, <4>3
    <3> QED
      BY <3>2, <3>3
  <2> QED
    BY <1>1, <1>2, <1>3, <2>5, BackedFrame
<1> QED
  BY <1>1, <1>4, <1>5

\* the calls that change who holds an event: an event that changes hands was
\* not in a slot, and one that is in a slot keeps its owner,
LEMMA OwnerChangeKeeps ==
  ASSUME SchedulerInv, EventsPlaced, NEW e \in Events, ~Resident(e), slots' = slots,
         \A d \in Events : d # e => owner'[d] = owner[d] /\ slotOf'[d] = slotOf[d],
         slotOf'[e] \in Slots
  PROVE  \A ts \in TaskSpecs : StateKept(ts)
<1> SUFFICES ASSUME NEW ts \in TaskSpecs PROVE StateKept(ts)
  OBVIOUS
<1>1. /\ ts.evt \in Events /\ owner[ts.evt] = "scheduler" => slotOf[ts.evt] \in Slots
  BY DEF SchedulerInv, ContextsBorn, TaskSpecs
<1>2. CASE ts.evt = e
  BY <1>1, <1>2 DEF StateKept, InState, Resident
<1>3. CASE ts.evt # e
  BY <1>1, <1>3, Zenon DEF StateKept, InState, TaskSpecs
<1> QED
  BY <1>2, <1>3

\* and so every call of the client.
LEMMA ClientBacked ==
  ASSUME SchedulerInv, EventsPlaced, WorkBacked, Client
  PROVE  WorkBacked'
<1> USE DEF slotVars, queueVars, taskVars, poolVars, statusVars, ctxVars, activeVars
<1>0. ASSUME UNCHANGED <<slots, actionsQueue, tasks, retryQueue, sched>>,
             closing' = "no" => closing = "no",
             \A ts \in TaskSpecs : StateKept(ts)
      PROVE  WorkBacked'
  <2>1. \A ts \in TaskSpecs : SignoffQueued(ts)' <=> SignoffQueued(ts)
    BY <1>0 DEF SignoffQueued
  <2>2. TodoReady'
    BY <1>0 DEF WorkBacked, TodoReady
  <2> QED
    BY <1>0, <2>1, <2>2, BackedFrame
<1>1. ASSUME NEW e \in Events, NEW s \in Slots \ InUse, PushNewEvent(e, s) PROVE WorkBacked'
  <2>1. /\ owner[e] = "unborn" /\ owner' = [owner EXCEPT ![e] = "scheduler"]
        /\ slotOf' = [slotOf EXCEPT ![e] = s]
        /\ actionsQueue' = Append(actionsQueue, NewEventAction(e))
        /\ UNCHANGED <<slots, tasks, retryQueue, closing, sched>>
    BY <1>1 DEF PushNewEvent
  <2>2. /\ slotOf'[e] \in Slots
        /\ \A d \in Events : d # e => owner'[d] = owner[d] /\ slotOf'[d] = slotOf[d]
    BY <2>1 DEF SchedulerInv, TypeOK
  <2>3. ~Resident(e)
    BY <2>1 DEF EventsPlaced, SlotsOwned, Resident, Events, NoEvent
  <2>4. \A ts \in TaskSpecs : StateKept(ts)
    BY <2>1, <2>2, <2>3, OwnerChangeKeeps
  <2>5. NewEventAction(e) \in Actions
    BY DEF NewEventAction, Actions, TaskSpec
  <2>6. \A ts \in TaskSpecs : /\ SignoffQueued(ts)' <=> SignoffQueued(ts)
                              /\ OccursOnce(actionsQueue, SignoffAction(ts)) =>
                                   OccursOnce(actionsQueue', SignoffAction(ts))
    BY <2>1, <2>5, SignoffFrame, ActionsDiffer
  <2>7. TodoReady'
    BY <2>1 DEF WorkBacked, TodoReady
  <2> QED
    BY <2>1, <2>4, <2>6, <2>7, BackedFrame
<1>2. ASSUME NEW s \in Slots, ResetOnly(s) PROVE WorkBacked'
  BY <1>0, <1>2, SlotsKept DEF ResetOnly
<1>3. CASE TryPopFinishedEvent
  <2> DEFINE e == Head(finishedEvents)
  <2>1. /\ finishedEvents # <<>> /\ owner' = [owner EXCEPT ![e] = "client"]
        /\ UNCHANGED <<slots, actionsQueue, tasks, retryQueue, slotOf, closing, sched>>
    BY <1>3 DEF TryPopFinishedEvent
  <2>2. finishedEvents \in Seq(Events) /\ e \in Events
    BY <2>1 DEF SchedulerInv, TypeOK
  <2>3. Finished(e)
    BY <2>1, <2>2, TailOccurs DEF Finished
  <2> HIDE DEF e
  <2>4. ~Resident(e) /\ slotOf[e] \in Slots
    BY <2>2, <2>3 DEF EventsPlaced, OnePlace, SchedulerInv, ContextsBorn
  <2>5. \A d \in Events : d # e => owner'[d] = owner[d] /\ slotOf'[d] = slotOf[d]
    BY <2>1 DEF SchedulerInv, TypeOK
  <2>6. slotOf'[e] \in Slots
    BY <2>1, <2>4
  <2> QED
    BY <1>0, <2>1, <2>2, <2>4, <2>5, <2>6, OwnerChangeKeeps
<1>4. ASSUME NEW e \in Events, DeleteContext(e) PROVE WorkBacked'
  <2>1. /\ owner[e] = "client" /\ owner' = [owner EXCEPT ![e] = "deleted"]
        /\ UNCHANGED <<slots, actionsQueue, tasks, retryQueue, slotOf, closing, sched>>
    BY <1>4 DEF DeleteContext
  <2>2. ~Resident(e)
    BY <2>1 DEF EventsPlaced, SlotsOwned, Resident, Events, NoEvent
  <2>3. slotOf'[e] \in Slots
    BY <2>1 DEF SchedulerInv, ContextsBorn
  <2>4. \A d \in Events : d # e => owner'[d] = owner[d] /\ slotOf'[d] = slotOf[d]
    BY <2>1 DEF SchedulerInv, TypeOK
  <2> QED
    BY <1>0, <2>1, <2>2, <2>3, <2>4, OwnerChangeKeeps
<1>5. CASE Deactivate
  BY <1>0, <1>5, SlotsKept DEF Deactivate
<1> QED
  BY <1>1, <1>2, <1>3, <1>4, <1>5 DEF Client, PopFinishedEvent

\* Without blocking tasks every step keeps WorkBacked.
LEMMA StepBacked ==
  ASSUME SchedulerInv, SchedulerInv', EventsPlaced, WorkBacked, Blocking = {},
         [SchedulerNext]_schedulerVars
  PROVE  WorkBacked'
<1> USE DEF slotVars, queueVars, taskVars, poolVars, statusVars, ctxVars, activeVars
<1>0. ASSUME UNCHANGED <<slots, owner, slotOf, tasks, retryQueue>>, TodoReady',
             \/ closing' = closing /\ actionsQueue' = actionsQueue
             \/ /\ actionsQueue # <<>> /\ actionsQueue' = Tail(actionsQueue)
                /\ closing' = closing
                /\ closing = "no" => Head(actionsQueue).kind # "signoff"
             \/ /\ closing' # "no"
                /\ \/ actionsQueue' = actionsQueue
                   \/ actionsQueue' = Append(actionsQueue, DeactivateAction)
      PROVE  WorkBacked'
  <2>1. \A ts \in TaskSpecs : StateKept(ts)
    BY <1>0, SlotsKept
  <2>2. DeactivateAction \in Actions /\ \A ts : SignoffAction(ts).kind = "signoff"
    BY DEF Actions, SignoffAction
  <2>3. CASE actionsQueue' = actionsQueue
    BY <1>0, <2>1, <2>3, BackedFrame DEF SignoffQueued
  <2>4. CASE /\ actionsQueue # <<>> /\ actionsQueue' = Tail(actionsQueue)
             /\ closing' = closing
             /\ closing = "no" => Head(actionsQueue).kind # "signoff"
    <3>1. \A ts \in TaskSpecs :
            /\ SignoffQueued(ts)' => SignoffQueued(ts)
            /\ closing = "no" => (SignoffQueued(ts) => SignoffQueued(ts)')
            /\ OccursOnce(actionsQueue, SignoffAction(ts)) =>
                 OccursOnce(actionsQueue', SignoffAction(ts))
      BY <2>2, <2>4, SignoffFrame
    <3> QED
      BY <1>0, <2>1, <2>4, <3>1, BackedFrame
  <2>5. CASE closing' # "no" /\ actionsQueue' = Append(actionsQueue, DeactivateAction)
    <3>1. \A ts \in TaskSpecs :
            /\ SignoffQueued(ts)' <=> SignoffQueued(ts)
            /\ OccursOnce(actionsQueue, SignoffAction(ts)) =>
                 OccursOnce(actionsQueue', SignoffAction(ts))
      BY <2>2, <2>5, SignoffFrame, ActionsDiffer
    <3> QED
      BY <1>0, <2>1, <2>5, <3>1, BackedFrame
  <2> QED
    BY <1>0, <2>3, <2>4, <2>5
<1>1. CASE RunNewEvent
  BY <1>1, RunNewEventBacked
<1>2. CASE RunSignoff
  BY <1>2, RunSignoffBacked
<1>3. CASE RunDeactivate
  <2>1. TodoReady'
    BY <1>3 DEF RunDeactivate, TodoReady, AtCheck, AtPop
  <2> QED
    BY <1>0, <1>3, <2>1 DEF RunDeactivate, PopAction
<1>4. CASE CheckUpdate
  <2>1. slots \in [Slots -> SlotState]
    BY DEF SchedulerInv, TypeOK
  <2>2. UNCHANGED slots /\ (sched' = StartIterate(slots, retryQueue) \/ sched' = AtPop)
    BY <1>4 DEF CheckUpdate
  <2>3. TodoReady'
    BY <2>1, <2>2, StartIterateReady DEF TodoReady, AtPop
  <2> QED
    BY <1>0, <1>4, <2>3 DEF CheckUpdate
<1>5. CASE RetrySchedule
  BY <1>5, RetryScheduleBacked
<1>6. CASE SlotSchedule
  BY <1>6, SlotScheduleBacked
<1>7. CASE SlotUpdate
  BY <1>7, SlotUpdateBacked
<1>8. CASE Exit
  <2>1. TodoReady'
    BY <1>8 DEF Exit, Exited, TodoReady, AtPop
  <2> QED
    BY <1>0, <1>8, <2>1 DEF Exit
<1>9. ASSUME NEW t \in tasks, NEW out \in Outcome, TaskExecute(t, out) PROVE WorkBacked'
  <2> DEFINE u == [t EXCEPT !.stage = "executed", !.failed = (out = "fail"),
                            !.seen = eventStatus[slotOf[t.ts.evt]]]
  <2>1. /\ tasks' = (tasks \ {t}) \cup {u}
        /\ UNCHANGED <<slots, owner, slotOf, actionsQueue, retryQueue, closing, sched>>
    BY <1>9 DEF TaskExecute
  <2>2. u.ts = t.ts
    BY TaskType DEF Tasks
  <2> HIDE DEF u
  <2> QED
    BY <2>1, <2>2, TaskUpdateBacked
<1>10. ASSUME NEW t \in tasks, TaskRelease(t) PROVE WorkBacked'
  <2> DEFINE u == [t EXCEPT !.stage = "released"]
  <2>1. /\ tasks' = (tasks \ {t}) \cup {u}
        /\ UNCHANGED <<slots, owner, slotOf, actionsQueue, retryQueue, closing, sched>>
    BY <1>10 DEF TaskRelease
  <2>2. u.ts = t.ts
    BY TaskType DEF Tasks
  <2> HIDE DEF u
  <2> QED
    BY <2>1, <2>2, TaskUpdateBacked
<1>11. ASSUME NEW t \in tasks, TaskSignoff(t) PROVE WorkBacked'
  BY <1>11, TaskSignoffBacked
<1>12. CASE Client
  BY <1>12, ClientBacked
<1>13. CASE Deactivation \/ UNCHANGED schedulerVars
  <2>1. UNCHANGED <<slots, owner, slotOf, tasks, retryQueue, sched>>
    BY <1>13 DEF Deactivation, DrainQueue, PushDeactivate, schedulerVars
  <2>2. TodoReady'
    BY <2>1 DEF WorkBacked, TodoReady
  <2> QED
    BY <1>0, <1>13, <2>1, <2>2 DEF Deactivation, DrainQueue, PushDeactivate, schedulerVars
<1> QED
  BY <1>1, <1>2, <1>3, <1>4, <1>5, <1>6, <1>7, <1>8, <1>9, <1>10, <1>11, <1>12, <1>13
  DEF SchedulerNext, SchedulerThread, Task, Terminated

\* The inductive invariant of this module.
LEMMA WorkInvariant == Blocking = {} => (SchedulerSpec => []WorkBacked)
<1> SUFFICES ASSUME Blocking = {} PROVE SchedulerSpec => []WorkBacked
  OBVIOUS
<1>1. SchedulerInv /\ SchedulerInv' /\ EventsPlaced /\ WorkBacked
        /\ [SchedulerNext]_schedulerVars => WorkBacked'
  BY StepBacked
<1> QED
  BY <1>1, InitBacked, SchedulerInvariant, EventsInOnePlace, PTL DEF SchedulerSpec

\* A task and its sign-off never outlive the EventContext they point to, and
\* there is one for an algorithm and event, as long as blocking tasks are off.
THEOREM TasksKeepTheirEvent == Blocking = {} => (SchedulerSpec => []TasksOwnTheirEvent)
<1> SUFFICES ASSUME Blocking = {} PROVE SchedulerSpec => []TasksOwnTheirEvent
  OBVIOUS
<1>1. SchedulerInv /\ WorkBacked => TasksOwnTheirEvent
  <2> SUFFICES ASSUME SchedulerInv, WorkBacked PROVE TasksOwnTheirEvent
    OBVIOUS
  <2>1. \A t \in tasks :
          /\ InState(t.ts, "SCHEDULED") /\ ~SignoffQueued(t.ts)
          /\ \A u \in tasks : u.ts = t.ts => u = t
    BY DEF WorkBacked, TasksBacked
  <2>2. ASSUME NEW i \in DOMAIN actionsQueue, actionsQueue[i].kind = "signoff"
        PROVE  /\ InState(actionsQueue[i].ts, "SCHEDULED")
               /\ \A j \in DOMAIN actionsQueue : actionsQueue[j] = actionsQueue[i] => j = i
    <3> DEFINE ts == actionsQueue[i].ts
    <3>1. actionsQueue[i] \in Actions
      BY DEF SchedulerInv, TypeOK
    <3>2. ts \in TaskSpecs /\ actionsQueue[i] = SignoffAction(ts)
      BY <2>2, <3>1, ActionShape
    <3>3. SignoffQueued(ts)
      BY <3>2 DEF SignoffQueued
    <3>4. InState(ts, "SCHEDULED") /\ OccursOnce(actionsQueue, SignoffAction(ts))
      BY <3>2, <3>3 DEF WorkBacked, TasksBacked
    <3> QED
      BY <3>2, <3>4 DEF OccursOnce
  <2> QED
    BY <2>1, <2>2 DEF TasksOwnTheirEvent
<1> QED
  BY <1>1, WorkInvariant, SchedulerInvariant, PTL

\* Behind every SCHEDULED algorithm there is a task or its sign-off, and the
\* retry queue is the set of RESOURCELESS algorithms, when tasks are spawned
\* (ThreadPoolSize is not -100) and blocking tasks are off.
THEOREM StatesAreBacked ==
  Blocking = {} /\ ~DirectExecution => (SchedulerSpec => []StatesBacked)
<1> SUFFICES ASSUME Blocking = {}, ~DirectExecution PROVE SchedulerSpec => []StatesBacked
  OBVIOUS
<1>1. SchedulerInv /\ WorkBacked => StatesBacked
  <2> SUFFICES ASSUME SchedulerInv, WorkBacked PROVE StatesBacked
    OBVIOUS
  <2>1. ScheduledHasTask
    BY DEF WorkBacked, TasksBacked, ScheduledHasTask, HasTask
  <2>2. RetryQueueExact
    <3>1. \A i \in DOMAIN retryQueue : retryQueue[i] \in TaskSpecs
      BY DEF SchedulerInv, TypeOK
    <3>2. ASSUME NEW i \in DOMAIN retryQueue
          PROVE  /\ InState(retryQueue[i], "RESOURCELESS")
                 /\ \A j \in DOMAIN retryQueue : retryQueue[j] = retryQueue[i] => j = i
      <4>1. Occurs(retryQueue, retryQueue[i])
        BY DEF Occurs
      <4> QED
        BY <3>1, <4>1 DEF WorkBacked, RetriesBacked, OccursOnce
    <3>3. \A ts \in TaskSpecs : InState(ts, "RESOURCELESS") =>
            \E i \in DOMAIN retryQueue : retryQueue[i] = ts
      BY DEF WorkBacked, RetriesBacked, Occurs
    <3> QED
      BY <3>2, <3>3 DEF RetryQueueExact
  <2> QED
    BY <2>1, <2>2 DEF StatesBacked
<1> QED
  BY <1>1, WorkInvariant, SchedulerInvariant, PTL

\* A step that spawns a task takes an algorithm that waits for it.
LEMMA StepSpawns ==
  ASSUME SchedulerInv, EventsPlaced, WorkBacked, [SchedulerNext]_schedulerVars
  PROVE  \A t \in tasks' \ tasks : t.stage = "queued" =>
           InState(t.ts, "DATAREADY") \/ InState(t.ts, "RESOURCELESS")
<1> USE DEF slotVars, queueVars, taskVars, poolVars, statusVars, ctxVars, activeVars
<1> DEFINE Goal == \A t \in tasks' \ tasks : t.stage = "queued" =>
                     InState(t.ts, "DATAREADY") \/ InState(t.ts, "RESOURCELESS")
<1>1. ASSUME NEW ts, NEW pending, Schedule(ts, pending),
             InState(ts, "DATAREADY") \/ InState(ts, "RESOURCELESS")
      PROVE  Goal
  <2>1. tasks' = tasks \/ \E k \in Nat : tasks' = tasks \cup {NewTask(ts, k)}
    BY <1>1 DEF Schedule, SpawnTask
  <2>2. \A k \in Nat : NewTask(ts, k).ts = ts
    BY DEF NewTask
  <2> QED
    BY <1>1, <2>1, <2>2
<1>2. CASE RetrySchedule
  <2>1. retryQueue # <<>> /\ Head(retryQueue) \in TaskSpecs /\ retryQueue \in Seq(TaskSpecs)
    BY <1>2, ScheduledSpecs DEF SchedulerInv, TypeOK
  <2>2. Occurs(retryQueue, Head(retryQueue))
    BY <2>1, TailOccurs
  <2>3. InState(Head(retryQueue), "RESOURCELESS")
    BY <2>1, <2>2 DEF WorkBacked, RetriesBacked
  <2>4. Schedule(Head(retryQueue), Tail(retryQueue))
    BY <1>2 DEF RetrySchedule
  <2> QED
    BY <1>1, <2>3, <2>4
<1>3. CASE SlotSchedule
  <2> DEFINE a  == Min(sched.todo)
             s  == sched.slot
             ts == TaskSpec(a, slots[s].ctx)
  <2>1. a \in sched.todo /\ s \in Slots /\ slots[s].ctx \in Events
        /\ ts.alg = a /\ ts.evt = slots[s].ctx
    BY <1>3, ScheduledSpecs DEF TaskSpec
  <2>2. sched.at = "slot" /\ Schedule(ts, retryQueue)
    BY <1>3 DEF SlotSchedule
  <2> HIDE DEF a, ts
  <2>3. owner[ts.evt] = "scheduler" /\ slotOf[ts.evt] = s
    BY <2>1 DEF EventsPlaced, SlotsOwned, Events, NoEvent
  <2>4. InState(ts, "DATAREADY")
    BY <2>1, <2>2, <2>3 DEF WorkBacked, TodoReady, InState
  <2> QED
    BY <1>1, <2>2, <2>4
<1>4. CASE Task
  <2>1. ASSUME NEW t \in tasks, NEW out \in Outcome, TaskExecute(t, out) PROVE Goal
    <3> DEFINE u == [t EXCEPT !.stage = "executed", !.failed = (out = "fail"),
                              !.seen = eventStatus[slotOf[t.ts.evt]]]
    <3>1. tasks' = (tasks \ {t}) \cup {u} /\ u.stage = "executed"
      BY <2>1, TaskType DEF TaskExecute, Tasks
    <3> QED
      BY <3>1
  <2>2. ASSUME NEW t \in tasks, TaskRelease(t) PROVE Goal
    <3> DEFINE u == [t EXCEPT !.stage = "released"]
    <3>1. tasks' = (tasks \ {t}) \cup {u} /\ u.stage = "released"
      BY <2>2, TaskType DEF TaskRelease, Tasks
    <3> QED
      BY <3>1
  <2>3. ASSUME NEW t \in tasks, TaskSignoff(t) PROVE Goal
    BY <2>3 DEF TaskSignoff
  <2> QED
    BY <1>4, <2>1, <2>2, <2>3 DEF Task
<1>5. CASE tasks' = tasks
  BY <1>5
<1>6. RunNewEvent \/ RunSignoff \/ RunDeactivate \/ CheckUpdate \/ SlotUpdate \/ Exit
        => tasks' = tasks
  BY DEF RunNewEvent, RunSignoff, RunDeactivate, CheckUpdate, SlotUpdate, Exit
<1>7. Client \/ Deactivation \/ UNCHANGED schedulerVars => tasks' = tasks
  BY DEF Client, PushNewEvent, ResetOnly, PopFinishedEvent, TryPopFinishedEvent, DeleteContext,
         Deactivate, Deactivation, DrainQueue, PushDeactivate, schedulerVars
<1> QED
  BY <1>2, <1>3, <1>4, <1>5, <1>6, <1>7 DEF SchedulerNext, SchedulerThread, Terminated

\* Without blocking tasks an algorithm is never started while it runs or after
\* it has run in an event; SchedulerThrottle.cfg shows that with them it is.
THEOREM SpawnedWhenReady == Blocking = {} => (SchedulerSpec => ScheduledWhenReady)
<1> SUFFICES ASSUME Blocking = {} PROVE SchedulerSpec => ScheduledWhenReady
  OBVIOUS
<1>1. SchedulerInv /\ EventsPlaced /\ WorkBacked /\ [SchedulerNext]_schedulerVars =>
        [\A t \in tasks' \ tasks : t.stage = "queued" =>
           InState(t.ts, "DATAREADY") \/ InState(t.ts, "RESOURCELESS")]_schedulerVars
  BY StepSpawns
<1> QED
  BY <1>1, SchedulerInvariant, EventsInOnePlace, WorkInvariant, PTL
  DEF SchedulerSpec, ScheduledWhenReady
=============================================================================
