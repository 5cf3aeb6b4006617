--------------------- MODULE HiveSlimEventLoopMgrProofs ---------------------
(***************************************************************************)
(* The event loop with the scheduler and the whiteboard, for every run,    *)
(* number of stores and events, and precedence graph: the loop keeps to    *)
(* the client protocol of the scheduler, so every theorem about            *)
(* SchedulerSpec holds in the job; the stores are partitioned; and a loop  *)
(* that ends has processed all it created.                                 *)
(***************************************************************************)
EXTENDS HiveSlimEventLoopMgr, SchedulerContractProofs, SequenceTheorems

-----------------------------------------------------------------------------
(* The invariant of the loop.                                              *)

LoopType ==
  /\ run \in Runs
  /\ loop \in {"head", "create", "tryPop", "flush", "ended", "joining", "done"}
  /\ nevt \in Nat /\ createdEvts \in Nat \cup {-1}
  /\ finishedEvts \in Nat /\ skippedEvts \in Nat
  /\ newEvtAllowed \in BOOLEAN /\ loopEnded \in BOOLEAN /\ drainFailed \in BOOLEAN
  /\ batch \in Seq(Events \cup {NoEvent})
  /\ eventNumber \in [Slots -> Int]
  /\ freeStores \in Seq(Slots)

\* Until the scheduler is finalized nobody deactivates it.
LoopOpen == loop \notin {"joining", "done"} => closing = "no"

\* Event numbers ascend.
EventsNumbered == \A e \in Events : owner[e] # "unborn" => e < nevt

\* The contexts the loop owns are the ones drainScheduler has collected, each
\* once, and it has flushed them when it returns.
BatchOwned ==
  /\ \A e \in Events : owner[e] = "client" <=> Occurs(batch, e)
  /\ \A e \in Events : OccursOnce(batch, e)
  /\ loop \notin {"tryPop", "flush"} => batch = <<>>

\* The events that keep a store: the live ones, and the ones iterate() has
\* dropped, whose store nobody frees.
Holding == {e \in Events : owner[e] \in {"scheduler", "client", "lost"}}

\* StoresPartitioned, for these events.
StoresHeld ==
  /\ \A s \in Slots : eventNumber[s] = NoEvent <=> Occurs(freeStores, s)
  /\ \A s \in Slots : OccursOnce(freeStores, s)
  /\ \A e \in Holding : eventNumber[slotOf[e]] = e
  /\ \A s \in Slots : eventNumber[s] # NoEvent =>
       (\E e \in Holding : slotOf[e] = s) \/ (createdEvts = -1 /\ eventNumber[s] >= InputSize)

\* The loop tries the next event at once only after one of the black list.
CreateMore == loop = "create" => createdEvts >= 0 /\ EventsLeft(createdEvts) /\ ~loopEnded

LoopInv == LoopType /\ LoopOpen /\ EventsNumbered /\ BatchOwned /\ StoresHeld /\ CreateMore

\* What a run is.
LEMMA RunType ==
  ASSUME LoopType
  PROVE  /\ MaxEvt \in Int /\ InputSize \in Nat /\ InputSize <= MaxEvents
         /\ AbortOnFailure \in BOOLEAN
BY LoopAssumption, EventContextsAssumption DEF LoopType, MaxEvt, InputSize, AbortOnFailure

\* The next free store belongs to no event.
LEMMA NextStoreFree ==
  ASSUME SchedulerInv, LoopInv, freeStores # <<>>, NEW s, s = Head(freeStores)
  PROVE  /\ s \in Slots \ InUse /\ eventNumber[s] = NoEvent
         /\ \A e \in Holding : slotOf[e] # s
         /\ \A t \in Slots : Occurs(Tail(freeStores), t) <=> Occurs(freeStores, t) /\ t # s
         /\ \A t \in Slots : OccursOnce(Tail(freeStores), t)
<1>1. freeStores \in Seq(Slots)
  BY DEF LoopInv, LoopType
<1>2. s \in Slots /\ Occurs(freeStores, s)
  BY <1>1, TailOccurs
<1>3. eventNumber[s] = NoEvent /\ OccursOnce(freeStores, s)
  BY <1>2 DEF LoopInv, StoresHeld
<1>4. \A e \in Holding : slotOf[e] # s
  BY <1>3 DEF LoopInv, StoresHeld, Holding, Events, NoEvent
<1>5. s \notin InUse
  BY <1>4 DEF InUse, Live, Holding
<1>6. \A t \in Slots : OccursOnce(Tail(freeStores), t)
  BY <1>1, TailOccurs DEF LoopInv, StoresHeld
<1>7. \A t \in Slots : Occurs(Tail(freeStores), t) <=> Occurs(freeStores, t) /\ t # s
  BY <1>1, <1>3, TailOccurs
<1> QED
  BY <1>2, <1>3, <1>4, <1>5, <1>6, <1>7

-----------------------------------------------------------------------------
(* The loop is a lawful client of the scheduler.                           *)

\* Where the loop thread is when it creates an event.
LEMMA WhenCreating ==
  ASSUME LoopInv, Creating
  PROVE  /\ closing = "no" /\ createdEvts >= 0 /\ EventsLeft(createdEvts) /\ ~loopEnded
         /\ batch = <<>>
<1>1. loop \in {"head", "create"}
  BY DEF Creating
<1>2. closing = "no" /\ batch = <<>>
  BY <1>1 DEF LoopInv, LoopOpen, BatchOwned
<1>3. createdEvts >= 0 /\ EventsLeft(createdEvts) /\ ~loopEnded
  BY DEF LoopInv, CreateMore, Creating, MayCreate, LoopOn
<1> QED
  BY <1>2, <1>3

\* Every step of the job is one the scheduler allows.
LEMMA StepProtocol ==
  ASSUME SchedulerInv, EventsPlaced, LoopInv, [Next]_vars
  PROVE  [SchedulerNext]_schedulerVars
<1>1. CASE CreateEvent
  <2>1. /\ Creating /\ nevt < InputSize /\ freeStores # <<>>
        /\ PushNewEvent(nevt, Head(freeStores))
    BY <1>1 DEF CreateEvent, AllocateStore
  <2>2. nevt \in Events
    BY <2>1, RunType, EventContextsAssumption DEF LoopInv, LoopType, Events
  <2>3. closing = "no" /\ Head(freeStores) \in Slots \ InUse
    BY <2>1, WhenCreating, NextStoreFree
  <2>4. \A d \in Events : owner[d] # "unborn" => d < nevt
    BY DEF LoopInv, EventsNumbered
  <2> QED
    BY <2>1, <2>2, <2>3, <2>4 DEF SchedulerNext, Client
<1>2. CASE SkipEvent
  <2>1. Creating /\ freeStores # <<>> /\ ResetOnly(Head(freeStores))
    BY <1>2 DEF SkipEvent, BounceStore
  <2>2. closing = "no" /\ Head(freeStores) \in Slots \ InUse
    BY <2>1, WhenCreating, NextStoreFree
  <2> QED
    BY <2>1, <2>2 DEF SchedulerNext, Client
<1>3. CASE WaitForEvent
  <2>1. loop = "head" /\ PopFinishedEvent
    BY <1>3 DEF WaitForEvent, Draining
  <2> QED
    BY <2>1 DEF SchedulerNext, Client, LoopInv, LoopOpen
<1>4. CASE TryPop
  BY <1>4 DEF TryPop, SchedulerNext, Client, LoopInv, LoopOpen
<1>5. CASE FlushEvent
  <2>1. loop = "flush" /\ batch # <<>>
    BY <1>5 DEF FlushEvent
  <2>2. closing = "no" /\ Head(batch) \in Events \cup {NoEvent}
    BY <2>1 DEF LoopInv, LoopOpen, LoopType
  <2>3. UNCHANGED schedulerVars \/ (Head(batch) # NoEvent /\ DeleteContext(Head(batch)))
    BY <1>5 DEF FlushEvent
  <2> QED
    BY <2>2, <2>3 DEF SchedulerNext, Client
<1>6. CASE FinalizeScheduler
  BY <1>6 DEF FinalizeScheduler, SchedulerNext, Client, Deactivate
<1>7. CASE SchedulerSide
  BY <1>7 DEF SchedulerSide, SchedulerNext
<1>8. CASE EndOfInput \/ NothingToWaitFor \/ DrainReturns \/ NextEventReturns \/ JoinScheduler
           \/ StopRun \/ UNCHANGED vars
  BY <1>8 DEF EndOfInput, NothingToWaitFor, DrainReturns, NextEventReturns, JoinScheduler,
              StopRun, vars
<1> QED
  BY <1>1, <1>2, <1>3, <1>4, <1>5, <1>6, <1>7, <1>8 DEF Next, Loop, Done

-----------------------------------------------------------------------------
(* Every step keeps LoopInv.                                               *)

\* The scheduler thread, the tasks and the deactivation take nothing from the
\* client: of an event they may only change that the scheduler has it, when
\* iterate() drops it.
LEMMA SideEffect ==
  ASSUME SchedulerInv, EventsPlaced, SchedulerThread \/ Task \/ Deactivation
  PROVE  /\ slotOf' = slotOf
         /\ \A e \in Events : owner'[e] = owner[e] \/ (owner[e] = "scheduler" /\ owner'[e] = "lost")
         /\ closing = "no" => closing' = "no"
<1> USE DEF slotVars, queueVars, taskVars, poolVars, statusVars, ctxVars, activeVars
<1>1. CASE SlotUpdate
  <2> DEFINE e == slots[sched.slot].ctx
  <2>1. e \in Events /\ owner[e] = "scheduler"
    BY <1>1 DEF SlotUpdate, SchedulerInv, TypeOK, CursorOK, SlotState, EventsPlaced, SlotsOwned
  <2>2. (owner' = owner \/ owner' = [owner EXCEPT ![e] = "lost"]) /\ UNCHANGED <<slotOf, closing>>
    BY <1>1 DEF SlotUpdate
  <2> HIDE DEF e
  <2> QED
    BY <2>1, <2>2 DEF SchedulerInv, TypeOK
<1>2. RunNewEvent \/ RunSignoff \/ RunDeactivate \/ CheckUpdate \/ RetrySchedule \/ SlotSchedule \/ Exit
        => UNCHANGED <<owner, slotOf, closing>>
  BY DEF RunNewEvent, RunSignoff, RunDeactivate, CheckUpdate, RetrySchedule, SlotSchedule, Exit
<1>3. Task => UNCHANGED <<owner, slotOf, closing>>
  BY DEF Task, TaskExecute, TaskRelease, TaskSignoff
<1>4. Deactivation => UNCHANGED <<owner, slotOf>> /\ closing # "no"
  BY DEF Deactivation, DrainQueue, PushDeactivate
<1> QED
  BY <1>1, <1>2, <1>3, <1>4 DEF SchedulerThread

\* A step that changes neither the stores nor what the loop has of the events.
LEMMA LoopFrame ==
  ASSUME LoopInv, LoopType', LoopOpen', CreateMore', BatchOwned',
         UNCHANGED <<eventNumber, freeStores, createdEvts, run, slotOf, nevt>>,
         \A e \in Events : (owner'[e] = "unborn" <=> owner[e] = "unborn")
                           /\ (e \in Holding' <=> e \in Holding)
  PROVE  LoopInv'
<1>1. Holding' = Holding
  BY DEF Holding
<1>2. EventsNumbered'
  BY DEF LoopInv, EventsNumbered
<1>3. StoresHeld'
  BY <1>1 DEF LoopInv, StoresHeld, InputSize
<1> QED
  BY <1>2, <1>3 DEF LoopInv

\* The scheduler's side,
LEMMA SideLoopInv ==
  ASSUME SchedulerInv, EventsPlaced, LoopInv, SchedulerSide
  PROVE  LoopInv'
<1> USE DEF countVars, drainVars, loopVars, boardVars
<1>1. UNCHANGED <<eventNumber, freeStores, run, loop, nevt, createdEvts, skippedEvts, finishedEvts,
                  newEvtAllowed, loopEnded, batch, drainFailed>>
  BY DEF SchedulerSide
<1>2. /\ slotOf' = slotOf /\ (closing = "no" => closing' = "no")
      /\ \A e \in Events : owner'[e] = owner[e] \/ (owner[e] = "scheduler" /\ owner'[e] = "lost")
  BY SideEffect DEF SchedulerSide
<1>3. LoopType' /\ LoopOpen' /\ CreateMore'
  BY <1>1, <1>2 DEF LoopInv, LoopType, LoopOpen, CreateMore, EventsLeft, MaxEvt
<1>4. BatchOwned'
  BY <1>1, <1>2 DEF LoopInv, BatchOwned
<1> QED
  BY <1>1, <1>2, <1>3, <1>4, LoopFrame DEF Holding

\* the loop's steps between two calls,
LEMMA QuietLoopInv ==
  ASSUME SchedulerInv, LoopInv, NothingToWaitFor \/ DrainReturns \/ NextEventReturns
                                \/ JoinScheduler \/ StopRun \/ UNCHANGED vars
  PROVE  LoopInv'
<1> USE DEF countVars, drainVars, loopVars, boardVars, schedulerVars, ctxVars, activeVars
<1>1. UNCHANGED <<eventNumber, freeStores, run, nevt, createdEvts, skippedEvts, finishedEvts,
                  owner, slotOf, closing>>
  BY DEF NothingToWaitFor, DrainReturns, NextEventReturns, JoinScheduler, StopRun, vars
<1>2. ASSUME LoopType', LoopOpen', CreateMore', BatchOwned' PROVE LoopInv'
  BY <1>1, <1>2, LoopFrame DEF Holding
<1>3. CASE NothingToWaitFor
  <2>1. batch = <<>> /\ batch' = <<NoEvent>> /\ loop' = "tryPop"
        /\ UNCHANGED <<newEvtAllowed, loopEnded, drainFailed>> /\ loop = "head"
    BY <1>3 DEF NothingToWaitFor, Draining, LoopInv, BatchOwned
  <2>2. batch' \in Seq(Events \cup {NoEvent})
    BY <2>1
  <2>3. LoopType' /\ LoopOpen' /\ CreateMore'
    BY <1>1, <2>1, <2>2 DEF LoopInv, LoopType, LoopOpen, CreateMore
  <2>4. \A e \in Events : ~Occurs(batch, e) /\ ~Occurs(batch', e)
    BY <2>1 DEF Occurs, Events, NoEvent
  <2>5. BatchOwned'
    BY <1>1, <2>1, <2>4 DEF LoopInv, BatchOwned, Occurs, OccursOnce
  <2> QED
    BY <1>2, <2>3, <2>5
<1>4. CASE DrainReturns
  <2>1. batch = <<>> /\ batch' = batch /\ loop' = "head" /\ loop = "flush"
        /\ newEvtAllowed' = TRUE /\ drainFailed' = FALSE
        /\ loopEnded' = (loopEnded \/ drainFailed)
    BY <1>4 DEF DrainReturns
  <2>2. LoopType' /\ LoopOpen' /\ CreateMore' /\ BatchOwned'
    BY <1>1, <2>1 DEF LoopInv, LoopType, LoopOpen, CreateMore, BatchOwned
  <2> QED
    BY <1>2, <2>2
<1>5. CASE NextEventReturns \/ JoinScheduler
  <2>1. /\ UNCHANGED <<newEvtAllowed, loopEnded, drainFailed, batch>>
        /\ (loop = "head" /\ loop' = "ended") \/ (loop = "joining" /\ loop' = "done")
    BY <1>5 DEF NextEventReturns, JoinScheduler
  <2>2. LoopType' /\ LoopOpen' /\ CreateMore' /\ BatchOwned'
    BY <1>1, <2>1 DEF LoopInv, LoopType, LoopOpen, CreateMore, BatchOwned
  <2> QED
    BY <1>2, <2>2
<1>6. CASE StopRun \/ UNCHANGED vars
  <2>1. UNCHANGED <<newEvtAllowed, loopEnded, drainFailed, batch, loop>>
    BY <1>6 DEF StopRun, vars
  <2>2. LoopType' /\ LoopOpen' /\ CreateMore' /\ BatchOwned'
    BY <1>1, <2>1 DEF LoopInv, LoopType, LoopOpen, CreateMore, BatchOwned, EventsLeft, MaxEvt
  <2> QED
    BY <1>2, <2>2
<1> QED
  BY <1>3, <1>4, <1>5, <1>6

\* the collection of finished events,
LEMMA CollectLoopInv ==
  ASSUME SchedulerInv, EventsPlaced, LoopInv, WaitForEvent \/ TryPop
  PROVE  LoopInv'
<1> USE DEF countVars, drainVars, loopVars, boardVars, schedulerVars, ctxVars, activeVars
<1>1. UNCHANGED <<eventNumber, freeStores, run, nevt, createdEvts, skippedEvts, finishedEvts,
                  newEvtAllowed, loopEnded, drainFailed, slotOf, closing>>
  BY DEF WaitForEvent, TryPop, PopFinishedEvent, TryPopFinishedEvent
<1>2. loop \notin {"joining", "done", "create"} /\ loop' \in {"tryPop", "flush"}
  BY DEF WaitForEvent, TryPop, Draining
<1>3. LoopOpen' /\ CreateMore'
  BY <1>1, <1>2 DEF LoopInv, LoopOpen, CreateMore
<1>4. CASE TryPopFinishedEvent /\ batch' = Append(batch, Head(finishedEvents))
  <2> DEFINE f == Head(finishedEvents)
  <2>1. finishedEvents # <<>> /\ finishedEvents \in Seq(Events)
    BY <1>4 DEF TryPopFinishedEvent, SchedulerInv, TypeOK
  <2>2. f \in Events /\ Occurs(finishedEvents, f)
    BY <2>1, TailOccurs
  <2>3. batch' = Append(batch, f) /\ batch \in Seq(Events \cup {NoEvent})
        /\ owner' = [owner EXCEPT ![f] = "client"]
    BY <1>4 DEF TryPopFinishedEvent, LoopInv, LoopType
  <2> HIDE DEF f
  <2>4. owner[f] = "scheduler"
    BY <2>2 DEF EventsPlaced, OnePlace, Finished
  <2>5. ~Occurs(batch, f)
    BY <2>2, <2>4 DEF LoopInv, BatchOwned
  <2>6. /\ \A e \in Events : Occurs(batch', e) <=> Occurs(batch, e) \/ e = f
        /\ \A e \in Events : OccursOnce(batch', e)
    BY <2>2, <2>3, <2>5, AppendOccurs DEF LoopInv, BatchOwned
  <2>7. \A e \in Events : owner'[e] = IF e = f THEN "client" ELSE owner[e]
    BY <2>2, <2>3 DEF SchedulerInv, TypeOK
  <2>8. BatchOwned'
    BY <1>2, <2>6, <2>7 DEF LoopInv, BatchOwned
  <2>9. LoopType'
    BY <1>1, <1>2, <2>2, <2>3 DEF LoopInv, LoopType
  <2> QED
    BY <1>1, <1>3, <2>4, <2>7, <2>8, <2>9, LoopFrame DEF Holding
<1>5. CASE UNCHANGED <<owner, batch>>
  <2>1. BatchOwned' /\ LoopType'
    BY <1>1, <1>2, <1>5 DEF LoopInv, BatchOwned, LoopType
  <2> QED
    BY <1>1, <1>3, <1>5, <2>1, LoopFrame DEF Holding
<1>6. CASE WaitForEvent
  <2>1. TryPopFinishedEvent /\ batch' = <<Head(finishedEvents)>> /\ batch = <<>>
    BY <1>6 DEF WaitForEvent, PopFinishedEvent, Draining, LoopInv, BatchOwned
  <2> QED
    BY <1>4, <2>1
<1>7. CASE TryPop
  BY <1>4, <1>5, <1>7 DEF TryPop
<1> QED
  BY <1>6, <1>7

\* the flush of an event, which frees the store of the context it deletes,
LEMMA FlushLoopInv ==
  ASSUME SchedulerInv, EventsPlaced, LoopInv, FlushEvent
  PROVE  LoopInv'
<1> USE DEF countVars, drainVars, loopVars, boardVars, schedulerVars, ctxVars, activeVars
<1> DEFINE f == Head(batch)
<1>1. /\ loop = "flush" /\ loop' = "flush" /\ batch # <<>> /\ batch' = Tail(batch)
      /\ drainFailed' = (drainFailed \/ FlushFails(f))
      /\ UNCHANGED <<run, nevt, createdEvts, skippedEvts, newEvtAllowed, loopEnded, slotOf, closing>>
  BY DEF FlushEvent, DeleteContext
<1>2. batch \in Seq(Events \cup {NoEvent}) /\ f \in Events \cup {NoEvent} /\ Tail(batch) \in Seq(Events \cup {NoEvent})
  BY <1>1 DEF LoopInv, LoopType
<1>3. LoopOpen' /\ CreateMore'
  BY <1>1 DEF LoopInv, LoopOpen, CreateMore
<1>4. FlushFails(f) \in BOOLEAN
  BY RunType DEF FlushFails, LoopInv
<1>5. (drainFailed \/ FlushFails(f)) \in BOOLEAN
  BY <1>4 DEF LoopInv, LoopType
<1>6. \A e \in Events : OccursOnce(batch', e)
  BY <1>1, <1>2, TailOccurs DEF LoopInv, BatchOwned
<1>7. CASE f = NoEvent
  <2>1. UNCHANGED <<owner, eventNumber, freeStores, finishedEvts>>
    BY <1>7 DEF FlushEvent
  <2>2. \A e \in Events : Occurs(batch', e) <=> Occurs(batch, e)
    BY <1>1, <1>2, <1>7, TailOccurs DEF Events, NoEvent
  <2>3. BatchOwned'
    BY <1>1, <1>6, <2>1, <2>2 DEF LoopInv, BatchOwned
  <2>4. LoopType'
    BY <1>1, <1>2, <1>5, <2>1 DEF LoopInv, LoopType
  <2> QED
    BY <1>1, <1>3, <2>1, <2>3, <2>4, LoopFrame DEF Holding
<1>8. CASE f # NoEvent
  <2>1. f \in Events /\ Occurs(batch, f)
    BY <1>1, <1>2, <1>8, TailOccurs
  <2>2. owner[f] = "client" /\ OccursOnce(batch, f)
    BY <2>1 DEF LoopInv, BatchOwned
  <2>3. /\ FreeStore(slotOf[f]) /\ owner' = [owner EXCEPT ![f] = "deleted"]
        /\ finishedEvts' = finishedEvts + 1
    BY <1>8 DEF FlushEvent, DeleteContext
  <2> HIDE DEF f
  <2> DEFINE s == slotOf[f]
  <2>4. s \in Slots /\ f \in Holding /\ eventNumber[s] = f
    BY <2>1, <2>2 DEF SchedulerInv, ContextsBorn, Holding, LoopInv, StoresHeld
  <2>5. /\ eventNumber' = [eventNumber EXCEPT ![s] = NoEvent] /\ freeStores' = Append(freeStores, s)
        /\ freeStores \in Seq(Slots) /\ eventNumber \in [Slots -> Int] /\ ~Occurs(freeStores, s)
    BY <1>8, <2>3, <2>4 DEF FreeStore, LoopInv, LoopType, StoresHeld
  <2>6. \A d \in Holding : slotOf[d] = s => d = f
    BY <2>4 DEF LoopInv, StoresHeld
  <2> HIDE DEF s
  <2>7. /\ \A t \in Slots : Occurs(freeStores', t) <=> Occurs(freeStores, t) \/ t = s
        /\ \A t \in Slots : OccursOnce(freeStores', t)
    BY <2>4, <2>5, AppendOccurs DEF LoopInv, StoresHeld
  <2>8. \A t \in Slots : eventNumber'[t] = IF t = s THEN NoEvent ELSE eventNumber[t]
    BY <2>5
  <2>9. \A e \in Events : owner'[e] = IF e = f THEN "deleted" ELSE owner[e]
    BY <2>3 DEF SchedulerInv, TypeOK
  <2>10. Holding' = Holding \ {f}
    BY <2>1, <2>9 DEF Holding
  <2>11. \A e \in Events : Occurs(batch', e) <=> Occurs(batch, e) /\ e # f
    BY <1>1, <1>2, <2>2, TailOccurs DEF f
  <2>12. BatchOwned'
    BY <1>1, <1>6, <2>9, <2>11 DEF LoopInv, BatchOwned
  <2>13. LoopType'
    <3>1. finishedEvts' \in Nat /\ freeStores' \in Seq(Slots) /\ eventNumber' \in [Slots -> Int]
      BY <2>3, <2>4, <2>5 DEF LoopInv, LoopType, NoEvent
    <3> QED
      BY <1>1, <1>2, <1>5, <3>1 DEF LoopInv, LoopType, f
  <2>14. EventsNumbered'
    BY <1>1, <2>1, <2>2, <2>9 DEF LoopInv, EventsNumbered
  <2>15. StoresHeld'
    <3>1. \A t \in Slots : eventNumber'[t] = NoEvent <=> Occurs(freeStores', t)
      BY <2>7, <2>8 DEF LoopInv, StoresHeld
    <3>2. \A e \in Holding' : eventNumber'[slotOf'[e]] = e
      <4> SUFFICES ASSUME NEW e \in Holding' PROVE eventNumber'[slotOf'[e]] = e
        OBVIOUS
      <4>1. e \in Holding /\ slotOf[e] # s
        BY <2>6, <2>10
      <4>2. slotOf[e] \in Slots
        BY <4>1 DEF Holding, SchedulerInv, ContextsBorn
      <4> QED
        BY <1>1, <2>8, <4>1, <4>2 DEF LoopInv, StoresHeld
    <3>3. \A t \in Slots : eventNumber'[t] # NoEvent =>
            (\E e \in Holding' : slotOf'[e] = t) \/ (createdEvts' = -1 /\ eventNumber'[t] >= InputSize')
      <4> SUFFICES ASSUME NEW t \in Slots, eventNumber'[t] # NoEvent
                   PROVE  (\E e \in Holding' : slotOf'[e] = t)
                          \/ (createdEvts' = -1 /\ eventNumber'[t] >= InputSize')
        OBVIOUS
      <4>1. t # s /\ eventNumber'[t] = eventNumber[t] /\ InputSize' = InputSize
        BY <1>1, <2>8 DEF InputSize
      <4>2. (\E e \in Holding : slotOf[e] = t) \/ (createdEvts = -1 /\ eventNumber[t] >= InputSize)
        BY <4>1 DEF LoopInv, StoresHeld
      <4>3. \A e \in Holding : slotOf[e] = t => e \in Holding'
        BY <2>10, <4>1 DEF s
      <4> QED
        BY <1>1, <4>1, <4>2, <4>3
    <3> QED
      BY <2>7, <3>1, <3>2, <3>3 DEF StoresHeld
  <2> QED
    BY <1>3, <2>12, <2>13, <2>14, <2>15 DEF LoopInv
<1> QED
  BY <1>7, <1>8

\* the finalization,
LEMMA FinalizeLoopInv == ASSUME SchedulerInv, LoopInv, FinalizeScheduler PROVE LoopInv'
<1> USE DEF countVars, drainVars, loopVars, boardVars, schedulerVars, ctxVars, activeVars
<1>1. /\ UNCHANGED <<eventNumber, freeStores, run, nevt, createdEvts, skippedEvts, finishedEvts,
                     newEvtAllowed, loopEnded, drainFailed, batch, owner, slotOf>>
      /\ loop = "ended" /\ loop' = "joining"
  BY DEF FinalizeScheduler, Deactivate
<1>2. LoopType' /\ LoopOpen' /\ CreateMore' /\ BatchOwned'
  BY <1>1 DEF LoopInv, LoopType, LoopOpen, CreateMore, BatchOwned
<1> QED
  BY <1>1, <1>2, LoopFrame DEF Holding

\* the end of the input, which takes a store for good,
LEMMA EndOfInputLoopInv == ASSUME SchedulerInv, LoopInv, EndOfInput PROVE LoopInv'
<1> USE DEF countVars, drainVars, loopVars, boardVars, schedulerVars, ctxVars, activeVars
<1> DEFINE s == Head(freeStores)
<1>1. /\ Creating /\ nevt >= InputSize /\ freeStores # <<>>
      /\ freeStores' = Tail(freeStores) /\ eventNumber' = [eventNumber EXCEPT ![s] = nevt]
      /\ nevt' = nevt + 1 /\ createdEvts' = -1 /\ loop' = "head"
      /\ UNCHANGED <<run, owner, slotOf, closing, skippedEvts, finishedEvts, newEvtAllowed,
                     loopEnded, batch, drainFailed>>
  BY DEF EndOfInput, AllocateStore
<1>2. closing = "no" /\ batch = <<>>
  BY <1>1, WhenCreating
<1>3. /\ s \in Slots /\ eventNumber[s] = NoEvent /\ (\A e \in Holding : slotOf[e] # s)
      /\ \A t \in Slots : Occurs(freeStores', t) <=> Occurs(freeStores, t) /\ t # s
      /\ \A t \in Slots : OccursOnce(freeStores', t)
  BY <1>1, NextStoreFree
<1> HIDE DEF s
<1>4. nevt \in Nat /\ eventNumber \in [Slots -> Int] /\ freeStores' \in Seq(Slots)
  BY <1>1 DEF LoopInv, LoopType
<1>5. \A t \in Slots : eventNumber'[t] = IF t = s THEN nevt ELSE eventNumber[t]
  BY <1>1, <1>4
<1>6. LoopType'
  BY <1>1, <1>3, <1>4 DEF LoopInv, LoopType
<1>7. LoopOpen' /\ CreateMore' /\ BatchOwned'
  BY <1>1, <1>2 DEF LoopInv, LoopOpen, CreateMore, BatchOwned
<1>8. EventsNumbered'
  BY <1>1, <1>4 DEF LoopInv, EventsNumbered, Events
<1>9. Holding' = Holding /\ InputSize' = InputSize
  BY <1>1 DEF Holding, InputSize
<1>10. StoresHeld'
  <2>1. \A t \in Slots : eventNumber'[t] = NoEvent <=> Occurs(freeStores', t)
    BY <1>3, <1>4, <1>5 DEF LoopInv, StoresHeld, NoEvent
  <2>2. \A e \in Holding' : eventNumber'[slotOf'[e]] = e
    <3>1. \A e \in Holding : slotOf[e] \in Slots
      BY DEF Holding, SchedulerInv, ContextsBorn
    <3> QED
      BY <1>1, <1>3, <1>5, <1>9, <3>1 DEF LoopInv, StoresHeld
  <2>3. \A t \in Slots : eventNumber'[t] # NoEvent =>
          (\E e \in Holding' : slotOf'[e] = t) \/ (createdEvts' = -1 /\ eventNumber'[t] >= InputSize')
    BY <1>1, <1>5, <1>9 DEF LoopInv, StoresHeld
  <2> QED
    BY <1>3, <2>1, <2>2, <2>3 DEF StoresHeld
<1> QED
  BY <1>6, <1>7, <1>8, <1>10 DEF LoopInv

\* the event of the black list, whose store goes to the end of the queue,
LEMMA SkipLoopInv == ASSUME SchedulerInv, LoopInv, SkipEvent PROVE LoopInv'
<1> USE DEF countVars, drainVars, loopVars, boardVars, ctxVars, activeVars
<1> DEFINE s == Head(freeStores)
<1>1. /\ Creating /\ freeStores # <<>>
      /\ freeStores' = Append(Tail(freeStores), s) /\ eventNumber' = eventNumber
      /\ nevt' = nevt + 1 /\ createdEvts' = createdEvts + 1 /\ skippedEvts' = skippedEvts + 1
      /\ loop' = IF EventsLeft(createdEvts') THEN "create" ELSE "head"
      /\ UNCHANGED <<run, owner, slotOf, closing, finishedEvts, newEvtAllowed, loopEnded, batch,
                     drainFailed>>
  BY DEF SkipEvent, BounceStore, ResetOnly
<1>2. closing = "no" /\ batch = <<>> /\ createdEvts >= 0 /\ ~loopEnded
  BY <1>1, WhenCreating
<1>3. /\ s \in Slots /\ eventNumber[s] = NoEvent
      /\ \A t \in Slots : Occurs(Tail(freeStores), t) <=> Occurs(freeStores, t) /\ t # s
      /\ \A t \in Slots : OccursOnce(Tail(freeStores), t)
      /\ Tail(freeStores) \in Seq(Slots)
  BY <1>1, NextStoreFree DEF LoopInv, LoopType
<1> HIDE DEF s
<1>4. /\ \A t \in Slots : Occurs(freeStores', t) <=> Occurs(Tail(freeStores), t) \/ t = s
      /\ \A t \in Slots : OccursOnce(freeStores', t)
      /\ freeStores' \in Seq(Slots)
  <2> DEFINE q == Tail(freeStores)
  <2>1. q \in Seq(Slots) /\ ~Occurs(q, s) /\ freeStores' = Append(q, s)
    BY <1>1, <1>3
  <2>2. \A t \in Slots : OccursOnce(q, t)
    BY <1>3
  <2> HIDE DEF q
  <2>3. /\ \A t \in Slots : Occurs(freeStores', t) <=> Occurs(q, t) \/ t = s
        /\ \A t \in Slots : OccursOnce(freeStores', t)
    BY <1>3, <2>1, <2>2, AppendOccurs
  <2>4. freeStores' \in Seq(Slots)
    BY <1>3, <2>1
  <2> QED
    BY <2>3, <2>4 DEF q
<1>5. LoopType'
  BY <1>1, <1>2, <1>4 DEF LoopInv, LoopType
<1>6. LoopOpen' /\ BatchOwned'
  BY <1>1, <1>2 DEF LoopInv, LoopOpen, BatchOwned
<1>7. CreateMore'
  <2>1. EventsLeft(createdEvts)' <=> EventsLeft(createdEvts')
    BY <1>1 DEF EventsLeft, MaxEvt
  <2>2. createdEvts' >= 0
    BY <1>1, <1>2 DEF LoopInv, LoopType
  <2> QED
    BY <1>1, <1>2, <2>1, <2>2 DEF CreateMore
<1>8. EventsNumbered'
  BY <1>1 DEF LoopInv, LoopType, EventsNumbered, Events
<1>9. Holding' = Holding
  BY <1>1 DEF Holding
<1>10. StoresHeld'
  <2>1. \A t \in Slots : Occurs(freeStores', t) <=> Occurs(freeStores, t)
    BY <1>3, <1>4 DEF LoopInv, StoresHeld
  <2>2. createdEvts # -1
    BY <1>2
  <2> QED
    BY <1>1, <1>4, <1>9, <2>1, <2>2 DEF LoopInv, StoresHeld
<1> QED
  BY <1>5, <1>6, <1>7, <1>8, <1>10 DEF LoopInv

\* and the new event with its store.
LEMMA CreateLoopInv == ASSUME SchedulerInv, LoopInv, CreateEvent PROVE LoopInv'
<1> USE DEF countVars, drainVars, loopVars, boardVars, ctxVars, activeVars
<1> DEFINE s == Head(freeStores)
<1>1. /\ Creating /\ nevt < InputSize /\ freeStores # <<>>
      /\ freeStores' = Tail(freeStores) /\ eventNumber' = [eventNumber EXCEPT ![s] = nevt]
      /\ owner[nevt] = "unborn" /\ owner' = [owner EXCEPT ![nevt] = "scheduler"]
      /\ slotOf' = [slotOf EXCEPT ![nevt] = s]
      /\ nevt' = nevt + 1 /\ createdEvts' = createdEvts + 1 /\ loop' = "head"
      /\ UNCHANGED <<run, closing, skippedEvts, finishedEvts, newEvtAllowed, loopEnded, batch,
                     drainFailed>>
  BY DEF CreateEvent, AllocateStore, PushNewEvent
<1>2. closing = "no" /\ batch = <<>> /\ createdEvts >= 0
  BY <1>1, WhenCreating
<1>3. /\ s \in Slots /\ eventNumber[s] = NoEvent /\ (\A e \in Holding : slotOf[e] # s)
      /\ \A t \in Slots : Occurs(freeStores', t) <=> Occurs(freeStores, t) /\ t # s
      /\ \A t \in Slots : OccursOnce(freeStores', t)
  BY <1>1, NextStoreFree
<1> HIDE DEF s
<1>4. nevt \in Nat /\ eventNumber \in [Slots -> Int] /\ freeStores' \in Seq(Slots) /\ nevt \in Events
  BY <1>1, RunType, EventContextsAssumption DEF LoopInv, LoopType, Events
<1>5. \A t \in Slots : eventNumber'[t] = IF t = s THEN nevt ELSE eventNumber[t]
  BY <1>1, <1>4
<1>6. /\ \A e \in Events : owner'[e] = IF e = nevt THEN "scheduler" ELSE owner[e]
      /\ \A e \in Events : slotOf'[e] = IF e = nevt THEN s ELSE slotOf[e]
  BY <1>1, <1>4 DEF SchedulerInv, TypeOK
<1>7. LoopType'
  BY <1>1, <1>2, <1>3, <1>4 DEF LoopInv, LoopType
<1>8. BatchOwned'
  <2>1. \A e \in Events : owner'[e] = "client" <=> owner[e] = "client"
    BY <1>1, <1>6
  <2> QED
    BY <1>1, <1>2, <2>1 DEF LoopInv, BatchOwned
<1>9. LoopOpen' /\ CreateMore'
  BY <1>1, <1>2 DEF LoopInv, LoopOpen, CreateMore
<1>10. EventsNumbered'
  BY <1>1, <1>4, <1>6 DEF LoopInv, EventsNumbered, Events
<1>11. Holding' = Holding \cup {nevt} /\ nevt \notin Holding
  BY <1>1, <1>4, <1>6 DEF Holding
<1>12. StoresHeld'
  <2>1. \A t \in Slots : eventNumber'[t] = NoEvent <=> Occurs(freeStores', t)
    BY <1>3, <1>4, <1>5 DEF LoopInv, StoresHeld, NoEvent
  <2>2. \A e \in Holding' : eventNumber'[slotOf'[e]] = e
    <3>1. \A e \in Holding : slotOf[e] \in Slots /\ e \in Events
      BY DEF Holding, SchedulerInv, ContextsBorn
    <3>2. slotOf'[nevt] = s /\ eventNumber'[s] = nevt
      BY <1>3, <1>4, <1>5, <1>6
    <3>3. \A e \in Holding : eventNumber'[slotOf'[e]] = e
      BY <1>3, <1>5, <1>6, <1>11, <3>1 DEF LoopInv, StoresHeld
    <3> QED
      BY <1>11, <3>2, <3>3
  <2>3. ASSUME NEW t \in Slots, eventNumber'[t] # NoEvent
        PROVE  \E e \in Holding' : slotOf'[e] = t
    <3>1. CASE t = s
      BY <1>4, <1>6, <1>11, <3>1
    <3>2. CASE t # s
      <4>1. createdEvts # -1 /\ eventNumber[t] # NoEvent
        BY <1>2, <1>5, <2>3, <3>2
      <4>2. PICK e \in Holding : slotOf[e] = t
        BY <4>1 DEF LoopInv, StoresHeld
      <4>3. e \in Events /\ e # nevt
        BY <1>11 DEF Holding
      <4> QED
        BY <1>6, <1>11, <4>2, <4>3
    <3> QED
      BY <3>1, <3>2
  <2> QED
    BY <1>3, <2>1, <2>2, <2>3 DEF StoresHeld
<1> QED
  BY <1>7, <1>8, <1>9, <1>10, <1>12 DEF LoopInv

\* The state that initialize() leaves.
LEMMA InitLoopInv == Init => LoopInv
<1> SUFFICES ASSUME Init PROVE LoopInv
  OBVIOUS
<1>1. /\ run \in Runs /\ loop = "head" /\ nevt = 0 /\ createdEvts = 0 /\ finishedEvts = 0
      /\ skippedEvts = 0 /\ newEvtAllowed = FALSE /\ loopEnded = FALSE /\ batch = <<>>
      /\ drainFailed = FALSE /\ closing = "no" /\ (\A e \in Events : owner[e] = "unborn")
      /\ eventNumber = [s \in Slots |-> NoEvent] /\ freeStores = [i \in 1 .. NumSlots |-> i - 1]
  BY DEF Init, SchedulerInit, BoardInit
<1>2. NumSlots \in Nat /\ \A i \in 1 .. NumSlots : i - 1 \in Slots
  BY EventContextsAssumption DEF Slots
<1>3. freeStores \in [1 .. NumSlots -> Slots]
  BY <1>1, <1>2
<1>4. freeStores \in Seq(Slots)
  <2>1. Seq(Slots) = UNION {[1 .. n -> Slots] : n \in Nat}
    BY SeqDef
  <2> QED
    BY <1>2, <1>3, <2>1, Zenon
<1>5. LoopType
  <2>1. eventNumber \in [Slots -> Int] /\ batch \in Seq(Events \cup {NoEvent})
    BY <1>1 DEF NoEvent
  <2> HIDE DEF Init
  <2> QED
    BY <1>1, <1>4, <2>1 DEF LoopType
<1>6. Holding = {}
  BY <1>1 DEF Holding
<1>7. \A s \in Slots : Occurs(freeStores, s) /\ OccursOnce(freeStores, s)
  <2> SUFFICES ASSUME NEW s \in Slots PROVE Occurs(freeStores, s) /\ OccursOnce(freeStores, s)
    OBVIOUS
  <2>1. s \in Int /\ s + 1 \in 1 .. NumSlots /\ (s + 1) - 1 = s
    BY <1>2 DEF Slots
  <2>2. DOMAIN freeStores = 1 .. NumSlots /\ \A i \in 1 .. NumSlots : freeStores[i] = i - 1
    BY <1>1
  <2>3. freeStores[s + 1] = s
    BY <2>1, <2>2
  <2> QED
    BY <2>1, <2>2, <2>3 DEF Occurs, OccursOnce
<1>8. StoresHeld
  BY <1>1, <1>6, <1>7 DEF StoresHeld
<1>9. BatchOwned
  BY <1>1 DEF BatchOwned, Occurs, OccursOnce
<1> QED
  BY <1>1, <1>5, <1>8, <1>9 DEF LoopInv, LoopOpen, EventsNumbered, CreateMore

\* The loop and the scheduler keep their invariants together.
LEMMA StepLoopInv ==
  ASSUME SchedulerInv, EventsPlaced, LoopInv, [Next]_vars
  PROVE  SchedulerInv' /\ EventsPlaced' /\ LoopInv' /\ [SchedulerNext]_schedulerVars
<1>1. [SchedulerNext]_schedulerVars
  BY StepProtocol
<1>2. SchedulerInv'
  BY <1>1, StepSchedulerInv
<1>3. EventsPlaced'
  BY <1>1, <1>2, StepPlaced
<1>4. LoopInv'
  BY SideLoopInv, QuietLoopInv, CollectLoopInv, FlushLoopInv, FinalizeLoopInv, EndOfInputLoopInv,
     SkipLoopInv, CreateLoopInv DEF Next, Loop, Done
<1> QED
  BY <1>1, <1>2, <1>3, <1>4

\* So the invariants hold in every job.
LEMMA LoopInvariant == Spec => [](SchedulerInv /\ EventsPlaced /\ LoopInv)
<1>1. Init => SchedulerInv /\ EventsPlaced /\ LoopInv
  BY InitSchedulerInv, InitPlaced, InitLoopInv DEF Init
<1>2. (SchedulerInv /\ EventsPlaced /\ LoopInv) /\ [Next]_vars
        => (SchedulerInv /\ EventsPlaced /\ LoopInv)'
  BY StepLoopInv
<1> QED
  BY <1>1, <1>2, PTL DEF Spec

\* The event loop is a lawful client: it pushes ascending event numbers, each
\* with a slot no live event has, deletes only contexts it was given, and calls
\* nothing after deactivate().  Every theorem about SchedulerSpec, the safety
\* part of the contract included, therefore holds of the job.
THEOREM LoopIsLawful == Spec => LoopObeysProtocol
<1>1. (SchedulerInv /\ EventsPlaced /\ LoopInv) /\ [Next]_vars => [SchedulerNext]_schedulerVars
  BY StepLoopInv
<1>2. Init => SchedulerInit
  BY DEF Init
<1> QED
  BY <1>1, <1>2, LoopInvariant, PTL DEF Spec, LoopObeysProtocol, SchedulerSpec

\* The stores of the whiteboard are partitioned between the queue of free
\* stores, the live events and the end of the input, for every run, as long as
\* iterate() drops no event: the store of a dropped event is never freed.
THEOREM StoresArePartitioned == Spec => [](NoEventLost => StoresPartitioned)
<1>1. LoopInv => (NoEventLost => StoresPartitioned)
  <2> SUFFICES ASSUME LoopInv, NoEventLost PROVE StoresPartitioned
    OBVIOUS
  <2>1. Holding = Live
    BY DEF NoEventLost, Holding, Live
  <2>2. \A i \in DOMAIN freeStores : freeStores[i] \in Slots
    BY DEF LoopInv, LoopType
  <2>3. \A i, j \in DOMAIN freeStores : freeStores[i] = freeStores[j] => i = j
    BY <2>2 DEF LoopInv, StoresHeld, OccursOnce
  <2> QED
    BY <2>1, <2>3 DEF LoopInv, StoresHeld, StoresPartitioned, Occurs
<1> QED
  BY <1>1, LoopInvariant, PTL

-----------------------------------------------------------------------------
(* The status of an event that is delivered.                               *)

\* The scheduler is through with e: it is in m_finishedEvents or was popped.
Delivered(e) == owner[e] = "client" \/ Finished(e)

\* Its status is final: the event completed with success, or it stalled.  (An
\* event that completes with a failure is the one iterate() drops.)
DeliveredStatus ==
  \A e \in Events : Delivered(e) => eventStatus[slotOf[e]] \in {"Success", "AlgStall"}

\* Delivered and resident events have different slots.
LEMMA DeliveredApart ==
  ASSUME SchedulerInv, EventsPlaced, NEW d \in Events, Delivered(d),
         NEW e \in Events, owner[e] = "scheduler", Resident(e)
  PROVE  d \in Live /\ slotOf[d] # slotOf[e] /\ slotOf[d] \in Slots /\ slotOf[e] \in Slots
<1>1. d # e
  BY DEF EventsPlaced, OnePlace, Delivered
<1>2. d \in Live /\ e \in Live
  BY DEF EventsPlaced, OnePlace, Delivered, Live
<1>3. slotOf[d] # slotOf[e]
  BY <1>1, <1>2 DEF EventsPlaced, SlotsOwned
<1> QED
  BY <1>2, <1>3 DEF SchedulerInv, ContextsBorn, Live

\* iterate() gives an event its last status when it frees the slot.
LEMMA SlotUpdateDelivered ==
  ASSUME SchedulerInv, EventsPlaced, DeliveredStatus, SlotUpdate
  PROVE  DeliveredStatus'
<1> DEFINE s == sched.slot
           e == slots[s].ctx
<1>1. /\ s \in Slots /\ e \in Events /\ owner[e] = "scheduler" /\ slotOf[e] = s /\ Resident(e)
      /\ slotOf' = slotOf
  <2>1. s \in Slots /\ e \in Events /\ e # NoEvent /\ slotOf' = slotOf
    BY DEF SlotUpdate, SchedulerInv, TypeOK, CursorOK, SlotState
  <2> QED
    BY <2>1 DEF EventsPlaced, SlotsOwned, Resident
<1>2. /\ \/ finishedEvents' = finishedEvents /\ eventStatus' = eventStatus
         \/ /\ finishedEvents' = Append(finishedEvents, e)
            /\ eventStatus' = eventStatus /\ eventStatus[s] = "Success"
         \/ /\ finishedEvents' = Append(finishedEvents, e)
            /\ eventStatus' = [eventStatus EXCEPT ![s] = "AlgStall"]
      /\ owner' = owner \/ owner' = [owner EXCEPT ![e] = "lost"]
  BY DEF SlotUpdate
<1> HIDE DEF e, s
<1>3. finishedEvents \in Seq(Events) /\ eventStatus \in [Slots -> Status]
      /\ owner \in [Events -> {"unborn", "scheduler", "client", "deleted", "lost"}]
  BY DEF SchedulerInv, TypeOK
<1>4. \A d \in Events : Finished(d)' => Finished(d) \/ (d = e /\ finishedEvents' # finishedEvents)
  BY <1>1, <1>2, <1>3, AppendOccurs DEF Finished
<1>5. \A d \in Events : owner'[d] = "client" => owner[d] = "client"
  BY <1>1, <1>2, <1>3
<1>6. \A t \in Slots : t # s => eventStatus'[t] = eventStatus[t]
  BY <1>1, <1>2, <1>3
<1>7. finishedEvents' # finishedEvents => eventStatus'[s] \in {"Success", "AlgStall"}
  BY <1>1, <1>2, <1>3
<1>8. ASSUME NEW d \in Events, Delivered(d)' PROVE eventStatus'[slotOf[d]] \in {"Success", "AlgStall"}
  <2>1. Delivered(d) \/ (d = e /\ finishedEvents' # finishedEvents)
    BY <1>4, <1>5, <1>8 DEF Delivered
  <2>2. CASE Delivered(d)
    <3>1. slotOf[d] # s /\ slotOf[d] \in Slots
      BY <1>1, <2>2, DeliveredApart
    <3> QED
      BY <1>6, <2>2, <3>1 DEF DeliveredStatus
  <2>3. CASE d = e /\ finishedEvents' # finishedEvents
    BY <1>1, <1>7, <2>3
  <2> QED
    BY <2>1, <2>2, <2>3
<1> QED
  BY <1>1, <1>8 DEF DeliveredStatus

\* Nobody writes it afterwards: tasks write the status of resident events, and
\* the client resets only slots that no live event has.
LEMMA StepDelivered ==
  ASSUME SchedulerInv, EventsPlaced, TasksOwnTheirEvent, DeliveredStatus,
         [SchedulerNext]_schedulerVars
  PROVE  DeliveredStatus'
<1> USE DEF slotVars, queueVars, taskVars, poolVars, statusVars, ctxVars, activeVars
<1>0. /\ eventStatus \in [Slots -> Status]
      /\ owner \in [Events -> {"unborn", "scheduler", "client", "deleted", "lost"}]
      /\ slotOf \in [Events -> Slots \cup {NoSlot}]
  BY DEF SchedulerInv, TypeOK
<1>1. ASSUME slotOf' = slotOf, \A d \in Events : Delivered(d)' => Delivered(d),
             \A d \in Events : Delivered(d) => eventStatus'[slotOf[d]] = eventStatus[slotOf[d]]
      PROVE  DeliveredStatus'
  BY <1>1 DEF DeliveredStatus
<1>2. CASE SlotUpdate
  BY <1>2, SlotUpdateDelivered
<1>3. ASSUME NEW t \in tasks, TaskRelease(t) PROVE DeliveredStatus'
  <2> DEFINE e == t.ts.evt
             x == UpdatedStatus(t.seen, t.failed, eventStatus[slotOf[e]])
  <2>1. e \in Events /\ owner[e] = "scheduler" /\ slots[slotOf[e]].ctx = e /\ slotOf[e] \in Slots
    BY TaskType DEF TasksOwnTheirEvent, InState, SchedulerInv, ContextsBorn
  <2>2. Resident(e)
    BY <2>1 DEF Resident
  <2>3. eventStatus' = [eventStatus EXCEPT ![slotOf[e]] = x] /\ UNCHANGED <<slotOf, owner, finishedEvents>>
    BY <1>3 DEF TaskRelease
  <2> HIDE DEF e, x
  <2>4. \A d \in Events : Delivered(d) => eventStatus'[slotOf[d]] = eventStatus[slotOf[d]]
    BY <1>0, <2>1, <2>2, <2>3, DeliveredApart
  <2> QED
    BY <1>1, <2>3, <2>4 DEF Delivered, Finished
<1>4. ASSUME NEW s \in Slots \ InUse, ResetStatus(s)
      PROVE  \A d \in Events : Delivered(d) => eventStatus'[slotOf[d]] = eventStatus[slotOf[d]]
  <2>1. \A d \in Events : Delivered(d) => slotOf[d] # s
    BY <1>4 DEF EventsPlaced, OnePlace, Delivered, InUse, Live
  <2>2. eventStatus' = [eventStatus EXCEPT ![s] = "Invalid"]
    BY <1>4 DEF ResetStatus
  <2> QED
    BY <1>0, <2>1, <2>2
<1>5. ASSUME NEW s \in Slots \ InUse, ResetOnly(s) PROVE DeliveredStatus'
  BY <1>1, <1>4, <1>5 DEF ResetOnly, Delivered, Finished
<1>6. ASSUME NEW e \in Events, NEW s \in Slots \ InUse, PushNewEvent(e, s) PROVE DeliveredStatus'
  <2>1. /\ owner[e] = "unborn" /\ owner' = [owner EXCEPT ![e] = "scheduler"]
        /\ slotOf' = [slotOf EXCEPT ![e] = s] /\ ResetStatus(s) /\ finishedEvents' = finishedEvents
    BY <1>6 DEF PushNewEvent
  <2>2. ~Finished(e)
    BY <2>1 DEF EventsPlaced, OnePlace
  <2>3. \A d \in Events : Delivered(d)' => Delivered(d) /\ d # e
    BY <1>0, <2>1, <2>2 DEF Delivered, Finished
  <2>4. \A d \in Events : d # e => slotOf'[d] = slotOf[d]
    BY <1>0, <2>1
  <2> QED
    BY <1>4, <2>1, <2>3, <2>4 DEF DeliveredStatus
<1>7. CASE TryPopFinishedEvent
  <2> DEFINE f == Head(finishedEvents)
  <2>1. finishedEvents # <<>> /\ finishedEvents \in Seq(Events)
        /\ finishedEvents' = Tail(finishedEvents) /\ owner' = [owner EXCEPT ![f] = "client"]
        /\ UNCHANGED <<slotOf, eventStatus>>
    BY <1>7 DEF TryPopFinishedEvent, SchedulerInv, TypeOK
  <2>2. /\ f \in Events /\ Finished(f)
        /\ \A d \in Events : Finished(d)' => Finished(d)
    BY <2>1, TailOccurs DEF Finished
  <2> HIDE DEF f
  <2>3. \A d \in Events : Delivered(d)' => Delivered(d)
    BY <1>0, <2>1, <2>2 DEF Delivered
  <2> QED
    BY <1>1, <2>1, <2>3
<1>8. ASSUME NEW e \in Events, DeleteContext(e) PROVE DeliveredStatus'
  <2>1. owner' = [owner EXCEPT ![e] = "deleted"] /\ UNCHANGED <<finishedEvents, slotOf, eventStatus>>
    BY <1>8 DEF DeleteContext
  <2>2. \A d \in Events : Delivered(d)' => Delivered(d)
    BY <1>0, <2>1 DEF Delivered, Finished
  <2> QED
    BY <1>1, <2>1, <2>2
<1>9. ASSUME UNCHANGED <<owner, finishedEvents, slotOf, eventStatus>> PROVE DeliveredStatus'
  BY <1>1, <1>9 DEF Delivered, Finished
<1>10. RunNewEvent \/ RunSignoff \/ RunDeactivate \/ CheckUpdate \/ RetrySchedule \/ SlotSchedule \/ Exit
         => UNCHANGED <<owner, finishedEvents, slotOf, eventStatus>>
  BY DEF RunNewEvent, RunSignoff, RunDeactivate, CheckUpdate, RetrySchedule, SlotSchedule, Exit
<1>11. (\E t \in tasks : (\E out \in Outcome : TaskExecute(t, out)) \/ TaskSignoff(t))
         => UNCHANGED <<owner, finishedEvents, slotOf, eventStatus>>
  BY DEF TaskExecute, TaskSignoff
<1>12. Deactivate \/ Deactivation \/ UNCHANGED schedulerVars
         => UNCHANGED <<owner, finishedEvents, slotOf, eventStatus>>
  BY DEF Deactivate, Deactivation, DrainQueue, PushDeactivate, schedulerVars
<1> QED
  BY <1>2, <1>3, <1>5, <1>6, <1>7, <1>8, <1>9, <1>10, <1>11, <1>12
  DEF SchedulerNext, SchedulerThread, Task, Client, PopFinishedEvent, Terminated

\* So it is in every behaviour of the scheduler, without blocking tasks.
LEMMA DeliveredInvariant == Blocking = {} => (SchedulerSpec => []DeliveredStatus)
<1> SUFFICES ASSUME Blocking = {} PROVE SchedulerSpec => []DeliveredStatus
  OBVIOUS
<1>1. SchedulerInit => DeliveredStatus
  BY DEF SchedulerInit, DeliveredStatus, Delivered, Finished, Occurs
<1>2. SchedulerInv /\ EventsPlaced /\ TasksOwnTheirEvent /\ DeliveredStatus
        /\ [SchedulerNext]_schedulerVars => DeliveredStatus'
  BY StepDelivered
<1> QED
  BY <1>1, <1>2, SchedulerInvariant, EventsInOnePlace, TasksKeepTheirEvent, PTL DEF SchedulerSpec

-----------------------------------------------------------------------------
(* The counters of the loop.                                               *)

Born    == {e \in Events : owner[e] # "unborn"}
Deleted == {e \in Events : owner[e] = "deleted"}

\* finishedEvts counts the contexts deleted; the events created and the ones
\* skipped are the first nevt of the input, and the limit is not exceeded;
\* createdEvts is -1 once the loop has tried an event past the input.
CountsAgree ==
  /\ finishedEvts = Cardinality(Deleted)
  /\ createdEvts = -1 =>
       /\ nevt = InputSize + 1 /\ Cardinality(Born) + skippedEvts = InputSize
       /\ (MaxEvt < 0 \/ InputSize < MaxEvt)
  /\ createdEvts # -1 =>
       /\ createdEvts = nevt /\ nevt <= InputSize /\ Cardinality(Born) + skippedEvts = nevt
       /\ (MaxEvt < 0 \/ nevt <= MaxEvt)

\* The events are finitely many.
LEMMA BornFinite ==
  /\ IsFiniteSet(Born) /\ Cardinality(Born) \in Nat
  /\ IsFiniteSet(Deleted) /\ Cardinality(Deleted) \in Nat
  /\ Deleted \subseteq Born /\ Cardinality(Deleted) <= Cardinality(Born)
  /\ Cardinality(Deleted) = Cardinality(Born) => Deleted = Born
<1>1. IsFiniteSet(Events)
  BY EventContextsAssumption, FS_Interval DEF Events
<1>2. Born \in SUBSET Events /\ Deleted \in SUBSET Born
  BY DEF Born, Deleted
<1>3. IsFiniteSet(Born)
  BY <1>1, <1>2, FS_Subset
<1>4. /\ IsFiniteSet(Deleted) /\ Cardinality(Deleted) <= Cardinality(Born)
      /\ Cardinality(Born) = Cardinality(Deleted) => Born = Deleted
  BY <1>2, <1>3, FS_Subset
<1>5. Cardinality(Born) \in Nat /\ Cardinality(Deleted) \in Nat
  BY <1>3, <1>4, FS_CardinalityType
<1> QED
  BY <1>2, <1>3, <1>4, <1>5

\* Creating, skipping, failing to create and deleting an event are counted.
LEMMA StepAgree ==
  ASSUME SchedulerInv, EventsPlaced, LoopInv, CountsAgree, [Next]_vars
  PROVE  CountsAgree'
<1> USE DEF countVars, drainVars, loopVars, boardVars, schedulerVars, ctxVars
<1>1. /\ owner \in [Events -> {"unborn", "scheduler", "client", "deleted", "lost"}]
      /\ nevt \in Nat /\ createdEvts \in Nat \cup {-1} /\ skippedEvts \in Nat /\ finishedEvts \in Nat
      /\ MaxEvt \in Int /\ InputSize \in Nat
  BY RunType DEF SchedulerInv, TypeOK, LoopInv, LoopType
<1>2. run' = run /\ MaxEvt' = MaxEvt /\ InputSize' = InputSize
  BY DEF Next, Loop, EndOfInput, SkipEvent, CreateEvent, WaitForEvent, NothingToWaitFor, TryPop,
         FlushEvent, DrainReturns, NextEventReturns, FinalizeScheduler, JoinScheduler, StopRun,
         SchedulerSide, Done, vars, MaxEvt, InputSize
<1>3. ASSUME UNCHANGED <<nevt, createdEvts, skippedEvts, finishedEvts>>,
             \A e \in Events : (owner'[e] = "unborn" <=> owner[e] = "unborn")
                               /\ (owner'[e] = "deleted" <=> owner[e] = "deleted")
      PROVE  CountsAgree'
  <2>1. Born' = Born /\ Deleted' = Deleted
    BY <1>3 DEF Born, Deleted
  <2> QED
    BY <1>2, <1>3, <2>1 DEF CountsAgree
<1>4. CASE CreateEvent \/ SkipEvent \/ EndOfInput
  <2>1. createdEvts >= 0 /\ EventsLeft(createdEvts)
    BY <1>4, WhenCreating DEF CreateEvent, SkipEvent, EndOfInput
  <2>2. /\ createdEvts = nevt /\ nevt <= InputSize /\ Cardinality(Born) + skippedEvts = nevt
        /\ (MaxEvt < 0 \/ nevt < MaxEvt) /\ finishedEvts = Cardinality(Deleted)
    BY <1>1, <2>1 DEF CountsAgree, EventsLeft
  <2>3. CASE CreateEvent
    <3>1. /\ nevt < InputSize /\ owner[nevt] = "unborn" /\ owner' = [owner EXCEPT ![nevt] = "scheduler"]
          /\ nevt' = nevt + 1 /\ createdEvts' = createdEvts + 1 /\ UNCHANGED <<skippedEvts, finishedEvts>>
      BY <2>3 DEF CreateEvent, PushNewEvent
    <3>2. nevt \in Events
      BY <1>1, <3>1, RunType, EventContextsAssumption DEF LoopInv, Events
    <3>3. Born' = Born \cup {nevt} /\ nevt \notin Born /\ Deleted' = Deleted
      BY <1>1, <3>1, <3>2 DEF Born, Deleted
    <3>4. Cardinality(Born') = Cardinality(Born) + 1 /\ Cardinality(Born) \in Nat
      BY <3>3, BornFinite, FS_AddElement
    <3> QED
      BY <1>1, <1>2, <2>2, <3>1, <3>3, <3>4 DEF CountsAgree
  <2>4. CASE SkipEvent
    <3>1. /\ nevt < InputSize /\ owner' = owner /\ nevt' = nevt + 1 /\ createdEvts' = createdEvts + 1
          /\ skippedEvts' = skippedEvts + 1 /\ finishedEvts' = finishedEvts
      BY <2>4 DEF SkipEvent, ResetOnly
    <3>2. Born' = Born /\ Deleted' = Deleted /\ Cardinality(Born) \in Nat
      BY <3>1, BornFinite DEF Born, Deleted
    <3> QED
      BY <1>1, <1>2, <2>2, <3>1, <3>2 DEF CountsAgree
  <2>5. CASE EndOfInput
    <3>1. /\ nevt >= InputSize /\ owner' = owner /\ nevt' = nevt + 1 /\ createdEvts' = -1
          /\ UNCHANGED <<skippedEvts, finishedEvts>>
      BY <2>5 DEF EndOfInput
    <3>2. Born' = Born /\ Deleted' = Deleted /\ Cardinality(Born) \in Nat
      BY <3>1, BornFinite DEF Born, Deleted
    <3> QED
      BY <1>1, <1>2, <2>2, <3>1, <3>2 DEF CountsAgree
  <2> QED
    BY <1>4, <2>3, <2>4, <2>5
<1>5. CASE FlushEvent
  <2> DEFINE f == Head(batch)
  <2>1. batch # <<>> /\ batch \in Seq(Events \cup {NoEvent}) /\ UNCHANGED <<nevt, createdEvts, skippedEvts>>
    BY <1>5 DEF FlushEvent, LoopInv, LoopType
  <2>2. CASE f = NoEvent
    BY <1>3, <1>5, <2>1, <2>2 DEF FlushEvent
  <2>3. CASE f # NoEvent
    <3>1. f \in Events /\ owner[f] = "client" /\ owner' = [owner EXCEPT ![f] = "deleted"]
          /\ finishedEvts' = finishedEvts + 1
      BY <1>5, <2>1, <2>3 DEF FlushEvent, DeleteContext
    <3> HIDE DEF f
    <3>2. Born' = Born /\ Deleted' = Deleted \cup {f} /\ f \notin Deleted
      BY <1>1, <3>1 DEF Born, Deleted
    <3>3. Cardinality(Deleted') = Cardinality(Deleted) + 1
      BY <3>2, BornFinite, FS_AddElement
    <3> QED
      BY <1>1, <1>2, <2>1, <3>1, <3>2, <3>3 DEF CountsAgree
  <2> QED
    BY <2>2, <2>3
<1>6. CASE WaitForEvent \/ TryPop
  <2>1. UNCHANGED <<nevt, createdEvts, skippedEvts, finishedEvts>>
        /\ (owner' = owner \/ TryPopFinishedEvent)
    BY <1>6 DEF WaitForEvent, TryPop, PopFinishedEvent
  <2>2. ASSUME TryPopFinishedEvent, NEW f, f = Head(finishedEvents)
        PROVE  f \in Events /\ owner[f] = "scheduler" /\ owner' = [owner EXCEPT ![f] = "client"]
    <3>1. finishedEvents # <<>> /\ finishedEvents \in Seq(Events)
      BY <2>2 DEF TryPopFinishedEvent, SchedulerInv, TypeOK
    <3>2. f \in Events /\ Finished(f)
      BY <2>2, <3>1, TailOccurs DEF Finished
    <3> QED
      BY <2>2, <3>2 DEF EventsPlaced, OnePlace, TryPopFinishedEvent
  <2> QED
    BY <1>1, <1>3, <2>1, <2>2
<1>7. CASE SchedulerSide
  <2>1. UNCHANGED <<nevt, createdEvts, skippedEvts, finishedEvts>>
    BY <1>7 DEF SchedulerSide
  <2>2. \A e \in Events : owner'[e] = owner[e] \/ (owner[e] = "scheduler" /\ owner'[e] = "lost")
    BY <1>7, SideEffect DEF SchedulerSide
  <2> QED
    BY <1>3, <2>1, <2>2
<1>8. NothingToWaitFor \/ DrainReturns \/ NextEventReturns \/ FinalizeScheduler \/ JoinScheduler
        \/ StopRun \/ Done \/ UNCHANGED vars
        => UNCHANGED <<nevt, createdEvts, skippedEvts, finishedEvts, owner>>
  BY DEF NothingToWaitFor, DrainReturns, NextEventReturns, FinalizeScheduler, JoinScheduler, StopRun,
         Done, vars, Deactivate
<1> QED
  BY <1>3, <1>4, <1>5, <1>6, <1>7, <1>8 DEF Next, Loop

-----------------------------------------------------------------------------
(* Why the loop ends.                                                      *)

\* The input is used up and every event is deleted.
Exhausted == createdEvts = -1 /\ \A e \in Events : owner[e] \in {"unborn", "deleted"}

\* AbortOnFailure is on and a flushed event had stalled.
Aborted == AbortOnFailure /\ \E s \in Slots \ InUse : eventStatus[s] = "AlgStall"

\* The first event is launched alone: once it is, the loop waits for it.
FirstAlone ==
  loop = "head" /\ ~newEvtAllowed /\ createdEvts > 0 => ~EventsLeft(createdEvts) \/ Charged # {}

\* drainScheduler fails, or has failed, only for one of these reasons; it puts
\* a null context in its batch for the first; and nextEvent returns only when
\* its loop is over.
EndJustified ==
  /\ drainFailed \/ loopEnded => Exhausted \/ Aborted
  /\ Occurs(batch, NoEvent) => Exhausted
  /\ drainFailed => loop = "flush"
  /\ loopEnded => loop \in {"head", "ended", "joining", "done"}
  /\ loop \in {"ended", "joining", "done"} => ~LoopOn

\* The first event is with the scheduler until drainScheduler returns.
LEMMA StepFirstAlone ==
  ASSUME SchedulerInv, EventsPlaced, LoopInv, FirstAlone, [Next]_vars
  PROVE  FirstAlone'
<1> USE DEF countVars, drainVars, loopVars, schedulerVars, ctxVars
<1>1. owner \in [Events -> {"unborn", "scheduler", "client", "deleted", "lost"}]
  BY DEF SchedulerInv, TypeOK
<1>2. CASE CreateEvent
  <2>1. nevt \in Events
    BY <1>2, RunType, EventContextsAssumption DEF CreateEvent, LoopInv, LoopType, Events
  <2>2. owner' = [owner EXCEPT ![nevt] = "scheduler"]
    BY <1>2 DEF CreateEvent, PushNewEvent
  <2>3. nevt \in Charged'
    BY <1>1, <2>1, <2>2 DEF Charged
  <2> QED
    BY <2>3 DEF FirstAlone
<1>3. CASE SkipEvent
  <2>1. run' = run /\ (loop' = "head" => ~EventsLeft(createdEvts'))
    BY <1>3 DEF SkipEvent
  <2> QED
    BY <2>1 DEF FirstAlone, EventsLeft, MaxEvt
<1>4. CASE EndOfInput
  BY <1>4 DEF EndOfInput, FirstAlone
<1>5. WaitForEvent \/ NothingToWaitFor \/ TryPop \/ FlushEvent \/ NextEventReturns
        \/ FinalizeScheduler \/ JoinScheduler => loop' # "head"
  BY DEF WaitForEvent, NothingToWaitFor, TryPop, FlushEvent, NextEventReturns, FinalizeScheduler,
         JoinScheduler
<1>6. DrainReturns => newEvtAllowed'
  BY DEF DrainReturns
<1>7. CASE SchedulerSide
  <2>1. UNCHANGED <<loop, newEvtAllowed, createdEvts, run>>
    BY <1>7 DEF SchedulerSide
  <2>2. \A e \in Events : owner'[e] = owner[e] \/ (owner[e] = "scheduler" /\ owner'[e] = "lost")
    BY <1>7, SideEffect DEF SchedulerSide
  <2>3. Charged # {} => Charged' # {}
    BY <2>2 DEF Charged
  <2> QED
    BY <2>1, <2>3 DEF FirstAlone, EventsLeft, MaxEvt
<1>8. CASE StopRun \/ Done \/ UNCHANGED vars
  <2>1. UNCHANGED <<loop, newEvtAllowed, createdEvts, run, owner>>
    BY <1>8 DEF StopRun, Done, vars
  <2> QED
    BY <2>1 DEF FirstAlone, EventsLeft, MaxEvt, Charged
<1> QED
  BY <1>2, <1>3, <1>4, <1>5, <1>6, <1>7, <1>8 DEF Next, Loop, FirstAlone

\* popFinishedEvent refuses only when nothing is left: every other reason not
\* to create an event leaves one with the scheduler.
LEMMA NothingLeft ==
  ASSUME SchedulerInv, LoopInv, CountsAgree, FirstAlone, SlotsCounted, Awake, NothingToWaitFor
  PROVE  Exhausted
<1>1. loop = "head" /\ LoopOn /\ ~MayCreate /\ PopRefused
  BY DEF NothingToWaitFor, Draining
<1>2. closing = "no" /\ batch = <<>>
  BY <1>1 DEF LoopInv, LoopOpen, BatchOwned
<1>3. freeSlots = NumSlots /\ freeSlots = NumSlots - Cardinality(Charged)
  BY <1>1, <1>2 DEF PopRefused, Awake, SlotsCounted
<1>4. Cardinality(Charged) = 0
  BY <1>3, ChargedFinite, EventContextsAssumption
<1>5. Charged = {}
  BY <1>4, ChargedFinite, FS_EmptySet
<1>6. \A e \in Events : owner[e] \in {"unborn", "deleted"}
  <2>1. \A e \in Events : owner[e] # "client"
    BY <1>2 DEF LoopInv, BatchOwned, Occurs
  <2> QED
    BY <1>5, <2>1 DEF Charged, SchedulerInv, TypeOK
<1>7. Born = Deleted
  BY <1>6 DEF Born, Deleted
<1>8. createdEvts = -1
  <2> SUFFICES ASSUME createdEvts # -1 PROVE MayCreate
    BY <1>1
  <2>1. /\ createdEvts \in Nat /\ finishedEvts \in Nat /\ skippedEvts \in Nat /\ MaxEvt \in Int
        /\ freeStores \in Seq(Slots)
    BY RunType DEF LoopInv, LoopType
  <2>2. createdEvts = finishedEvts + skippedEvts
    BY <1>7 DEF CountsAgree
  <2>3. EventsLeft(createdEvts)
    BY <1>1, <2>1, <2>2 DEF LoopOn, EventsLeft
  <2>4. newEvtAllowed \/ createdEvts = 0
    BY <1>1, <1>5, <2>1, <2>3 DEF FirstAlone
  <2>5. freeStores # <<>>
    <3>1. 0 \in Slots
      BY EventContextsAssumption DEF Slots
    <3>2. Holding = {}
      BY <1>6 DEF Holding
    <3>3. Occurs(freeStores, 0)
      BY <3>1, <3>2 DEF LoopInv, StoresHeld
    <3> QED
      BY <3>3 DEF Occurs
  <2>6. freeSlots > 0
    BY <1>3, EventContextsAssumption
  <2> QED
    BY <2>1, <2>3, <2>4, <2>5, <2>6 DEF MayCreate
<1> QED
  BY <1>6, <1>8 DEF Exhausted

\* What has been used up stays so.
LEMMA StepExhausted ==
  ASSUME SchedulerInv, EventsPlaced, LoopInv, Exhausted, [Next]_vars
  PROVE  Exhausted'
<1> USE DEF countVars, drainVars, loopVars, schedulerVars, ctxVars
<1>1. ~CreateEvent /\ ~SkipEvent /\ ~EndOfInput
  BY WhenCreating DEF CreateEvent, SkipEvent, EndOfInput, Exhausted
<1>2. ~TryPopFinishedEvent
  <2> SUFFICES ASSUME TryPopFinishedEvent PROVE FALSE
    OBVIOUS
  <2>1. finishedEvents # <<>> /\ finishedEvents \in Seq(Events)
    BY DEF TryPopFinishedEvent, SchedulerInv, TypeOK
  <2>2. Head(finishedEvents) \in Events /\ Finished(Head(finishedEvents))
    BY <2>1, TailOccurs DEF Finished
  <2> QED
    BY <2>2 DEF EventsPlaced, OnePlace, Exhausted
<1>3. \A e \in Events : ~DeleteContext(e)
  BY DEF DeleteContext, Exhausted
<1>4. CASE FlushEvent
  <2>1. Head(batch) \in Events \cup {NoEvent} /\ createdEvts' = createdEvts
    BY <1>4 DEF FlushEvent, LoopInv, LoopType
  <2>2. owner' = owner
    BY <1>3, <1>4, <2>1 DEF FlushEvent
  <2> QED
    BY <2>1, <2>2 DEF Exhausted
<1>5. WaitForEvent \/ TryPop \/ NothingToWaitFor \/ DrainReturns \/ NextEventReturns \/ FinalizeScheduler
        \/ JoinScheduler \/ StopRun \/ Done \/ UNCHANGED vars => UNCHANGED <<createdEvts, owner>>
  BY <1>2 DEF WaitForEvent, PopFinishedEvent, TryPop, NothingToWaitFor, DrainReturns, NextEventReturns,
              FinalizeScheduler, Deactivate, JoinScheduler, StopRun, Done, vars
<1>6. CASE SchedulerSide
  <2>1. createdEvts' = createdEvts
    BY <1>6 DEF SchedulerSide
  <2>2. \A e \in Events : owner'[e] = owner[e] \/ owner[e] = "scheduler"
    BY <1>6, SideEffect DEF SchedulerSide
  <2> QED
    BY <2>1, <2>2 DEF Exhausted
<1> QED
  BY <1>1, <1>4, <1>5, <1>6 DEF Next, Loop, Exhausted

\* Only the creation of an event writes the status of a slot no live event has,
\* or gives an event such a slot.
LEMMA StepAborted ==
  ASSUME SchedulerInv, EventsPlaced, LoopInv, TasksOwnTheirEvent, Aborted, [Next]_vars,
         ~CreateEvent, ~SkipEvent
  PROVE  Aborted'
<1> USE DEF slotVars, queueVars, taskVars, poolVars, statusVars, ctxVars, activeVars, countVars,
            drainVars, loopVars, schedulerVars
<1>1. /\ eventStatus \in [Slots -> Status]
      /\ owner \in [Events -> {"unborn", "scheduler", "client", "deleted", "lost"}]
  BY DEF SchedulerInv, TypeOK
<1>2. run' = run
  BY DEF Next, Loop, EndOfInput, WaitForEvent, NothingToWaitFor, TryPop, FlushEvent, DrainReturns,
         NextEventReturns, FinalizeScheduler, JoinScheduler, StopRun, SchedulerSide, Done, vars
<1>3. ASSUME slotOf' = slotOf, \A e \in Events : e \in Live' => e \in Live,
             \A s \in Slots \ InUse : eventStatus'[s] = eventStatus[s]
      PROVE  Aborted'
  <2>1. InUse' \subseteq InUse
    BY <1>3 DEF InUse, Live
  <2> QED
    BY <1>2, <1>3, <2>1 DEF Aborted, AbortOnFailure
<1>4. ASSUME NEW t \in tasks, TaskRelease(t) PROVE Aborted'
  <2> DEFINE e == t.ts.evt
             x == UpdatedStatus(t.seen, t.failed, eventStatus[slotOf[e]])
  <2>1. e \in Events /\ owner[e] = "scheduler" /\ slotOf[e] \in Slots
    BY TaskType DEF TasksOwnTheirEvent, InState, SchedulerInv, ContextsBorn
  <2>2. slotOf[e] \in InUse
    BY <2>1 DEF InUse, Live
  <2>3. eventStatus' = [eventStatus EXCEPT ![slotOf[e]] = x] /\ UNCHANGED <<slotOf, owner>>
    BY <1>4 DEF TaskRelease
  <2> HIDE DEF e, x
  <2> QED
    BY <1>1, <1>3, <2>2, <2>3 DEF Live
<1>5. CASE SlotUpdate
  <2> DEFINE s == sched.slot
             e == slots[s].ctx
  <2>1. e \in Events /\ owner[e] = "scheduler" /\ slotOf[e] = s
    BY <1>5 DEF SlotUpdate, SchedulerInv, TypeOK, CursorOK, SlotState, EventsPlaced, SlotsOwned
  <2>2. /\ eventStatus' = eventStatus \/ eventStatus' = [eventStatus EXCEPT ![s] = "AlgStall"]
        /\ owner' = owner \/ owner' = [owner EXCEPT ![e] = "lost"]
        /\ slotOf' = slotOf
    BY <1>5 DEF SlotUpdate
  <2> HIDE DEF e, s
  <2>3. s \in InUse
    BY <2>1 DEF InUse, Live
  <2>4. \A d \in Events : d \in Live' => d \in Live
    BY <1>1, <2>1, <2>2 DEF Live
  <2> QED
    BY <1>1, <1>3, <2>2, <2>3, <2>4
<1>6. CASE TryPopFinishedEvent
  <2> DEFINE f == Head(finishedEvents)
  <2>1. finishedEvents # <<>> /\ finishedEvents \in Seq(Events)
        /\ owner' = [owner EXCEPT ![f] = "client"] /\ UNCHANGED <<slotOf, eventStatus>>
    BY <1>6 DEF TryPopFinishedEvent, SchedulerInv, TypeOK
  <2>2. f \in Events /\ Finished(f)
    BY <2>1, TailOccurs DEF Finished
  <2> HIDE DEF f
  <2>3. owner[f] = "scheduler"
    BY <2>2 DEF EventsPlaced, OnePlace
  <2>4. \A d \in Events : d \in Live' => d \in Live
    BY <1>1, <2>1, <2>2, <2>3 DEF Live
  <2> QED
    BY <1>3, <2>1, <2>4
<1>7. ASSUME NEW e, DeleteContext(e) PROVE Aborted'
  <2>1. owner' = [owner EXCEPT ![e] = "deleted"] /\ UNCHANGED <<slotOf, eventStatus>>
    BY <1>7 DEF DeleteContext
  <2>2. \A d \in Events : d \in Live' => d \in Live
    BY <1>1, <2>1 DEF Live
  <2> QED
    BY <1>3, <2>1, <2>2
<1>8. ASSUME UNCHANGED <<owner, slotOf, eventStatus>> PROVE Aborted'
  BY <1>3, <1>8 DEF Live
<1>9. CASE SchedulerSide
  <2>1. RunNewEvent \/ RunSignoff \/ RunDeactivate \/ CheckUpdate \/ RetrySchedule \/ SlotSchedule \/ Exit
          => UNCHANGED <<owner, slotOf, eventStatus>>
    BY DEF RunNewEvent, RunSignoff, RunDeactivate, CheckUpdate, RetrySchedule, SlotSchedule, Exit
  <2>2. (\E t \in tasks : (\E out \in Outcome : TaskExecute(t, out)) \/ TaskSignoff(t))
          => UNCHANGED <<owner, slotOf, eventStatus>>
    BY DEF TaskExecute, TaskSignoff
  <2>3. Deactivation => UNCHANGED <<owner, slotOf, eventStatus>>
    BY DEF Deactivation, DrainQueue, PushDeactivate
  <2> QED
    BY <1>4, <1>5, <1>8, <1>9, <2>1, <2>2, <2>3 DEF SchedulerSide, SchedulerThread, Task
<1>10. CASE WaitForEvent \/ TryPop
  BY <1>6, <1>8, <1>10 DEF WaitForEvent, TryPop, PopFinishedEvent
<1>11. CASE FlushEvent
  BY <1>7, <1>8, <1>11 DEF FlushEvent
<1>12. EndOfInput \/ NothingToWaitFor \/ DrainReturns \/ NextEventReturns \/ FinalizeScheduler
         \/ JoinScheduler \/ StopRun \/ Done \/ UNCHANGED vars => UNCHANGED <<owner, slotOf, eventStatus>>
  BY DEF EndOfInput, NothingToWaitFor, DrainReturns, NextEventReturns, FinalizeScheduler, Deactivate,
         JoinScheduler, StopRun, Done, vars
<1> QED
  BY <1>8, <1>9, <1>10, <1>11, <1>12 DEF Next, Loop

\* A flush fails on a null context, or on an event that stalled.
LEMMA FlushJustified ==
  ASSUME SchedulerInv, EventsPlaced, LoopInv, DeliveredStatus, EndJustified, FlushEvent,
         FlushFails(Head(batch))
  PROVE  Exhausted \/ Aborted'
<1> USE DEF countVars, drainVars, statusVars
<1> DEFINE f == Head(batch)
<1>1. /\ batch # <<>> /\ batch \in Seq(Events \cup {NoEvent}) /\ run' = run
      /\ f # NoEvent => DeleteContext(f)
  BY DEF FlushEvent, LoopInv, LoopType
<1>2. Occurs(batch, f) /\ f \in Events \cup {NoEvent}
  BY <1>1, TailOccurs
<1>3. CASE f = NoEvent
  BY <1>2, <1>3 DEF EndJustified
<1>4. CASE f # NoEvent
  <2>1. AbortOnFailure /\ eventStatus[slotOf[f]] # "Success"
    BY <1>4 DEF FlushFails
  <2>2. /\ f \in Events /\ owner[f] = "client" /\ owner' = [owner EXCEPT ![f] = "deleted"]
        /\ UNCHANGED <<slotOf, eventStatus>>
    BY <1>1, <1>2, <1>4 DEF DeleteContext
  <2> HIDE DEF f
  <2>3. eventStatus[slotOf[f]] = "AlgStall" /\ slotOf[f] \in Slots /\ f \in Live
    BY <2>1, <2>2 DEF DeliveredStatus, Delivered, SchedulerInv, ContextsBorn, Live
  <2>4. Live' \subseteq Live \ {f}
    BY <2>2 DEF Live, SchedulerInv, TypeOK
  <2>5. slotOf[f] \notin InUse'
    BY <2>2, <2>3, <2>4 DEF InUse, EventsPlaced, SlotsOwned
  <2> QED
    BY <1>1, <2>1, <2>2, <2>3, <2>5 DEF Aborted, AbortOnFailure
<1> QED
  BY <1>3, <1>4

\* Once an event was found missing or stalled no event is created.
LEMMA StepJustified ==
  ASSUME SchedulerInv, EventsPlaced, LoopInv, CountsAgree, FirstAlone, EndJustified,
         TasksOwnTheirEvent, DeliveredStatus, SlotsCounted, Awake, [Next]_vars
  PROVE  EndJustified'
<1> USE DEF countVars, drainVars, loopVars
<1>1. /\ batch \in Seq(Events \cup {NoEvent}) /\ finishedEvents \in Seq(Events)
      /\ newEvtAllowed \in BOOLEAN /\ loopEnded \in BOOLEAN /\ drainFailed \in BOOLEAN
  BY DEF LoopInv, LoopType, SchedulerInv, TypeOK
<1>2. CreateEvent \/ SkipEvent \/ EndOfInput => ~loopEnded /\ ~drainFailed
  <2>1. Creating => ~loopEnded /\ loop # "flush"
    BY WhenCreating DEF Creating
  <2> QED
    BY <2>1 DEF CreateEvent, SkipEvent, EndOfInput, EndJustified
<1>3. drainFailed \/ loopEnded => Exhausted' \/ Aborted'
  BY <1>2, StepExhausted, StepAborted DEF EndJustified
<1>4. drainFailed' \/ loopEnded' => Exhausted' \/ Aborted'
  <2>1. CASE FlushEvent
    <3>1. loopEnded' = loopEnded /\ drainFailed' = (drainFailed \/ FlushFails(Head(batch)))
      BY <2>1 DEF FlushEvent
    <3> QED
      BY <1>3, <2>1, <3>1, FlushJustified, StepExhausted
  <2>2. CASE DrainReturns
    <3>1. loopEnded' = (loopEnded \/ drainFailed) /\ drainFailed' = FALSE
      BY <2>2 DEF DrainReturns
    <3> QED
      BY <1>3, <3>1
  <2>3. ~FlushEvent /\ ~DrainReturns => UNCHANGED <<loopEnded, drainFailed>>
    BY DEF Next, Loop, EndOfInput, SkipEvent, CreateEvent, WaitForEvent, NothingToWaitFor, TryPop,
           NextEventReturns, FinalizeScheduler, JoinScheduler, StopRun, SchedulerSide, Done, vars
  <2> QED
    BY <1>3, <2>1, <2>2, <2>3
<1>5. Occurs(batch', NoEvent) => Exhausted'
  <2>1. CASE Occurs(batch, NoEvent)
    BY <2>1, StepExhausted DEF EndJustified
  <2>2. CASE NothingToWaitFor
    BY <2>2, NothingLeft, StepExhausted
  <2>3. CASE WaitForEvent \/ TryPop
    <3>1. \/ batch' = batch
          \/ /\ finishedEvents # <<>>
             /\ batch' = <<Head(finishedEvents)>> \/ batch' = Append(batch, Head(finishedEvents))
      BY <2>3 DEF WaitForEvent, TryPop, PopFinishedEvent, TryPopFinishedEvent
    <3>2. finishedEvents # <<>> => Head(finishedEvents) \in Events /\ Head(finishedEvents) # NoEvent
      <4>1. finishedEvents # <<>> => Head(finishedEvents) \in Events
        BY <1>1
      <4>2. NoEvent \notin Events
        BY DEF Events, NoEvent
      <4> QED
        BY <4>1, <4>2
    <3>3. \A f \in Events : Occurs(Append(batch, f), NoEvent) => Occurs(batch, NoEvent) \/ NoEvent = f
      BY <1>1, AppendOccurs
    <3>4. \A f : Occurs(<<f>>, NoEvent) => NoEvent = f
      BY DEF Occurs
    <3> QED
      BY <2>1, <3>1, <3>2, <3>3, <3>4
  <2>4. CASE FlushEvent
    <3>1. batch # <<>> /\ batch' = Tail(batch)
      BY <2>4 DEF FlushEvent
    <3>2. Occurs(batch', NoEvent) => Occurs(batch, NoEvent)
      BY <1>1, <3>1, TailOccurs
    <3> QED
      BY <2>1, <3>2
  <2>5. ~NothingToWaitFor /\ ~WaitForEvent /\ ~TryPop /\ ~FlushEvent => batch' = batch
    BY DEF Next, Loop, EndOfInput, SkipEvent, CreateEvent, DrainReturns, NextEventReturns,
           FinalizeScheduler, JoinScheduler, StopRun, SchedulerSide, Done, vars
  <2> QED
    BY <2>1, <2>2, <2>3, <2>4, <2>5
<1>6. /\ drainFailed' => loop' = "flush"
      /\ loopEnded' => loop' \in {"head", "ended", "joining", "done"}
      /\ loop' \in {"ended", "joining", "done"} => ~LoopOn'
  <2>1. CASE CreateEvent \/ SkipEvent \/ EndOfInput
    BY <1>2, <2>1 DEF CreateEvent, SkipEvent, EndOfInput
  <2>2. CASE WaitForEvent \/ NothingToWaitFor
    BY <2>2 DEF WaitForEvent, NothingToWaitFor, Draining, LoopOn, EndJustified
  <2>3. CASE TryPop \/ FlushEvent
    BY <2>3 DEF TryPop, FlushEvent, EndJustified
  <2>4. CASE DrainReturns
    BY <2>4 DEF DrainReturns
  <2>5. CASE NextEventReturns \/ FinalizeScheduler \/ JoinScheduler
    BY <2>5 DEF NextEventReturns, FinalizeScheduler, JoinScheduler, EndJustified, LoopOn, MaxEvt
  <2>6. CASE StopRun \/ SchedulerSide \/ Done \/ UNCHANGED vars
    BY <2>6 DEF StopRun, SchedulerSide, Done, vars, EndJustified, LoopOn, MaxEvt
  <2> QED
    BY <2>1, <2>2, <2>3, <2>4, <2>5, <2>6 DEF Next, Loop
<1> QED
  BY <1>4, <1>5, <1>6 DEF EndJustified

\* A queue without an entry is empty.
LEMMA NoIndexEmpty ==
  ASSUME NEW S, NEW q \in Seq(S), \A i \in DOMAIN q : FALSE
  PROVE  q = <<>>
<1>1. Len(q) \in Nat /\ DOMAIN q = 1 .. Len(q)
  BY LenProperties
<1>2. Len(q) = 0
  BY <1>1
<1> QED
  BY <1>2, EmptySeq

\* When the loop has ended, and not by an abort, everything is over.
LEMMA EndIsClean ==
  ASSUME SchedulerInv, EventsPlaced, LoopInv, CountsAgree, EndJustified, TasksOwnTheirEvent,
         StatesBacked, Awake
  PROVE  LoopEndsClean
<1> SUFFICES ASSUME loop = "ended",
                    AbortOnFailure => \A s \in Slots : eventStatus[s] \in {"Success", "Invalid"}
             PROVE  /\ Live = {} /\ tasks = {} /\ actionsQueue = <<>> /\ retryQueue = <<>>
                    /\ finishedEvts = Cardinality(Deleted)
                    /\ finishedEvts + skippedEvts =
                         IF MaxEvt < 0 \/ InputSize < MaxEvt THEN InputSize ELSE MaxEvt
  BY DEF LoopEndsClean, Deleted
<1>1. /\ createdEvts \in Nat \cup {-1} /\ finishedEvts \in Nat /\ skippedEvts \in Nat /\ nevt \in Nat
      /\ MaxEvt \in Int /\ InputSize \in Nat
  BY RunType DEF LoopInv, LoopType
<1>2. /\ Cardinality(Born) \in Nat /\ Cardinality(Deleted) \in Nat
      /\ Cardinality(Deleted) <= Cardinality(Born)
      /\ Cardinality(Deleted) = Cardinality(Born) => Deleted = Born
  BY BornFinite
<1>3. ~LoopOn /\ ~Aborted
  BY DEF EndJustified, Aborted
<1>4. Deleted = Born /\ finishedEvts + skippedEvts =
        IF MaxEvt < 0 \/ InputSize < MaxEvt THEN InputSize ELSE MaxEvt
  <2>1. CASE loopEnded
    <3>1. Exhausted
      BY <1>3, <2>1 DEF EndJustified
    <3>2. Deleted = Born /\ createdEvts = -1
      BY <3>1 DEF Exhausted, Deleted, Born
    <3> QED
      BY <1>1, <1>2, <3>2 DEF CountsAgree
  <2>2. CASE ~loopEnded
    <3>1. MaxEvt >= 0 /\ finishedEvts + skippedEvts >= MaxEvt
      BY <1>1, <1>3, <2>2 DEF LoopOn
    <3>2. finishedEvts <= Cardinality(Born)
      BY <1>2 DEF CountsAgree
    <3>3. createdEvts # -1
      BY <1>1, <1>2, <3>1, <3>2 DEF CountsAgree
    <3>4. Cardinality(Born) + skippedEvts = nevt /\ nevt <= MaxEvt /\ nevt <= InputSize
      BY <1>1, <3>1, <3>3 DEF CountsAgree
    <3>5. finishedEvts = Cardinality(Born) /\ finishedEvts + skippedEvts = MaxEvt /\ MaxEvt <= InputSize
      BY <1>1, <1>2, <3>1, <3>2, <3>4
    <3> QED
      BY <1>1, <1>2, <3>1, <3>5 DEF CountsAgree
  <2> QED
    BY <2>1, <2>2
<1>5. \A e \in Events : owner[e] # "scheduler" /\ owner[e] # "client"
  BY <1>4 DEF Deleted, Born
<1>6. Live = {}
  BY <1>5 DEF Live
<1>7. tasks = {}
  <2>1. \A t \in tasks : t.ts.evt \in Events
    BY TaskType
  <2> QED
    BY <1>5, <2>1 DEF TasksOwnTheirEvent, InState
<1>8. retryQueue = <<>>
  <2>1. retryQueue \in Seq(TaskSpecs)
    BY DEF SchedulerInv, TypeOK
  <2>2. ASSUME NEW i \in DOMAIN retryQueue PROVE FALSE
    <3>1. retryQueue[i] \in TaskSpecs
      BY <2>1
    <3>2. retryQueue[i].evt \in Events
      BY <3>1 DEF TaskSpecs
    <3>3. InState(retryQueue[i], "RESOURCELESS")
      BY DEF StatesBacked, RetryQueueExact
    <3> QED
      BY <1>5, <3>2, <3>3 DEF InState
  <2> QED
    BY <2>1, <2>2, NoIndexEmpty
<1>9. actionsQueue = <<>>
  <2>1. actionsQueue \in Seq(Actions)
    BY DEF SchedulerInv, TypeOK
  <2>2. closing = "no"
    BY DEF LoopInv, LoopOpen
  <2>3. ASSUME NEW i \in DOMAIN actionsQueue PROVE FALSE
    <3> DEFINE x == actionsQueue[i]
    <3>1. x \in Actions
      BY <2>1
    <3>2. x.kind \in {"newEvent", "signoff", "deactivate"}
      BY <3>1 DEF Actions, DeactivateAction
    <3>3. x.kind # "deactivate"
      BY <2>2, <3>1, ActionShape DEF Awake, Occurs
    <3>4. x.kind # "signoff"
      <4> SUFFICES ASSUME x.kind = "signoff" PROVE FALSE
        OBVIOUS
      <4>1. x.ts.evt \in Events
        BY <3>1, ActionShape DEF TaskSpecs
      <4> QED
        BY <1>5, <4>1 DEF TasksOwnTheirEvent, InState
    <3>5. x.kind # "newEvent"
      <4> SUFFICES ASSUME x.kind = "newEvent" PROVE FALSE
        OBVIOUS
      <4>1. x.ts.evt \in Events /\ Queued(x.ts.evt)
        BY <3>1, ActionShape DEF Queued, Occurs
      <4> QED
        BY <1>5, <4>1 DEF EventsPlaced, OnePlace
    <3> QED
      BY <3>2, <3>3, <3>4, <3>5
  <2> QED
    BY <2>1, <2>3, NoIndexEmpty
<1> QED
  BY <1>4, <1>6, <1>7, <1>8, <1>9 DEF CountsAgree

\* A run that is not aborted ends clean: nextEvent returns only when it has
\* processed every event of the input up to the limit, black-listed ones aside;
\* every context is deleted, no task runs, nothing is queued, and the counters
\* are exact.  With a thread pool and without blocking tasks, the default.
THEOREM LoopIsClean == Blocking = {} /\ ~DirectExecution => (Spec => []LoopEndsClean)
<1> SUFFICES ASSUME Blocking = {}, ~DirectExecution PROVE Spec => []LoopEndsClean
  OBVIOUS
<1> DEFINE JobInv == CountsAgree /\ FirstAlone /\ EndJustified
<1>1. Init => JobInv
  <2> SUFFICES ASSUME Init PROVE JobInv
    OBVIOUS
  <2>1. /\ run \in Runs /\ loop = "head" /\ nevt = 0 /\ createdEvts = 0 /\ finishedEvts = 0
        /\ skippedEvts = 0 /\ loopEnded = FALSE /\ batch = <<>> /\ drainFailed = FALSE
        /\ \A e \in Events : owner[e] = "unborn"
    BY DEF Init, SchedulerInit
  <2>2. Born = {} /\ Deleted = {}
    BY <2>1 DEF Born, Deleted
  <2>3. Cardinality(Born) = 0 /\ Cardinality(Deleted) = 0
    BY <2>2, FS_EmptySet
  <2>4. MaxEvt \in Int /\ InputSize \in Nat
    BY InitLoopInv, RunType DEF LoopInv
  <2>5. CountsAgree
    BY <2>1, <2>3, <2>4 DEF CountsAgree
  <2>6. FirstAlone /\ EndJustified
    BY <2>1 DEF FirstAlone, EndJustified, Occurs
  <2> QED
    BY <2>5, <2>6
<1>2. (SchedulerInv /\ EventsPlaced /\ LoopInv) /\ JobInv /\ TasksOwnTheirEvent /\ DeliveredStatus
        /\ (TasksDistinct /\ SlotsCounted) /\ (Awake /\ ReentrantQueued) /\ [Next]_vars => JobInv'
  BY StepAgree, StepFirstAlone, StepJustified
<1>3. (SchedulerInv /\ EventsPlaced /\ LoopInv) /\ JobInv /\ TasksOwnTheirEvent /\ StatesBacked
        /\ (Awake /\ ReentrantQueued) => LoopEndsClean
  BY EndIsClean
<1>4. Spec => SchedulerSpec
  BY LoopIsLawful DEF LoopObeysProtocol
<1>5. SchedulerSpec => []TasksOwnTheirEvent /\ []DeliveredStatus /\ [](TasksDistinct /\ SlotsCounted)
                       /\ [](Awake /\ ReentrantQueued) /\ []StatesBacked
  BY TasksKeepTheirEvent, DeliveredInvariant, CountsInvariant, AwakeInvariant, StatesAreBacked
<1> HIDE DEF JobInv
<1> QED
  BY <1>1, <1>2, <1>3, <1>4, <1>5, LoopInvariant, PTL DEF Spec
=============================================================================
