------------------------- MODULE AvalancheScheduler -------------------------
(***************************************************************************)
(* The concurrent event scheduler of GaudiHive: AvalancheSchedulerSvc, the *)
(* tasks it spawns (AlgTask), its event slots (EventSlot), the status      *)
(* board both share (AlgExecStateSvc) and the pool of algorithm instances  *)
(* and resources (AlgResourcePool).                                        *)
(*                                                                         *)
(* Three kinds of threads interleave here:                                 *)
(*   - the scheduler thread (activate()), which alone touches the slots:   *)
(*     it pops closures from m_actionsQueue, runs them, and iterates;      *)
(*   - one thread per running task (TBB workers, or a detached thread for  *)
(*     a blocking algorithm);                                              *)
(*   - the client (the event loop), which pushes and pops events.          *)
(*                                                                         *)
(* The precedence rules are a parameter, Iterate: everything stated here   *)
(* holds whatever control and data flow graph the job is configured with.  *)
(***************************************************************************)
EXTENDS Integers, Sequences, FiniteSets, FiniteSetsExt, AlgsExecutionStates, EventContexts

CONSTANTS
  NumAlgs,          \* m_algname_vect.size()
  CFNodes,          \* nodes of the precedence graph with a decision
  Root,             \* the RootDecisionHub
  Iterate(_, _, _), \* IPrecedenceSvc::iterate(algs, cf, cause): a set of
                    \* [cr, dr, pass, fail], the promotions it may make
  Outcomes,         \* [Algs -> SUBSET Outcome], what sysExecute may do
  PoolSize,         \* worker threads of the TBB arena
  DirectExecution,  \* ThreadPoolSize = -100
  Blocking,         \* CPU-blocking algorithms ({}: no PreemptiveBlockingTasks)
  MaxBlocking,      \* MaxBlockingAlgosInFlight
  Rank,             \* [Algs -> Nat], priorities given by the Optimizer
  Instances,        \* [Algs -> Nat \ {0}], instances the pool creates
  Reentrant,        \* algorithms whose instance is shared
  Resources,        \* named shared resources
  Requires          \* [Algs -> SUBSET Resources], NeededResources

Algs == 1 .. NumAlgs

\* How Algorithm::sysExecute can end.  "disabled" returns SUCCESS before it
\* touches the AlgExecState.
Outcome   == {"pass", "reject", "fail", "disabled"}
\* AlgExecState: (execStatus, filterPassed); "none" is the reset value,
\* execStatus FAILURE and filterPassed TRUE.
ExecState == {"none", "pass", "reject", "fail"}
Status    == {"Invalid", "Success", "AlgFail", "AlgStall"}

ASSUME SizesAssumption ==
  NumAlgs \in Nat /\ PoolSize \in Nat \ {0} /\ MaxBlocking \in Nat
ASSUME AlgorithmsAssumption ==
  /\ Blocking \subseteq Algs /\ Reentrant \subseteq Algs
  /\ Outcomes \in [Algs -> SUBSET Outcome]
  /\ Rank \in [Algs -> Nat]
  /\ Instances \in [Algs -> Nat \ {0}]   \* decodeTopAlgs queues the first one always
  /\ Requires \in [Algs -> SUBSET Resources]
ASSUME GraphAssumption == Root \in CFNodes
ASSUME DirectAssumption == DirectExecution \in BOOLEAN

VARIABLES
  slots,            \* m_eventSlots
  isActive,         \* m_isActive = ACTIVE
  closing,          \* how far the client is in deactivate()
  freeSlots,        \* m_freeSlots
  actionsQueue,     \* m_actionsQueue: the closures as records
  retryQueue,       \* m_retryQueue
  needsUpdate,      \* m_needsUpdate
  blockingInFlight, \* m_blockingAlgosInFlight
  finishedEvents,   \* m_finishedEvents
  sched,            \* where the scheduler thread is
  tasks,            \* queued and running AlgTasks
  instances,        \* AlgResourcePool: instances in each algorithm's queue
  available,        \* AlgResourcePool::m_available_resources
  execState,        \* AlgExecStateSvc::m_algStates
  eventStatus,      \* AlgExecStateSvc::m_eventStatus
  owner,            \* who holds the EventContext of each event
  slotOf            \* EventContext::slot()

slotVars   == <<slots, finishedEvents>>
queueVars  == <<actionsQueue, retryQueue, needsUpdate>>
taskVars   == <<tasks, blockingInFlight>>
poolVars   == <<instances, available>>
statusVars == <<execState, eventStatus>>
ctxVars    == <<owner, slotOf>>
activeVars == <<isActive, closing>>
schedulerVars ==
  <<slotVars, queueVars, taskVars, poolVars, statusVars, ctxVars,
    activeVars, freeSlots, sched>>

EmptyAlgs == [a \in Algs |-> "INITIAL"]
EmptyCF   == [n \in CFNodes |-> -1]

\* m_eventSlots as initialize() leaves it: complete, with no context.
EmptySlot == [ctx |-> NoEvent, algs |-> EmptyAlgs, cf |-> EmptyCF, complete |-> TRUE]

\* EventSlot::reset
ResetSlot(e) == [ctx |-> e, algs |-> EmptyAlgs, cf |-> EmptyCF, complete |-> FALSE]

AtPop   == [at |-> "pop",  n |-> 0, slot |-> NoSlot, todo |-> {}]
AtCheck == [AtPop EXCEPT !.at = "check"]
Exited  == [AtPop EXCEPT !.at = "exited"]

SchedulerInit ==
  /\ slots = [s \in Slots |-> EmptySlot]
  /\ isActive = TRUE /\ closing = "no"
  /\ freeSlots = NumSlots
  /\ actionsQueue = <<>> /\ retryQueue = <<>> /\ needsUpdate = TRUE
  /\ blockingInFlight = 0
  /\ finishedEvents = <<>>
  /\ sched = AtPop
  /\ tasks = {}
  /\ instances = Instances
  /\ available = Resources
  /\ execState = [s \in Slots |-> [a \in Algs |-> "none"]]
  /\ eventStatus = [s \in Slots |-> "Invalid"]
  /\ owner = [e \in Events |-> "unborn"]
  /\ slotOf = [e \in Events |-> NoSlot]

-----------------------------------------------------------------------------
(* The promotions of one IPrecedenceSvc::iterate call, applied to a slot.  *)
(* The promoters move an algorithm only from INITIAL or CONTROLREADY and   *)
(* decide only a node that is still undecided.                             *)

Promote(st, a, r) ==
  IF a \in r.dr /\ st \in {"INITIAL", "CONTROLREADY"} THEN "DATAREADY"
  ELSE IF a \in r.cr /\ st = "INITIAL" THEN "CONTROLREADY" ELSE st

Decide(d, n, r) ==
  IF d # -1 THEN d ELSE IF n \in r.pass THEN 1 ELSE IF n \in r.fail THEN 0 ELSE -1

Promoted(slot, r) ==
  [slot EXCEPT !.algs = [a \in Algs |-> Promote(@[a], a, r)],
               !.cf   = [n \in CFNodes |-> Decide(@[n], n, r)]]

-----------------------------------------------------------------------------
(* iterate(): first the retry queue, then every slot that has a context:   *)
(* schedule its DATAREADY algorithms, then look for completion or a stall. *)

\* The set of DATAREADY algorithms is copied when the slot is entered.
EnterSlot(s, sl) ==
  [at |-> "slot", n |-> 0, slot |-> s, todo |-> AlgsInState(sl[s].algs, "DATAREADY")]

\* Continue the loop over m_eventSlots with the first slot from k on that
\* has a context; past the last one, iterate() returns to the action loop.
FromSlot(k, sl) ==
  LET busy == {s \in Slots : s >= k /\ sl[s].ctx # NoEvent}
  IN  IF busy = {} THEN AtPop
      ELSE EnterSlot(Min(busy), sl)

\* Mutants: one turn too many over the retry queue; the queue is not parsed.
StartIteratePastEnd(sl, retry) ==
  IF retry = <<>> THEN FromSlot(0, sl)
  ELSE [AtPop EXCEPT !.at = "retry", !.n = Len(retry) + 1]
StartIterateSkipsRetry(sl, retry) == FromSlot(0, sl)

StartIterate(sl, retry) ==
  IF retry = <<>> THEN FromSlot(0, sl)
  ELSE [AtPop EXCEPT !.at = "retry", !.n = Len(retry)]

\* m_needsUpdate is cleared when iterate() ends.
ClearNeedsUpdate == needsUpdate' = (needsUpdate /\ sched'.at # "pop")

TaskSpec(a, e) == [alg |-> a, evt |-> e]

\* The task pushed to m_scheduledQueue or m_scheduledBlockingQueue.  Tasks of
\* one algorithm and event are told apart by the least free copy number.
NewTask(ts, k) ==
  [ts |-> ts, copy |-> k, stage |-> "queued", failed |-> FALSE, seen |-> "Invalid"]

Copies(ts) == {t.copy : t \in {u \in tasks : u.ts = ts}}

SpawnTask(ts) ==
  \E k \in 0 .. Cardinality(tasks) :
    /\ k \notin Copies(ts) /\ 0 .. (k - 1) \subseteq Copies(ts)
    /\ tasks' = tasks \cup {NewTask(ts, k)}

\* AlgResourcePool::acquireAlgorithm succeeds.
CanAcquire(a) == instances[a] > 0 /\ Requires[a] \subseteq available

AcquireAlgorithm(a) ==
  /\ instances' = IF a \in Reentrant THEN instances
                  ELSE [instances EXCEPT ![a] = @ - 1]
  /\ available' = available \ Requires[a]

\* Mutant: the resources are not given back.
ReleaseInstanceOnly(a) ==
  /\ instances' = IF a \in Reentrant THEN instances
                  ELSE [instances EXCEPT ![a] = @ + 1]
  /\ UNCHANGED available

\* AlgResourcePool::releaseAlgorithm
ReleaseAlgorithm(a) ==
  /\ available' = available \cup Requires[a]
  /\ instances' = IF a \in Reentrant THEN instances
                  ELSE [instances EXCEPT ![a] = @ + 1]

\* revise() without iteration, on the slot the context names.
Revised(ts, state) ==
  [slots EXCEPT ![slotOf[ts.evt]].algs[ts.alg] = SetState(@, state)]

\* Mutant: the limit is exceeded by one.
ThrottledLate(ts) == ts.alg \in Blocking /\ blockingInFlight > MaxBlocking

\* schedule() finds the limit of blocking algorithms reached.
Throttled(ts) == ts.alg \in Blocking /\ blockingInFlight = MaxBlocking

\* schedule(ts), where `pending' is the retry queue ts was taken from.  With
\* ThreadPoolSize -100 the AlgTask is called in place, finds m_scheduledQueue
\* empty ("Missing specification while task is running") and returns.
Schedule(ts, pending) ==
  \/ /\ Throttled(ts)
     /\ retryQueue' = Append(pending, ts)
     /\ UNCHANGED <<slots, poolVars, taskVars>>
  \/ /\ ~Throttled(ts) /\ ~CanAcquire(ts.alg)
     /\ slots' = Revised(ts, "RESOURCELESS")
     /\ retryQueue' = Append(pending, ts)
     /\ UNCHANGED <<poolVars, taskVars>>
  \/ /\ ~Throttled(ts) /\ CanAcquire(ts.alg)
     /\ AcquireAlgorithm(ts.alg)
     /\ slots' = Revised(ts, "SCHEDULED")
     /\ retryQueue' = pending
     /\ IF DirectExecution THEN UNCHANGED taskVars
        ELSE /\ SpawnTask(ts)
             /\ blockingInFlight' = IF ts.alg \in Blocking THEN blockingInFlight + 1
                                    ELSE blockingInFlight

\* Mutant: the specification taken stays in the retry queue.
RetryScheduleKeepsHead ==
  /\ sched.at = "retry"
  /\ Schedule(Head(retryQueue), retryQueue)
  /\ sched' = IF sched.n > 1 THEN [sched EXCEPT !.n = @ - 1] ELSE FromSlot(0, slots')
  /\ ClearNeedsUpdate
  /\ UNCHANGED <<actionsQueue, activeVars, freeSlots, finishedEvents, statusVars, ctxVars>>

\* One turn of the retry loop of iterate().
RetrySchedule ==
  /\ sched.at = "retry"
  /\ Schedule(Head(retryQueue), Tail(retryQueue))
  /\ sched' = IF sched.n > 1 THEN [sched EXCEPT !.n = @ - 1] ELSE FromSlot(0, slots')
  /\ ClearNeedsUpdate
  /\ UNCHANGED <<actionsQueue, activeVars, freeSlots, finishedEvents, statusVars, ctxVars>>

\* One turn of the loop over the DATAREADY algorithms of a slot, in index order.
SlotSchedule ==
  /\ sched.at = "slot" /\ sched.todo # {}
  /\ LET a == Min(sched.todo)
     IN  /\ Schedule(TaskSpec(a, slots[sched.slot].ctx), retryQueue)
         /\ sched' = [sched EXCEPT !.todo = @ \ {a}]
  /\ UNCHANGED <<actionsQueue, needsUpdate, activeVars, freeSlots, finishedEvents,
                 statusVars, ctxVars>>

Active  == {"CONTROLREADY", "DATAREADY", "SCHEDULED", "RESOURCELESS"}
Waiting == {"DATAREADY", "SCHEDULED", "RESOURCELESS"}

\* The root decision is there and no algorithm is on its way.
EventDone(slot) ==
  /\ slot.cf[Root] # -1                 \* IPrecedenceSvc::CFRulesResolved
  /\ ~ContainsAny(slot.algs, Active)
  /\ ~slot.complete

\* Mutant: running algorithms are not looked at.
IsStalledWhileRunning(slot) == ~ContainsAny(slot.algs, {"DATAREADY", "RESOURCELESS"})

\* isStalled()
IsStalled(slot) == ~ContainsAny(slot.algs, Waiting)

\* The end of the turn for one slot: completion, stall, or nothing.  A
\* completed event whose status is not Success is not pushed to
\* m_finishedEvents: its context is deleted with the slot's pointer.
SlotUpdate ==
  LET s == sched.slot
      e == slots[s].ctx
      Free == [slots EXCEPT ![s].ctx = NoEvent, ![s].complete = TRUE]
  IN
  /\ sched.at = "slot" /\ sched.todo = {}
  /\ IF EventDone(slots[s])
     THEN /\ slots' = Free
          /\ UNCHANGED eventStatus
          /\ IF eventStatus[s] = "Success"
             THEN finishedEvents' = Append(finishedEvents, e) /\ UNCHANGED owner
             ELSE owner' = [owner EXCEPT ![e] = "lost"] /\ UNCHANGED finishedEvents
     ELSE IF IsStalled(slots[s])
     THEN /\ slots' = Free
          /\ eventStatus' = [eventStatus EXCEPT ![s] = "AlgStall"]
          /\ finishedEvents' = Append(finishedEvents, e)
          /\ UNCHANGED owner
     ELSE UNCHANGED <<slots, eventStatus, finishedEvents, owner>>
  /\ sched' = FromSlot(s + 1, slots')
  /\ ClearNeedsUpdate
  /\ UNCHANGED <<actionsQueue, retryQueue, taskVars, poolVars, execState, slotOf,
                 activeVars, freeSlots>>

-----------------------------------------------------------------------------
(* The closures of m_actionsQueue, run by the scheduler thread.            *)

NewEventAction(e)  == [kind |-> "newEvent", ts |-> TaskSpec(0, e)]
SignoffAction(ts)  == [kind |-> "signoff", ts |-> ts]
DeactivateAction   == [kind |-> "deactivate", ts |-> TaskSpec(0, NoEvent)]

PopAction(kind) ==
  /\ sched.at = "pop" /\ actionsQueue # <<>> /\ Head(actionsQueue).kind = kind
  /\ actionsQueue' = Tail(actionsQueue)

\* The closure of pushNewEvent: take the slot over, promote the first
\* algorithms, iterate.  A slot that is not complete refuses the event.
RunNewEvent ==
  /\ PopAction("newEvent")
  /\ LET e == Head(actionsQueue).ts.evt
         s == slotOf[e]
     IN  IF ~slots[s].complete
         THEN sched' = AtCheck /\ UNCHANGED <<slots, needsUpdate>>
         ELSE /\ \E r \in Iterate(EmptyAlgs, EmptyCF, Root) :
                   slots' = [slots EXCEPT ![s] = Promoted(ResetSlot(e), r)]
              /\ sched' = StartIterate(slots', retryQueue)
              /\ ClearNeedsUpdate
  /\ UNCHANGED <<retryQueue, taskVars, poolVars, statusVars, ctxVars,
                 finishedEvents, activeVars, freeSlots>>

\* The state signoff() gives an executed algorithm.
SignoffState(x) ==
  CASE x = "pass" -> "EVTACCEPTED" [] x = "reject" -> "EVTREJECTED" [] OTHER -> "ERROR"

\* signoff(): the new state is set in the slot the context names, and the
\* precedence rules are revised if the transition was allowed.
RunSignoff ==
  /\ PopAction("signoff")
  /\ LET ts  == Head(actionsQueue).ts
         s   == slotOf[ts.evt]
         new == SignoffState(execState[s][ts.alg])
         set == Revised(ts, new)
     IN  /\ IF MaySet(slots[s].algs[ts.alg], new)
            THEN \E r \in Iterate(set[s].algs, set[s].cf, ts.alg) :
                   slots' = [set EXCEPT ![s] = Promoted(@, r)]
            ELSE slots' = set
         /\ blockingInFlight' = IF ts.alg \in Blocking THEN blockingInFlight - 1
                                ELSE blockingInFlight
  /\ needsUpdate' = TRUE
  /\ sched' = AtCheck
  /\ UNCHANGED <<retryQueue, tasks, poolVars, statusVars, ctxVars,
                 finishedEvents, activeVars, freeSlots>>

RunDeactivate ==
  /\ PopAction("deactivate")
  /\ isActive' = FALSE
  /\ sched' = AtCheck
  /\ UNCHANGED <<slotVars, retryQueue, needsUpdate, taskVars, poolVars, statusVars,
                 ctxVars, closing, freeSlots>>

\* After each action: iterate if an update is needed and nothing is queued.
CheckUpdate ==
  /\ sched.at = "check"
  /\ sched' = IF needsUpdate /\ actionsQueue = <<>> THEN StartIterate(slots, retryQueue)
              ELSE AtPop
  /\ needsUpdate' = (needsUpdate /\ (actionsQueue # <<>> \/ sched'.at # "pop"))
  /\ UNCHANGED <<slotVars, actionsQueue, retryQueue, taskVars, poolVars, statusVars,
                 ctxVars, activeVars, freeSlots>>

\* The loop of activate() ends and the thread pool is terminated.
Exit ==
  /\ sched.at = "pop" /\ ~isActive /\ actionsQueue = <<>>
  /\ sched' = Exited
  /\ UNCHANGED <<slotVars, queueVars, taskVars, poolVars, statusVars, ctxVars,
                 activeVars, freeSlots>>

SchedulerThread ==
  \/ RunNewEvent \/ RunSignoff \/ RunDeactivate \/ CheckUpdate
  \/ RetrySchedule \/ SlotSchedule \/ SlotUpdate \/ Exit

-----------------------------------------------------------------------------
(* AlgTask::operator().  A task takes the spec with the highest rank from  *)
(* its queue, executes the algorithm and reads the event status; writes    *)
(* the status and releases the algorithm; queues the sign-off.  The update *)
(* of the event status is a read and a write, unsynchronised in the code.  *)

Running == {t \in tasks : t.stage # "queued"}

\* AvalancheSchedulerSvc::next on the queue of t, by a free worker (or, for
\* a blocking algorithm, by its own thread).
MayStart(t) ==
  /\ t.stage = "queued"
  /\ \A u \in tasks : u.stage = "queued" /\ (u.ts.alg \in Blocking <=> t.ts.alg \in Blocking)
                        => Rank[u.ts.alg] <= Rank[t.ts.alg]
  /\ t.ts.alg \notin Blocking =>
       Cardinality({u \in Running : u.ts.alg \notin Blocking}) < PoolSize

\* Algorithm::sysExecute on the event's slot.
TaskExecute(t, out) ==
  /\ MayStart(t)
  /\ out \in Outcomes[t.ts.alg]
  /\ LET s == slotOf[t.ts.evt]
     IN  /\ execState' = IF out = "disabled" THEN execState
                         ELSE [execState EXCEPT ![s][t.ts.alg] = out]
         /\ tasks' = (tasks \ {t}) \cup
              {[t EXCEPT !.stage = "executed", !.failed = (out = "fail"),
                         !.seen = eventStatus[s]]}
  /\ UNCHANGED <<slotVars, queueVars, blockingInFlight, poolVars, eventStatus,
                 ctxVars, activeVars, freeSlots, sched>>

\* AlgExecStateSvc::updateEventStatus, on the status that was read.
UpdatedStatus(seen, fail, current) ==
  CASE seen = "Success" /\ fail -> "AlgFail"
    [] seen = "Invalid" -> IF fail THEN "AlgFail" ELSE "Success"
    [] OTHER -> current

TaskRelease(t) ==
  /\ t.stage = "executed"
  /\ LET s == slotOf[t.ts.evt]
     IN  eventStatus' = [eventStatus EXCEPT ![s] = UpdatedStatus(t.seen, t.failed, @)]
  /\ ReleaseAlgorithm(t.ts.alg)
  /\ tasks' = (tasks \ {t}) \cup {[t EXCEPT !.stage = "released"]}
  /\ UNCHANGED <<slotVars, queueVars, blockingInFlight, execState, ctxVars,
                 activeVars, freeSlots, sched>>

\* Mutant: a failed task does not sign off.
TaskSignoffOnSuccess(t) ==
  /\ t.stage = "released"
  /\ actionsQueue' = IF t.failed THEN actionsQueue
                     ELSE Append(actionsQueue, SignoffAction(t.ts))
  /\ tasks' = tasks \ {t}
  /\ UNCHANGED <<slotVars, retryQueue, needsUpdate, blockingInFlight, poolVars,
                 statusVars, ctxVars, activeVars, freeSlots, sched>>

TaskSignoff(t) ==
  /\ t.stage = "released"
  /\ actionsQueue' = Append(actionsQueue, SignoffAction(t.ts))
  /\ tasks' = tasks \ {t}
  /\ UNCHANGED <<slotVars, retryQueue, needsUpdate, blockingInFlight, poolVars,
                 statusVars, ctxVars, activeVars, freeSlots, sched>>

Task == \E t \in tasks :
  \/ \E out \in Outcome : TaskExecute(t, out)
  \/ TaskRelease(t) \/ TaskSignoff(t)

-----------------------------------------------------------------------------
(* The client's calls.                                                     *)

\* AlgExecStateSvc::reset
ResetStatus(s) ==
  /\ execState' = [execState EXCEPT ![s] = [a \in Algs |-> "none"]]
  /\ eventStatus' = [eventStatus EXCEPT ![s] = "Invalid"]

\* AlgExecStateSvc::reset and pushNewEvent for a new event on slot s.
PushNewEvent(e, s) ==
  /\ owner[e] = "unborn" /\ freeSlots # 0
  /\ owner' = [owner EXCEPT ![e] = "scheduler"]
  /\ slotOf' = [slotOf EXCEPT ![e] = s]
  /\ ResetStatus(s)
  /\ freeSlots' = freeSlots - 1
  /\ actionsQueue' = Append(actionsQueue, NewEventAction(e))
  /\ UNCHANGED <<slotVars, retryQueue, needsUpdate, taskVars, poolVars, activeVars, sched>>

\* A new event is reset on slot s and not pushed: it is on the black list.
ResetOnly(s) ==
  /\ ResetStatus(s)
  /\ UNCHANGED <<slotVars, queueVars, taskVars, poolVars, ctxVars, activeVars, freeSlots,
                 sched>>

\* tryPopFinishedEvent, when it finds an event
TryPopFinishedEvent ==
  /\ finishedEvents # <<>>
  /\ finishedEvents' = Tail(finishedEvents)
  /\ owner' = [owner EXCEPT ![Head(finishedEvents)] = "client"]
  /\ freeSlots' = freeSlots + 1
  /\ UNCHANGED <<slots, queueVars, taskVars, poolVars, statusVars, slotOf, activeVars, sched>>

\* popFinishedEvent returns at once with FAILURE.
PopRefused == freeSlots = NumSlots \/ ~isActive

\* popFinishedEvent, blocking while the queue is empty
PopFinishedEvent == ~PopRefused /\ TryPopFinishedEvent

\* The client deletes the context it was given.
DeleteContext(e) ==
  /\ owner[e] = "client"
  /\ owner' = [owner EXCEPT ![e] = "deleted"]
  /\ UNCHANGED <<slotVars, queueVars, taskVars, poolVars, statusVars, slotOf,
                 activeVars, freeSlots, sched>>

\* deactivate(), while tasks and the scheduler thread go on: m_freeSlots is
\* set to 0; actions are popped one by one, whatever they are, until the
\* queue is found empty; the last action is pushed.
Deactivate ==
  /\ closing = "no" /\ isActive
  /\ closing' = "draining"
  /\ freeSlots' = 0
  /\ UNCHANGED <<slotVars, queueVars, taskVars, poolVars, statusVars, ctxVars,
                 isActive, sched>>

DrainQueue ==
  /\ closing = "draining"
  /\ IF actionsQueue = <<>> THEN closing' = "drained" /\ UNCHANGED actionsQueue
     ELSE actionsQueue' = Tail(actionsQueue) /\ UNCHANGED closing
  /\ UNCHANGED <<slotVars, retryQueue, needsUpdate, taskVars, poolVars, statusVars,
                 ctxVars, isActive, freeSlots, sched>>

\* Mutant: the queue is drained again once the last action is in it.
PushThenDrain ==
  /\ closing = "drained"
  /\ closing' = "draining"
  /\ actionsQueue' = Append(actionsQueue, DeactivateAction)
  /\ UNCHANGED <<slotVars, retryQueue, needsUpdate, taskVars, poolVars, statusVars,
                 ctxVars, isActive, freeSlots, sched>>

PushDeactivate ==
  /\ closing = "drained"
  /\ closing' = "closed"
  /\ actionsQueue' = Append(actionsQueue, DeactivateAction)
  /\ UNCHANGED <<slotVars, retryQueue, needsUpdate, taskVars, poolVars, statusVars,
                 ctxVars, isActive, freeSlots, sched>>

\* The slots that events alive hold.
Live   == {e \in Events : owner[e] \in {"scheduler", "client"}}
InUse  == {slotOf[e] : e \in Live}

\* The client protocol: one thread, a slot per live event, ascending event
\* numbers, and no call after deactivate().
Client ==
  /\ closing = "no"
  /\ \/ \E e \in Events, s \in Slots \ InUse :
          /\ \A d \in Events : owner[d] # "unborn" => d < e
          /\ PushNewEvent(e, s)
     \/ \E s \in Slots \ InUse : ResetOnly(s)
     \/ PopFinishedEvent
     \/ TryPopFinishedEvent
     \/ \E e \in Events : DeleteContext(e)
     \/ Deactivate

Deactivation == DrainQueue \/ PushDeactivate

\* finalize() has joined the scheduler thread and no task is left.
Terminated == sched.at = "exited" /\ tasks = {} /\ UNCHANGED schedulerVars

SchedulerNext == SchedulerThread \/ Task \/ Client \/ Deactivation \/ Terminated

\* The threads run, the client collects what is finished.
Fairness ==
  /\ WF_schedulerVars(SchedulerThread)
  /\ WF_schedulerVars(Task)
  /\ WF_schedulerVars(PopFinishedEvent)
  /\ WF_schedulerVars(Deactivation)

SchedulerSpec == SchedulerInit /\ [][SchedulerNext]_schedulerVars
FairSpec == SchedulerSpec /\ Fairness

-----------------------------------------------------------------------------
(* Properties.                                                             *)

TaskSpecs == [alg : Algs, evt : Events]
SlotState == [ctx : Events \cup {NoEvent}, algs : [Algs -> AState],
              cf : [CFNodes -> {-1, 0, 1}], complete : BOOLEAN]
Tasks == [ts : TaskSpecs, copy : Nat, stage : {"queued", "executed", "released"},
          failed : BOOLEAN, seen : Status]
Actions == [kind : {"newEvent"}, ts : [alg : {0}, evt : Events]]
           \cup [kind : {"signoff"}, ts : TaskSpecs] \cup {DeactivateAction}

\* Type correctness: every slot, queue entry, task and counter stays in the set
\* its declaration in AvalancheSchedulerSvc.h suggests.
TypeOK ==
  /\ slots \in [Slots -> SlotState]
  /\ isActive \in BOOLEAN
  /\ closing \in {"no", "draining", "drained", "closed"}
  /\ freeSlots \in Int
  /\ actionsQueue \in Seq(Actions)
  /\ retryQueue \in Seq(TaskSpecs)
  /\ needsUpdate \in BOOLEAN
  /\ blockingInFlight \in Int
  /\ finishedEvents \in Seq(Events)
  /\ sched \in [at : {"pop", "check", "retry", "slot", "exited"}, n : Nat,
                slot : Slots \cup {NoSlot}, todo : SUBSET Algs]
  /\ tasks \subseteq Tasks
  /\ instances \in [Algs -> Int]
  /\ available \subseteq Resources
  /\ execState \in [Slots -> [Algs -> ExecState]]
  /\ eventStatus \in [Slots -> Status]
  /\ owner \in [Events -> {"unborn", "scheduler", "client", "deleted", "lost"}]
  /\ slotOf \in [Events -> Slots \cup {NoSlot}]

\* The scheduler thread's position makes sense: the retry loop has an entry
\* left for each turn to come, and the slot it works on has a context.
CursorOK ==
  /\ sched.at = "retry" => sched.n \in 1 .. Len(retryQueue)
  /\ sched.at = "slot" => sched.slot \in Slots /\ slots[sched.slot].ctx # NoEvent

\* Whatever refers to an event refers to one that was pushed and has a slot.
ContextsBorn ==
  /\ \A e \in Events : owner[e] # "unborn" => slotOf[e] \in Slots
  /\ \A s \in Slots : slots[s].ctx # NoEvent => owner[slots[s].ctx] # "unborn"
  /\ \A t \in tasks : owner[t.ts.evt] # "unborn"
  /\ \A i \in DOMAIN retryQueue : owner[retryQueue[i].evt] # "unborn"
  /\ \A i \in DOMAIN actionsQueue :
       actionsQueue[i].kind # "deactivate" => owner[actionsQueue[i].ts.evt] # "unborn"
  /\ \A i \in DOMAIN finishedEvents : owner[finishedEvents[i]] # "unborn"

\* The inductive invariant behind type correctness: no action of activate(),
\* iterate() or AlgTask works on an empty queue, a slot without a context or
\* an event without a slot, all of which the code dereferences unchecked.
SchedulerInv == TypeOK /\ CursorOK /\ ContextsBorn

\* Algorithm a of event e is in state st, in the slot e occupies.
InState(ts, st) ==
  /\ owner[ts.evt] = "scheduler"
  /\ slots[slotOf[ts.evt]].ctx = ts.evt
  /\ slots[slotOf[ts.evt]].algs[ts.alg] = st

SignoffQueued(ts) == \E i \in DOMAIN actionsQueue : actionsQueue[i] = SignoffAction(ts)

\* A task, until its sign-off is run, keeps the EventContext it points to
\* alive and resident in its slot with the algorithm SCHEDULED, and it is the
\* only task for that algorithm and event: AlgTask and signoff() use a raw
\* pointer that iterate() deletes or hands out when it finds the slot done.
TasksOwnTheirEvent ==
  /\ \A t \in tasks :
       /\ InState(t.ts, "SCHEDULED") /\ ~SignoffQueued(t.ts)
       /\ \A u \in tasks : u.ts = t.ts => u = t
  /\ \A i \in DOMAIN actionsQueue : actionsQueue[i].kind = "signoff" =>
       /\ InState(actionsQueue[i].ts, "SCHEDULED")
       /\ \A j \in DOMAIN actionsQueue : actionsQueue[j] = actionsQueue[i] => j = i

\* Until deactivate() an algorithm in SCHEDULED has a task or a queued
\* sign-off: nothing else would ever move it.
ScheduledHasTask ==
  closing = "no" =>
    \A ts \in TaskSpecs :
      InState(ts, "SCHEDULED") => SignoffQueued(ts) \/ \E t \in tasks : t.ts = ts

\* m_retryQueue holds each RESOURCELESS algorithm of each event once, and
\* nothing else: a missing entry would never run, a second one would run the
\* algorithm twice or point to a deleted context.
RetryQueueExact ==
  /\ \A i \in DOMAIN retryQueue :
       /\ InState(retryQueue[i], "RESOURCELESS")
       /\ \A j \in DOMAIN retryQueue : retryQueue[j] = retryQueue[i] => j = i
  /\ \A ts \in TaskSpecs : InState(ts, "RESOURCELESS") =>
       \E i \in DOMAIN retryQueue : retryQueue[i] = ts

\* What the slots say of an algorithm and what will move it agree: behind every
\* SCHEDULED one there is a task or its sign-off, behind every RESOURCELESS one
\* its entry in the retry queue, and no entry is stale (schedule(), iterate()).
StatesBacked == ScheduledHasTask /\ RetryQueueExact

\* Before deactivate(), a scheduler thread blocked on an empty queue with no
\* task under way has nothing left: every event it was given is finished.
\* m_needsUpdate and the retry queue lose no wake-up.
IdleMeansDone ==
  closing = "no" /\ sched.at = "pop" /\ actionsQueue = <<>> /\ tasks = {} =>
    /\ retryQueue = <<>>
    /\ \A s \in Slots : slots[s].ctx = NoEvent
    /\ \A e \in Events : owner[e] = "scheduler" =>
         \E i \in DOMAIN finishedEvents : finishedEvents[i] = e

\* The tasks that hold an instance and the resources of their algorithm.
Holders == {t \in tasks : t.stage # "released"}

\* AlgResourcePool: no resource is held twice or lost, and the instances of
\* an algorithm that is not reentrant are in its queue or with a task.
PoolConserved ==
  /\ \A t, u \in Holders : t # u => Requires[t.ts.alg] \cap Requires[u.ts.alg] = {}
  /\ available = Resources \ UNION {Requires[t.ts.alg] : t \in Holders}
  /\ \A a \in Algs \ Reentrant :
       instances[a] + Cardinality({t \in Holders : t.ts.alg = a}) = Instances[a]

\* The free slots of the scheduler are the ones no event uses: m_freeSlots is
\* counted by the client and the slots are emptied by the scheduler thread.
SlotsAccounted ==
  closing = "no" =>
    freeSlots = NumSlots - Cardinality({e \in Events : owner[e] = "scheduler"})

\* Nothing is lost on the way: instances, resources and slots are free or with
\* the task or the event that uses them, through failures, stalls and retries.
NothingLost == PoolConserved /\ SlotsAccounted

\* A failure is not lost: an event delivered with status Success has no
\* algorithm whose execution failed ("A FAILURE in algorithm execution must
\* be communicated to the framework").
FailureNotLost ==
  \A i \in DOMAIN finishedEvents :
    LET s == slotOf[finishedEvents[i]]
    IN  eventStatus[s] = "Success" => \A a \in Algs : execState[s][a] # "fail"

\* m_blockingAlgosInFlight counts the blocking tasks and never exceeds
\* MaxBlockingAlgosInFlight.
BlockingCounted ==
  closing = "no" =>
    /\ blockingInFlight <= MaxBlocking
    /\ blockingInFlight =
         Cardinality({t \in tasks : t.ts.alg \in Blocking})
         + Cardinality({i \in DOMAIN actionsQueue :
                          actionsQueue[i].kind = "signoff"
                            /\ actionsQueue[i].ts.alg \in Blocking})

\* An event is never dropped when its slot completes ("if the event did not
\* fail, add it to the finished events; otherwise it is taken care of in the
\* error handling"): the client would wait for it forever.
NoEventLost == \A e \in Events : owner[e] # "lost"

\* A task is spawned only for an algorithm that waits for it ("when the
\* DF-ready task pool parsing mechanism considers it"), never for one that
\* runs or has run in the event.
ScheduledWhenReady ==
  [][\A t \in tasks' \ tasks : t.stage = "queued" =>
       InState(t.ts, "DATAREADY") \/ InState(t.ts, "RESOURCELESS")]_schedulerVars

\* What the client sees of an event.
PhaseOf(e) ==
  CASE owner[e] = "unborn" -> "new"
    [] owner[e] = "scheduler" ->
         IF \E i \in DOMAIN finishedEvents : finishedEvents[i] = e THEN "finished" ELSE "inFlight"
    [] owner[e] = "lost" -> "lost"
    [] OTHER -> "returned"

\* What the scheduler promises its client: see EventScheduler.
Contract == INSTANCE EventScheduler WITH
  phase <- [e \in Events |-> PhaseOf(e)],
  finished <- finishedEvents,
  free <- freeSlots,
  open <- (closing = "no")

\* The scheduler implements that contract: bounded number of events in flight,
\* each finished once, handed back once in the order of finishing, and
\* finished eventually while the scheduler is open.
ImplementsContract == Contract!Spec

\* A deactivated scheduler stops: finalize() can join its thread.
DeactivationCompletes == closing # "no" ~> sched.at = "exited"
=============================================================================
