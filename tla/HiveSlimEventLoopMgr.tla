------------------------ MODULE HiveSlimEventLoopMgr ------------------------
(***************************************************************************)
(* The event loop, HiveSlimEventLoopMgr, with the whiteboard it takes      *)
(* stores from and the scheduler it feeds: executeRun(MaxEvt), then the    *)
(* finalization of the scheduler.  The loop is one thread; what it reads   *)
(* between two of its actions (m_freeSlots, the free stores) only it       *)
(* changes, so a test of the loop and the call it guards are one action.   *)
(***************************************************************************)
EXTENDS AvalancheScheduler, HiveWhiteBoard

CONSTANT
  Runs   \* records [maxEvt, input, blackList, abort]: the argument of executeRun
         \* (negative: no limit), the events the selector can deliver,
         \* EventNumberBlackList and AbortOnFailure

\* executeRun copies the black list up to the number maxEvt, that one included,
\* into a bit set of maxEvt bits.  To set bit maxEvt is undefined: a run that does
\* so is left out.  The loop tests smaller numbers only.
ASSUME LoopAssumption ==
  \A r \in Runs :
    /\ r.maxEvt \in Int /\ r.input \in 0 .. MaxEvents /\ r.abort \in BOOLEAN
    /\ r.blackList \subseteq Nat /\ (r.maxEvt > 0 => r.maxEvt \notin r.blackList)
    /\ r.maxEvt <= MaxEvents

VARIABLES
  run,             \* rigid: which run
  loop,            \* where the loop thread is
  nevt,            \* m_nevt, the number of the next event
  createdEvts, finishedEvts, skippedEvts,   \* locals of nextEvent
  newEvtAllowed, loopEnded,
  batch,           \* finishedEvtContexts of drainScheduler
  drainFailed,     \* finalSC is FAILURE
  scheduledStop    \* m_scheduledStop

countVars == <<run, nevt, createdEvts, skippedEvts>>
drainVars == <<finishedEvts, newEvtAllowed, loopEnded, batch, drainFailed>>
loopVars  == <<loop, countVars, drainVars, scheduledStop>>
vars      == <<schedulerVars, boardVars, loopVars>>

MaxEvt         == run.maxEvt
InputSize      == run.input
Blacklist      == run.blackList
AbortOnFailure == run.abort

Init ==
  /\ run \in Runs
  /\ SchedulerInit /\ BoardInit
  /\ loop = "head" /\ nevt = 0
  /\ createdEvts = 0 /\ finishedEvts = 0 /\ skippedEvts = 0
  /\ newEvtAllowed = FALSE /\ loopEnded = FALSE
  /\ batch = <<>> /\ drainFailed = FALSE
  /\ scheduledStop = FALSE

-----------------------------------------------------------------------------
(* nextEvent().                                                            *)

\* Mutant: the loop counts the events created, not the finished ones.
LoopOnCreated == ~loopEnded /\ (MaxEvt < 0 \/ createdEvts < MaxEvt)

\* The condition of the work loop.
LoopOn == ~loopEnded /\ (MaxEvt < 0 \/ finishedEvts + skippedEvts < MaxEvt)

EventsLeft(created) == created < MaxEvt \/ MaxEvt < 0

\* The conditions for creating an event: the first one is launched alone.
MayCreate ==
  /\ newEvtAllowed \/ createdEvts = 0
  /\ createdEvts >= 0 /\ EventsLeft(createdEvts)
  /\ freeSlots > 0 /\ freeStores # <<>>

Creating == loop = "create" \/ (loop = "head" /\ LoopOn /\ MayCreate)

\* createEventContext() runs out of input: the context is invalid, which
\* ends the creation of events; the store it took is not given back.
EndOfInput ==
  /\ Creating /\ nevt >= InputSize
  /\ AllocateStore(nevt, Head(freeStores))
  /\ nevt' = nevt + 1 /\ createdEvts' = -1
  /\ loop' = "head"
  /\ UNCHANGED <<run, schedulerVars, skippedEvts, drainVars, scheduledStop>>

\* executeEvent() skips an event of the black list and frees its store; the
\* next event is tried at once.
SkipEvent ==
  /\ Creating /\ nevt < InputSize /\ nevt \in Blacklist
  /\ BounceStore
  /\ ResetOnly(Head(freeStores))
  /\ nevt' = nevt + 1 /\ createdEvts' = createdEvts + 1 /\ skippedEvts' = skippedEvts + 1
  /\ loop' = IF EventsLeft(createdEvts') THEN "create" ELSE "head"
  /\ UNCHANGED <<run, drainVars, scheduledStop>>

\* createEventContext() and executeEvent()
CreateEvent ==
  /\ Creating /\ nevt < InputSize /\ nevt \notin Blacklist
  /\ AllocateStore(nevt, Head(freeStores))
  /\ PushNewEvent(nevt, Head(freeStores))
  /\ nevt' = nevt + 1 /\ createdEvts' = createdEvts + 1
  /\ loop' = "head"
  /\ UNCHANGED <<run, skippedEvts, drainVars, scheduledStop>>

-----------------------------------------------------------------------------
(* drainScheduler(): pop one event, blocking; pop the others that are      *)
(* there; flush them.                                                      *)

Draining == loop = "head" /\ LoopOn /\ ~MayCreate

WaitForEvent ==
  /\ Draining
  /\ PopFinishedEvent
  /\ batch' = <<Head(finishedEvents)>> /\ loop' = "tryPop"
  /\ UNCHANGED <<boardVars, countVars, finishedEvts, newEvtAllowed, loopEnded,
                 drainFailed, scheduledStop>>

\* popFinishedEvent fails: a null pointer is put among the contexts.
NothingToWaitFor ==
  /\ Draining
  /\ PopRefused
  /\ batch' = <<NoEvent>> /\ loop' = "tryPop"
  /\ UNCHANGED <<schedulerVars, boardVars, countVars, finishedEvts, newEvtAllowed,
                 loopEnded, drainFailed, scheduledStop>>

TryPop ==
  /\ loop = "tryPop"
  /\ \/ /\ TryPopFinishedEvent
        /\ batch' = Append(batch, Head(finishedEvents)) /\ UNCHANGED loop
     \/ /\ finishedEvents = <<>>
        /\ loop' = "flush" /\ UNCHANGED <<schedulerVars, batch>>
  /\ UNCHANGED <<boardVars, countVars, finishedEvts, newEvtAllowed, loopEnded,
                 drainFailed, scheduledStop>>

\* A failed event, or a null context, makes drainScheduler fail.
FlushFails(e) ==
  IF e = NoEvent THEN TRUE ELSE AbortOnFailure /\ eventStatus[slotOf[e]] # "Success"

\* clearWBSlot() and the deletion of the context
FlushEvent ==
  /\ loop = "flush" /\ batch # <<>>
  /\ LET e == Head(batch)
     IN  /\ drainFailed' = (drainFailed \/ FlushFails(e))
         /\ IF e = NoEvent THEN UNCHANGED <<schedulerVars, boardVars, finishedEvts>>
            ELSE /\ FreeStore(slotOf[e]) /\ DeleteContext(e)
                 /\ finishedEvts' = finishedEvts + 1
  /\ batch' = Tail(batch)
  /\ UNCHANGED <<loop, countVars, newEvtAllowed, loopEnded, scheduledStop>>

\* Mutant: drainScheduler goes on looking for finished events.
DrainGoesOn ==
  /\ loop = "flush" /\ batch = <<>>
  /\ loopEnded' = (loopEnded \/ drainFailed) /\ drainFailed' = FALSE
  /\ newEvtAllowed' = TRUE
  /\ loop' = "tryPop"
  /\ UNCHANGED <<schedulerVars, boardVars, countVars, finishedEvts, batch, scheduledStop>>

DrainReturns ==
  /\ loop = "flush" /\ batch = <<>>
  /\ loopEnded' = (loopEnded \/ drainFailed) /\ drainFailed' = FALSE
  /\ newEvtAllowed' = TRUE
  /\ loop' = "head"
  /\ UNCHANGED <<schedulerVars, boardVars, countVars, finishedEvts, batch, scheduledStop>>

-----------------------------------------------------------------------------
(* The end: nextEvent() returns, later the scheduler is finalized.         *)

NextEventReturns ==
  /\ loop = "head" /\ ~LoopOn
  /\ loop' = "ended"
  /\ UNCHANGED <<schedulerVars, boardVars, countVars, drainVars, scheduledStop>>

\* AvalancheSchedulerSvc::finalize deactivates the scheduler ...
FinalizeScheduler ==
  /\ loop = "ended"
  /\ Deactivate
  /\ loop' = "joining"
  /\ UNCHANGED <<boardVars, countVars, drainVars, scheduledStop>>

\* ... and joins its thread.
JoinScheduler ==
  /\ loop = "joining" /\ sched.at = "exited"
  /\ loop' = "done"
  /\ UNCHANGED <<schedulerVars, boardVars, countVars, drainVars, scheduledStop>>

Loop ==
  \/ EndOfInput \/ SkipEvent \/ CreateEvent
  \/ WaitForEvent \/ NothingToWaitFor \/ TryPop \/ FlushEvent \/ DrainReturns
  \/ NextEventReturns \/ FinalizeScheduler \/ JoinScheduler

\* stopRun(), called by an algorithm or an incident listener once there are
\* events
StopRun ==
  /\ loop \notin {"ended", "joining", "done"} /\ nevt > 0 /\ ~scheduledStop
  /\ scheduledStop' = TRUE
  /\ UNCHANGED <<schedulerVars, boardVars, loop, countVars, drainVars>>

SchedulerSide ==
  /\ SchedulerThread \/ Task \/ Deactivation
  /\ UNCHANGED <<boardVars, loopVars>>

Done == loop = "done" /\ tasks = {} /\ UNCHANGED vars

Next == Loop \/ SchedulerSide \/ StopRun \/ Done

LoopFairness ==
  /\ WF_vars(Loop)
  /\ WF_vars(SchedulerThread /\ UNCHANGED <<boardVars, loopVars>>)
  /\ WF_vars(Task /\ UNCHANGED <<boardVars, loopVars>>)
  /\ WF_vars(Deactivation /\ UNCHANGED <<boardVars, loopVars>>)

Spec == Init /\ [][Next]_vars /\ LoopFairness

-----------------------------------------------------------------------------
(* Properties.                                                             *)

\* The stores are partitioned: a store is free, listed once in m_freeSlots and
\* marked so (the asserts of allocateStore and freeStore), or it belongs to
\* the one live event that carries its number, or it is the store taken when
\* the input ended.
StoresPartitioned ==
  /\ \A s \in Slots :
       eventNumber[s] = NoEvent <=> \E i \in DOMAIN freeStores : freeStores[i] = s
  /\ \A i, j \in DOMAIN freeStores : freeStores[i] = freeStores[j] => i = j
  /\ \A e \in Live : eventNumber[slotOf[e]] = e
  /\ \A s \in Slots : eventNumber[s] # NoEvent =>
       \/ \E e \in Live : slotOf[e] = s
       \/ createdEvts = -1 /\ eventNumber[s] >= InputSize

\* A loop that ends without an abort has processed everything it created: no
\* event is left in the scheduler, no algorithm runs, every event is deleted,
\* and the counters agree.
LoopEndsClean ==
  loop = "ended" /\ (AbortOnFailure => \A s \in Slots : eventStatus[s] \in {"Success", "Invalid"}) =>
    /\ Live = {} /\ tasks = {} /\ actionsQueue = <<>> /\ retryQueue = <<>>
    /\ finishedEvts = Cardinality({e \in Events : owner[e] = "deleted"})
    /\ finishedEvts + skippedEvts = IF MaxEvt < 0 \/ InputSize < MaxEvt THEN InputSize ELSE MaxEvt

\* The loop is a lawful client: its behaviours are behaviours of the scheduler
\* with the client protocol of AvalancheScheduler, so what is checked and
\* proved there holds here.
LoopObeysProtocol == SchedulerSpec

\* The job comes to an end: the loop finishes and the scheduler thread is
\* joined.
JobEnds == <>(loop = "done")

=============================================================================
