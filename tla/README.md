# A TLA+ model of Gaudi's event processing

Gaudi is a framework for event-processing applications. Its concurrent core,
**GaudiHive**, processes several events at a time, and within each event runs
algorithms in parallel as their control flow and data dependencies allow, possibly
once per *view* of the event. Around it an application is brought up and closed by
**ApplicationMgr** and **ServiceManager**, and its parts talk through the incidents
of **IncidentSvc**. This project models these parts in TLA+, checks them with TLC
and proves the safety of the scheduler, the algorithm pool, the event loop, the
incidents and the creation of services with TLAPS, for every number of slots, events,
algorithms, listeners, services and threads.

Contents: [inventory](#1-inventory), [modules](#2-modules),
[runs](#3-runs), [fairness](#4-fairness), [proofs](#5-proofs),
[disagreements](#6-where-the-code-and-its-documentation-disagree),
[limits](#7-what-is-not-modelled), [plan](#8-plan).

How to run: `tlc -workers 2 -config <run>.cfg <module>` with the pairs of
section 3, `tlapm <module>.tla` for the modules named `...Proofs`. The community
modules `SequencesExt` and `FiniteSetsExt` must be on the library path of both.

## 1. Inventory

### The system in one paragraph

`HiveSlimEventLoopMgr` (the **loop**, the application's main thread) allocates a
store of the **whiteboard** for each event, wraps both in an `EventContext`, and
pushes it to the **scheduler**, `AvalancheSchedulerSvc`. The scheduler's own
thread pops closures from `m_actionsQueue`: new events, sign-offs of finished
algorithms, the request to stop. After each it may `iterate()` over the event
**slots**: it asks the **precedence service** which algorithms may run, takes an
instance and the shared resources of each from the **algorithm resource pool**,
and spawns an `AlgTask`. The task, on a TBB worker or on a thread of its own if
the algorithm blocks, executes the algorithm, updates the **execution state
board**, releases the algorithm and queues its sign-off. A slot whose root
decision is taken, and in which nothing is on its way, is complete: the event goes
to `m_finishedEvents`, from where the loop pops it, clears the store and deletes
the context. An algorithm may split its event into **views**: sub-slots in which the
members of a control flow node run once each. The loop and the algorithms fire
**incidents**; those fired for a slot are collected by `IncidentProcAlg`, an
algorithm like others. All of it is made of **services**, which `ServiceManager`
creates on demand, from whatever thread asks, and which `ApplicationMgr` takes
through their states.

### Components that are modelled

| component | state | operations | what is hard | what makes it correct |
|---|---|---|---|---|
| `AlgsExecutionStates` | a state per algorithm of a slot | `set`, `containsAny`, `algsInState` | a refused transition lands in ERROR silently | a state other than ERROR always has somebody who will move it on (`StatesBacked`, `IdleMeansDone`) |
| `PrecedenceSvc`, `PRGraph/Visitors` | decision per control-flow node, state per algorithm | assembly of the graph; `iterate` after an event enters and after each sign-off | visitors re-enter hubs whose visit is under way; shared algorithms and hubs have several parents | decisions agree with the configuration, are final, respect sequential order, and none is lost |
| `AvalancheSchedulerSvc`, `AlgTask`, `EventSlot` | slots, action queue, retry queue, `m_needsUpdate`, counters, finished events | `pushNewEvent`, `popFinishedEvent`, `tryPopFinishedEvent`, `freeSlots`, `deactivate`; the scheduler thread; the tasks | three kinds of threads; raw context pointers; wake-ups only through `m_needsUpdate`; a queue drained while tasks push | no task outlives its event, nothing schedulable is forgotten, slots and resources are conserved, every event is finished once |
| `AlgResourcePool` | queue of instances per algorithm, bit set of resources | `acquireAlgorithm`, `releaseAlgorithm` | two steps, only one of them under a mutex; failures in between | exclusive hand-out; nothing leaks |
| `AlgExecStateSvc` | execution state per slot and algorithm, status per slot | `reset`, `updateEventStatus`, `setExecStatus` | unsynchronised read-modify-write | a failure is not lost |
| `HiveWhiteBoard` | event number per store, queue of free stores | `allocateStore`, `freeStore` | shares its numbering with the scheduler's slots | stores are partitioned between free ones and live events |
| Event views: `scheduleEventView`, sub-slots of `EventSlot` | sub-slots with an entry point, `subSlotsByNode` | asked for by tasks, created by the scheduler thread, entered by the visitors | asked for before or after the node is reached; the visitors change slot at the exit node, whose sub-slot copy of the decision is never set | a view is a world of its own, its node decides from all views, the event waits for them |
| Validators and run simulator of `PrecedenceSvc` | visitors' own | `VerifyRules`, `simulate` at initialisation | recursive low-link values; a dry run that must predict the real one | a job is refused exactly for a cycle, or for two algorithms that write the same object in every event; the dry run promises what happens |
| `GaudiSequencer`, `MinimalEventLoopMgr::executeEvent` | `AlgExecState` per node | the sequential loops over members and top algorithms | the same configuration means something in two frameworks | both execute the same algorithms and decide alike |
| `IncidentSvc`, `IncidentProcAlg` | listener map, `m_currentIncidentType`, queues per slot | `addListener`, `removeListener`, `fireIncident` in both forms, collection | handlers call back into the service and throw; removal is deferred by comparing types, and an immediate one moves values between list nodes; two maps per slot looked up separately | loops stay on nodes that exist, everybody is called once and in order, queued incidents are delivered in their event |
| `ServiceManager`, `Service`, `ApplicationMgr`, `AlgorithmManager` | list of services with priority and activity, states, target state | `service()` on demand, `initialize` ... `finalize` of services and algorithms, `run` and `GoToState` | creation nests and happens on several threads; failures half way; the list changes under loops | services are handed out ready, hooks run in order, users are closed before what they use, every job ends |
| `HiveSlimEventLoopMgr` | counters of created, skipped and finished events, loop flags | `executeRun`, `nextEvent`, `createEventContext`, `executeEvent`, `drainScheduler`, `clearWBSlot`, `stopRun` | blocks in `popFinishedEvent`: a miscount is a deadlock | the job ends and has processed everything |

How they interact: the loop *calls* the whiteboard and the scheduler; the
scheduler's client calls and the tasks only *append closures* to a queue, and only
the scheduler thread touches slots; tasks and the scheduler thread *share* the
pool and the state board, the loop and the tasks share the state board; the slot
number in the `EventContext` ties a store to a slot. Views are *requested* by tasks
through the action queue and *seen* by the visitors through the slot. Incidents are
*callbacks* under one recursive mutex, or *queued* per slot and called back without
it. Services *call* each other's hooks recursively, under a mutex per service while
one is created.

### The rest of the repository

`PROJECT.json` lists every package with its status: thread pool, data on demand,
tools, persistency, histograms, Python bindings, GaudiMP, the build and others. By
volume they are most of the repository: histogram and tuple classes, converters,
vendored headers, parsers and configuration, which are input and output or
formatting without a protocol to check. Section 8 says which parts are planned.

The hazards, each at its line with the properties aimed at it, are in
`PROJECT.json` under `hazards`.

## 2. Modules

    AlgsExecutionStates       EventContexts
       |          \               |      \
    PrecedenceRules \             |    HiveWhiteBoard       AlgResourcePool
       |  PrecedenceAssembly      |         |
       |  | \           AvalancheScheduler  |
       |  |  \            |   refines       |
       |  |   EventViews  | EventScheduler  |
       |  PrecedenceValidators        \     |               Lists
       |  | RunSimulator            HiveSlimEventLoopMgr    /     \
       |  | | GaudiSequencer                      IncidentSvc    ServiceManager
    PrecedenceSvc                                     |               |
                                              AsyncIncidents     ApplicationMgr

| module | models |
|---|---|
| `AlgsExecutionStates` | `AlgsExecutionStates.{h,cpp}`: `SetState` is `set()`, with a refused transition ending in ERROR |
| `PrecedenceAssembly` | `PrecedenceSvc::initialize`, `assembleCFRules` and the `add...Node`, condition and data-dependency methods of `PrecedenceRulesGraph`: configuration to graph |
| `PrecedenceRules` | the visitors: `Supervisor` (`Accept`, `Aggregate`, `Propagate`, `Descend`), `DecisionUpdater` (`UpdateDecision`), `DataReadyPromoter` (`PromoteData`), `ActiveLineageScout` and `SubSlotScout` (`LineageActive`), all with their branches for sub-slots and conditions; `IterateRules` is `PrecedenceSvc::iterate` |
| `PrecedenceValidators` | `ProductionAmbiguityFinder` with `ConditionalLineageFinder`, which tells conditional from unconditional producers, `TarjanSCCFinder`, and the verification that refuses a job |
| `RunSimulator` | `PrecedenceSvc::simulate` and its visitor |
| `GaudiSequencer` | `GaudiSequencer::execute` under `MinimalEventLoopMgr::executeEvent`: what the sequential framework does with a configuration |
| `PrecedenceSvc` | one slot driven through `iterate`; `Finish(a, final)` is execution and sign-off of one algorithm, in any order |
| `EventViews` | one event with views: `scheduleEventView` called from tasks, its actions on the scheduler thread, `iterate()` over slot and sub-slots, completion and stall |
| `AvalancheScheduler` | scheduler thread, tasks and client calls, one action per closure, per turn of a loop of `iterate()`, per step of a task, and per client call |
| `EventScheduler` | abstract: what `IScheduler.h` promises the event loop |
| `EventContexts`, `HiveWhiteBoard` | slot and event numbers; the stores |
| `HiveSlimEventLoopMgr` | the loop, composed with whiteboard and scheduler, up to the join of the scheduler thread |
| `AlgResourcePool` | the pool alone, at the granularity of its queue accesses and critical sections |
| `Lists` | which values erasing from a list and sorting it leave, as operators on sequences |
| `IncidentSvc` | the listener map, its values (`listeners`) and the list nodes that hold them (`nodes`), and the loops over it: frames of nested `fireIncident` per thread, deferred removal, single shots, exceptions |
| `AsyncIncidents` | the same with the incidents of one event slot: the event loop, firing algorithms and two `IncidentProcAlg`s |
| `ServiceManager` | list, creation on demand, loop check, hooks of `Service`, managed algorithms; a stack of hooks per thread |
| `ApplicationMgr` | `run()` as phases over copies of the lists, with `GoToState` deciding what is still done after a failure |
| `AlgResourcePoolProofs` | theorems about the pool |
| `AvalancheSchedulerProofs` | type correctness of the scheduler; where every event is, and what stands behind every state of an algorithm |
| `SchedulerContractProofs` | extends it: instances, resources, `m_freeSlots`, the counter of blocking algorithms; the scheduler thread does not sleep on work; the steps of `EventScheduler` |
| `HiveSlimEventLoopMgrProofs` | extends that and `HiveSlimEventLoopMgr`: the job |
| `ListsProofs` | lemmas about the operators of `Lists` |
| `IncidentSvcProofs` | theorems about the listeners and the loops over them |
| `AsyncIncidentsProofs` | theorem about the incidents of a slot |
| `ApplicationMgrProofs` | theorems about creation on demand, the loops over the services and the order of their hooks |
| `MC*` | instances for TLC: `MCJobs` holds the jobs, `MCPrecedenceSvc` the configurations |

### Granularity and abstractions

*Scheduler thread.* It alone writes slots, retry queue and `m_needsUpdate`. One
closure is one action, because within it the thread reads nothing another thread
writes except the execution state of an algorithm whose task has ended. `iterate()`
is split into one action per turn of its loops (`RetrySchedule`, `SlotSchedule`,
`SlotUpdate`), because each turn asks the pool, which tasks change meanwhile, and
the end of a slot's turn reads the event status. The test for an empty queue after
an action is a step of its own (`CheckUpdate`), because tasks and client append
concurrently. The local variables of the loops are the record `sched`.

*Tasks.* `TaskExecute` (choose the specification, execute, read the event status),
`TaskRelease` (write the status, release the algorithm), `TaskSignoff`. The status
update is split because the code does not synchronise it. An algorithm's execution
is its outcome: `pass`, `reject`, `fail` or `disabled` (which leaves the execution
state as it was reset).

*Precedence rules.* `AvalancheScheduler` takes them as the operator constant
`Iterate`, a set of possible promotions per call; its theorem holds for any rules.
The runs instantiate it with `PrecedenceRules` through `MCJobs`, whose graphs are
asserted equal to what `PrecedenceAssembly` builds (`JobsAssembled`).

*Views.* `EventViews` takes the turn of the scheduler thread as one step and has one
event, because the finer steps and several events are in `AvalancheScheduler`; what
it adds is the interplay of tasks that ask for views with the rules that meet them.

*Incidents.* A handler is the call it makes to the service, chosen from what its
client may do, or an exception. Each thread has a stack of the loops it is in. A list
is a sequence of values and a sequence of nodes: `emplace` puts a node in with its value,
`erase( remove_if() )` moves the values that stay to the first nodes and destroys the
nodes at the tail. A loop stands on a node; what it reads after a call (the flags
`rethrow` and `singleShot`) and where it goes next is what that node has by then. The listeners there are at the start are registered by steps of their
own, before anybody fires. The calls on the two concurrent maps of a slot are one step each.

*Services.* What a hook does besides asking for services is left out; whether it
succeeds is chosen, within a bound of failures per job. `service()` and the hooks it
runs are steps of the asking thread.

*Contexts.* `owner` is a history of who may use an `EventContext`: a task that
works on a deleted one violates `TasksOwnTheirEvent`.

*Client.* `AvalancheScheduler` alone has the most general lawful client (one
thread, a slot per live event, ascending event numbers, nothing after
`deactivate`). `LoopObeysProtocol` shows that the real loop is one, so what holds
of the scheduler with the general client holds in the composition.

*Pool.* Within the scheduler the pool is atomic; `AlgResourcePool` shows that its
finer steps amount to that, for any number of threads.

Numbers of the code are plain integers: counters are bounded by slots, events and
algorithms, far from any width.

## 3. Runs

| run | module | instance | states |
|---|---|---|---|
| `Precedence` | `MCPrecedenceSvc` | families of configurations, each with all combinations of its properties; conditions; every data flow between three algorithms; two writers of an object below nested and shared sequencers | 392 987 |
| `EventViews` | `MCEventViews` | jobs with 0 to 2 views of one or two nodes, in sequence or not, with data, a condition, too few instances and failures | 69 963 |
| `SchedulerResources` | `MCAvalancheScheduler` | 3 events, 2 slots, 2 algorithms that need the same resource, one may fail | 1 214 436 |
| `SchedulerContract` | `MCAvalancheScheduler` | 2 events, 2 slots, prompt sequence with a data dependency, one worker, both algorithms blocking with limit 1, one reentrant | 23 269 |
| `EventLoop` | `MCHiveSlimEventLoopMgr` | `executeRun(5)` with event 2 on the black list; `executeRun(4)` over an input of 2; `executeRun(-1)` over an input of 3 with `AbortOnFailure`; 2 slots | 62 607 |
| `ResourcePool` | `MCAlgResourcePool` | 3 threads, a cloned, a plain and a reentrant algorithm, 2 resources | 1 488 |
| `Incidents` | `MCIncidents` | 2 threads, 6 listeners that fire, add, remove and throw, 6 calls; a slot with 2 events, 2 firing algorithms, 2 `IncidentProcAlg`s | 837 991 |
| `Application` | `MCApplicationMgr` | 4 jobs of up to 8 services, 2 algorithms and 2 worker threads, 1 or 2 failures anywhere | 167 754 |

What they show:

- **Precedence.** `HubDecisionsSound`: a hub's decision is the one its configured
  properties promise, also when a prompt hub takes it early. `SequentialOrder`:
  nothing below a member of a sequential hub starts too early. `DataFlowExact`:
  an algorithm is promoted when its last input is written, not before and not
  later, and a condition is loaded if and only if somebody waits for it.
  `NoLostWakeup`: when nothing can run, the root is decided or an algorithm
  waits for data. `DecisionsFinal`: re-entered visits change no decision.
  `AgreesWithSequencer`: a job of sequential hubs executes what `GaudiSequencer`
  would, and every job decides what it would. `SimulationPredicts`: a dry run that
  succeeds is not contradicted by an event in which everything accepts.
  `VerificationExact`: the verification refuses exactly the jobs with a cycle of
  data, with two producers of a condition, or with two algorithms that write the same
  object and both run in every event. Who runs in every event is said from the top, by
  the sequencers that lead down to it (`GuaranteedIn`), where the code climbs from each
  writer to the root. The properties refer to the configuration,
  not to the assembled graph, so that the assembly is checked too.
- **EventViews.** `ViewDecisionsSound`: the decision of a
  node with views is that of its members over all views. `ViewsIsolated`: inputs come
  from the own view. `SequentialOverViews`: what follows the node waits for the last
  view. `EveryViewRuns`: no view is lost if its maker is sequenced before the node
  (it may be otherwise: the members then also run at the whole-event level).
  `EventLeavesClean`: nothing is on its way in a sub-slot when the event leaves
  (`EventOutlivesViews`), and it is given up only for a failure or for missing data
  (`StallHasReason`). `EventEnds`. `TypeOK`: the two records of who has which view
  agree.
- **SchedulerResources.** `TasksOwnTheirEvent` (no task or sign-off refers to an
  event that left its slot), `StatesBacked` (a SCHEDULED algorithm has a task or a
  sign-off, `ScheduledHasTask`; the retry queue holds exactly the RESOURCELESS ones,
  `RetryQueueExact`), `IdleMeansDone` (a blocked scheduler thread has nothing left to
  do), `NothingLost` (instances and resources, `PoolConserved`, and slots,
  `SlotsAccounted`), and the inductive invariant `SchedulerInv` that section 5 proves.
- **SchedulerContract.** With fairness the scheduler implements `EventScheduler`:
  bounded number of events, each finished and handed back once in order of
  finishing, each finished eventually while the scheduler is open.
  `DeactivationCompletes`: `deactivate()`, which drops queued actions while tasks
  push new ones, always ends with the thread joined. `BlockingCounted`: the counter
  of blocking algorithms is exact and within its limit. In a sequence with all
  algorithms blocking, the flaw of section 6 (throttled algorithms queued twice)
  does not show.
- **EventLoop.** `StoresPartitioned`, `LoopEndsClean`, `LoopObeysProtocol` (among
  it: the free slot tested before a skipped event is still there for the next one),
  `JobEnds`.
- **ResourcePool.** `MutualExclusion`, `NothingLeaks`, and the inductive invariant
  `PoolInv`.
- **Incidents.** For handlers that keep the rules `NotNested` and `RemovalsSafe` of
  section 5 (section 6 has the other cases). `PointersValid`: no handler destroys the node
  a loop stands on (`IteratorsValid`), and `m_currentIncidentType` is that of a running loop.
  `ListenersServed`: a loop calls whoever stays registered (`NobodyMissed`), once and by
  priority (`CalledOnceInOrder`). `SilencedAfterShot`: single shots (`SingleShotOnce`)
  and what is flagged for removal (`RemovedFallsSilent`) go, except after an exception
  that left the loop early. `AsyncExact`: what is in the queue of the slot when an
  `IncidentProcAlg` begins is delivered once (`AsyncDelivered`) and is of this event
  (`QueueOfThisEvent`).
- **Application.** `RequestsAnswered`: a worker thread gets only services that are
  running, whoever created them (`ReadyWhenRunning`), and a loop is reported only for a
  thread waiting for itself (`LoopErrorsReal`). `LifeCycleSound`: no hook is called out
  of order (`HooksInOrder`, `LoopsFindRightState`) although the list changes under the
  loops. `FinalizedInOrder`: users before what they use (`UsersFinalizedFirst`), the
  histogram services and the file manager last (`LateServicesLast`). `JobClosed`: what a
  successful job (`SuccessIsClean`), a failed one (`ClosedAnyway`) and an exception
  (`ThrowsOnlyAfterFailure`) leave. `JobEnds`.

*Why the bounds are enough.* Two slots are the least that let one event enter or
complete while another runs; a third event reuses a slot, so stale pointers meet a
new occupant. Two algorithms that compete make retry, refusal and both orders of
release happen; one instance each makes the pool's queue empty. Two workers let two
tasks of one event overlap in the status update, one worker makes the ranks matter.
Five events on two slots with one skipped exercise every branch of `nextEvent`. The
configurations of `Precedence` have up to four algorithms and three sequencers
besides the root, with each way of sharing: an algorithm in two sequencers, a
sequencer in two, a member listed twice, an empty sequencer; data with, against
and across the control flow, with two producers and with none. Two views let one be
decided while the other runs, and one instance makes them wait for each other. Two
listeners of a type and one of `ALL` let a handler remove one before, at and behind
the place of a loop; six calls allow three nested incidents and a second thread
between them. Two events in a slot let an incident be left over. One failure reaches
every failure path of `run()`, a second the path that gives up closing. Named bounds:
`MaxEvents`, `InputSize`, `NumSlots`, `client.calls`, `MaxFailures`. No symmetry is used: slots, events and
algorithms are ordered numbers in the code.

Every property has a mutant of the model, a small error in one definition marked
`Mutant:` beside the original, under which TLC finds the property violated.
`PROJECT.json` lists the pairs.

*Deadlock* is checked in every run; the states in which the system has rightly
stopped have an explicit stuttering step (`Terminated`, `Done`, `Idle`).

## 4. Fairness

`Fairness` (and `LoopFairness`) is weak fairness of the scheduler thread, of the
tasks together, of `deactivate()` once begun, and of the client's `popFinishedEvent`
(in the composition: of the loop thread). The scheduler thread and the loop are
operating system threads that only ever block on a queue; TBB workers and detached
threads run queued tasks until there are none, and executions end. Weak fairness of
"some task steps" is enough because the set of tasks is finite and each has three
steps. A client that does not collect finished events cannot expect progress; the
loop does collect. Nothing assumes that a client pushes, deactivates or stops, or
which task is first.

`EventViews` has the same two assumptions, on the scheduler thread and on the tasks
together. `ApplicationMgr` assumes only that some thread goes on as long as one can:
hooks return, and a thread that waits for the mutex of a service leaves the one that
holds it free to go on.

## 5. Proofs

All for every value of the constants, from the named assumptions of the modules
(sets of the right kind; at least one slot, one worker and one instance of each
algorithm; a run whose input and limit fit the number of events and whose limit is not on the black list; `None` is not a piece
of work; calls of the incident service have arguments of the right kind; loop, algorithms and `IncidentProcAlg`s are different; services, algorithms and
threads have different names, and no service is declared twice).

| theorem | states |
|---|---|
| `PoolInvariant` | `Spec => []PoolInv` |
| `PoolExcludes` | `Spec => []MutualExclusion` |
| `PoolLeaksNothing` | `Spec => []NothingLeaks` |
| `SchedulerInvariant` | `SchedulerSpec => []SchedulerInv` |
| `EventsInOnePlace` | `SchedulerSpec => []EventsPlaced` |
| `TasksKeepTheirEvent` | `Blocking = {} => (SchedulerSpec => []TasksOwnTheirEvent)` |
| `StatesAreBacked` | `Blocking = {} /\ ~DirectExecution => (SchedulerSpec => []StatesBacked)` |
| `SpawnedWhenReady` | `Blocking = {} => (SchedulerSpec => ScheduledWhenReady)` |
| `NothingIsLost` | `~DirectExecution => (SchedulerSpec => [](NoEventLost => NothingLost))` |
| `BlockingIsCounted` | `SchedulerSpec => []BlockingCounted` |
| `IdleIsDone` | `Blocking = {} /\ ~DirectExecution => (SchedulerSpec => []IdleMeansDone)` |
| `SchedulerKeepsContract` | `SchedulerSpec /\ []NoEventLost => Contract!SafetySpec` |
| `LoopIsLawful` | `Spec => LoopObeysProtocol` |
| `StoresArePartitioned` | `Spec => [](NoEventLost => StoresPartitioned)` |
| `LoopIsClean` | `Blocking = {} /\ ~DirectExecution => (Spec => []LoopEndsClean)` |
| `AsyncIsExact` | `Spec => []AsyncExact` |
| `ListenersAreCalledInOrder` | `Spec => []CalledOnceInOrder` |
| `ListenersAreServed` | `Spec /\ [](NotNested /\ RemovalsSafe) => []ListenersServed` |
| `PointersStayValid` | `Spec /\ [](NotNested /\ RemovalsSafe) => []PointersValid` |
| `ListenersFallSilent` | `Spec /\ [](NotNested /\ RemovalsSafe) => []SilencedAfterShot` |
| `RequestsAreAnswered` | `Spec => []RequestsAnswered` |
| `LifeCyclesAreSound` | `Spec => []LifeCycleSound` |

The hypotheses are configurations, one event of the code and two rules for handlers, and
each is needed:

- `Blocking = {}` is the default, `PreemptiveBlockingTasks = false`
  (`AvalancheSchedulerSvc.h:180`). With blocking algorithms the property can fail:
  `SchedulerThrottle` shows an algorithm queued twice, after which a second task works
  for an event that may have left. What is proved for blocking algorithms too is where
  the events are, the counts, and the steps of the contract.
- `~DirectExecution` excludes `ThreadPoolSize = -100`, in which the called task finds
  no specification and the algorithm stays SCHEDULED with nobody behind it
  (`AvalancheSchedulerSvc.cpp:1050`).
- `NoEventLost` is what `SchedulerLostEvent` refutes: an event whose slot completed
  with a status other than Success is dropped and its slot is never counted free
  again. The theorems say that nothing else loses one.
- `NotNested`: no handler fires, directly or through others, an incident of whose
  listeners a loop up the call chain is calling one. The inner loop would call a
  single-shot listener a second time and, when it erases it, move other listeners to the
  nodes of the outer one or destroy the node that one stands on.
- `RemovalsSafe`: a handler removes listeners of the type of the current incident, which
  are only flagged, or of a type it names and that nobody up the call chain is looping
  over. `IncidentSkipped` shows what happens otherwise. The code
  states neither rule. The handlers of the run `Incidents` keep both in every one of its
  states, and its exceptions, nested incidents and second thread are among what they
  allow. `ListenersAreCalledInOrder` needs neither.

**Pool.** `MutualExclusion` speaks of clients that have an algorithm; it needs to
know that what they hold is not also available. `PoolInv` therefore adds
`ResourcesExclusive` and `InstancesExclusive` (held means neither available nor held
twice, with the moment a reentrant instance is on its way back accounted for) and
`WorkMatchesPC`. `NothingLeaks` speaks of the moment when no client is in the pool; its
invariant `AllPlaced` says at every moment where each resource and instance is.

**Scheduler, types.** Type correctness is not inductive by itself: `RetrySchedule` takes
the head of a queue it does not test, `SlotSchedule` and `SlotUpdate` use the context of
the current slot, sign-offs and tasks index slots by `slotOf` of their event, as the
code dereferences pointers. `SchedulerInv` adds `CursorOK` (as many entries in the
retry queue as turns to come; the current slot has a context) and `ContextsBorn`
(whatever names an event names one that has a slot). `CursorOK` holds because only
the scheduler thread touches the retry queue and each turn takes one entry and adds
at most one. The proof has one lemma per action, on top of lemmas about `SetState`,
`Promoted`, `Revised`, `StartIterate` and the pool operators. The rules `Iterate`
stay arbitrary, here and in all that follows.

**Scheduler, ownership.** `EventsPlaced` holds for every configuration: a slot is
complete exactly when it has no event, its event is the scheduler's and was given
that slot, two live events have different slots (`SlotsOwned`), and an event is in one
place, once: in a queued closure, in its slot, or among the finished (`OnePlace`). On
it rests `WorkBacked`, without blocking algorithms: a task's or sign-off's algorithm
is SCHEDULED in the slot of its event and nothing else stands behind it
(`TasksBacked`), the retry queue holds each RESOURCELESS algorithm once and nothing
else (`RetriesBacked`), and what `iterate()` copied of the DATAREADY algorithms is
still DATAREADY when their turn comes (`TodoReady`; it fails for a throttled blocking
algorithm, which is where the flaw of section 6 comes from). An event leaves its slot
only when no algorithm is SCHEDULED in it; so no task is left: `TasksOwnTheirEvent`.

**Scheduler, counts.** Every step changes the set of tasks in one of four ways (spawn,
next stage, end with a sign-off, none); the counts follow from cardinalities of the
sets before and after. `BlockingCounted` and the pool's conservation need only that
tasks are told apart by specification and copy, not `WorkBacked`, so they hold for
blocking algorithms too, even when queued twice.

**Scheduler, wake-ups.** `IdleMeansDone` speaks of a thread that waits. `Awake` says for
each place the thread can be at what keeps it from missing something: at `pop`, a queued
action or a task is still to come or every slot is settled; at `check`,
`m_needsUpdate` is set; inside `iterate()`, the slots behind it are settled and the
DATAREADY algorithms of this one are all still to be tried. With no task under way the
pool is full (`ReentrantQueued` for reentrant algorithms, conservation for the others),
so an acquisition cannot fail and nothing stays RESOURCELESS with nobody to wake it.

**Contract.** The abstract state is computed from `owner` and `finishedEvents`. The
closure that completes a slot is `Finish`, the client's calls are `Push`, `Pop` and
`Close`; all else stutters. Liveness of the contract is left to TLC.

**Event loop.** `LoopInv` ties the loop to the scheduler: the events with a store are
those the scheduler or the loop's batch holds, event numbers below `nevt` are used, and
the free queue has the other stores, each once. A step of the loop is then a step
of the general client, so that every theorem about `SchedulerSpec` carries over. For
`LoopEndsClean` the counters are cardinalities (`CountsAgree`), the first event is alone
with the scheduler until `drainScheduler` returns (`FirstAlone`), and the loop ends
only for a reason (`EndJustified`).

**Listeners.** A `std::list` is modelled by two sequences, the values (`listeners`) and
the nodes that hold them (`nodes`), because `erase( remove_if() )` moves values to the
front and destroys nodes at the tail (`EraseTail`): a loop stands on a node, and the
listener in it may become another one. `CalledOnceInOrder` compares the calls one
`fireIncident` has made while anybody may change the list. Its invariant, `ServedInv`,
has two halves. Of the lists (`ListsInOrder`): as many nodes as values, every node and
every entry in one place, sorted by priority and then by age; `addListener` keeps that
because `partition_point` of a sorted list is the one place where the new entry fits. Of
each call of `fireIncident` (`FrameInv`): who was called is, if still registered, in the
list where it was called, and the node the loop is at holds nobody who precedes the
listener called last (`AtOrBehind`). This half needs no rule for handlers: values only
move forward, so a node that is still there holds the same listener or one from behind
it (`NodesInherited`), and the listeners after it are behind as well; a loop whose node
is destroyed takes no more step in the model. `LockInv` says what the recursive mutex is
for: the loops of all levels are those of one thread, every call but the innermost is in
its loop, and `m_currentIncidentType` is the type of one of them.

That everybody is called does need the rules. `LoopsServed` says of every loop that its
node still holds the listener called last, and that everybody due who is not behind that
listener was called; then nobody is passed over when the loop ends. Under `NotNested` and
`RemovalsSafe` a removal flags, or erases from a list nobody loops over, and a loop that
ends erases from a list nobody else loops over, so no value is moved under a loop
(`ListKept`). Without `RemovalsSafe` it is false: `IncidentSkipped`. `PointersValid`
follows, since the node the loop stands on is still there.

For `SilencedAfterShot` the question is who erases a flagged listener. `SilentInv` says
that whoever was called for the last time it may be is held by the loop that called it
(`Holds`), which either has `firedSingleShot` set or stands on that listener and will set
it, reading the flag from the node, which by `LoopsServed` is the right one. A second loop
over the list cannot begin before the first has erased it, on this thread by `NotNested`,
on another by the mutex. Lists which an exception left are exempt: there the erasure
never happens.

**Asynchronous incidents.** `SlotInv` follows an incident through its places (queue of
the slot, pack of one `IncidentProcAlg`, delivered or unheard): `InOnePlace` and `Kept`.
`SlotFresh` shows why the two separate look-ups of `fireIncident` do no harm: only the
loop ever meets the event number of an old event, since it fires `BeginEvent` before
any algorithm of the event runs, and so only the loop writes the number and clears the
queue.

**Services.** `RequestsAnswered` is about what `service()` reads at one moment, the list
and the state of one service; whether that is right depends on who else is creating it.
`AppInv` says where every service is in its life. The hooks on the stacks are those of
creations, except the outermost one of the main thread, which is the one the current
loop called for the head of its list (`HooksNested`); a service under creation is listed
and has one hook on all stacks together (`CreatedOnce`, which rests on the recursive
mutex of the name: `LockIsFree`); a service that is not listed is OFFLINE, and one that
is listed and not under creation is in the state its phase allows, phase by phase
(`ListedInState`); all of them but the core services are active, and no loop has a
service under creation before it (`ActiveListed`); `m_targetState` is that of the phase
(`TargetOfPhase`). From it: a worker with no hook under way that gets past the mutex and
finds the service listed knows that nobody is creating it, so it is RUNNING; and a
CONFIGURED service, for which the loop error is given, has its hook on the stack of the
asking thread. Failures take part: a creation that fails removes what it
added, a phase that fails enters the phase that `GoToState` chooses with every listed
service in a state that phase expects (`FitFor`). The list operations are reduced to one,
the places of a list in an order (`Arranged`, in `Lists`), of which it is proved that it loses and
doubles nothing; sorting, selecting, removing and moving to the back are instances.

`LifeCycleSound` adds that the hooks of one instance come in order (`HooksInOrder`). It
speaks of the last entry of the trace only, so it is not inductive: that `start()` is not
called twice depends on what was logged long before. `LifeInv` connects the two. For a
service that is listed and not under creation, `Lived` gives for each phase and state what
the trace says of its last instance (`Fresh`, `Ready`, `Started`, `Stopped`,
`CanFinalize`): RUNNING in `stop` means started and not stopped, INITIALIZED in `start`
means initialised and not started. A service under creation is known by the hook on the
stack (`HookDue`): what that hook needs before it is there when it returns. No service is twice in
the work of a loop (`Once`), so the loop of `finalize`, which tests no state, calls each
one once; a declared service stays listed until the end, which is why only services first
asked for on demand can be finalised without `initialize()`; and `CanFinalize` allows a
started service that was never stopped only when the start of the application failed
(`StartFailed`), as `GoToState` skips the stop then.

*Only model-checked:*

- everything temporal under fairness (the liveness part of `ImplementsContract`,
  `DeactivationCompletes`, `EventEnds`, `JobEnds`), since TLAPS does not handle it;
- the precedence rules, the assembly, the validators, the sequencer and the views,
  which are recursive over the graph as the code is: their invariants are inductions
  over data;
- of `ApplicationMgr`, `FinalizedInOrder`, which compares the positions of two services in
  the list over the whole job, and `JobClosed`, which needs the causes of every failure.

## 6. Where the code and its documentation disagree

Four runs expect a violation; `PROJECT.json` quotes the lines.

| run | property | what TLC finds |
|---|---|---|
| `SchedulerThrottle` | `ScheduledWhenReady` | a throttled blocking algorithm is put in the retry queue and stays DATAREADY, so the next `iterate()` queues it again; it runs twice for one event |
| `SchedulerLostEvent` | `NoEventLost` | an event completed with a status other than Success is neither handed back nor handled; its slot count is never restored |
| `SchedulerStatusRace` | `FailureNotLost` | two tasks update the status of an event at the same time, and a failure is overwritten with Success |
| `IncidentSkipped` | `NobodyMissed` | a handler fires another incident, whose end resets `m_currentIncidentType`, and then removes itself: it is erased at once, the next listener moves to the node the loop stands on and is never called (were it the last of its list, the node itself would be destroyed, and the loop would go on from freed memory) |

The passing runs stay clear of these by configuration (blocking algorithms in
sequence, no prompt decision beside a failing algorithm, handlers that keep `NotNested`
and `RemovalsSafe`), not by a change of the model.

One more behaviour is modelled and tolerated by `StoresPartitioned`: when the input
ends, the store allocated for the missing event is not given back. Two more are in the
model without a run of their own: with `ThreadPoolSize` -100 the task called in place
finds no specification and the algorithm never runs (`Schedule`), and `stopRun()` sets
a flag nobody reads. Two places where the code's behaviour is undefined are left out, each
by a named assumption or by the choice of jobs: a black-listed event number equal to
`maxevt`, which `executeRun` sets one past the end of its bit set
(`HiveSlimEventLoopMgr.cpp:326`, `LoopAssumption`), and an algorithm created by a hook
that `AlgorithmManager` calls from its loop, if that moves the vector it loops over.
Without a move, `finalize()` comes to the new algorithm and the other three loops do
not (`ThreadSteps`). The frameworks differ for a sequencer without members:
`GaudiSequencer` lets it pass whatever its logic, the concurrent rules decide 0 for an
empty OR (`EmptyDiffers`).

## 7. What is not modelled

- Several events with views at once; views below views, which `scheduleEventView`
  refuses; `AthSequencer` and `StopOverride`.
- In the pool, lazy creation of clones, the flattening of sequencers, and
  `acquireResource`/`releaseResource`, which nothing calls.
- The rankers (they only order the ready queue), graph dumps and traces.
- `ThreadPoolSvc`'s initialisation of threads and its barrier; `HiveDataBrokerSvc`.
- `pushNewEvents` (a loop over `pushNewEvent`), occupancy snapshots, error counters
  of `AlgExecStateSvc`, histograms of the loop, the contents of stores; a second
  `executeRun` in one job.
- The sequential loops beyond `executeEvent`'s loop over the top algorithms: AbortEvent
  incidents, output streams, event selection.
- `IncidentSvc`: the return code set by incidents of type FailInputFile, `finalize`.
- Services: `reinitialize` and restart, a service declared twice, post-finalize
  listeners, stop on signal, disabled algorithms; `ToolSvc`, `DataOnDemandSvc`.

## 8. Plan

Modelled so far: the behaviour every job depends on (precedence rules, scheduler,
pool, event loop), event views, the verification and simulation of the rules, the
sequential reference, incidents, and the life of an application. Next, in this order:

1. *`ThreadPoolSvc`*: threads initialised when they first run a task and terminated
   behind a barrier; every tool called once per thread, no deadlock.
2. *`DataOnDemandSvc`*: re-entrant requests from inside an incident.
3. *`ToolSvc`*: reference counts and the order of release; restart of services.
4. *GaudiMP*: readers, workers and writers over queues.

Theorems to add: for `ApplicationMgr`, `FinalizedInOrder`, with an invariant that relates
the order of the list to the order of the creations, and `JobClosed`, with one that
says which failures each state is due to.
