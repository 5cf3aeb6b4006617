----------------------------- MODULE EventViews -----------------------------
(***************************************************************************)
(* One event whose algorithms split it into views, driven by the scheduler:*)
(* an algorithm asks, while it is executed, for sub-slots below a control  *)
(* flow node (AvalancheSchedulerSvc::scheduleEventView, as Test::ViewTester*)
(* does); the scheduler thread creates them, runs the members of the node  *)
(* once in every view and goes on at the whole-event level when all views  *)
(* have decided.                                                           *)
(*                                                                         *)
(* The scheduler thread and the tasks interleave: the actions queue is the *)
(* only channel from the tasks to the scheduler.  One turn of iterate() is *)
(* one step here (AvalancheScheduler has it in pieces, without views).     *)
(***************************************************************************)
EXTENDS PrecedenceRules, PrecedenceAssembly

CONSTANT
  Jobs   \* records [config, makers, instances, outcomes]: makers[a] = [node,
         \* number] says where algorithm a wants how many views, outcomes[a]
         \* how its executions may end

VARIABLES
  job, graph,       \* rigid: the job and the graph assembled from its config
  algs, cf,         \* slot |-> algsStates, controlFlowState (0: the event's)
  entry, views,     \* entryPoint of the sub-slots, subSlotsByNode
  loaded,           \* the conditions valid for the event
  retryQueue,       \* specifications [s, a] waiting for an instance
  tasks,            \* scheduled: [s, a, made], made: views asked for so far
  instances,        \* free instances of every algorithm
  actionsQueue,     \* [kind, s, a, final]
  sched,            \* where the scheduler thread is: "pop", "check", "iterate"
  needsUpdate,      \* m_needsUpdate
  eventStatus,      \* of AlgExecStateSvc
  result            \* "open", then "finished" (with success), "failed" or
                    \* "dropped" (complete, not successful)

eventVars == <<algs, cf, entry, views>>
taskVars  == <<retryQueue, tasks, instances>>
rigid     == <<job, graph>>
vars      == <<rigid, eventVars, taskVars, loaded, actionsQueue, sched, needsUpdate,
               eventStatus, result>>

ASSUME JobsAssumption ==
  \A j \in Jobs : \A a \in DOMAIN j.outcomes :
    j.outcomes[a] \subseteq {"EVTACCEPTED", "EVTREJECTED", "ERROR"}

config == job.config

EventState == [algs |-> algs, cf |-> cf, entry |-> entry, views |-> views, loaded |-> loaded]

BecomesEvent(st) ==
  /\ algs' = st.algs /\ cf' = st.cf
  /\ entry' = st.entry /\ views' = st.views

Spec0(s, a) == [s |-> s, a |-> a]

\* pushNewEvent: the slot is reset and iterated from the root, before the
\* first turn of iterate().
Init ==
  /\ job \in Jobs
  /\ graph = Assemble(config)
  /\ loaded = {}
  /\ \E st \in {IterateRules(graph, OneSlot([a \in graph.algs |-> "INITIAL"],
                                            [n \in Nodes(graph) |-> -1], {}),
                             0, RootHub(graph))} :
       algs = st.algs /\ cf = st.cf /\ entry = st.entry /\ views = st.views
  /\ retryQueue = <<>> /\ tasks = {} /\ instances = job.instances
  /\ actionsQueue = <<>> /\ sched = "iterate" /\ needsUpdate = TRUE
  /\ eventStatus = "Invalid" /\ result = "open"

-----------------------------------------------------------------------------
(* The tasks.                                                              *)

\* The views an execution asks for; one step per call.  At least one call is
\* made: without views the node is disabled.  Nothing is queued from a view,
\* where scheduleEventView refuses to nest and ViewTester does not ask.
Calls(t) ==
  IF t.s # 0 \/ t.a \notin DOMAIN job.makers THEN 0
  ELSE IF job.makers[t.a].number = 0 THEN 1 ELSE job.makers[t.a].number

\* scheduleEventView: queue the creation of one view.
ScheduleEventView(t) ==
  /\ t.made < Calls(t)
  /\ tasks' = (tasks \ {t}) \cup {[t EXCEPT !.made = @ + 1]}
  /\ actionsQueue' = Append(actionsQueue,
       [kind  |-> IF job.makers[t.a].number = 0 THEN "disable" ELSE "view",
        s |-> 0, a |-> job.makers[t.a].node, final |-> "none"])
  /\ UNCHANGED <<rigid, eventVars, loaded, retryQueue, instances, sched, needsUpdate,
                 eventStatus, result>>

\* updateEventStatus
Updated(status, failed) ==
  IF failed /\ status \in {"Invalid", "Success"} THEN "AlgFail"
  ELSE IF status = "Invalid" THEN "Success" ELSE status

\* A condition algorithm that is executed makes its outputs valid.
Loads(a, final) ==
  IF a \in config.condAlgs /\ final \in Executed THEN ToSet(config.writes[a]) \cap config.conds
  ELSE {}

\* The rest of AlgTask::operator(): the execution ends, the event status is
\* updated, the algorithm released, the sign-off queued.
EndTask(t, final) ==
  /\ t.made = Calls(t)
  /\ tasks' = tasks \ {t}
  /\ eventStatus' = Updated(eventStatus, final = "ERROR")
  /\ instances' = [instances EXCEPT ![t.a] = @ + 1]
  /\ loaded' = loaded \cup Loads(t.a, final)
  /\ actionsQueue' = Append(actionsQueue, [kind |-> "signoff", s |-> t.s, a |-> t.a, final |-> final])
  /\ UNCHANGED <<rigid, eventVars, retryQueue, sched, needsUpdate, result>>

Task ==
  \E t \in tasks : ScheduleEventView(t) \/ \E final \in job.outcomes[t.a] : EndTask(t, final)

-----------------------------------------------------------------------------
(* The scheduler thread: one action, then iterate() if nothing is queued.  *)

\* Mutant: the decisions are not copied from the parent.
AddSubSlotBlank(st, h) ==
  LET v == Len(st.entry) + 1
  IN  [st EXCEPT !.algs = (v :> [a \in graph.algs |-> "INITIAL"]) @@ @,
                 !.cf = (v :> [n \in Nodes(graph) |-> -1]) @@ @,
                 !.entry = Append(@, h),
                 !.views = (h :> <<v>>) @@ @]

\* EventSlot::addSubSlot: a slot of its own, with the decisions of the parent
AddSubSlot(st, h) ==
  LET v == Len(st.entry) + 1
  IN  [st EXCEPT !.algs = (v :> [a \in graph.algs |-> "INITIAL"]) @@ @,
                 !.cf = (v :> @[0]) @@ @,
                 !.entry = Append(@, h),
                 !.views = (h :> Append(IF h \in DOMAIN @ THEN @[h] ELSE <<>>, v)) @@ @]

\* EventSlot::disableSubSlots: an empty list, unless there are views already
DisableSubSlots(st, h) == [st EXCEPT !.views = @ @@ (h :> <<>>)]

\* The actions scheduleEventView queues.
RunView(x) ==
  /\ x.kind \in {"view", "disable"}
  /\ BecomesEvent(IF x.kind = "view" THEN AddSubSlot(EventState, x.a)
                  ELSE DisableSubSlots(EventState, x.a))
  /\ UNCHANGED needsUpdate

\* signoff: revise the state in the algorithm's slot and iterate from there
RunSignoff(x) ==
  /\ x.kind = "signoff"
  /\ \E st \in {IterateRules(graph, [EventState EXCEPT !.algs[x.s][x.a] = SetState(@, x.final)],
                             x.s, x.a)} : BecomesEvent(st)
  /\ needsUpdate' = TRUE

RunAction ==
  /\ sched = "pop" /\ actionsQueue # <<>>
  /\ RunView(Head(actionsQueue)) \/ RunSignoff(Head(actionsQueue))
  /\ actionsQueue' = Tail(actionsQueue)
  /\ sched' = "check"
  /\ UNCHANGED <<rigid, taskVars, loaded, eventStatus, result>>

\* "If all queued actions have been processed, update the slot states"
CheckUpdate ==
  /\ sched = "check"
  /\ sched' = IF needsUpdate /\ actionsQueue = <<>> THEN "iterate" ELSE "pop"
  /\ UNCHANGED <<rigid, eventVars, taskVars, loaded, actionsQueue, needsUpdate, eventStatus, result>>

\* schedule(): start a task on a free instance, or retry later.
\* w = [algs, retry, tasks, free]
Schedule(w, ts) ==
  LET ok == w.free[ts.a] > 0
      to == IF ok THEN "SCHEDULED" ELSE "RESOURCELESS"
  IN  [w EXCEPT !.algs[ts.s][ts.a] = SetState(@, to),
                !.free[ts.a] = IF ok THEN @ - 1 ELSE @,
                !.tasks = IF ok THEN @ \cup {[s |-> ts.s, a |-> ts.a, made |-> 0]} ELSE @,
                !.retry = IF ok THEN @ ELSE Append(@, ts)]

\* Everything iterate() offers to schedule(): what was in the retry queue, the
\* DATAREADY algorithms of the event's slot, those of its sub-slots in turn.
ReadyIn(s) ==
  LET ready == SetToSortSeq(AlgsInState(algs[s], "DATAREADY"), <)
  IN  [i \in DOMAIN ready |-> Spec0(s, ready[i])]

Offered == retryQueue \o FlattenSeq([k \in 1 .. Len(entry) + 1 |-> ReadyIn(k - 1)])

Active  == {"CONTROLREADY", "DATAREADY", "SCHEDULED", "RESOURCELESS"}
Waiting == {"DATAREADY", "SCHEDULED", "RESOURCELESS"}

\* subSlotAlgsInStates
AnySlotContains(a, states) == \E s \in DOMAIN a : ContainsAny(a[s], states)

\* Mutant: the sub-slots are not asked.
CompleteWithoutViews(a) == cf[0][RootHub(graph)] # -1 /\ ~ContainsAny(a[0], Active)

Complete(a) == cf[0][RootHub(graph)] # -1 /\ ~AnySlotContains(a, Active)

\* Mutant: an algorithm that waits for data counts as work.
IsStalledWhenIdle(a) == ~AnySlotContains(a, Active)

IsStalled(a) == ~AnySlotContains(a, Waiting)

\* One turn of iterate().
Iterate ==
  /\ sched = "iterate"
  /\ \E w \in {FoldLeft(Schedule,
                        [algs |-> algs, retry |-> <<>>, tasks |-> tasks, free |-> instances],
                        IF result = "open" THEN Offered ELSE retryQueue)} :
         /\ algs' = w.algs /\ retryQueue' = w.retry /\ tasks' = w.tasks /\ instances' = w.free
         /\ \/ /\ result = "open" /\ Complete(w.algs)
               /\ result' = IF eventStatus = "Success" THEN "finished" ELSE "dropped"
               /\ UNCHANGED eventStatus
            \/ /\ result = "open" /\ ~Complete(w.algs) /\ IsStalled(w.algs)
               /\ result' = "failed" /\ eventStatus' = "AlgStall"
            \/ /\ result # "open" \/ (~Complete(w.algs) /\ ~IsStalled(w.algs))
               /\ UNCHANGED <<result, eventStatus>>
  /\ sched' = "pop" /\ needsUpdate' = FALSE
  /\ UNCHANGED <<rigid, cf, entry, views, loaded, actionsQueue>>

Scheduler == RunAction \/ CheckUpdate \/ Iterate

\* Nothing is under way: the scheduler waits at the queue for the next event.
Idle ==
  /\ tasks = {} /\ actionsQueue = <<>> /\ sched = "pop"
  /\ UNCHANGED vars

Next == Task \/ Scheduler \/ Idle

Spec == Init /\ [][Next]_vars

\* A step of the scheduler thread is a change of its position; it is possible
\* unless the thread waits at an empty queue.
SchedulerTurn ==
  /\ sched # "pop" \/ actionsQueue # <<>>
  /\ sched' \in {"pop", "check", "iterate"}

\* The scheduler thread and the thread pool keep running.
FairSpec == Spec /\ WF_sched(SchedulerTurn) /\ WF_vars(Task)

-----------------------------------------------------------------------------
(* Properties.                                                             *)

AllSlots == 0 .. Len(entry)

\* Type correctness; subSlotsByNode and the entry points of the sub-slots say
\* the same.
TypeOK ==
  /\ entry \in Seq(HubSet(graph))
  /\ algs \in [AllSlots -> [graph.algs -> AState]]
  /\ cf \in [AllSlots -> [Nodes(graph) -> {-1, 0, 1}]]
  /\ DOMAIN views \subseteq HubSet(graph)
  /\ \A h \in DOMAIN views : ToSet(views[h]) = {v \in DOMAIN entry : entry[v] = h}
  /\ tasks \subseteq [s : AllSlots, a : graph.algs, made : Nat]
  /\ instances \in [graph.algs -> Nat]
  /\ sched \in {"pop", "check", "iterate"} /\ needsUpdate \in BOOLEAN
  /\ eventStatus \in {"Invalid", "Success", "AlgFail", "AlgStall"}
  /\ result \in {"open", "finished", "failed", "dropped"}

Members(h) ==
  SelectSeq(IF h = RootName THEN config.top ELSE config.members[h],
            LAMBDA n : n \notin config.condAlgs)
Flags(h)   == IF h = RootName THEN {"ModeOR", "IgnoreFilterPassed"} ELSE config.flags[h]
Prompt(h)  == "ShortCircuit" \in Flags(h) /\ "IgnoreFilterPassed" \notin Flags(h)

\* The slots the members of h are in, seen from slot s.
MemberSlots(s, h) == IF s = 0 /\ h \in DOMAIN views THEN ToSet(views[h]) ELSE {s}

Values(s, h) == {cf[v][n] : v \in MemberSlots(s, h), n \in ToSet(Members(h))}

Decisive(h) == IF "ModeOR" \in Flags(h) THEN 1 ELSE 0

Promised(s, h) ==
  LET raw == IF "ModeOR" \in Flags(h) THEN IF 1 \in Values(s, h) THEN 1 ELSE 0
             ELSE IF 0 \in Values(s, h) THEN 0 ELSE 1
  IN  IF "IgnoreFilterPassed" \in Flags(h) THEN 1
      ELSE IF "Invert" \in Flags(h) THEN 1 - raw ELSE raw

\* The hubs below the entry point of sub-slot v, and all hubs for the event.
RECURSIVE Below(_)
Below(h) == ToSet(Members(h)) \cup UNION {Below(n) : n \in ToSet(Members(h)) \cap HubSet(graph)}

HubsOf(s) == HubSet(graph) \cap (IF s = 0 THEN HubSet(graph) ELSE Below(entry[s]))

\* Makers come before the node they make views for, in a sequential hub.
WellSequenced ==
  \A m \in DOMAIN job.makers : \E h \in HubSet(graph) : "Sequential" \in Flags(h) /\
    \E i, j \in DOMAIN Members(h) : i < j /\ Members(h)[i] = m /\ Members(h)[j] = job.makers[m].node

\* The decision of a node with views is that of its members over all views,
\* whichever of them come first, and only a prompt node with a decisive member
\* in some view is ahead of them (Supervisor::visit, the loops over sub-slots);
\* below it the same holds in every view by itself.  A node with views
\* disabled is decided by having no member.
ViewDecisionsSound ==
  \A s \in AllSlots : \A h \in HubsOf(s) : cf[s][h] # -1 =>
    /\ -1 \notin Values(s, h) => cf[s][h] = Promised(s, h)
    /\ -1 \in Values(s, h) => Prompt(h) /\ Decisive(h) \in Values(s, h)

\* An algorithm of a view has its inputs when they are produced in that view:
\* neither the whole event nor another view can give them, and once they are
\* there it does not wait (DataReadyPromoter in the sub-slot).  A condition that
\* another view has loaded meanwhile is noticed when the own request is done.
ViewsIsolated ==
  \A s \in AllSlots, a \in graph.algs :
    LET ready == \A i \in DOMAIN graph.inputs[a] :
          LET d == graph.inputs[a][i]
          IN  IF d.cond THEN d.data \in loaded
              ELSE \E p \in d.producers : algs[s][p] \in Executed
    IN  /\ algs[s][a] \in AState \ {"INITIAL", "CONTROLREADY"} => ready
        /\ algs[s][a] = "CONTROLREADY" /\ ready =>
             \E i \in DOMAIN graph.inputs[a] : graph.inputs[a][i].cond /\
               \E p \in graph.inputs[a][i].producers : algs[s][p] \in Active \cup {"ERROR"}

\* Something below node n has been asked to run.
RECURSIVE Started(_, _)
Started(s, n) ==
  IF n \in graph.algs THEN algs[s][n] # "INITIAL"
  ELSE \E v \in MemberSlots(s, n) : \E m \in ToSet(Members(n)) : Started(v, m)

\* Views keep the order of the control flow: what follows a node with views in
\* a sequential hub starts when the node is decided, that is after all its
\* views, and nothing starts behind a member that decides a prompt hub.
SequentialOverViews ==
  \A s \in AllSlots : \A h \in HubsOf(s) : "Sequential" \in Flags(h) =>
    \A v \in MemberSlots(s, h) : \A i, j \in DOMAIN Members(h) :
      i < j /\ Started(v, Members(h)[j]) =>
        /\ cf[v][Members(h)[i]] # -1
        /\ Prompt(h) => cf[v][Members(h)[i]] # Decisive(h)

\* The event leaves the slot after the last of its views: no task, no sign-off,
\* no view to create and no retry is left that would touch the sub-slots when
\* they are gone (iterate() must look into all of them).
EventOutlivesViews ==
  result # "open" =>
    /\ tasks = {} /\ retryQueue = <<>> /\ actionsQueue = <<>>
    /\ ~AnySlotContains(algs, {"SCHEDULED", "RESOURCELESS", "DATAREADY"})

\* If the makers are sequenced before their nodes, no view is lost: a finished
\* event has run every view to the end or had its node decided by a decisive
\* member, and none of the node's members ran at the whole-event level as well.
EveryViewRuns ==
  WellSequenced =>
    /\ result = "finished" => \A v \in DOMAIN entry :
         \/ \A n \in ToSet(Members(entry[v])) : cf[v][n] # -1
         \/ Prompt(entry[v]) /\ Decisive(entry[v]) \in Values(0, entry[v])
         \/ \E h \in HubSet(graph) : Prompt(h) /\ Decisive(h) \in Values(0, h)
    /\ \A h \in DOMAIN views : \A a \in Below(h) \cap graph.algs : algs[0][a] = "INITIAL"

\* An event is only given up as stalled for a reason: an algorithm failed, or
\* one waits, in the event or in a view, for data that nobody there is about
\* to produce.  A view that was not woken would stall the event without.
StallHasReason ==
  result = "failed" => AnySlotContains(algs, {"ERROR", "CONTROLREADY"})

\* An event leaves its slot in order: after everything that belongs to its
\* views, and given up only for a reason, both of which iterate() can only know
\* by looking into every sub-slot.
EventLeavesClean == EventOutlivesViews /\ StallHasReason

\* Every event ends, finished or given up: no view waits for an instance, and
\* no node for a view, for ever.
EventEnds == <>(result # "open")
=============================================================================
