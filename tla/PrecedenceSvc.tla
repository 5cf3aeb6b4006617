---------------------------- MODULE PrecedenceSvc ----------------------------
(***************************************************************************)
(* One event slot driven through PrecedenceSvc::iterate, the way the       *)
(* scheduler drives it: once from the root when the event enters the slot, *)
(* then once per algorithm that signs off.  Whichever DATAREADY algorithms *)
(* are running finish in any order.  The configuration and the graph that  *)
(* PrecedenceSvc::initialize assembles from it are rigid variables, so one *)
(* run covers every configuration of the set Configs.                      *)
(***************************************************************************)
EXTENDS PrecedenceRules, PrecedenceAssembly, PrecedenceValidators, RunSimulator, GaudiSequencer,
        Relation

CONSTANTS
  Configs,    \* the configurations to drive
  MayFail     \* TRUE: executions may also end in ERROR

VARIABLES
  config, graph,  \* the configuration and the graph assembled from it
  started,        \* initialize() has succeeded
  simulated,      \* simulate() would succeed
  algs, cf,       \* the slot of the event
  loaded          \* the conditions valid for the event

rules == <<config, graph, started, simulated>>
vars  == <<rules, algs, cf, loaded>>

ASSUME MayFailAssumption == MayFail \in BOOLEAN

State == OneSlot(algs, cf, loaded)

\* EventSlot::reset
Fresh(g, conditions) ==
  OneSlot([a \in g.algs |-> "INITIAL"], [n \in Nodes(g) |-> -1], conditions)

\* The event enters the slot: iterate with Cause::source::Root.  Its conditions
\* may be valid already.
Init ==
  /\ config \in Configs
  /\ loaded \in SUBSET config.conds
  /\ graph = Assemble(config)
  /\ started = RulesVerified(graph, config)
  /\ simulated = (started /\ SimulationSucceeds(graph, Fresh(graph, loaded)))
  /\ \E st \in {IF started THEN IterateRules(graph, Fresh(graph, loaded), 0, RootHub(graph))
               ELSE Fresh(graph, loaded)} :
       algs = st.algs[0] /\ cf = st.cf[0]

SignoffStates == Executed \cup (IF MayFail THEN {"ERROR"} ELSE {})

\* A condition algorithm that is executed makes its outputs valid.
Loads(a, final) ==
  IF a \in config.condAlgs /\ final \in Executed THEN ToSet(config.writes[a]) \cap config.conds
  ELSE {}

\* The algorithm is scheduled and executed; signoff() sets its final state
\* and iterates with Cause::source::Task.
Finish(a, final) ==
  /\ algs[a] = "DATAREADY"
  /\ loaded' = loaded \cup Loads(a, final)
  /\ LET set == SetState(SetState(algs[a], "SCHEDULED"), final)
     IN  \E st \in {IterateRules(graph, OneSlot([algs EXCEPT ![a] = set], cf, loaded'), 0, a)} :
           algs' = st.algs[0] /\ cf' = st.cf[0]
  /\ UNCHANGED rules

\* Nothing is left to run.
Quiescent == AlgsInState(algs, "DATAREADY") = {}

Idle == Quiescent /\ UNCHANGED vars

Next ==
  \/ \E a \in graph.algs, final \in SignoffStates : Finish(a, final)
  \/ Idle

Spec == Init /\ [][Next]_vars

-----------------------------------------------------------------------------
(* Properties.                                                             *)

Decided(n) == cf[n] # -1

\* The members and the properties of a hub, as configured, without condition
\* algorithms; the root hub is an OR of the top algorithms that always passes.
Members(h) ==
  SelectSeq(IF h = RootName THEN config.top ELSE config.members[h],
            LAMBDA n : n \notin config.condAlgs)
Flags(h)   == IF h = RootName THEN {"ModeOR", "IgnoreFilterPassed"} ELSE config.flags[h]
Prompt(h)  == "ShortCircuit" \in Flags(h) /\ "IgnoreFilterPassed" \notin Flags(h)
Hubs       == DOMAIN config.members \cup {RootName}

\* The decision the properties of a hub promise once all members have one.
FullDecision(h) ==
  LET all == {cf[n] : n \in ToSet(Members(h))}
      raw == IF "ModeOR" \in Flags(h) THEN IF 1 \in all THEN 1 ELSE 0
             ELSE IF 0 \in all THEN 0 ELSE 1
  IN  IF "IgnoreFilterPassed" \in Flags(h) THEN 1
      ELSE IF "Invert" \in Flags(h) THEN 1 - raw ELSE raw

AllDecided(h) == \A n \in ToSet(Members(h)) : Decided(n)

\* The decision of a member that settles a prompt hub at once.
Decisive(h) == IF "ModeOR" \in Flags(h) THEN 1 ELSE 0
Settled(h)  == Prompt(h) /\ \E n \in ToSet(Members(h)) : cf[n] = Decisive(h)

\* A hub's decision (Supervisor::visit) agrees with the configuration for the
\* rest of the event: one taken early by a prompt hub is the one the hub would
\* have reached with all members decided, and only a prompt hub with a
\* decisive member is ahead of its members.
HubDecisionsSound ==
  \A h \in Hubs : Decided(h) =>
    /\ AllDecided(h) => cf[h] = FullDecision(h)
    /\ ~AllDecided(h) => Settled(h)

\* Some algorithm that hangs on node n alone has left INITIAL.
RECURSIVE StartedUnder(_)
StartedUnder(n) ==
  /\ Cardinality({h \in Hubs : n \in ToSet(Members(h))}) = 1
  /\ IF n \in graph.algs THEN algs[n] # "INITIAL"
     ELSE \E m \in ToSet(Members(n)) : StartedUnder(m)

\* A member listed again counts where it comes first.
FirstAt(h, j) == \A i \in 1 .. (j - 1) : Members(h)[i] # Members(h)[j]

\* In a sequential hub nothing below a member starts before every member in
\* front of it is decided, and if the hub is prompt, nothing starts behind a
\* decisive member: Descend stops where the code's loop over the daughters
\* breaks.
SequentialOrder ==
  \A h \in Hubs : "Sequential" \in Flags(h) =>
    \A i, j \in DOMAIN Members(h) :
      i < j /\ FirstAt(h, j) /\ StartedUnder(Members(h)[j]) =>
        /\ Decided(Members(h)[i])
        /\ Prompt(h) => cf[Members(h)[i]] # Decisive(h)

\* An algorithm leaves CONTROLREADY exactly when its last input is there: none
\* runs without its inputs, none waits with all of them (the promoters are
\* asked at every point where an input can become available).  A condition is
\* requested when, and only when, somebody waits for it: its producers run
\* if it is the first input missing, and a condition algorithm that runs has
\* been asked by a consumer.
DataFlowExact ==
  \A a \in graph.algs :
    LET missing == Missing(graph, a, 0, State)
        asking  == {b \in Consumers(graph, a) : algs[b] # "INITIAL"}
    IN  /\ algs[a] = "CONTROLREADY" =>
             /\ missing # {}
             /\ LET first == graph.inputs[a][Min(missing)]
                IN  first.cond => \A p \in first.producers : algs[p] # "INITIAL"
        /\ algs[a] \in AState \ {"INITIAL", "CONTROLREADY"} => missing = {}
        /\ a \in config.condAlgs /\ algs[a] # "INITIAL" => asking # {}

\* No wake-up is lost: when nothing is left to run and nothing failed, either
\* the root is decided or an algorithm waits for data.  A traversal that
\* forgot to tell an active hub about a decision would leave neither.  (Every
\* Finish uses up an algorithm, so every event gets to such a state.)
NoLostWakeup ==
  started /\ Quiescent /\ ~ContainsAny(algs, {"ERROR"}) =>
    Decided(RootHub(graph)) \/ ContainsAny(algs, {"CONTROLREADY"})

\* The dry run keeps its promise: if simulate() succeeds and no hub inverts
\* its decision, an event in which every algorithm accepts gets to the
\* decision of the root, whatever order the algorithms finish in.
SimulationPredicts ==
  simulated /\ Quiescent /\ graph.inverted = {} /\ ~ContainsAny(algs, {"EVTREJECTED", "ERROR"}) =>
    Decided(RootHub(graph))

\* Hubs without members in which the frameworks differ: a GaudiSequencer with
\* nothing to execute passes, whatever its logic.
EmptyDiffers ==
  {h \in DOMAIN config.members :
     /\ config.members[h] = <<>> /\ "IgnoreFilterPassed" \notin config.flags[h]
     /\ ("ModeOR" \in config.flags[h]) # ("Invert" \in config.flags[h])}

\* What the algorithms did, and either decision for those that did not run.
Outcomes ==
  {o \in [graph.algs -> {"pass", "reject", "fail"}] : \A a \in graph.algs :
     /\ algs[a] = "EVTACCEPTED" => o[a] = "pass"
     /\ algs[a] = "EVTREJECTED" => o[a] = "reject"
     /\ algs[a] = "ERROR" <=> o[a] = "fail"}

\* The precedence rules and the sequential framework (MinimalEventLoopMgr,
\* GaudiSequencer::execute) agree.  In a job of sequential hubs nothing is
\* executed that the sequential framework would leave out, not even after a
\* failure, and an event that gets to its end has executed the same algorithms.
\* In every job, concurrent hubs included, such an event has taken the
\* decisions the sequential framework takes.
AgreesWithSequencer ==
  started /\ Quiescent /\ config.condAlgs = {} /\ EmptyDiffers = {} =>
    \A o \in Outcomes :
      LET ref == ExecuteEvent(config, o)
          ran == {a \in graph.algs : algs[a] \in Executed \cup {"ERROR"}}
          decided    == {h \in DOMAIN config.members : Decided(h)}
          sequential == \A h \in DOMAIN config.members : "Sequential" \in config.flags[h]
          complete   == ~ContainsAny(algs, {"ERROR", "CONTROLREADY"})
      IN  /\ sequential => ran \subseteq ref.done
          /\ sequential /\ complete => ref.done = ran \cup decided
          /\ complete => \A h \in decided \cap ref.done : cf[h] = 1 <=> ref.passed[h]

\* Data flow as a relation between algorithms, and who can reach whom.
DataFlow == [a, b \in graph.algs |-> b \in Consumers(graph, a)]
Reaches  == TransitiveClosure(DataFlow, graph.algs)
OnCycle  == {a \in graph.algs : Reaches[a, a]}

AtStart == \A a \in graph.algs : algs[a] \notin Executed \cup {"ERROR"}

\* A GaudiSequencer may leave out members if it is sequential and stops early.
LeavesOut(h) == "Sequential" \in Flags(h) /\ Prompt(h)

\* Who gets to run in every event: some chain of sequencers leads down to it, none
\* of which leaves out members.
RECURSIVE GuaranteedIn(_)
GuaranteedIn(h) ==
  IF LeavesOut(h) THEN {}
  ELSE UNION {IF n \in Hubs THEN GuaranteedIn(n) ELSE {n} : n \in ToSet(Members(h))}

\* The verification of the rules lets a job start exactly if no algorithm waits
\* for itself, by however long a detour, if no object has two writers that get
\* to run in every event, and no condition two producers: ConditionalLineageFinder
\* tells the writers apart by the sequencers above them, and the low-link values
\* of TarjanSCCFinder find every cycle and take nothing else for one.
VerificationExact ==
  AtStart =>
    (started <=> (config.verify =>
       /\ OnCycle = {}
       /\ \A a, b \in graph.algs : a # b =>
            LET both == ToSet(config.writes[a]) \cap ToSet(config.writes[b])
            IN  /\ both \cap config.conds = {}
                /\ both # {} => ~({a, b} \subseteq GuaranteedIn(RootName))))

\* Decisions are final, and an executed algorithm is never promoted again,
\* although nested traversals re-enter hubs whose visit is still under way.
DecisionsFinal ==
  [][/\ \A n \in Nodes(graph) : Decided(n) => cf'[n] = cf[n]
     /\ \A a \in graph.algs :
          algs[a] \in {"EVTACCEPTED", "EVTREJECTED", "ERROR"} => algs'[a] = algs[a]]_vars
=============================================================================
