--------------------------- MODULE PrecedenceRules ---------------------------
(***************************************************************************)
(* The traversals of the precedence graph that promote algorithms and      *)
(* decide control flow nodes: the visitors DataReadyPromoter, Supervisor   *)
(* and DecisionUpdater (Promoters.cpp), ActiveLineageScout and SubSlotScout*)
(* (Validators.cpp), called by PrecedenceSvc::iterate, and the RunSimulator*)
(* of PrecedenceSvc::simulate.  Each operator maps the state of an event   *)
(* to the state the traversal leaves.                                      *)
(*                                                                         *)
(* A graph is a record                                                     *)
(*   algs      the algorithm nodes, numbered by algorithm index            *)
(*   hubs      the decision hubs, in the order of their discovery: the     *)
(*             root hub first                                              *)
(*   children  hub |-> sequence of nodes                                   *)
(*   parents   node |-> sequence of hubs; condition algorithms have none   *)
(*   sequential, prompt, modeOr, allPass, inverted                         *)
(*             the hubs with that flag (sequential: not m_modeConcurrent)  *)
(*   inputs    algorithm |-> sequence of its DataNodes [data, producers,   *)
(*             cond]; cond: it is a ConditionNode (an input nobody produces *)
(*             has no node)                                                *)
(* The state of an event is a record                                       *)
(*   algs, cf  slot |-> the states and the decisions in that EventSlot;    *)
(*             slot 0 is the event's own, 1, 2, ... are its sub-slots      *)
(*   entry     sub-slot |-> the hub it is attached to (entryPoint)         *)
(*   views     hub |-> the sub-slots attached to it (subSlotsByNode); a hub*)
(*             with views disabled has none                                *)
(*   loaded    the conditions that are valid for the event                 *)
(***************************************************************************)
EXTENDS Integers, Sequences, FiniteSetsExt, AlgsExecutionStates

LOCAL INSTANCE SequencesExt

RootHub(g) == g.hubs[1]
HubSet(g)  == DOMAIN g.children
Nodes(g)   == g.algs \cup HubSet(g)

\* An event without views.
OneSlot(algs, cf, loaded) ==
  [algs |-> [s \in {0} |-> algs], cf |-> [s \in {0} |-> cf],
   entry |-> <<>>, views |-> <<>>, loaded |-> loaded]

Undecided(st, s, n) == st.cf[s][n] = -1

\* "Leave a sub-slot if this is the exit node"
Exit(st, s, h) == IF s > 0 /\ st.entry[s] = h THEN 0 ELSE s

\* The daughters of h are in sub-slots: subSlotsByNode of the current slot,
\* which is empty in a sub-slot, knows the node.
HasViews(st, s, h) == s = 0 /\ h \in DOMAIN st.views

-----------------------------------------------------------------------------
(* DataReadyPromoter.                                                      *)

Executed == {"EVTACCEPTED", "EVTREJECTED"}

\* Mutant: the inputs of a view may come from the whole event.
AvailableAnywhere(d, s, st) ==
  IF d.cond THEN d.data \in st.loaded
  ELSE \E p \in d.producers : st.algs[s][p] \in Executed \/ st.algs[0][p] \in Executed

\* visit(DataNode): some producer has been executed in this slot.
\* visitEnter(ConditionNode): the condition is not entered once it is valid.
Available(d, s, st) ==
  IF d.cond THEN d.data \in st.loaded
  ELSE \E p \in d.producers : st.algs[s][p] \in Executed

Missing(g, a, s, st) == {i \in DOMAIN g.inputs[a] : ~Available(g.inputs[a][i], s, st)}

RECURSIVE PromoteControl(_, _, _, _)

\* visit(AlgorithmNode): the inputs are looked at up to the first one that is
\* missing; a missing condition is requested from its producers.
VisitInputs(g, a, s, st) ==
  LET missing == Missing(g, a, s, st)
      first   == g.inputs[a][Min(missing)]
  IN  IF missing = {} THEN [st EXCEPT !.algs[s][a] = "DATAREADY"]
      ELSE IF ~first.cond THEN st
      ELSE FoldSet(LAMBDA p, acc : IF Undecided(acc, s, p) THEN PromoteControl(g, p, s, acc)
                                   ELSE acc, st, first.producers)

\* The promoter is offered the algorithms S and enters the CONTROLREADY ones.
\* What one visit changes does not influence the next.
PromoteData(g, S, s, st) ==
  FoldSet(LAMBDA a, acc : IF acc.algs[s][a] = "CONTROLREADY" THEN VisitInputs(g, a, s, acc)
                          ELSE acc, st, S)

Consumers(g, a) ==
  {b \in g.algs : \E i \in DOMAIN g.inputs[b] : a \in g.inputs[b][i].producers}

\* Mutant: the state of the algorithm is not tested.
PromoteControlAlways(g, a, s, st) ==
  PromoteData(g, {a}, s, [st EXCEPT !.algs[s][a] = "CONTROLREADY"])

\* Supervisor::visit(AlgorithmNode)
PromoteControl(g, a, s, st) ==
  PromoteData(g, {a}, s,
              [st EXCEPT !.algs[s][a] = IF @ = "INITIAL" THEN "CONTROLREADY" ELSE @])

-----------------------------------------------------------------------------
(* ActiveLineageScout: may a decision of node `from' still matter to hub h?*)
(* In a sub-slot the SubSlotScout asks, which must also find the way out.  *)

OutOfSequence(g, h, from, s, st) ==
  /\ h \in g.sequential
  /\ LET ch == g.children[h]
         k  == CHOOSE i \in DOMAIN ch : ch[i] = from
     IN  \E i \in 1 .. (k - 1) : Undecided(st, s, ch[i])

RECURSIVE LineageActive(_, _, _, _, _)

LineageActive(g, h, from, s, st) ==
  /\ Undecided(st, s, h)
  /\ ~OutOfSequence(g, h, from, s, st)
  /\ \/ g.parents[h] = <<>> /\ Exit(st, s, h) = 0
     \/ \E i \in DOMAIN g.parents[h] :
          LineageActive(g, g.parents[h][i], h, Exit(st, s, h), st)

-----------------------------------------------------------------------------
(* Supervisor::visit(DecisionNode), first half: aggregate what is known.   *)

\* The decisions of the daughters of h in slot s.
DecisionsIn(g, h, s, st) == [i \in DOMAIN g.children[h] |-> st.cf[s][g.children[h][i]]]

\* Mutant: only the first view is asked.
DaughterDecisionsFirst(g, h, s, st) ==
  IF HasViews(st, s, h) /\ st.views[h] # <<>> THEN DecisionsIn(g, h, st.views[h][1], st)
  ELSE IF HasViews(st, s, h) THEN <<>> ELSE DecisionsIn(g, h, s, st)

\* "If children are in sub-slots, loop over all"
DaughterDecisions(g, h, s, st) ==
  IF HasViews(st, s, h)
  THEN FlattenSeq([v \in DOMAIN st.views[h] |-> DecisionsIn(g, h, st.views[h][v], st)])
  ELSE DecisionsIn(g, h, s, st)

\* Mutant: a decision that is not there is inverted.
InvertAll(raw) == 1 - raw
Invert(raw) == IF raw = -1 THEN raw ELSE 1 - raw

Aggregate(g, h, s, st) ==
  LET vals     == DaughterDecisions(g, h, s, st)
      prompted == IF h \in g.modeOr THEN 1 ELSE 0
      hits     == {i \in DOMAIN vals : h \in g.prompt /\ vals[i] = prompted}
      \* the daughters looked at before the scan breaks
      scanned  == {vals[i] : i \in {j \in DOMAIN vals : \A k \in hits : j <= k}}
      raw == IF hits # {} THEN prompted
             ELSE IF -1 \in scanned THEN -1
             ELSE IF h \in g.modeOr THEN IF 1 \in scanned THEN 1 ELSE 0
             ELSE IF 0 \in scanned THEN 0 ELSE 1
  IN  IF h \in g.allPass /\ -1 \notin scanned THEN 1
      ELSE IF h \in g.inverted THEN Invert(raw) ELSE raw

-----------------------------------------------------------------------------
(* Supervisor: decide and propagate upward, or ask the children.           *)

\* What ControlFlowNode::accept(Supervisor) answers: open is TRUE when the
\* node was entered and is still without a decision.
RECURSIVE Accept(_, _, _, _)
RECURSIVE Propagate(_, _, _, _, _)
RECURSIVE Descend(_, _, _, _, _)

\* Mutant: only the first parent is told.
PropagateFirst(g, n, i, s, st) ==
  LET up == g.parents[n]
  IN  IF up = <<>> THEN st ELSE Accept(g, up[1], s, st).st

\* Tell the parents of n from the i-th on.  With a single parent the lineage
\* is not checked.
Propagate(g, n, i, s, st) ==
  LET up == g.parents[n]
  IN  IF i > Len(up) THEN st
      ELSE Propagate(g, n, i + 1, s,
             IF Len(up) = 1 \/ LineageActive(g, up[i], n, s, st)
             THEN Accept(g, up[i], s, st).st ELSE st)

\* Mutant: a sequential hub does not wait for its children.
DescendAll(g, h, i, s, st) ==
  IF i > Len(g.children[h]) THEN st
  ELSE LET r == Accept(g, g.children[h][i], s, st)
       IN  IF h \in g.prompt /\ ~Undecided(r.st, s, h) THEN r.st
           ELSE Descend(g, h, i + 1, s, r.st)

\* Visit the children of the undecided hub h in slot s, from the i-th on.
Descend(g, h, i, s, st) ==
  IF i > Len(g.children[h]) THEN st
  ELSE LET r == Accept(g, g.children[h][i], s, st)
       IN  IF \/ h \in g.sequential /\ r.open
              \/ h \in g.prompt /\ ~Undecided(r.st, s, h)
           THEN r.st ELSE Descend(g, h, i + 1, s, r.st)

\* The same in every sub-slot of the hub, if it has views.
DescendViews(g, h, s, st) ==
  IF HasViews(st, s, h)
  THEN FoldLeft(LAMBDA acc, v : Descend(g, h, 1, v, acc), st, st.views[h])
  ELSE Descend(g, h, 1, s, st)

\* A hub is entered if it has no decision in the slot of the visitor: for an
\* exit node that is the sub-slot's own copy, which nobody ever sets.
Accept(g, n, s, st) ==
  IF ~Undecided(st, s, n) THEN [st |-> st, open |-> FALSE]
  ELSE IF n \in g.algs THEN [st |-> PromoteControl(g, n, s, st), open |-> TRUE]
  ELSE LET up == Exit(st, s, n)
           d  == Aggregate(g, n, up, st)
       IN  IF d # -1
           THEN [st |-> Propagate(g, n, 1, up, [st EXCEPT !.cf[up][n] = d]), open |-> FALSE]
           ELSE [st |-> DescendViews(g, n, up, st), open |-> TRUE]

\* Mutant: the consumers of the algorithm's outputs are not revisited.
UpdateDecisionOnly(g, a, s, st) ==
  IF st.algs[s][a] \notin Executed THEN st
  ELSE Propagate(g, a, 1, s,
                 [st EXCEPT !.cf[s][a] = IF st.algs[s][a] = "EVTACCEPTED" THEN 1 ELSE 0])

\* DecisionUpdater::visit.  An algorithm in ERROR takes no decision.  No
\* algorithm node is an optimist or a liar: assembleCFRules adds all of them
\* with inverted and allPass false.
UpdateDecision(g, a, s, st) ==
  IF st.algs[s][a] \notin Executed THEN st
  ELSE LET d == [st EXCEPT !.cf[s][a] = IF st.algs[s][a] = "EVTACCEPTED" THEN 1 ELSE 0]
       IN  Propagate(g, a, 1, s, PromoteData(g, Consumers(g, a), s, d))

\* PrecedenceSvc::iterate: bottom-up from an algorithm of slot s, top-down
\* from the root
IterateRules(g, st, s, cause) ==
  IF cause \in g.algs THEN UpdateDecision(g, cause, s, st)
  ELSE Accept(g, RootHub(g), s, st).st

\* The same, as the set of promotions and decisions AvalancheScheduler takes.
Promotions(g, st) ==
  [cr   |-> AlgsInState(st.algs[0], "CONTROLREADY"),
   dr   |-> AlgsInState(st.algs[0], "DATAREADY"),
   pass |-> {n \in Nodes(g) : st.cf[0][n] = 1},
   fail |-> {n \in Nodes(g) : st.cf[0][n] = 0}]

IteratePromotions(g, algs, cf, cause) ==
  {Promotions(g, st) : st \in
     {IterateRules(g, before, 0, cause) : before \in {OneSlot(algs, cf, {})}}}
=============================================================================
