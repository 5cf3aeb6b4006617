------------------------ MODULE PrecedenceValidators ------------------------
(***************************************************************************)
(* The verification of the rules (PrecedenceSvc::initialize, VerifyRules): *)
(* ProductionAmbiguityFinder and TarjanSCCFinder of Validators.cpp, on a   *)
(* configuration c and the graph g assembled from it.                      *)
(***************************************************************************)
EXTENDS PrecedenceRules, PrecedenceAssembly

-----------------------------------------------------------------------------
(* ConditionalLineageFinder and ProductionAmbiguityFinder.                 *)

\* Mutant: a concurrent hub that is "prompt" counts as conditional, too.
ConditionalPrompt(g, h) == h \in g.prompt

\* What is below a sequential prompt hub may be left out.  A concurrent hub has
\* its 'Prompt' discarded by the NodePropertiesValidator.
Conditional(g, h) == h \in g.prompt /\ h \in g.sequential

\* negative(): n has a path up to the root without a conditional hub.  A
\* condition algorithm has no path at all.
RECURSIVE Unconditional(_, _)
Unconditional(g, n) ==
  \E h \in ToSet(g.parents[n]) :
    ~Conditional(g, h) /\ (g.parents[h] = <<>> \/ Unconditional(g, h))

\* "all violations related to Condition Node are unconditional"
UnconditionalProducers(g, c, d) ==
  {a \in Producers(g, c, d) : d \in c.conds \/ Unconditional(g, a)}

\* ~passed(): two algorithms that may not be left out write the same object.
Ambiguous(g, c) ==
  \E a \in g.algs : \E d \in ToSet(c.writes[a]) : Cardinality(UnconditionalProducers(g, c, d)) > 1

-----------------------------------------------------------------------------
(* TarjanSCCFinder.  Its state: the number of nodes visited, the stack, the*)
(* low-link value of every visited algorithm, and the components found,    *)
(* keyed by the low-link value of their root.                              *)

Unvisited == [count |-> 0, stack |-> <<>>, low |-> <<>>, scc |-> <<>>]

\* The consumers of the outputs of a, in the order the visitor meets them:
\* output by output, the consumers of one sorted by name.
ConsumersOf(g, d) ==
  SetToSortSeq({b \in g.algs : \E i \in DOMAIN g.inputs[b] : g.inputs[b][i].data = d}, <)

Successors(g, c, a) == FlattenSeq([i \in DOMAIN c.writes[a] |-> ConsumersOf(g, c.writes[a][i])])

\* Mutant: the low-link value of the consumer is propagated although it is on
\* the stack no more.
PropagateLowFinished(v, a, b) == [v EXCEPT !.low[a] = IF @ > v.low[b] THEN v.low[b] ELSE @]

\* "propagate the low-link value back"; a loop is a component by itself.
PropagateLow(v, a, b) ==
  IF b \notin ToSet(v.stack) THEN v
  ELSE LET low == IF v.low[a] > v.low[b] THEN v.low[b] ELSE v.low[a]
       IN  [v EXCEPT !.low[a] = low,
                     !.scc = IF a = b /\ low \notin DOMAIN @ THEN (low :> <<a>>) @@ @ ELSE @]

\* "If an SCC is found, book-keep it and take it off the stack": of the nodes
\* down to a, those with its low-link value are recorded.
TakeSCC(v, a) ==
  LET low   == v.low[a]
      at    == CHOOSE i \in DOMAIN v.stack : v.stack[i] = a
      taken == Reverse(SubSeq(v.stack, at, Len(v.stack)))
      known == IF low \in DOMAIN v.scc THEN v.scc[low] ELSE <<>>
  IN  [v EXCEPT !.stack = SubSeq(@, 1, at - 1),
                !.scc = (low :> known \o SelectSeq(taken, LAMBDA n : v.low[n] = low)) @@ @]

RECURSIVE VisitSCC(_, _, _, _)
VisitSCC(g, c, a, v) ==
  IF a \in DOMAIN v.low THEN v
  ELSE LET init == v.count + 1
           w == FoldLeft(LAMBDA acc, b : PropagateLow(VisitSCC(g, c, b, acc), a, b),
                         [v EXCEPT !.count = init, !.stack = Append(@, a),
                                   !.low = (a :> init) @@ @],
                         Successors(g, c, a))
       IN  IF w.low[a] = init THEN TakeSCC(w, a) ELSE w

\* PrecedenceRulesGraph::accept: all algorithms
SCCs(g, c) ==
  FoldLeft(LAMBDA acc, a : VisitSCC(g, c, a, acc), Unvisited, SetToSortSeq(g.algs, <)).scc

\* passed()
Cyclic(g, c) == \E l \in DOMAIN SCCs(g, c) : Len(SCCs(g, c)[l]) > 1

\* initialize() succeeds
RulesVerified(g, c) == c.verify => ~Ambiguous(g, c) /\ ~Cyclic(g, c)
=============================================================================
