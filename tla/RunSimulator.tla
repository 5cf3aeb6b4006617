----------------------------- MODULE RunSimulator -----------------------------
(***************************************************************************)
(* PrecedenceSvc::simulate and its visitor RunSimulator (Promoters.cpp):   *)
(* the dry run of an event in which every algorithm accepts, taken before  *)
(* the job starts when SimulateExecution is set.                           *)
(***************************************************************************)
EXTENDS PrecedenceRules

\* visit(AlgorithmNode): an algorithm with all its inputs is executed at once.
SimulateAlgorithm(g, a, st) ==
  LET asked == IF st.algs[0][a] = "INITIAL" THEN [st EXCEPT !.algs[0][a] = "CONTROLREADY"] ELSE st
      data  == VisitInputs(g, a, 0, asked)
  IN  IF asked.algs[0][a] # "CONTROLREADY" THEN st
      ELSE IF data.algs[0][a] = "DATAREADY"
      THEN [data EXCEPT !.algs[0][a] = SetState(SetState(@, "SCHEDULED"), "EVTACCEPTED"),
                        !.cf[0][a] = 1]
      ELSE data

RECURSIVE Simulate(_, _, _)
RECURSIVE SimulateChildren(_, _, _, _, _)

\* The node has passed: tell all parents.
SimulatePassed(g, h, st) ==
  LET up == g.parents[h]
      passed == [st EXCEPT !.cf[0][h] = 1]
      told[i \in 0 .. Len(up)] == IF i = 0 THEN passed ELSE Simulate(g, up[i], told[i - 1])
  IN  told[Len(up)]

\* Mutant: a sequential hub looks beyond an undecided child.
SimulateChildrenAll(g, h, i, resolved, st) ==
  IF i > Len(g.children[h]) THEN IF resolved THEN SimulatePassed(g, h, st) ELSE st
  ELSE LET n     == g.children[h][i]
           after == Simulate(g, n, st)
       IN  IF after.cf[0][n] = 1 /\ h \in g.modeOr /\ h \in g.prompt
           THEN SimulatePassed(g, h, after)
           ELSE SimulateChildren(g, h, i + 1, resolved /\ ~Undecided(after, 0, n), after)

\* visit(DecisionNode), from the i-th child on; resolved: the children before
\* it had a decision when they were left.
SimulateChildren(g, h, i, resolved, st) ==
  IF i > Len(g.children[h]) THEN IF resolved THEN SimulatePassed(g, h, st) ELSE st
  ELSE LET n     == g.children[h][i]
           after == Simulate(g, n, st)
       IN  IF h \in g.sequential /\ Undecided(after, 0, n) THEN after
           ELSE IF after.cf[0][n] = 1 /\ h \in g.modeOr /\ h \in g.prompt
           THEN SimulatePassed(g, h, after)
           ELSE SimulateChildren(g, h, i + 1, resolved /\ ~Undecided(after, 0, n), after)

\* accept: nodes that passed are not entered again.
Simulate(g, n, st) ==
  IF st.cf[0][n] = 1 THEN st
  ELSE IF n \in g.algs THEN SimulateAlgorithm(g, n, st)
  ELSE SimulateChildren(g, n, 1, TRUE, st)

\* The loop of simulate(): until the root is decided, or a round changes nothing.
RECURSIVE SimulationSucceeds(_, _)
SimulationSucceeds(g, st) ==
  IF ~Undecided(st, 0, RootHub(g)) THEN TRUE
  ELSE LET next == Simulate(g, RootHub(g), st)
       IN  IF next.cf = st.cf THEN FALSE ELSE SimulationSucceeds(g, next)
===============================================================================
