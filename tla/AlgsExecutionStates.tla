------------------------ MODULE AlgsExecutionStates ------------------------
(***************************************************************************)
(* The state machine an algorithm goes through in one event slot           *)
(* (AlgsExecutionStates.h, AlgsExecutionStates.cpp).  A slot keeps one     *)
(* state per algorithm; the per-state index sets of the code (m_algsInState)*)
(* are the sets AlgsInState below.                                         *)
(***************************************************************************)

\* AlgsExecutionStates::State
AState ==
  {"INITIAL", "CONTROLREADY", "DATAREADY", "RESOURCELESS",
   "SCHEDULED", "EVTACCEPTED", "EVTREJECTED", "ERROR"}

\* The cases of the switch in set() that move an algorithm to its new state.
Transition ==
  { <<"INITIAL",      "CONTROLREADY">>,
    <<"CONTROLREADY", "DATAREADY">>,
    <<"DATAREADY",    "SCHEDULED">>,
    <<"DATAREADY",    "RESOURCELESS">>,
    <<"RESOURCELESS", "SCHEDULED">>,
    <<"SCHEDULED",    "ERROR">>,
    <<"SCHEDULED",    "EVTACCEPTED">>,
    <<"SCHEDULED",    "EVTREJECTED">> }

\* set() returns SUCCESS: "Allow cycling of a single state".
MaySet(old, new) == old = new \/ <<old, new>> \in Transition

\* The state set() leaves behind: a refused transition lands in ERROR.
SetState(old, new) == IF MaySet(old, new) THEN new ELSE "ERROR"

\* algsInState()
AlgsInState(algs, state) == {a \in DOMAIN algs : algs[a] = state}

\* containsAny()
ContainsAny(algs, states) == \E a \in DOMAIN algs : algs[a] \in states
=============================================================================
