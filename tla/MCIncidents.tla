---------------------------- MODULE MCIncidents ------------------------------
(* Clients of IncidentSvc: the listeners of IncidentListenerTestAlg, handlers *)
(* that fire, add, remove and throw, and a second thread.                    *)
EXTENDS AsyncIncidents, TLC

Plain(lis, type, prio) == Adding(lis, type, prio, FALSE, FALSE)
OneShot(lis, type, prio) == Adding(lis, type, prio, FALSE, TRUE)

NoCalls == [l \in Listeners |-> {}]

NoEvents ==
  [events |-> 0, fires |-> [a \in Algs |-> <<>>], before |-> [p \in Procs |-> {}], chain |-> <<>>]

\* "a" fires a nested incident; its listeners remove each other or register
\* anew; "b" registers a listener ahead of itself or behind.
Nesting ==
  [initial |-> <<Plain("a", "Begin", 0), Plain("b", "Begin", 1), Plain("c", "End", 0),
                 Plain("d", "End", 0), Plain("e", All, 0)>>,
   outside |-> [t \in Threads |-> IF t = 1 THEN {Firing("Begin"), Firing(All)}
                                  ELSE {Firing("End"), Removing("c", ""), Plain("d", "Begin", 1)}],
   inside  |-> [NoCalls EXCEPT !["a"] = {Firing("End"), Plain("f", All, 1)},
                               !["b"] = {Plain("c", "Begin", 0), Plain("d", "Begin", 2), Removing("c", "End")},
                               !["c"] = {Removing("c", "End"), Removing("d", "End"), OneShot("c", "End", 1)},
                               !["d"] = {Removing("c", "End"), Plain("d", "End", 0)}],
   throws  |-> {}, calls |-> 6, slot |-> NoEvents]

\* Listeners that throw, one of them to the caller, and single-shot ones.
Throwing ==
  [initial |-> <<OneShot("a", "End", 1), Plain("b", "End", 0), Adding("c", "End", 0, TRUE, FALSE),
                 Plain("d", "Begin", 0), OneShot("e", "Begin", -1), OneShot("f", All, 0)>>,
   outside |-> [t \in Threads |-> IF t = 1 THEN {Firing("Begin"), Firing("End")}
                                  ELSE {Firing("Begin"), Removing("b", "End")}],
   inside  |-> [NoCalls EXCEPT !["d"] = {Firing("End")}, !["f"] = {OneShot("a", "End", 0)}],
   throws  |-> {"b", "c"}, calls |-> 6, slot |-> NoEvents]

\* The slot gets two events.  The listeners of "Begin" fire "End" themselves.
\* The last IncidentProcAlg follows the algorithms or not; another thread
\* removes the listeners of "Processing".
Slots(before) ==
  [initial |-> <<Plain("a", "Begin", 0), Plain("b", "Processing", 1), Plain("c", "End", 0)>>,
   outside |-> [t \in Threads |-> IF t = 1 THEN {Removing("b", "Processing")} ELSE {}],
   inside  |-> NoCalls, throws |-> {}, calls |-> 1,
   slot    |-> [events |-> 2, fires |-> [a \in Algs |-> <<"End">>],
                before |-> [p \in Procs |-> IF p = "last" THEN before ELSE {}],
                chain |-> [k \in {"Begin"} |-> <<"End">>]]]

MCClients == {Nesting, Throwing, Slots(Algs), Slots({})}

\* The first listener of a list fires a nested incident or leaves, with the type
\* of the incident that it handles.
NestingClient ==
  {[initial |-> <<Plain("a", "Begin", 0), Plain("b", "Begin", 0), Plain("c", "End", 0)>>,
    outside |-> [t \in Threads |-> {Firing("Begin")}],
    inside  |-> [NoCalls EXCEPT !["a"] = {Firing("End"), Removing("a", "Begin")}],
    throws  |-> {}, calls |-> 3, slot |-> NoEvents]}
=============================================================================
