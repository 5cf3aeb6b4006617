---------------------------- MODULE MCEventViews ----------------------------
(* Jobs with views: the control flows of the options BasicViewTest,           *)
(* ViewIsolationTest, CFinViewTest and SubSlotVsSlotIsolation, a condition    *)
(* that is needed in views, and a view node that is not sequenced.            *)
EXTENDS EventViews

NoData(n) == [a \in 1 .. n |-> <<>>]

Outcomes(n, may) == [a \in 1 .. n |-> {"EVTACCEPTED"} \cup IF a \in DOMAIN may THEN may[a] ELSE {}]
Reject == {"EVTREJECTED"}
Fail   == {"EVTREJECTED", "ERROR"}

\* n algorithms with k instances each, below the sequence 20.
Job(n, k, members, flags, reads, writes, makers, may) ==
  [config |-> [top |-> <<20>>, members |-> members, flags |-> flags, reads |-> reads,
               writes |-> writes, conds |-> {}, condAlgs |-> {}, verify |-> TRUE],
   makers |-> makers, instances |-> [a \in 1 .. n |-> k], outcomes |-> Outcomes(n, may)]

Views(node, number) == [node |-> node, number |-> number]

Sequence == {"Sequential", "ShortCircuit"}

\* 1 makes the views of node 10, 4 follows.
Basic(flags, top, number, k, may) ==
  Job(4, k, 20 :> <<1, 10, 4>> @@ 10 :> <<2, 3>>, 20 :> top @@ 10 :> flags,
      NoData(4), NoData(4), 1 :> Views(10, number), may)

BasicJobs ==
  {Basic(flags, Sequence, number, 2, 2 :> Reject @@ 3 :> Reject) :
     flags \in SUBSET {"Sequential", "ShortCircuit", "ModeOR"}, number \in 0 .. 2}
  \cup {Basic(flags, {"Sequential"}, 2, 1, 2 :> Reject @@ 3 :> Fail) :
          flags \in {{}, {"Invert"}, {"IgnoreFilterPassed", "ShortCircuit"}, Sequence}}

\* The node is entered before its views exist: its members run at the
\* whole-event level first.
UnsequencedJobs == {Basic({}, {}, 1, 2, 2 :> Reject)}

\* The same hub, 12, in the views of two nodes, one after the other.
TwiceJobs ==
  {Job(5, k, 20 :> <<1, 10, 4, 11, 5>> @@ 10 :> <<12>> @@ 11 :> <<12>> @@ 12 :> <<2, 3>>,
       20 :> {"Sequential"} @@ 10 :> {} @@ 11 :> flags @@ 12 :> Sequence,
       NoData(5), NoData(5), 1 :> Views(10, 2) @@ 4 :> Views(11, 1), 2 :> Reject) :
     k \in 1 .. 2, flags \in {{}, {"ShortCircuit", "ModeOR"}}}

\* A sequencer inside the views, an algorithm beside it.
NestedJobs ==
  {Job(5, 1, 20 :> <<1, 10, 5>> @@ 10 :> <<2, 12>> @@ 12 :> <<3, 4>>,
       20 :> Sequence @@ 10 :> flags @@ 12 :> Sequence,
       NoData(5), NoData(5), 1 :> Views(10, 2), 3 :> Reject) :
     flags \in {{}, {"Sequential"}, {"ShortCircuit"}}}

\* 3 reads what 2 writes in the same view, or what 1 writes in the event.
DataJobs ==
  {Job(4, 2, 20 :> <<1, 10, 4>> @@ 10 :> <<3, 2>>, 20 :> {"Sequential"} @@ 10 :> {},
       <<<<>>, <<>>, <<input>>, <<2>>>>, <<<<1>>, <<2>>, <<>>, <<>>>>, 1 :> Views(10, 2),
       2 :> Fail) : input \in 1 .. 2}

\* 2 needs the condition of the detached algorithm 3.
ConditionJobs ==
  {[j EXCEPT !.config.conds = {7}, !.config.condAlgs = {3}] : j \in
     {Job(4, 2, 20 :> <<1, 10, 3, 4>> @@ 10 :> <<2>>, 20 :> {"Sequential"} @@ 10 :> {},
          <<<<>>, <<7>>, <<>>, second>>, <<<<>>, <<>>, <<7>>, <<>>>>, 1 :> Views(10, 2),
          3 :> Fail) : second \in {<<>>, <<7>>}}}

MCViewJobs ==
  BasicJobs \cup UnsequencedJobs \cup TwiceJobs \cup NestedJobs \cup DataJobs \cup ConditionJobs
=============================================================================
