------------------------------- MODULE MCJobs -------------------------------
(* Small jobs to run the scheduler with: configurations of one or two       *)
(* algorithms, evaluated with the rules of PrecedenceRules.                 *)
EXTENDS Integers, FiniteSets

P == INSTANCE PrecedenceRules
A == INSTANCE PrecedenceAssembly

CONSTANT Job   \* the job: a record [graph, outcomes, instances, requires, rank]

MCIterate(algs, cf, cause) == P!IteratePromotions(Job.graph, algs, cf, cause)
MCCFNodes   == P!Nodes(Job.graph)
MCRoot      == P!RootHub(Job.graph)
MCNumAlgs   == Cardinality(Job.graph.algs)
MCOutcomes  == Job.outcomes
MCInstances == Job.instances
MCRequires  == Job.requires
MCRank      == Job.rank

\* The graph of a job with one sequencer, 10.  It is written out, because TLC
\* would assemble it again at every step.
OneHub(algs, sequential, prompt, modeOr, inputs) ==
  [algs |-> DOMAIN algs, hubs |-> <<0, 10>>,
   children |-> [h \in {0, 10} |-> IF h = 0 THEN <<10>> ELSE algs],
   parents |-> [n \in DOMAIN algs \cup {0, 10} |->
                  IF n = 0 THEN <<>> ELSE IF n = 10 THEN <<0>> ELSE <<10>>],
   sequential |-> IF sequential THEN {10} ELSE {},
   prompt |-> IF prompt THEN {10} ELSE {},
   modeOr |-> IF modeOr THEN {0, 10} ELSE {0}, allPass |-> {0}, inverted |-> {},
   inputs |-> inputs]

\* The data object the first algorithm writes.
FirstsData == [data |-> "d", producers |-> {1}, cond |-> FALSE]

\* It is the graph PrecedenceSvc assembles.
ASSUME JobsAssembled ==
  \A flags \in SUBSET {"Sequential", "ShortCircuit", "ModeOR"} :
    OneHub(<<1, 2>>, "Sequential" \in flags, "ShortCircuit" \in flags, "ModeOR" \in flags,
           <<<<>>, <<FirstsData>>>>)
    = A!Assemble([top |-> <<10>>, members |-> [h \in {10} |-> <<1, 2>>],
                  flags |-> [h \in {10} |-> flags],
                  reads |-> <<<<>>, <<"d">>>>, writes |-> <<<<"d">>, <<>>>>,
                  conds |-> {}, condAlgs |-> {}])

\* Two concurrent algorithms that share a resource; one may fail.
SharedResourceJob ==
  [graph     |-> OneHub(<<1, 2>>, FALSE, FALSE, FALSE, <<<<>>, <<>>>>),
   outcomes  |-> <<{"pass", "fail"}, {"pass"}>>,
   instances |-> <<1, 1>>, requires |-> <<{"r"}, {"r"}>>, rank |-> <<0, 1>>]

\* A prompt sequence: 2 runs only if 1 accepts the event.  2 has the higher
\* rank: it is taken before the 1 of another event.
SequenceJob ==
  [graph     |-> OneHub(<<1, 2>>, TRUE, TRUE, FALSE, <<<<>>, <<FirstsData>>>>),
   outcomes  |-> <<{"pass", "reject", "fail"}, {"pass", "disabled"}>>,
   instances |-> <<1, 1>>, requires |-> <<{}, {}>>, rank |-> <<0, 1>>]

\* One algorithm, which may fail.
SingleJob ==
  [graph     |-> OneHub(<<1>>, FALSE, FALSE, FALSE, <<<<>>>>),
   outcomes  |-> <<{"pass", "fail"}>>,
   instances |-> <<1>>, requires |-> <<{}>>, rank |-> <<0>>]

\* Two CPU-blocking algorithms; one may fail, the other may be disabled.
BlockingJob ==
  [graph     |-> OneHub(<<1, 2>>, FALSE, FALSE, FALSE, <<<<>>, <<>>>>),
   outcomes  |-> <<{"pass", "fail"}, {"pass", "reject", "disabled"}>>,
   instances |-> <<1, 1>>, requires |-> <<{}, {}>>, rank |-> <<0, 1>>]

\* A blocking algorithm beside one that is not.
MixedBlockingJob == [BlockingJob EXCEPT !.outcomes = <<{"pass"}, {"pass"}>>]

\* Two concurrent algorithms under a prompt OR: one acceptance decides.
PromptOrJob ==
  [graph     |-> OneHub(<<1, 2>>, FALSE, TRUE, TRUE, <<<<>>, <<>>>>),
   outcomes  |-> <<{"pass"}, {"fail"}>>,
   instances |-> <<1, 1>>, requires |-> <<{}, {}>>, rank |-> <<0, 0>>]
=============================================================================
