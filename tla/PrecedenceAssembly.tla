------------------------- MODULE PrecedenceAssembly -------------------------
(***************************************************************************)
(* How the configuration of a job becomes the precedence graph:            *)
(* PrecedenceSvc::initialize unrolls the top algorithms recursively        *)
(* (assembleCFRules), and PrecedenceRulesGraph::buildDataDependenciesRealm *)
(* adds the data flow.                                                     *)
(*                                                                         *)
(* A configuration is a record                                             *)
(*   top       the sequence of top algorithms                              *)
(*   members   GaudiSequencer |-> its sequence of subAlgorithms            *)
(*   flags     GaudiSequencer |-> its properties that are True             *)
(*   reads, writes  algorithm |-> the sequence of its input and of its     *)
(*             output data objects                                         *)
(*   conds     the data objects registered with the CondSvc as conditions  *)
(*   condAlgs  the algorithms the CondSvc knows to produce them            *)
(*   verify    the property VerifyRules                                    *)
(* Names are numbers; the same name may be met in several places.  The     *)
(* graph is the record described in PrecedenceRules.                       *)
(***************************************************************************)
EXTENDS Sequences, FiniteSets, SequencesExt

Flag == {"Sequential", "ShortCircuit", "ModeOR", "IgnoreFilterPassed", "Invert"}

RootName == 0   \* "RootDecisionHub"

\* addHeadNode: concurrent, not prompt, OR, all pass.
HeadOnly ==
  [algs |-> {}, hubs |-> <<RootName>>,
   children |-> RootName :> <<>>, parents |-> RootName :> <<>>,
   sequential |-> {}, prompt |-> {}, modeOr |-> {RootName}, allPass |-> {RootName},
   inverted |-> {}, inputs |-> <<>>]

\* addDaughterNode, addParentNode: an edge that is there is not added again.
AddOnce(s, n) == IF n \in ToSet(s) THEN s ELSE Append(s, n)

Attach(g, n, parent) ==
  [g EXCEPT !.children[parent] = AddOnce(@, n), !.parents[n] = AddOnce(@, parent)]

\* addAlgorithmNode: create the node, or fetch the existing one, and attach it.
AddAlgorithmNode(g, a, parent) ==
  Attach(IF a \in g.algs THEN g
         ELSE [g EXCEPT !.algs = @ \cup {a}, !.parents = (a :> <<>>) @@ @], a, parent)

If(b, S) == IF b THEN S ELSE {}

\* Mutant: the filters are not looked at.
PromptDecisionAlways(flags) == "ShortCircuit" \in flags

\* "standard GaudiSequencer behavior on all pass is to execute everything"
PromptDecision(flags) == "ShortCircuit" \in flags /\ "IgnoreFilterPassed" \notin flags

\* addDecisionHubNode with the flags assembleCFRules derives from the properties.
AddDecisionHubNode(g, h, parent, flags) ==
  LET new == [g EXCEPT
        !.hubs = Append(@, h),
        !.children = (h :> <<>>) @@ @, !.parents = (h :> <<>>) @@ @,
        !.sequential = @ \cup If("Sequential" \in flags, {h}),
        !.prompt = @ \cup If(PromptDecision(flags), {h}),
        !.modeOr = @ \cup If("ModeOR" \in flags, {h}),
        !.allPass = @ \cup If("IgnoreFilterPassed" \in flags, {h}),
        !.inverted = @ \cup If("Invert" \in flags, {h})]
  IN  Attach(IF h \in DOMAIN g.children THEN g ELSE new, h, parent)

RECURSIVE AssembleCFRules(_, _, _, _)
AssembleCFRules(c, n, parent, g) ==
  IF n \notin DOMAIN c.members THEN AddAlgorithmNode(g, n, parent)
  ELSE FoldLeft(LAMBDA acc, m : AssembleCFRules(c, m, n, acc),
                AddDecisionHubNode(g, n, parent, c.flags[n]), c.members[n])

\* "Detach condition algorithms from the CF realm"
DetachConditions(g, c) ==
  [g EXCEPT !.children = [h \in DOMAIN @ |-> SelectSeq(@[h], LAMBDA n : n \notin c.condAlgs)],
            !.parents  = [n \in DOMAIN @ |-> IF n \in c.condAlgs THEN <<>> ELSE @[n]]]

\* buildDataDependenciesRealm: an input has a node if somebody writes it,
\* a ConditionNode if the CondSvc has it registered.
Producers(g, c, d) == {a \in g.algs : d \in ToSet(c.writes[a])}

DataNode(g, c, d) == [data |-> d, producers |-> Producers(g, c, d), cond |-> d \in c.conds]

BuildDataDependenciesRealm(g, c) ==
  [g EXCEPT !.inputs = [a \in g.algs |->
     LET produced == SelectSeq(c.reads[a], LAMBDA d : Producers(g, c, d) # {})
     IN  [i \in DOMAIN produced |-> DataNode(g, c, produced[i])]]]

Assemble(c) ==
  BuildDataDependenciesRealm(
    DetachConditions(
      FoldLeft(LAMBDA acc, n : AssembleCFRules(c, n, RootName, acc), HeadOnly, c.top), c), c)
=============================================================================
