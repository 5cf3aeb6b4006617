--------------------------- MODULE MCPrecedenceSvc ---------------------------
(* Families of small configurations, with every combination of the properties *)
(* of their sequencers.  Data objects are numbers.                            *)
EXTENDS PrecedenceSvc

NoData(n) == [a \in 1 .. n |-> <<>>]

\* All configurations with these members whose properties are among `flags'.
Flagged(top, members, flags, reads, writes) ==
  {[top |-> top, members |-> members, flags |-> f, reads |-> reads, writes |-> writes,
    conds |-> {}, condAlgs |-> {}, verify |-> FALSE] :
     f \in [DOMAIN members -> SUBSET flags]}

NoInvert == {"Sequential", "ShortCircuit", "ModeOR"}

\* A sequencer nested between two algorithms of another one.
Nested(reads, writes) ==
  Flagged(<<5>>, 5 :> <<1, 6, 2>> @@ 6 :> <<3, 4>>, Flag, reads, writes)

\* An algorithm that is a member of two sequencers, in different positions.
SharedAlg(reads, writes) ==
  Flagged(<<4, 5>>, 4 :> <<1, 2>> @@ 5 :> <<3, 1>>, Flag, reads, writes)

\* A sequencer that is a member of two sequencers.
SharedHub ==
  Flagged(<<5, 7>>, 5 :> <<1, 6>> @@ 6 :> <<2, 3>> @@ 7 :> <<4, 6>>, NoInvert,
          NoData(4), NoData(4))

\* An empty sequencer between two algorithms, the first of which comes twice.
EmptyHub ==
  Flagged(<<3>>, 3 :> <<1, 4, 2, 1>> @@ 4 :> <<>>, Flag, NoData(2), NoData(2))

ControlConfigs ==
  Nested(NoData(4), NoData(4)) \cup SharedAlg(NoData(3), NoData(3)) \cup SharedHub \cup EmptyHub

\* Data flowing with and against the control flow: 4 reads what 1 and 2 write,
\* and 2 what 1 and 3 both write, which some of these jobs would not start with
\* if the rules were verified.
DataConfigs ==
  Nested([a \in 1 .. 4 |-> IF a = 4 THEN <<1, 2>> ELSE <<>>],
         [a \in 1 .. 4 |-> IF a = 1 THEN <<1>> ELSE IF a = 2 THEN <<2>> ELSE <<>>])
  \cup
  SharedAlg([a \in 1 .. 3 |-> IF a = 2 THEN <<1, 9>> ELSE <<>>],
            [a \in 1 .. 3 |-> IF a \in {1, 3} THEN <<1>> ELSE <<>>])

\* 1 and 2 need the condition of the detached algorithm 3; 2 needs data of 1
\* before or after it.  3 needs nothing, a condition of 4, or data of 2.
ConditionConfigs ==
  {[c EXCEPT !.conds = {3, 4}, !.condAlgs = {3, 4}, !.verify = TRUE] : c \in
     UNION {Flagged(<<5>>, 5 :> <<1, 3, 2, 4>>, NoInvert,
                    <<<<3>>, second, needs, <<>>>>, <<<<1>>, <<5>>, <<3>>, <<4>>>>) :
              second \in {<<3, 1>>, <<1, 3>>}, needs \in {<<>>, <<4>>, <<5>>}}}

\* Every data flow between three concurrent algorithms, with every order of
\* the outputs.
Orders(S) == UNION {{s \in [1 .. n -> S] : \A i, j \in 1 .. n : s[i] = s[j] => i = j} :
                      n \in 0 .. Cardinality(S)}
Flow(to) ==
  [top |-> <<1, 2, 3>>, members |-> <<>>, flags |-> <<>>,
   reads  |-> [b \in 1 .. 3 |-> LET from == SetToSortSeq({a \in 1 .. 3 : b \in ToSet(to[a])}, <)
                                IN  [i \in DOMAIN from |-> 10 * from[i] + b]],
   writes |-> [a \in 1 .. 3 |-> [i \in DOMAIN to[a] |-> 10 * a + to[a][i]]],
   conds |-> {}, condAlgs |-> {}, verify |-> TRUE]
FlowConfigs == {Flow(to) : to \in [1 .. 3 -> Orders(1 .. 3)]}

\* Several writers of one object, on several levels, as in ModelDFAmbiguity.py:
\* 1 is a member of the outer sequencer, 2 and 3 of the inner one, ...
NestedWriters ==
  {[c EXCEPT !.verify = TRUE] : c \in
     UNION {Flagged(<<4>>, 4 :> <<1, 5>> @@ 5 :> <<2, 3>>,
                    {"Sequential", "ShortCircuit", "IgnoreFilterPassed"}, NoData(3),
                    [a \in 1 .. 3 |-> IF a \in writers THEN <<1>> ELSE <<>>]) :
              writers \in {{1, 2}, {2, 3}, {1, 2, 3}}}}

\* ... or 1 is a member of two sequencers, and 2 reads what it and 3 write.
SharedWriters ==
  {[c EXCEPT !.verify = TRUE] : c \in
     Flagged(<<4, 5>>, 4 :> <<1, 2>> @@ 5 :> <<1, 3>>, {"Sequential", "ShortCircuit"},
             <<<<>>, <<1>>, <<>>>>, <<<<1>>, <<>>, <<1>>>>)}

\* Two top algorithms write what the third reads; two condition algorithms produce
\* one condition; or a condition algorithm writes an object that another one writes.
AmbiguousConfigs ==
  {[Flow(<<<<3>>, <<3>>, <<>>>>) EXCEPT !.writes = w, !.reads[3] = <<7>>, !.verify = v,
                                       !.conds = s[1], !.condAlgs = s[2]] :
     w \in {<<<<7>>, <<7>>, <<>>>>, <<<<7, 8>>, <<8>>, <<>>>>},
     s \in {<<{}, {}>>, <<{7}, {1, 2}>>, <<{7}, {1}>>}, v \in BOOLEAN}
  \cup NestedWriters \cup SharedWriters

MCConfigs ==
  ControlConfigs \cup DataConfigs \cup ConditionConfigs \cup FlowConfigs \cup AmbiguousConfigs
=============================================================================
