-------------------------------- MODULE Lists --------------------------------
(***************************************************************************)
(* std::list as the sequence of its values: what erase, remove_if and sort *)
(* leave of them, and not which nodes of the list they then stand in (for  *)
(* that see EraseTail of IncidentSvc).                                     *)
(***************************************************************************)
EXTENDS Integers, FiniteSets

\* The places S of l in an order, which gives each place those before it.
Arranged(l, S, before) ==
  [k \in 1..Cardinality(S) |-> l[CHOOSE i \in S : Cardinality(before[i]) = k - 1]]

\* The entries of l at the places S.
Selected(l, S) == Arranged(l, S, [i \in S |-> {j \in S : j < i}])
=============================================================================
