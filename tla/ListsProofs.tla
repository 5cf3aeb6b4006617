---------------------------- MODULE ListsProofs ----------------------------
(***************************************************************************)
(* What the operators on lists return, for lists of every length.          *)
(***************************************************************************)
EXTENDS Lists, FiniteSetTheorems, SequenceTheorems, TLAPS

-----------------------------------------------------------------------------
(* Lists in an order.                                                      *)

\* m has the entries of l at the places S, each once.
Rearranges(m, l, S) ==
  \E f \in [DOMAIN m -> S] : /\ \A k \in DOMAIN m : m[k] = l[f[k]]
                             /\ \A j, k \in DOMAIN m : f[j] = f[k] => j = k
                             /\ \A i \in S : \E k \in DOMAIN m : f[k] = i

\* And in their order.
KeepsOrder(m, l, S) ==
  \E f \in [DOMAIN m -> S] : /\ \A k \in DOMAIN m : m[k] = l[f[k]]
                             /\ \A j, k \in DOMAIN m : j < k => f[j] < f[k]
                             /\ \A i \in S : \E k \in DOMAIN m : f[k] = i

\* Places that are arranged by a strict total order are all there, once.
LEMMA ArrangedPlaces ==
  ASSUME NEW l, NEW S, IsFiniteSet(S), NEW before \in [S -> SUBSET S],
         \A i \in S : i \notin before[i],
         \A i, j \in S : i # j => i \in before[j] \/ j \in before[i],
         \A i, j \in S : j \in before[i] => before[j] \subseteq before[i]
  PROVE  /\ Cardinality(S) \in Nat /\ Rearranges(Arranged(l, S, before), l, S)
         /\ DOMAIN Arranged(l, S, before) = 1..Cardinality(S)
         /\ S \subseteq Nat /\ (\A i, j \in S : j \in before[i] => j < i) =>
              KeepsOrder(Arranged(l, S, before), l, S)
<1> DEFINE n == Cardinality(S)
           r == [i \in S |-> Cardinality(before[i]) + 1]
           f == [k \in 1..n |-> CHOOSE i \in S : Cardinality(before[i]) = k - 1]
<1>1. n \in Nat /\ IsFiniteSet(1..n) /\ Cardinality(1..n) = n
  BY FS_CardinalityType, FS_Interval
<1>2. \A i \in S : IsFiniteSet(before[i]) /\ Cardinality(before[i]) \in Nat
  BY FS_Subset, FS_CardinalityType
<1>3. \A i \in S : Cardinality(before[i]) < n
  <2> SUFFICES ASSUME NEW i \in S PROVE Cardinality(before[i]) < n
    OBVIOUS
  <2>1. before[i] \in SUBSET S /\ before[i] # S
    OBVIOUS
  <2>2. Cardinality(before[i]) <= n /\ (n = Cardinality(before[i]) => S = before[i])
    BY <2>1, FS_Subset
  <2> QED
    BY <1>1, <1>2, <2>1, <2>2
<1>4. \A i, j \in S : j \in before[i] => Cardinality(before[j]) < Cardinality(before[i])
  <2> SUFFICES ASSUME NEW i \in S, NEW j \in S, j \in before[i]
               PROVE  Cardinality(before[j]) < Cardinality(before[i])
    OBVIOUS
  <2>1. before[j] \in SUBSET before[i] /\ before[j] # before[i]
    OBVIOUS
  <2>2. /\ Cardinality(before[j]) <= Cardinality(before[i])
        /\ Cardinality(before[i]) = Cardinality(before[j]) => before[i] = before[j]
    BY <1>2, <2>1, FS_Subset
  <2> QED
    BY <1>2, <2>1, <2>2
<1>5. r \in [S -> 1..n]
  BY <1>1, <1>2, <1>3
<1>6. r \in Injection(S, 1..n)
  <2> SUFFICES ASSUME NEW i \in S, NEW j \in S, i # j PROVE r[i] # r[j]
    BY <1>5 DEF Injection, IsInjective
  <2>1. Cardinality(before[i]) # Cardinality(before[j])
    BY <1>2, <1>4
  <2> QED
    BY <1>2, <2>1
<1>7. r \in Surjection(S, 1..n)
  BY <1>1, <1>6, FS_Injection
<1>8. \A k \in 1..n : \E i \in S : Cardinality(before[i]) = k - 1
  <2> SUFFICES ASSUME NEW k \in 1..n PROVE \E i \in S : Cardinality(before[i]) = k - 1
    OBVIOUS
  <2>1. PICK i \in S : r[i] = k
    BY <1>7 DEF Surjection
  <2>2. Cardinality(before[i]) = k - 1
    BY <1>1, <1>2, <2>1
  <2> QED
    BY <2>2
<1>9. \A k \in 1..n : f[k] \in S /\ Cardinality(before[f[k]]) = k - 1
  BY <1>8
<1> QED
  <2>1. f \in [1..n -> S]
    BY <1>9
  <2>2. \A k \in 1..n : Arranged(l, S, before)[k] = l[f[k]]
    BY DEF Arranged
  <2>3. \A j, k \in 1..n : f[j] = f[k] => j = k
    <3> HIDE DEF f
    <3> QED
      BY <1>1, <1>9
  <2>4. \A i \in S : \E k \in 1..n : f[k] = i
    <3> HIDE DEF f
    <3> SUFFICES ASSUME NEW i \in S PROVE \E k \in 1..n : f[k] = i
      OBVIOUS
    <3> DEFINE k == Cardinality(before[i]) + 1
    <3>1. k \in 1..n /\ k - 1 = Cardinality(before[i])
      BY <1>1, <1>2, <1>3
    <3>2. Cardinality(before[f[k]]) = Cardinality(before[i]) /\ f[k] \in S
      BY <1>9, <3>1
    <3>3. f[k] = i
      BY <1>2, <1>4, <3>2
    <3> QED
      BY <3>1, <3>3
  <2>5. DOMAIN Arranged(l, S, before) = 1..n
    BY DEF Arranged
  <2>6. Rearranges(Arranged(l, S, before), l, S)
    <3> DEFINE m == Arranged(l, S, before)
    <3> HIDE DEF f, n, m
    <3>1. DOMAIN m = 1..n /\ f \in [DOMAIN m -> S]
      BY <2>1, <2>5 DEF m
    <3>2. \A k \in DOMAIN m : m[k] = l[f[k]]
      BY <2>2, <3>1 DEF m
    <3>3. /\ \A j, k \in DOMAIN m : f[j] = f[k] => j = k
          /\ \A i \in S : \E k \in DOMAIN m : f[k] = i
      BY <2>3, <2>4, <3>1
    <3>4. Rearranges(m, l, S)
      BY <3>1, <3>2, <3>3, Zenon DEF Rearranges
    <3> QED
      BY <3>4 DEF m
  <2>7. ASSUME S \subseteq Nat, \A i, j \in S : j \in before[i] => j < i
        PROVE  KeepsOrder(Arranged(l, S, before), l, S)
    <3> DEFINE m == Arranged(l, S, before)
    <3> HIDE DEF f, n, m
    <3>1. DOMAIN m = 1..n /\ f \in [DOMAIN m -> S]
      BY <2>1, <2>5 DEF m
    <3>2. \A k \in DOMAIN m : m[k] = l[f[k]]
      BY <2>2, <3>1 DEF m
    <3>3. ASSUME NEW j \in DOMAIN m, NEW k \in DOMAIN m, j < k PROVE f[j] < f[k]
      <4>1. f[j] \in S /\ f[k] \in S /\ j \in 1..n /\ k \in 1..n
        BY <3>1
      <4>2. Cardinality(before[f[j]]) = j - 1 /\ Cardinality(before[f[k]]) = k - 1
        BY <1>9, <4>1
      <4>3. f[j] # f[k] /\ f[k] \notin before[f[j]]
        BY <1>1, <1>4, <3>3, <4>1, <4>2
      <4>4. f[j] \in before[f[k]]
        BY <4>1, <4>3
      <4> QED
        BY <2>7, <4>1, <4>4
    <3>4. \A i \in S : \E k \in DOMAIN m : f[k] = i
      BY <2>4, <3>1
    <3>5. KeepsOrder(m, l, S)
      BY <3>1, <3>2, <3>3, <3>4, Zenon DEF KeepsOrder
    <3> QED
      BY <3>5 DEF m
  <2> QED
    BY <1>1, <2>5, <2>6, <2>7

\* The domain of a list is finite.
LEMMA DomainFinite ==
  ASSUME NEW T, NEW l \in Seq(T), NEW S \in SUBSET DOMAIN l
  PROVE  IsFiniteSet(S) /\ IsFiniteSet(DOMAIN l) /\ DOMAIN l \subseteq Nat \ {0}
<1>1. Len(l) \in Nat /\ DOMAIN l = 1..Len(l)
  OBVIOUS
<1>2. IsFiniteSet(DOMAIN l)
  BY <1>1, FS_Interval
<1> QED
  BY <1>1, <1>2, FS_Subset

\* A function on 1..n is a list.
LEMMA FunctionIsSeq == ASSUME NEW T, NEW n \in Nat, NEW m \in [1..n -> T] PROVE m \in Seq(T)
<1>1. Seq(T) = UNION {[1..k -> T] : k \in Nat}
  BY SeqDef
<1> QED
  BY <1>1, Zenon

\* An arranged list is a sequence of the entries.
LEMMA ArrangedList ==
  ASSUME NEW T, NEW l \in Seq(T), NEW S \in SUBSET DOMAIN l, NEW before \in [S -> SUBSET S],
         \A i \in S : i \notin before[i],
         \A i, j \in S : i # j => i \in before[j] \/ j \in before[i],
         \A i, j \in S : j \in before[i] => before[j] \subseteq before[i]
  PROVE  Arranged(l, S, before) \in Seq(T) /\ Rearranges(Arranged(l, S, before), l, S)
<1> DEFINE m == Arranged(l, S, before)
           n == Cardinality(S)
<1>0. IsFiniteSet(S)
  BY DomainFinite
<1>1. n \in Nat /\ Rearranges(m, l, S) /\ DOMAIN m = 1..n
  BY <1>0, ArrangedPlaces
<1>2. m = [k \in 1..n |-> m[k]]
  BY DEF Arranged
<1> HIDE DEF m, n
<1>3. \A k \in 1..n : m[k] \in T
  <2>1. PICK f \in [DOMAIN m -> S] : \A k \in DOMAIN m : m[k] = l[f[k]]
    BY <1>1, Zenon DEF Rearranges
  <2>2. \A k \in 1..n : f[k] \in DOMAIN l /\ m[k] = l[f[k]]
    BY <1>1, <2>1
  <2>3. \A i \in DOMAIN l : l[i] \in T
    OBVIOUS
  <2> QED
    BY <2>2, <2>3
<1>4. m \in [1..n -> T]
  BY <1>2, <1>3, Zenon
<1>5. m \in Seq(T)
  BY <1>1, <1>4, FunctionIsSeq
<1> QED
  BY <1>1, <1>5 DEF m

\* So is a selection, and it keeps the order.
LEMMA SelectedList ==
  ASSUME NEW T, NEW l \in Seq(T), NEW S \in SUBSET DOMAIN l
  PROVE  /\ Selected(l, S) \in Seq(T) /\ Rearranges(Selected(l, S), l, S)
         /\ KeepsOrder(Selected(l, S), l, S)
<1> DEFINE before == [i \in S |-> {j \in S : j < i}]
<1>1. S \subseteq Nat
  BY DomainFinite
<1>2. /\ before \in [S -> SUBSET S]
      /\ \A i \in S : i \notin before[i]
      /\ \A i, j \in S : i # j => i \in before[j] \/ j \in before[i]
      /\ \A i, j \in S : j \in before[i] => before[j] \subseteq before[i]
  BY <1>1
<1> HIDE DEF before
<1>3. Arranged(l, S, before) \in Seq(T) /\ Rearranges(Arranged(l, S, before), l, S)
  BY <1>2, ArrangedList
<1>4. IsFiniteSet(S) /\ \A i, j \in S : j \in before[i] => j < i
  BY DomainFinite DEF before
<1>5. KeepsOrder(Arranged(l, S, before), l, S)
  BY <1>1, <1>2, <1>4, ArrangedPlaces
<1> QED
  BY <1>3, <1>5 DEF Selected, before
=============================================================================
