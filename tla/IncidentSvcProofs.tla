------------------------- MODULE IncidentSvcProofs --------------------------
(***************************************************************************)
(* What fireIncident does for every number of threads and listeners, and   *)
(* whatever the handlers call: add, remove, fire and throw, to any depth.  *)
(*                                                                         *)
(* CalledOnceInOrder holds for every client.  The invariant (ServedInv)    *)
(* says that the lists are sorted by priority and age, that who was called *)
(* is where it was called, and that the node a loop is at holds nobody who *)
(* is before the listener called last: erase() moves values forward, so    *)
(* what the node holds then, if it is still there, comes from behind it.   *)
(*                                                                         *)
(* The other properties hold of clients that keep to rules (NotNested,     *)
(* RemovalsSafe) which the code takes for granted: see IncidentSkipped.cfg *)
(* for a client that does not.  The invariants add                         *)
(* that the loops of all levels belong to one thread (LockInv), that the   *)
(* node a loop is at still holds the listener called last, and everybody   *)
(* due up to there was called (LoopsServed), and that the loop which called*)
(* a flagged listener last is still there to erase it (SilentInv).         *)
(***************************************************************************)
EXTENDS AsyncIncidents, ListsProofs

-----------------------------------------------------------------------------
(* The invariant of the listeners and of the calls of fireIncident.        *)

\* The values of the variables: entries of the lists and of the history, calls.
Entries == [id : Nat, lis : Listeners, prio : Int, rethrow : BOOLEAN, single : BOOLEAN,
            once : BOOLEAN, calls : Nat, gone : Int]
Calleds == [id : Nat, prio : Int, pass : {1, 2}]
FrameSet == [inc : IncidentTypes, pass : {1, 2}, at : Int, lis : Listeners \cup {Null}, shot : BOOLEAN,
             in : {"enter", "handle", "throw"}, due : SUBSET Nat, seen : Seq(Calleds)]

\* Type correctness.
SyncType ==
  /\ client \in Clients /\ nextId \in Nat \ {0}
  /\ listeners \in [IncidentTypes -> Seq(Entries)]
  /\ nodes \in [IncidentTypes -> Seq(Nat)]
  /\ stack \in [Threads -> Seq(FrameSet)]

\* m is called before n.
Precedes(m, n) == m.prio > n.prio \/ (m.prio = n.prio /\ m.id < n.id)

\* A list by priority and age.
Sorted(l) == \A i, j \in DOMAIN l : i < j => Precedes(l[i], l[j])

\* A std::list has a node for each of its values, and each once.
NodesInOrder ==
  \A k \in IncidentTypes :
    /\ Len(nodes[k]) = Len(listeners[k])
    /\ \A i \in DOMAIN nodes[k] : nodes[k][i] < nextId
    /\ \A i, j \in DOMAIN nodes[k] : nodes[k][i] = nodes[k][j] => i = j

\* Lists are sorted, and an entry is in one place.
ListsInOrder ==
  /\ NodesInOrder
  /\ \A k \in IncidentTypes : Sorted(listeners[k]) /\ \A i \in DOMAIN listeners[k] : listeners[k][i].id < nextId
  /\ \A k, m \in IncidentTypes : \A i \in DOMAIN listeners[k], j \in DOMAIN listeners[m] :
       listeners[k][i].id = listeners[m][j].id => k = m /\ i = j

\* The list that was looped over when f called.
Home(f, c) == IF c.pass = 1 THEN f.inc ELSE All

\* Who was called still is where it was called, if it is anywhere.
SeenWhere(f) ==
  \A i \in DOMAIN f.seen :
    /\ f.seen[i].id < nextId /\ f.seen[i].pass <= f.pass
    /\ \A k \in IncidentTypes : \A j \in DOMAIN listeners[k] :
         listeners[k][j].id = f.seen[i].id =>
           k = Home(f, f.seen[i]) /\ listeners[k][j].prio = f.seen[i].prio

\* What CalledOnceInOrder says of one call.
SeenInOrder(seen) ==
  \A i, j \in DOMAIN seen : i < j =>
    seen[i].id # seen[j].id /\ (seen[i].pass = seen[j].pass => Precedes(seen[i], seen[j]))

\* f has called the listener.
SeenId(f, id) == \E i \in DOMAIN f.seen : f.seen[i].id = id

\* The node the loop is at holds nobody who is before the listener called last.
AtOrBehind(f) ==
  \A i \in DOMAIN nodes[ListOf(f)] :
    nodes[ListOf(f)][i] = f.at => ~Precedes(listeners[ListOf(f)][i], f.seen[Len(f.seen)])

\* What holds of each call of fireIncident, and in a loop.
FrameInv(f) ==
  /\ f.pass = 2 => f.inc # All
  /\ \A d \in f.due : d < nextId
  /\ SeenWhere(f) /\ SeenInOrder(f.seen)
  /\ ~Looping(f) => \A i \in DOMAIN f.seen : f.seen[i].pass < f.pass
  /\ Looping(f) => /\ f.lis \in Listeners /\ f.at < nextId
                   /\ Len(f.seen) > 0 /\ f.seen[Len(f.seen)].pass = f.pass
                   /\ AtOrBehind(f)

FramesInOrder == \A t \in Threads : \A i \in DOMAIN stack[t] : FrameInv(stack[t][i])

\* The invariant of the lists.
ServedInv == SyncType /\ ListsInOrder /\ FramesInOrder

\* A call that is not the innermost is in its loop, one thread at most is in
\* loops, the calls are those that were spent, and the pointer points into an
\* incident that is being fired: the invariant of the mutex.
Nested == \A t \in Threads : \A i \in DOMAIN stack[t] : i < Len(stack[t]) => Looping(stack[t][i])
OneLooper == \A t, u \in Threads : HasLock(t) /\ HasLock(u) => t = u
CallsBounded ==
  left \in Nat /\ left <= client.calls /\ \A t \in Threads : Len(stack[t]) <= client.calls - left
CurrentLives ==
  \/ current \in {Null, Freed}
  \/ \E t \in Threads : \E i \in DOMAIN stack[t] : Looping(stack[t][i]) /\ stack[t][i].inc = current

LockInv == Nested /\ OneLooper /\ CallsBounded /\ CurrentLives

-----------------------------------------------------------------------------
(* Lists, and the nodes that hold them.                                    *)

\* One entry, before and after a step.
SameKey(m, n) == m.id = n.id /\ m.prio = n.prio

\* The entries of m are entries of l, in their order.
From(m, l) ==
  \E f \in [DOMAIN m -> DOMAIN l] : /\ \A k \in DOMAIN m : SameKey(m[k], l[f[k]])
                                    /\ \A j, k \in DOMAIN m : j < k => f[j] < f[k]

\* Two lists of the same length.
LEMMA FromPlaces ==
  ASSUME NEW m, NEW l, DOMAIN m = DOMAIN l, \A k \in DOMAIN l : SameKey(m[k], l[k])
  PROVE  From(m, l)
<1> DEFINE f == [k \in DOMAIN m |-> k]
<1>1. f \in [DOMAIN m -> DOMAIN l] /\ \A k \in DOMAIN m : f[k] = k
  OBVIOUS
<1> HIDE DEF f
<1>2. \A k \in DOMAIN m : SameKey(m[k], l[f[k]])
  BY <1>1
<1>3. \A j, k \in DOMAIN m : j < k => f[j] < f[k]
  BY <1>1
<1> QED
  BY <1>1, <1>2, <1>3, Zenon DEF From

\* A selection.
LEMMA FromSelected ==
  ASSUME NEW l \in Seq(Entries), NEW S \in SUBSET DOMAIN l
  PROVE  /\ Selected(l, S) \in Seq(Entries) /\ From(Selected(l, S), l)
         /\ \A k \in DOMAIN Selected(l, S) : \E i \in S : Selected(l, S)[k] = l[i]
<1> DEFINE m == Selected(l, S)
<1>1. m \in Seq(Entries) /\ KeepsOrder(m, l, S)
  BY SelectedList
<1> HIDE DEF m
<1>2. PICK f \in [DOMAIN m -> S] : /\ \A k \in DOMAIN m : m[k] = l[f[k]]
                                   /\ \A j, k \in DOMAIN m : j < k => f[j] < f[k]
  BY <1>1, Zenon DEF KeepsOrder
<1>3. \A k \in DOMAIN m : f[k] \in S
  BY <1>2
<1>4. f \in [DOMAIN m -> DOMAIN l]
  BY <1>2
<1>5. \A k \in DOMAIN m : SameKey(m[k], l[f[k]])
  BY <1>2 DEF SameKey
<1>6. From(m, l)
  BY <1>2, <1>4, <1>5, Zenon DEF From
<1>7. \A k \in DOMAIN m : \E i \in S : m[k] = l[i]
  BY <1>2, <1>3
<1> QED
  BY <1>1, <1>6, <1>7 DEF m

\* What a call, and a removal during a loop, change of an entry.
LEMMA HitEntry ==
  ASSUME NEW n \in Entries
  PROVE  /\ Hit(n) \in Entries /\ SameKey(Hit(n), n)
         /\ Hit(n).calls = n.calls + 1 /\ Hit(n).gone = (IF n.gone = -1 THEN -1 ELSE n.gone + 1)
         /\ Hit(n).single = n.single /\ Hit(n).once = n.once
<1> DEFINE calls == n.calls + 1
           gone  == IF n.gone = -1 THEN -1 ELSE n.gone + 1
<1>1. calls \in Nat /\ gone \in Int
  BY DEF Entries
<1>2. Hit(n) = [n EXCEPT !.calls = calls, !.gone = gone]
  BY DEF Hit
<1> HIDE DEF calls, gone
<1> QED
  BY <1>1, <1>2 DEF Entries, SameKey, calls, gone

\* An entry that is flagged by removeListener.
LEMMA FlaggedEntry ==
  ASSUME NEW n \in Entries
  PROVE  /\ Flagged(n) \in Entries /\ SameKey(Flagged(n), n)
         /\ Flagged(n).single = TRUE /\ Flagged(n).gone = 0
         /\ Flagged(n).calls = n.calls /\ Flagged(n).once = n.once
<1>1. /\ Flagged(n).id = n.id /\ Flagged(n).prio = n.prio /\ Flagged(n).gone = 0
      /\ Flagged(n).calls = n.calls
  BY DEF Flagged, Entries
<1>2. Flagged(n).single = TRUE /\ Flagged(n).once = n.once
  BY Zenon DEF Flagged, Entries
<1>3. Flagged(n) \in Entries
  <2> DEFINE m == [n EXCEPT !.single = TRUE]
  <2>1. m \in Entries
    BY DEF Entries
  <2>2. Flagged(n) = [m EXCEPT !.gone = 0]
    BY DEF Flagged
  <2> HIDE DEF m
  <2> QED
    BY <2>1, <2>2 DEF Entries
<1> QED
  BY <1>1, <1>2, <1>3, Zenon DEF SameKey

\* handle() of one listener is called.
LEMMA CalledList ==
  ASSUME NEW l \in Seq(Entries), NEW i \in DOMAIN l
  PROVE  /\ Called(l, i) \in Seq(Entries) /\ DOMAIN Called(l, i) = DOMAIN l /\ Len(Called(l, i)) = Len(l)
         /\ Called(l, i)[i] = Hit(l[i]) /\ \A j \in DOMAIN l : j # i => Called(l, i)[j] = l[j]
         /\ From(Called(l, i), l)
<1> DEFINE m == Called(l, i)
<1>0. l[i] \in Entries /\ \A j \in DOMAIN l : l[j] \in Entries
  OBVIOUS
<1>1. Hit(l[i]) \in Entries /\ SameKey(Hit(l[i]), l[i])
  BY <1>0, HitEntry
<1>2. m = [l EXCEPT ![i] = Hit(l[i])]
  BY DEF Called
<1> HIDE DEF m
<1>3. m \in Seq(Entries) /\ DOMAIN m = DOMAIN l /\ Len(m) = Len(l) /\ m[i] = Hit(l[i]) /\ \A j \in DOMAIN l : j # i => m[j] = l[j]
  BY <1>1, <1>2
<1>4. \A k \in DOMAIN l : SameKey(m[k], l[k])
  BY <1>1, <1>3 DEF SameKey
<1>5. From(m, l)
  BY <1>3, <1>4, FromPlaces
<1> QED
  BY <1>3, <1>5 DEF m

\* Nothing but entries of l.
OnlyOf(m, l) == \A k \in DOMAIN m : \E i \in DOMAIN l : m[k] = l[i]

\* removeListenerFromList.
LEMMA RemovedList ==
  ASSUME NEW l \in Seq(Entries), NEW lis, NEW schedule \in BOOLEAN
  PROVE  /\ RemoveFromList(l, lis, schedule) \in Seq(Entries)
         /\ From(RemoveFromList(l, lis, schedule), l)
         /\ schedule => /\ DOMAIN RemoveFromList(l, lis, schedule) = DOMAIN l
                        /\ \A i \in DOMAIN l : RemoveFromList(l, lis, schedule)[i] \in {l[i], Flagged(l[i])}
         /\ ~schedule => OnlyOf(RemoveFromList(l, lis, schedule), l)
<1>1. CASE schedule
  <2> DEFINE m == [i \in DOMAIN l |-> IF l[i].lis = lis THEN Flagged(l[i]) ELSE l[i]]
  <2>0. \A i \in DOMAIN l : l[i] \in Entries
    OBVIOUS
  <2>1. \A i \in DOMAIN l : l[i] \in Entries /\ Flagged(l[i]) \in Entries /\ SameKey(Flagged(l[i]), l[i])
    BY <2>0, FlaggedEntry, Zenon
  <2>2. DOMAIN m = DOMAIN l /\ \A i \in DOMAIN l : m[i] \in {l[i], Flagged(l[i])}
    OBVIOUS
  <2>3. m \in [1..Len(l) -> Entries] /\ Len(l) \in Nat
    BY <2>1
  <2> HIDE DEF m
  <2>4. m \in Seq(Entries)
    BY <2>3, FunctionIsSeq
  <2>5. \A k \in DOMAIN l : SameKey(m[k], l[k])
    BY <2>1, <2>2 DEF SameKey
  <2>6. From(m, l)
    BY <2>2, <2>5, FromPlaces
  <2>7. RemoveFromList(l, lis, schedule) = m
    BY <1>1 DEF RemoveFromList, m
  <2> QED
    BY <1>1, <2>2, <2>4, <2>6, <2>7, Zenon
<1>2. CASE ~schedule
  <2> DEFINE S == {i \in DOMAIN l : l[i].lis # lis}
  <2>1. S \in SUBSET DOMAIN l /\ RemoveFromList(l, lis, schedule) = Selected(l, S)
    BY <1>2 DEF RemoveFromList
  <2> HIDE DEF S
  <2>2. /\ Selected(l, S) \in Seq(Entries) /\ From(Selected(l, S), l)
        /\ \A k \in DOMAIN Selected(l, S) : \E i \in S : Selected(l, S)[k] = l[i]
    BY <2>1, FromSelected
  <2> QED
    BY <1>2, <2>1, <2>2 DEF OnlyOf
<1> QED
  BY <1>1, <1>2

\* Something put behind the k-th.
LEMMA InsertedAt ==
  ASSUME NEW T, NEW l \in Seq(T), NEW x \in T, NEW k \in 0..Len(l)
  PROVE  /\ InsertAt(l, k + 1, x) \in Seq(T) /\ Len(InsertAt(l, k + 1, x)) = Len(l) + 1
         /\ \A i \in 1..Len(l) + 1 :
              InsertAt(l, k + 1, x)[i] = IF i <= k THEN l[i] ELSE IF i = k + 1 THEN x ELSE l[i - 1]
<1> DEFINE a == SubSeq(l, 1, k)
           b == <<x>>
           c == SubSeq(l, k + 1, Len(l))
<1>1. a \in Seq(T) /\ b \in Seq(T) /\ c \in Seq(T) /\ Len(a) = k /\ Len(b) = 1 /\ Len(c) = Len(l) - k
  OBVIOUS
<1>2. /\ \A i \in 1..k : a[i] = l[i]
      /\ b[1] = x
      /\ \A i \in 1..Len(l) - k : c[i] = l[k + i]
  OBVIOUS
<1>3. InsertAt(l, k + 1, x) = (a \o b) \o c
  <2>1. (k + 1) - 1 = k
    OBVIOUS
  <2> QED
    BY <2>1, Zenon DEF InsertAt
<1> HIDE DEF a, b, c
<1> DEFINE p == a \o b
           q == p \o c
<1>4. p \in Seq(T) /\ Len(p) = k + 1
      /\ \A i \in 1..k + 1 : p[i] = IF i <= k THEN a[i] ELSE b[i - k]
  <2>1. /\ p \in Seq(T) /\ Len(p) = Len(a) + Len(b)
        /\ \A i \in 1..Len(a) + Len(b) : p[i] = IF i <= Len(a) THEN a[i] ELSE b[i - Len(a)]
    BY <1>1, ConcatProperties, Zenon
  <2> QED
    BY <1>1, <2>1, Zenon
<1> HIDE DEF p
<1>5. q \in Seq(T) /\ Len(q) = Len(l) + 1
      /\ \A i \in 1..Len(l) + 1 : q[i] = IF i <= k + 1 THEN p[i] ELSE c[i - (k + 1)]
  <2>1. /\ q \in Seq(T) /\ Len(q) = Len(p) + Len(c)
        /\ \A i \in 1..Len(p) + Len(c) : q[i] = IF i <= Len(p) THEN p[i] ELSE c[i - Len(p)]
    BY <1>1, <1>4, ConcatProperties, Zenon
  <2>2. (k + 1) + (Len(l) - k) = Len(l) + 1
    OBVIOUS
  <2> QED
    BY <1>1, <1>4, <2>1, <2>2, Zenon
<1> HIDE DEF q
<1>6. ASSUME NEW i \in 1..Len(l) + 1
      PROVE  q[i] = IF i <= k THEN l[i] ELSE IF i = k + 1 THEN x ELSE l[i - 1]
  <2>1. CASE i <= k
    <3>1. i \in 1..k /\ i \in 1..k + 1 /\ i <= k + 1
      BY <2>1
    <3> QED
      BY <1>2, <1>4, <1>5, <2>1, <3>1, Zenon
  <2>2. CASE i = k + 1
    <3>1. i \in 1..k + 1 /\ i <= k + 1 /\ ~(i <= k) /\ i - k = 1
      BY <2>2
    <3> QED
      BY <1>2, <1>4, <1>5, <2>2, <3>1, Zenon
  <2>3. CASE i > k + 1
    <3>1. /\ i - (k + 1) \in 1..Len(l) - k /\ k + (i - (k + 1)) = i - 1
          /\ ~(i <= k + 1) /\ ~(i <= k) /\ i # k + 1
      BY <2>3
    <3>2. q[i] = c[i - (k + 1)]
      BY <1>5, <3>1, Zenon
    <3>3. c[i - (k + 1)] = l[i - 1]
      BY <1>2, <3>1, Zenon
    <3> QED
      BY <3>1, <3>2, <3>3, Zenon
  <2> QED
    BY <2>1, <2>2, <2>3
<1>7. InsertAt(l, k + 1, x) = q
  BY <1>3 DEF p, q
<1> QED
  BY <1>5, <1>6, <1>7

\* The places of a list up to one that is in a set, if every place below one
\* in it is in it, are as many as the set has elements.
LEMMA InitialPlaces ==
  ASSUME NEW n \in Nat, NEW S \in SUBSET (1..n), \A i \in S : \A j \in 1..n : j < i => j \in S
  PROVE  Cardinality(S) \in 0..n /\ S = 1..Cardinality(S)
<1>1. IsFiniteSet(1..n) /\ Cardinality(1..n) = n /\ IsFiniteSet(S) /\ Cardinality(S) \in Nat /\ Cardinality(S) <= n
  <2>1. IsFiniteSet(1..n) /\ Cardinality(1..n) = n
    BY FS_Interval
  <2>2. IsFiniteSet(S) /\ Cardinality(S) <= n
    BY <2>1, FS_Subset
  <2> QED
    BY <2>1, <2>2, FS_CardinalityType
<1>2. S \subseteq 1..Cardinality(S)
  <2> SUFFICES ASSUME NEW i \in S PROVE i <= Cardinality(S)
    BY <1>1
  <2>1. 1..i \in SUBSET S /\ i \in Nat
    OBVIOUS
  <2>2. Cardinality(1..i) = i /\ Cardinality(1..i) <= Cardinality(S)
    BY <1>1, <2>1, FS_Interval, FS_Subset
  <2> QED
    BY <2>2
<1>3. IsFiniteSet(1..Cardinality(S)) /\ Cardinality(1..Cardinality(S)) = Cardinality(S)
  BY <1>1, FS_Interval
<1>4. S = 1..Cardinality(S)
  BY <1>2, <1>3, FS_Subset
<1> QED
  BY <1>1, <1>4

\* addListener puts x behind those of the same or a higher priority, and its
\* node y at that place.
LEMMA InsertedList ==
  ASSUME NEW l \in Seq(Entries), Sorted(l), NEW x \in Entries, \A i \in DOMAIN l : l[i].id < x.id
  PROVE  LET k == Position(l, x.prio) - 1
             m == InsertAt(l, Position(l, x.prio), x)
         IN  /\ k \in 0..Len(l) /\ Position(l, x.prio) = k + 1 /\ m \in Seq(Entries) /\ Len(m) = Len(l) + 1
             /\ \A i \in 1..Len(l) + 1 : m[i] = IF i <= k THEN l[i] ELSE IF i = k + 1 THEN x ELSE l[i - 1]
             /\ Sorted(m)
<1> DEFINE S == {i \in DOMAIN l : l[i].prio >= x.prio}
           k == Cardinality(S)
           m == InsertAt(l, k + 1, x)
<1>1. /\ Len(l) \in Nat /\ DOMAIN l = 1..Len(l)
      /\ \A i \in DOMAIN l : l[i] \in Entries /\ l[i].prio \in Int /\ l[i].id \in Nat
      /\ x.prio \in Int /\ x.id \in Nat
  <2>1. \A i \in DOMAIN l : l[i] \in Entries
    OBVIOUS
  <2> QED
    BY <2>1 DEF Entries
<1>2. k \in 0..Len(l) /\ S = 1..k
  <2>1. S \in SUBSET (1..Len(l))
    BY <1>1
  <2>2. \A i \in S : \A j \in 1..Len(l) : j < i => j \in S
    BY <1>1 DEF Sorted, Precedes
  <2> HIDE DEF S
  <2> QED
    BY <1>1, <2>1, <2>2, InitialPlaces
<1>3. Position(l, x.prio) = k + 1
  BY DEF Position
<1>4. \A i \in 1..Len(l) : i <= k <=> l[i].prio >= x.prio
  BY <1>1, <1>2
<1> HIDE DEF S, k
<1>5. /\ m \in Seq(Entries) /\ Len(m) = Len(l) + 1
      /\ \A i \in 1..Len(l) + 1 : m[i] = IF i <= k THEN l[i] ELSE IF i = k + 1 THEN x ELSE l[i - 1]
  BY <1>2, InsertedAt
<1> HIDE DEF m
<1>6. DOMAIN m = 1..Len(l) + 1 /\ k \in Nat
  BY <1>2, <1>5
<1>7. ASSUME NEW i \in DOMAIN m, NEW j \in DOMAIN m, i < j PROVE Precedes(m[i], m[j])
  <2>1. CASE j <= k
    BY <1>1, <1>2, <1>5, <1>6, <1>7, <2>1 DEF Sorted
  <2>2. CASE j = k + 1
    BY <1>1, <1>2, <1>4, <1>5, <1>6, <1>7, <2>2 DEF Precedes
  <2>3. CASE j > k + 1
    <3>1. j - 1 \in 1..Len(l) /\ m[j] = l[j - 1] /\ l[j - 1].prio < x.prio
      BY <1>1, <1>2, <1>4, <1>5, <1>6, <2>3
    <3>2. CASE i <= k
      BY <1>1, <1>2, <1>5, <1>6, <2>3, <3>1, <3>2 DEF Sorted
    <3>3. CASE i = k + 1
      BY <1>1, <1>2, <1>5, <1>6, <3>1, <3>3 DEF Precedes
    <3>4. CASE i > k + 1
      <4>1. i - 1 \in 1..Len(l) /\ m[i] = l[i - 1] /\ i - 1 < j - 1
        BY <1>1, <1>2, <1>5, <1>6, <1>7, <3>4
      <4> QED
        BY <1>1, <3>1, <4>1 DEF Sorted
    <3> QED
      BY <1>6, <3>2, <3>3, <3>4
  <2> QED
    BY <1>6, <2>1, <2>2, <2>3
<1>8. Sorted(m)
  BY <1>7 DEF Sorted
<1>9. m = InsertAt(l, Position(l, x.prio), x) /\ k = Position(l, x.prio) - 1
  BY <1>2, <1>3 DEF m
<1> QED
  BY <1>2, <1>3, <1>5, <1>8, <1>9

\* m and its nodes r are l and its nodes q, with x and its node y put in.
OneMore(m, r, l, q, x, y) ==
  /\ Len(r) = Len(m)
  /\ \A j \in DOMAIN m :
       \/ m[j] = x /\ r[j] = y
       \/ \E i \in DOMAIN l : m[j] = l[i] /\ r[j] = q[i]
  /\ \A i, j \in DOMAIN m : m[i] = x /\ m[j] = x => i = j
  /\ \A i \in DOMAIN l : \E j \in DOMAIN m : m[j] = l[i] /\ r[j] = q[i]
  /\ \A i, j \in DOMAIN r : r[i] = r[j] => i = j

\* A value and a node put at one place.
LEMMA InsertedBoth ==
  ASSUME NEW l \in Seq(Entries), NEW x \in Entries, \A i \in DOMAIN l : l[i] # x,
         NEW q \in Seq(Nat), Len(q) = Len(l), NEW y \in Nat,
         \A i \in DOMAIN q : q[i] # y, \A i, j \in DOMAIN q : q[i] = q[j] => i = j,
         NEW k \in 0..Len(l), NEW m \in Seq(Entries), Len(m) = Len(l) + 1,
         \A i \in 1..Len(l) + 1 : m[i] = IF i <= k THEN l[i] ELSE IF i = k + 1 THEN x ELSE l[i - 1],
         NEW r \in Seq(Nat), Len(r) = Len(q) + 1,
         \A i \in 1..Len(q) + 1 : r[i] = IF i <= k THEN q[i] ELSE IF i = k + 1 THEN y ELSE q[i - 1]
  PROVE  OneMore(m, r, l, q, x, y)
<1>1. Len(l) \in Nat /\ DOMAIN l = 1..Len(l) /\ DOMAIN q = 1..Len(l) /\ k \in Nat /\ k <= Len(l)
  OBVIOUS
<1>2. /\ Len(m) = Len(l) + 1
      /\ \A i \in 1..Len(l) + 1 : m[i] = IF i <= k THEN l[i] ELSE IF i = k + 1 THEN x ELSE l[i - 1]
  OBVIOUS
<1>3. /\ Len(r) = Len(l) + 1
      /\ \A i \in 1..Len(l) + 1 : r[i] = IF i <= k THEN q[i] ELSE IF i = k + 1 THEN y ELSE q[i - 1]
  OBVIOUS
<1>4. DOMAIN m = 1..Len(l) + 1 /\ DOMAIN r = 1..Len(l) + 1 /\ Len(r) = Len(m)
  BY <1>1, <1>2, <1>3
<1>5. ASSUME NEW j \in 1..Len(l) + 1
      PROVE  \/ j = k + 1 /\ m[j] = x /\ r[j] = y
             \/ j <= k /\ j \in DOMAIN l /\ m[j] = l[j] /\ r[j] = q[j]
             \/ j > k + 1 /\ j - 1 \in DOMAIN l /\ m[j] = l[j - 1] /\ r[j] = q[j - 1]
  BY <1>1, <1>2, <1>3
<1>6. ASSUME NEW i \in 1..Len(l) + 1, m[i] = x PROVE i = k + 1
  BY <1>5, <1>6
<1>7. ASSUME NEW i \in DOMAIN l PROVE \E j \in DOMAIN m : m[j] = l[i] /\ r[j] = q[i]
  <2>1. CASE i <= k
    <3>1. i \in DOMAIN m /\ m[i] = l[i] /\ r[i] = q[i]
      BY <1>1, <1>2, <1>3, <1>4, <2>1
    <3> QED
      BY <3>1
  <2>2. CASE i > k
    <3>1. i + 1 \in DOMAIN m /\ m[i + 1] = l[(i + 1) - 1] /\ r[i + 1] = q[(i + 1) - 1] /\ (i + 1) - 1 = i
      <4>1. i + 1 \in 1..Len(l) + 1 /\ ~(i + 1 <= k) /\ i + 1 # k + 1 /\ (i + 1) - 1 = i
        BY <1>1, <2>2, SMTT(20)
      <4>2. m[i + 1] = l[(i + 1) - 1] /\ r[i + 1] = q[(i + 1) - 1]
        BY <1>2, <1>3, <4>1
      <4> QED
        BY <1>4, <4>1, <4>2
    <3> QED
      BY <3>1
  <2> QED
    BY <1>1, <2>1, <2>2
<1>8. ASSUME NEW i \in 1..Len(l) + 1, NEW j \in 1..Len(l) + 1, r[i] = r[j] PROVE i = j
  <2>1. \A b \in 1..Len(l) : q[b] # y
    BY <1>1
  <2>2. ASSUME NEW a \in 1..Len(l), NEW b \in 1..Len(l), q[a] = q[b] PROVE a = b
    BY <1>1, <2>2
  <2>3. ASSUME NEW a \in 1..Len(l) + 1, a # k + 1
        PROVE  \E b \in 1..Len(l) : r[a] = q[b] /\ ((a <= k /\ b = a) \/ (a > k + 1 /\ b = a - 1))
    <3>1. (a <= k /\ r[a] = q[a]) \/ (a > k + 1 /\ r[a] = q[a - 1])
      BY <1>5, <2>3
    <3>2. CASE a <= k /\ r[a] = q[a]
      <4>1. a \in 1..Len(l)
        BY <1>1, <3>2
      <4> QED
        BY <3>2, <4>1
    <3>3. CASE a > k + 1 /\ r[a] = q[a - 1]
      <4>1. a \in Int /\ a > k + 1 /\ a <= Len(l) + 1
        BY <3>3
      <4>2. a - 1 \in 1..Len(l)
        BY <1>1, <4>1
      <4> QED
        BY <3>3, <4>2
    <3> QED
      BY <3>1, <3>2, <3>3
  <2>4. r[k + 1] = y
    <3>1. k + 1 \in 1..Len(l) + 1 /\ ~(k + 1 <= k)
      BY <1>1
    <3> QED
      BY <1>3, <3>1
  <2>5. CASE i = k + 1 \/ j = k + 1
    <3>1. ASSUME NEW a \in 1..Len(l) + 1, r[a] = y PROVE a = k + 1
      BY <2>1, <2>3, <3>1, Zenon
    <3> QED
      BY <1>8, <2>4, <2>5, <3>1
  <2>6. CASE i # k + 1 /\ j # k + 1
    <3>1. PICK a \in 1..Len(l) : r[i] = q[a] /\ ((i <= k /\ a = i) \/ (i > k + 1 /\ a = i - 1))
      BY <2>3, <2>6
    <3>2. PICK b \in 1..Len(l) : r[j] = q[b] /\ ((j <= k /\ b = j) \/ (j > k + 1 /\ b = j - 1))
      BY <2>3, <2>6
    <3>3. a = b
      BY <1>8, <2>2, <3>1, <3>2, ZenonT(20)
    <3> QED
      BY <1>1, <3>1, <3>2, <3>3, SMTT(20)
  <2> QED
    BY <2>5, <2>6
<1>9. \A j \in DOMAIN m : \/ m[j] = x /\ r[j] = y
                          \/ \E i \in DOMAIN l : m[j] = l[i] /\ r[j] = q[i]
  BY <1>4, <1>5
<1> QED
  BY <1>3, <1>4, <1>6, <1>7, <1>8, <1>9 DEF OneMore

-----------------------------------------------------------------------------
(* What a step does to the lists.                                          *)

\* A node that is not new holds what it held, or what was behind it.
NodesInherited ==
  \A k \in IncidentTypes : \A j \in DOMAIN nodes'[k] :
    \/ nodes'[k][j] >= nextId
    \/ \E i \in DOMAIN nodes[k] :
         nodes'[k][j] = nodes[k][i] /\ ~Precedes(listeners'[k][j], listeners[k][i])

\* Every entry of a list is new or was in that list.
Inherited ==
  /\ nextId' \in Nat /\ nextId' >= nextId
  /\ listeners' \in [IncidentTypes -> Seq(Entries)]
  /\ \A k \in IncidentTypes : DOMAIN nodes'[k] = DOMAIN listeners'[k]
  /\ NodesInherited
  /\ \A k \in IncidentTypes : \A j \in DOMAIN listeners'[k] :
       \/ listeners'[k][j].id >= nextId
       \/ \E i \in DOMAIN listeners[k] : SameKey(listeners'[k][j], listeners[k][i])

\* The parts of an entry, at a place of a list.
LEMMA EntryParts ==
  ASSUME SyncType, NEW k \in IncidentTypes, NEW i \in DOMAIN listeners[k]
  PROVE  /\ listeners[k] \in Seq(Entries) /\ listeners[k][i] \in Entries
         /\ listeners[k][i].id \in Nat /\ listeners[k][i].prio \in Int
         /\ listeners[k][i].gone \in Int /\ listeners[k][i].calls \in Nat
         /\ i \in Nat /\ i >= 1 /\ i <= Len(listeners[k]) /\ Len(listeners[k]) \in Nat
<1>1. listeners[k] \in Seq(Entries)
  BY DEF SyncType
<1>2. listeners[k][i] \in Entries
  BY <1>1
<1>3. /\ listeners[k][i].id \in Nat /\ listeners[k][i].prio \in Int
      /\ listeners[k][i].gone \in Int /\ listeners[k][i].calls \in Nat
  BY <1>2 DEF Entries
<1>4. i \in Nat /\ i >= 1 /\ i <= Len(listeners[k]) /\ Len(listeners[k]) \in Nat
  BY <1>1
<1> QED
  BY <1>1, <1>2, <1>3, <1>4

\* The first places of a list are all that a shorter one needs.
LEMMA Forward ==
  ASSUME NEW m \in Nat, NEW n \in Nat, NEW f \in [1..m -> 1..n],
         \A i, j \in 1..m : i < j => f[i] < f[j], NEW k \in 1..m
  PROVE  k <= f[k]
<1> DEFINE g == [i \in 1..k |-> f[i]]
<1>1. f[k] \in 1..n /\ \A i \in 1..k : i \in 1..m /\ f[i] \in 1..f[k]
  BY SMTT(20)
<1>2. g \in [1..k -> 1..f[k]] /\ \A i \in 1..k : g[i] = f[i]
  BY <1>1
<1> HIDE DEF g
<1>3. \A i, j \in 1..k : g[i] = g[j] => i = j
  BY <1>1, <1>2, SMTT(20)
<1>4. g \in Injection(1..k, 1..f[k])
  BY <1>2, <1>3 DEF Injection, IsInjective
<1>5. IsFiniteSet(1..f[k]) /\ Cardinality(1..f[k]) = f[k] /\ Cardinality(1..k) = k
  BY <1>1, FS_Interval
<1> QED
  BY <1>4, <1>5, FS_Injection

\* The step takes nodes away at the tails only, as many as it takes values.
NodesStay ==
  /\ nodes' \in [IncidentTypes -> Seq(Nat)]
  /\ \A k \in IncidentTypes :
       /\ Len(nodes'[k]) = Len(listeners'[k])
       /\ \A i \in DOMAIN nodes'[k] : i \in DOMAIN nodes[k] /\ nodes'[k][i] = nodes[k][i]

\* The places of a list that comes from another.
LEMMA FromForward ==
  ASSUME NEW l \in Seq(Entries), NEW m \in Seq(Entries), From(m, l)
  PROVE  /\ Len(m) <= Len(l)
         /\ \A j \in DOMAIN m : \E i \in DOMAIN l : j <= i /\ SameKey(m[j], l[i])
<1>1. PICK f \in [DOMAIN m -> DOMAIN l] : /\ \A k \in DOMAIN m : SameKey(m[k], l[f[k]])
                                          /\ \A j, k \in DOMAIN m : j < k => f[j] < f[k]
  BY Zenon DEF From
<1>2. Len(l) \in Nat /\ Len(m) \in Nat /\ DOMAIN l = 1..Len(l) /\ DOMAIN m = 1..Len(m)
  OBVIOUS
<1>3. \A j \in DOMAIN m : f[j] \in DOMAIN l /\ j <= f[j]
  <2>1. f \in [1..Len(m) -> 1..Len(l)] /\ \A j, k \in 1..Len(m) : j < k => f[j] < f[k]
    BY <1>1, <1>2
  <2>2. \A j \in 1..Len(m) : j <= f[j]
    BY <1>2, <2>1, Forward
  <2> QED
    BY <1>1, <1>2, <2>2
<1>4. Len(m) <= Len(l)
  <2>1. CASE Len(m) = 0
    BY <1>2, <2>1
  <2>2. CASE Len(m) # 0
    <3>1. Len(m) \in DOMAIN m
      BY <1>2, <2>2
    <3>2. f[Len(m)] \in 1..Len(l) /\ Len(m) <= f[Len(m)]
      BY <1>2, <1>3, <3>1
    <3> QED
      BY <1>2, <3>2
  <2> QED
    BY <2>1, <2>2
<1> QED
  BY <1>1, <1>3, <1>4

\* erase( remove_if() ).
LEMMA TailErased ==
  ASSUME SyncType, NodesInOrder, EraseTail, listeners' \in [IncidentTypes -> Seq(Entries)],
         \A k \in IncidentTypes : From(listeners'[k], listeners[k])
  PROVE  NodesStay
<1>1. nodes' = [k \in IncidentTypes |-> SubSeq(nodes[k], 1, Len(listeners'[k]))]
  BY DEF EraseTail, Types, SyncType
<1>2. ASSUME NEW k \in IncidentTypes
      PROVE  /\ SubSeq(nodes[k], 1, Len(listeners'[k])) \in Seq(Nat)
             /\ Len(SubSeq(nodes[k], 1, Len(listeners'[k]))) = Len(listeners'[k])
             /\ \A i \in DOMAIN SubSeq(nodes[k], 1, Len(listeners'[k])) :
                  i \in DOMAIN nodes[k] /\ SubSeq(nodes[k], 1, Len(listeners'[k]))[i] = nodes[k][i]
  <2>1. listeners[k] \in Seq(Entries) /\ listeners'[k] \in Seq(Entries) /\ nodes[k] \in Seq(Nat)
    BY DEF SyncType
  <2>2. Len(listeners'[k]) \in Nat /\ Len(listeners'[k]) <= Len(nodes[k])
    BY <2>1, FromForward DEF NodesInOrder
  <2> QED
    BY <2>1, <2>2
<1>3. nodes' \in [IncidentTypes -> Seq(Nat)]
  BY <1>1, <1>2
<1> QED
  BY <1>1, <1>2, <1>3 DEF NodesStay

\* The nodes of lists that only lose values hold what they held, or what was
\* behind it.
LEMMA ShrunkNodes ==
  ASSUME SyncType, ListsInOrder, nextId' = nextId, NodesStay,
         listeners' \in [IncidentTypes -> Seq(Entries)],
         \A k \in IncidentTypes : From(listeners'[k], listeners[k])
  PROVE  NodesInOrder' /\ NodesInherited
<1>1. NodesInOrder'
  BY DEF NodesStay, ListsInOrder, NodesInOrder
<1>2. ASSUME NEW k \in IncidentTypes, NEW j \in DOMAIN nodes'[k]
      PROVE  \E i \in DOMAIN nodes[k] :
               nodes'[k][j] = nodes[k][i] /\ ~Precedes(listeners'[k][j], listeners[k][i])
  <2>1. /\ listeners[k] \in Seq(Entries) /\ listeners'[k] \in Seq(Entries)
        /\ nodes[k] \in Seq(Nat) /\ nodes'[k] \in Seq(Nat)
    BY DEF SyncType, NodesStay
  <2>2. j \in DOMAIN listeners'[k] /\ j \in DOMAIN listeners[k] /\ j \in DOMAIN nodes[k] /\ nodes'[k][j] = nodes[k][j]
    BY <2>1 DEF NodesStay, ListsInOrder, NodesInOrder
  <2>3. PICK i \in DOMAIN listeners[k] : j <= i /\ SameKey(listeners'[k][j], listeners[k][i])
    BY <2>1, <2>2, FromForward
  <2>4. i = j \/ Precedes(listeners[k][j], listeners[k][i])
    <3>1. i \in Nat /\ j \in Nat /\ Sorted(listeners[k])
      BY <2>1, <2>2, <2>3 DEF ListsInOrder
    <3>2. CASE j < i
      BY <2>2, <3>1, <3>2, Zenon DEF Sorted
    <3> QED
      BY <2>3, <3>1, <3>2
  <2>5. /\ listeners[k][i].id \in Nat /\ listeners[k][i].prio \in Int
        /\ listeners[k][j].id \in Nat /\ listeners[k][j].prio \in Int
    BY <2>2, <2>3, EntryParts
  <2>6. ~Precedes(listeners'[k][j], listeners[k][j])
    BY <2>3, <2>4, <2>5 DEF Precedes, SameKey
  <2> QED
    BY <2>2, <2>6
<1> QED
  BY <1>1, <1>2 DEF NodesInherited

\* Lists that only lose entries.
LEMMA ShrunkLists ==
  ASSUME SyncType, ListsInOrder, nextId' = nextId, NodesStay,
         listeners' \in [IncidentTypes -> Seq(Entries)],
         \A k \in IncidentTypes : From(listeners'[k], listeners[k])
  PROVE  ListsInOrder' /\ Inherited
<1>1. ASSUME NEW k \in IncidentTypes, NEW m \in IncidentTypes,
             NEW i \in DOMAIN listeners'[k], NEW j \in DOMAIN listeners'[m]
      PROVE  /\ listeners'[k][i].id < nextId
             /\ \E a \in DOMAIN listeners[k] : SameKey(listeners'[k][i], listeners[k][a])
             /\ k = m /\ i < j => Precedes(listeners'[k][i], listeners'[k][j])
             /\ listeners'[k][i].id = listeners'[m][j].id => k = m /\ i = j
  <2>1. PICK f \in [DOMAIN listeners'[k] -> DOMAIN listeners[k]] :
          /\ \A a \in DOMAIN listeners'[k] : SameKey(listeners'[k][a], listeners[k][f[a]])
          /\ \A a, b \in DOMAIN listeners'[k] : a < b => f[a] < f[b]
    BY Zenon DEF From
  <2>2. PICK g \in [DOMAIN listeners'[m] -> DOMAIN listeners[m]] :
          /\ \A a \in DOMAIN listeners'[m] : SameKey(listeners'[m][a], listeners[m][g[a]])
    BY Zenon DEF From
  <2>3. /\ f[i] \in DOMAIN listeners[k] /\ SameKey(listeners'[k][i], listeners[k][f[i]])
        /\ g[j] \in DOMAIN listeners[m] /\ SameKey(listeners'[m][j], listeners[m][g[j]])
    BY <2>1, <2>2
  <2>4. listeners'[k][i].id < nextId
    BY <2>3 DEF ListsInOrder, SameKey
  <2>5. ASSUME k = m PROVE /\ i < j => Precedes(listeners'[k][i], listeners'[k][j])
                           /\ listeners'[k][i].id = listeners'[m][j].id => i = j
    <3>1. f[j] \in DOMAIN listeners[k] /\ SameKey(listeners'[k][j], listeners[k][f[j]]) /\ j \in DOMAIN listeners'[k]
      BY <2>1, <2>5
    <3>2. ASSUME i < j PROVE Precedes(listeners'[k][i], listeners'[k][j])
      <4>1. f[i] < f[j]
        BY <2>1, <3>1, <3>2
      <4>2. Precedes(listeners[k][f[i]], listeners[k][f[j]])
        BY <2>3, <3>1, <4>1 DEF ListsInOrder, Sorted
      <4> QED
        BY <2>3, <3>1, <4>2 DEF Precedes, SameKey
    <3>3. ASSUME listeners'[k][i].id = listeners'[m][j].id PROVE i = j
      <4>1. f[i] = f[j]
        BY <2>3, <2>5, <3>1, <3>3 DEF ListsInOrder, SameKey
      <4>2. i \in Nat /\ j \in Nat /\ f[i] \in Nat
        <5>1. DOMAIN listeners'[k] \subseteq Nat /\ DOMAIN listeners[k] \subseteq Nat
          <6>1. listeners'[k] \in Seq(Entries) /\ listeners[k] \in Seq(Entries)
            BY DEF SyncType
          <6> QED
            BY <6>1
        <5> QED
          BY <2>3, <3>1, <5>1
      <4>3. ~(i < j) /\ ~(j < i)
        BY <2>1, <3>1, <4>1, <4>2
      <4> QED
        BY <4>2, <4>3
    <3> QED
      BY <3>2, <3>3
  <2>6. listeners'[k][i].id = listeners'[m][j].id => k = m
    <3>1. listeners'[k][i].id = listeners'[m][j].id => listeners[k][f[i]].id = listeners[m][g[j]].id
      BY <2>3 DEF SameKey
    <3> QED
      BY <2>3, <3>1, Zenon DEF ListsInOrder
  <2> QED
    BY <2>3, <2>4, <2>5, <2>6
<1>2. NodesInOrder' /\ NodesInherited
  BY ShrunkNodes
<1>3. ListsInOrder'
  BY <1>1, <1>2 DEF ListsInOrder, Sorted
<1>4. Inherited
  <2>1. nextId \in Nat
    BY DEF SyncType
  <2>2. ASSUME NEW k \in IncidentTypes PROVE DOMAIN nodes'[k] = DOMAIN listeners'[k]
    BY DEF NodesStay
  <2> QED
    BY <1>1, <1>2, <2>1, <2>2 DEF Inherited
<1> QED
  BY <1>3, <1>4

\* The entry that is added.
LEMMA NewEntry ==
  ASSUME NEW x \in Registrations, NEW id \in Nat
  PROVE  /\ Entry(x, id) \in Entries /\ Entry(x, id).id = id /\ Entry(x, id).gone = -1 /\ Entry(x, id).calls = 0
         /\ Entry(x, id).single = x.single /\ Entry(x, id).once = x.single
<1>1. x.lis \in Listeners /\ x.prio \in Int
  BY DEF Registrations
<1>2. x.rethrow \in BOOLEAN /\ x.single \in BOOLEAN
  BY Zenon DEF Registrations
<1>3. ASSUME NEW B, NEW r \in B, NEW s \in B
      PROVE  [id |-> id, lis |-> x.lis, prio |-> x.prio, rethrow |-> r, single |-> s, once |-> s,
              calls |-> 0, gone |-> -1]
               \in [id : Nat, lis : Listeners, prio : Int, rethrow : B, single : B, once : B,
                    calls : Nat, gone : Int]
  BY <1>1
<1>4. Entry(x, id) \in Entries
  BY <1>2, <1>3, Zenon DEF Entry, Entries
<1>5. Entry(x, id).id = id /\ Entry(x, id).gone = -1 /\ Entry(x, id).calls = 0
  BY DEF Entry
<1>6. Entry(x, id).single = x.single /\ Entry(x, id).once = x.single
  BY Zenon DEF Entry
<1> QED
  BY <1>4, <1>5, <1>6, Zenon

\* addListener: the lists after it, and their nodes.
LEMMA AddedParts ==
  ASSUME SyncType, ListsInOrder, NEW x \in Registrations, AddListener(x)
  PROVE  /\ TypeOf(x) \in IncidentTypes /\ nextId \in Nat \ {0} /\ nextId' = nextId + 1
         /\ Entry(x, nextId) \in Entries /\ Entry(x, nextId).id = nextId
         /\ listeners' \in [IncidentTypes -> Seq(Entries)] /\ nodes' \in [IncidentTypes -> Seq(Nat)]
         /\ \A k \in IncidentTypes : k # TypeOf(x) => listeners'[k] = listeners[k] /\ nodes'[k] = nodes[k]
         /\ Sorted(listeners'[TypeOf(x)])
         /\ OneMore(listeners'[TypeOf(x)], nodes'[TypeOf(x)], listeners[TypeOf(x)], nodes[TypeOf(x)],
                    Entry(x, nextId), nextId)
<1> DEFINE t == TypeOf(x)
           n == Entry(x, nextId)
           l == listeners[t]
           q == nodes[t]
           p == Position(l, n.prio)
           m == InsertAt(l, p, n)
           r == InsertAt(q, p, nextId)
<1>1. /\ t \in IncidentTypes /\ nextId \in Nat \ {0} /\ nextId' = nextId + 1
      /\ listeners \in [IncidentTypes -> Seq(Entries)] /\ nodes \in [IncidentTypes -> Seq(Nat)]
  BY DEF AddListener, TypeOf, Registrations, IncidentTypes, SyncType
<1>2. listeners' = [listeners EXCEPT ![t] = m] /\ nodes' = [nodes EXCEPT ![t] = r]
  BY DEF AddListener, Entry
<1>3. n \in Entries /\ n.id = nextId
  BY <1>1, NewEntry DEF n
<1>4. l \in Seq(Entries) /\ Sorted(l) /\ \A i \in DOMAIN l : l[i].id < n.id
  BY <1>1, <1>3 DEF ListsInOrder
<1>5. /\ q \in Seq(Nat) /\ Len(q) = Len(l)
      /\ \A i \in DOMAIN q : q[i] # nextId
      /\ \A i, j \in DOMAIN q : q[i] = q[j] => i = j
  BY <1>1 DEF ListsInOrder, NodesInOrder
<1> HIDE DEF t, n, l, q
<1>6. \A i \in DOMAIN l : l[i] # n
  <2>1. \A i \in DOMAIN l : l[i].id < n.id
    BY <1>4
  <2> QED
    BY <1>1, <1>3, <2>1
<1> DEFINE k == p - 1
<1>7. /\ k \in 0..Len(l) /\ p = k + 1 /\ m \in Seq(Entries) /\ Len(m) = Len(l) + 1 /\ Sorted(m)
      /\ \A i \in 1..Len(l) + 1 : m[i] = IF i <= k THEN l[i] ELSE IF i = k + 1 THEN n ELSE l[i - 1]
  BY <1>3, <1>4, InsertedList
<1> HIDE DEF k, p
<1>8. k \in 0..Len(q) /\ r = InsertAt(q, k + 1, nextId)
  BY <1>5, <1>7
<1> HIDE DEF m, r
<1>9. /\ r \in Seq(Nat) /\ Len(r) = Len(q) + 1
      /\ \A i \in 1..Len(q) + 1 : r[i] = IF i <= k THEN q[i] ELSE IF i = k + 1 THEN nextId ELSE q[i - 1]
  <2>1. nextId \in Nat
    BY <1>1
  <2> QED
    <3> DEFINE N == Nat
    <3>1. q \in Seq(N) /\ nextId \in N
      BY <1>5, <2>1
    <3> HIDE DEF N
    <3>2. k \in 0..Len(q)
      BY <1>8
    <3>3. r = InsertAt(q, k + 1, nextId)
      BY <1>8
    <3>4. /\ InsertAt(q, k + 1, nextId) \in Seq(N)
          /\ Len(InsertAt(q, k + 1, nextId)) = Len(q) + 1
          /\ \A i \in 1..Len(q) + 1 :
               InsertAt(q, k + 1, nextId)[i] = IF i <= k THEN q[i] ELSE IF i = k + 1 THEN nextId ELSE q[i - 1]
      BY <3>1, <3>2, InsertedAt
    <3> QED
      BY <3>3, <3>4, Zenon DEF N
<1>10. OneMore(m, r, l, q, n, nextId)
  BY <1>1, <1>3, <1>4, <1>5, <1>6, <1>7, <1>9, InsertedBoth
<1>11. /\ listeners' \in [IncidentTypes -> Seq(Entries)] /\ nodes' \in [IncidentTypes -> Seq(Nat)]
       /\ listeners'[t] = m /\ nodes'[t] = r
       /\ \A k_1 \in IncidentTypes : k_1 # t => listeners'[k_1] = listeners[k_1] /\ nodes'[k_1] = nodes[k_1]
  BY <1>1, <1>2, <1>7, <1>9
<1> QED
  BY <1>1, <1>3, <1>7, <1>10, <1>11 DEF t, n, l, q

\* Every value stays in its node.
NodesKept(k) ==
  \A i \in DOMAIN nodes[k] :
    \E j \in DOMAIN nodes'[k] : nodes'[k][j] = nodes[k][i] /\ listeners'[k][j] = listeners[k][i]

\* addListener.
LEMMA AddedLists ==
  ASSUME SyncType, ListsInOrder, NEW x \in Registrations, AddListener(x)
  PROVE  /\ listeners' \in [IncidentTypes -> Seq(Entries)] /\ nextId' \in Nat \ {0}
         /\ nodes' \in [IncidentTypes -> Seq(Nat)]
         /\ ListsInOrder' /\ Inherited
         /\ \A k \in IncidentTypes : \A j \in DOMAIN listeners'[k] :
              \/ listeners'[k][j] = Entry(x, nextId)
              \/ \E i \in DOMAIN listeners[k] : listeners'[k][j] = listeners[k][i]
         /\ \A k \in IncidentTypes : NodesKept(k)
<1> DEFINE t == TypeOf(x)
           n == Entry(x, nextId)
           l == listeners[t]
           m == listeners'[t]
<1>1. /\ t \in IncidentTypes /\ nextId \in Nat \ {0} /\ nextId' = nextId + 1
      /\ n \in Entries /\ n.id = nextId
      /\ listeners' \in [IncidentTypes -> Seq(Entries)] /\ nodes' \in [IncidentTypes -> Seq(Nat)]
      /\ \A k \in IncidentTypes : k # t => listeners'[k] = listeners[k] /\ nodes'[k] = nodes[k]
      /\ Sorted(m) /\ OneMore(m, nodes'[t], l, nodes[t], n, nextId)
  BY AddedParts
<1>2. nextId' \in Nat \ {0} /\ nextId' \in Nat /\ nextId' >= nextId /\ m \in Seq(Entries) /\ nodes'[t] \in Seq(Nat)
  BY <1>1
<1>3. \A k \in IncidentTypes :
        /\ listeners[k] \in Seq(Entries) /\ nodes[k] \in Seq(Nat) /\ DOMAIN nodes[k] = DOMAIN listeners[k]
        /\ Len(nodes[k]) = Len(listeners[k])
        /\ \A i \in DOMAIN listeners[k] : listeners[k][i].id < nextId /\ nodes[k][i] < nextId
  BY DEF SyncType, ListsInOrder, NodesInOrder
<1>4. DOMAIN nodes'[t] = DOMAIN m
  BY <1>1, <1>2 DEF OneMore
<1> HIDE DEF t, n, m, l
<1>5. ASSUME NEW k \in IncidentTypes, NEW j \in DOMAIN listeners'[k]
      PROVE  \/ k = t /\ listeners'[k][j] = n /\ nodes'[k][j] = nextId
             \/ \E i \in DOMAIN listeners[k] : listeners'[k][j] = listeners[k][i] /\ nodes'[k][j] = nodes[k][i]
  <2>1. CASE k = t
    BY <1>1, <2>1 DEF OneMore, m, l
  <2>2. CASE k # t
    BY <1>1, <2>2
  <2> QED
    BY <2>1, <2>2
<1>6. \A k \in IncidentTypes : DOMAIN nodes'[k] = DOMAIN listeners'[k] /\ Len(nodes'[k]) = Len(listeners'[k])
  <2>1. Len(nodes'[t]) = Len(m)
    BY <1>1 DEF OneMore
  <2> QED
    BY <1>1, <1>3, <1>4, <2>1 DEF m
<1>7. NodesInherited
  <2> SUFFICES ASSUME NEW k \in IncidentTypes, NEW j \in DOMAIN nodes'[k]
               PROVE  \/ nodes'[k][j] >= nextId
                      \/ \E i \in DOMAIN nodes[k] :
                           nodes'[k][j] = nodes[k][i] /\ ~Precedes(listeners'[k][j], listeners[k][i])
    BY DEF NodesInherited
  <2>1. CASE nodes'[k][j] = nextId
    BY <1>1, <2>1
  <2>2. ASSUME NEW i \in DOMAIN listeners[k], listeners'[k][j] = listeners[k][i], nodes'[k][j] = nodes[k][i]
        PROVE  i \in DOMAIN nodes[k] /\ ~Precedes(listeners'[k][j], listeners[k][i])
    <3>1. listeners[k][i].id \in Nat /\ listeners[k][i].prio \in Int
      BY EntryParts
    <3> QED
      BY <1>3, <2>2, <3>1 DEF Precedes
  <2> QED
    BY <1>5, <1>6, <2>1, <2>2
<1>8. Inherited
  <2>1. ASSUME NEW k \in IncidentTypes, NEW j \in DOMAIN listeners'[k]
        PROVE  \/ listeners'[k][j].id >= nextId
               \/ \E i \in DOMAIN listeners[k] : SameKey(listeners'[k][j], listeners[k][i])
    <3>1. CASE listeners'[k][j] = n
      BY <1>1, <3>1
    <3>2. ASSUME NEW i \in DOMAIN listeners[k], listeners'[k][j] = listeners[k][i]
          PROVE  SameKey(listeners'[k][j], listeners[k][i])
      BY <3>2 DEF SameKey
    <3> QED
      BY <1>5, <3>1, <3>2
  <2> QED
    BY <1>1, <1>2, <1>6, <1>7, <2>1 DEF Inherited
<1>9. NodesInOrder'
  <2> SUFFICES ASSUME NEW k \in IncidentTypes
               PROVE  /\ Len(nodes'[k]) = Len(listeners'[k])
                      /\ \A i \in DOMAIN nodes'[k] : nodes'[k][i] < nextId'
                      /\ \A i, j \in DOMAIN nodes'[k] : nodes'[k][i] = nodes'[k][j] => i = j
    BY DEF NodesInOrder
  <2>1. \A i \in DOMAIN nodes'[k] : nodes'[k][i] < nextId'
    <3> SUFFICES ASSUME NEW i \in DOMAIN nodes'[k] PROVE nodes'[k][i] < nextId'
      OBVIOUS
    <3>1. CASE nodes'[k][i] = nextId
      BY <1>1, <3>1
    <3>2. ASSUME NEW j \in DOMAIN listeners[k], nodes'[k][i] = nodes[k][j] PROVE nodes'[k][i] < nextId'
      <4>1. nodes[k][j] < nextId /\ nodes[k][j] \in Nat
        BY <1>3
      <4> QED
        BY <1>1, <3>2, <4>1
    <3> QED
      BY <1>5, <1>6, <3>1, <3>2
  <2>2. \A i, j \in DOMAIN nodes'[k] : nodes'[k][i] = nodes'[k][j] => i = j
    <3>1. CASE k = t
      BY <1>1, <3>1 DEF OneMore
    <3>2. CASE k # t
      BY <1>1, <3>2 DEF ListsInOrder, NodesInOrder
    <3> QED
      BY <3>1, <3>2
  <2> QED
    BY <1>6, <2>1, <2>2
<1>10. \A k \in IncidentTypes : Sorted(listeners'[k])
  BY <1>1 DEF ListsInOrder, m
<1>11. \A k \in IncidentTypes : \A i \in DOMAIN listeners'[k] : listeners'[k][i].id < nextId'
  <2> SUFFICES ASSUME NEW k \in IncidentTypes, NEW j \in DOMAIN listeners'[k]
               PROVE  listeners'[k][j].id < nextId'
    OBVIOUS
  <2>1. CASE listeners'[k][j] = n
    BY <1>1, <2>1
  <2>2. ASSUME NEW i \in DOMAIN listeners[k], listeners'[k][j] = listeners[k][i]
        PROVE  listeners'[k][j].id < nextId'
    <3>1. listeners[k][i].id < nextId /\ listeners[k][i].id \in Nat
      BY EntryParts DEF ListsInOrder
    <3> QED
      BY <1>1, <2>2, <3>1
  <2> QED
    BY <1>5, <2>1, <2>2
<1>12. ASSUME NEW k \in IncidentTypes, NEW o \in IncidentTypes,
              NEW i \in DOMAIN listeners'[k], NEW j \in DOMAIN listeners'[o],
              listeners'[k][i].id = listeners'[o][j].id
       PROVE  k = o /\ i = j
  <2>1. \A a \in IncidentTypes : \A b \in DOMAIN listeners[a] : listeners[a][b].id # nextId
    BY <1>1, EntryParts, SMTT(20) DEF ListsInOrder
  <2>2. CASE k = t /\ listeners'[k][i] = n
    <3>1. o = t /\ listeners'[o][j] = n
      <4>1. listeners'[o][j].id = nextId
        BY <1>1, <1>12, <2>2
      <4>2. ~\E c \in DOMAIN listeners[o] : listeners'[o][j] = listeners[o][c]
        BY <2>1, <4>1
      <4> QED
        BY <1>5, <4>2
    <3> QED
      BY <1>1, <2>2, <3>1 DEF OneMore, m
  <2>3. CASE o = t /\ listeners'[o][j] = n
    <3>1. k = t /\ listeners'[k][i] = n
      <4>1. listeners'[k][i].id = nextId
        BY <1>1, <1>12, <2>3
      <4>2. ~\E c \in DOMAIN listeners[k] : listeners'[k][i] = listeners[k][c]
        BY <2>1, <4>1
      <4> QED
        BY <1>5, <4>2
    <3> QED
      BY <1>1, <2>3, <3>1 DEF OneMore, m
  <2>4. ASSUME NEW a \in DOMAIN listeners[k], listeners'[k][i] = listeners[k][a],
               NEW b \in DOMAIN listeners[o], listeners'[o][j] = listeners[o][b]
        PROVE  k = o /\ i = j
    <3>1. k = o /\ a = b
      <4>1. listeners[k][a].id = listeners[o][b].id
        BY <1>12, <2>4
      <4> QED
        BY <4>1, Zenon DEF ListsInOrder
    <3>2. CASE k # t
      <4>1. listeners'[k] = listeners[k] /\ o = k
        BY <1>1, <3>1, <3>2
      <4>2. i \in DOMAIN listeners[k] /\ j \in DOMAIN listeners[k] /\ listeners[k][i].id = listeners[k][j].id
        BY <1>12, <4>1
      <4> QED
        BY <4>1, <4>2, Zenon DEF ListsInOrder
    <3>3. CASE k = t
      <4>1. i \in DOMAIN m /\ j \in DOMAIN m /\ m[i] = m[j]
        BY <2>4, <3>1, <3>3 DEF m
      <4>2. i \in Nat /\ j \in Nat /\ m[i] \in Entries /\ ~Precedes(m[i], m[i])
        <5>1. DOMAIN m \subseteq Nat /\ m[i] \in Entries
          BY <1>2, <4>1
        <5> QED
          BY <4>1, <5>1 DEF Precedes, Entries
      <4>3. ~(i < j) /\ ~(j < i)
        BY <1>1, <4>1, <4>2 DEF Sorted
      <4> QED
        BY <3>1, <4>2, <4>3
    <3> QED
      BY <3>2, <3>3
  <2> QED
    BY <1>5, <2>2, <2>3, <2>4, Zenon
<1>13. ListsInOrder'
  BY <1>9, <1>10, <1>11, <1>12 DEF ListsInOrder
<1>14. \A k \in IncidentTypes : NodesKept(k)
  <2> SUFFICES ASSUME NEW k \in IncidentTypes, NEW i \in DOMAIN nodes[k]
               PROVE  \E j \in DOMAIN nodes'[k] : nodes'[k][j] = nodes[k][i] /\ listeners'[k][j] = listeners[k][i]
    BY DEF NodesKept
  <2>1. CASE k = t
    <3>1. PICK j \in DOMAIN m : m[j] = l[i] /\ nodes'[t][j] = nodes[t][i]
      BY <1>1, <1>3, <2>1 DEF OneMore, l
    <3> QED
      BY <1>4, <2>1, <3>1 DEF m, l
  <2>2. CASE k # t
    BY <1>1, <2>2
  <2> QED
    BY <2>1, <2>2
<1> QED
  BY <1>1, <1>2, <1>5, <1>8, <1>13, <1>14 DEF n

-----------------------------------------------------------------------------
(* The calls of fireIncident.                                              *)

\* The parts of a frame.
LEMMA FrameParts ==
  ASSUME NEW f \in FrameSet
  PROVE  /\ f.inc \in IncidentTypes /\ f.pass \in {1, 2} /\ f.at \in Int /\ f.lis \in Listeners \cup {Null}
         /\ f.in \in {"enter", "handle", "throw"} /\ f.due \in SUBSET Nat /\ f.seen \in Seq(Calleds)
         /\ ListOf(f) \in IncidentTypes /\ ListOf(f) = (IF f.pass = 1 THEN f.inc ELSE All)
         /\ Len(f.seen) \in Nat /\ DOMAIN f.seen = 1..Len(f.seen)
         /\ \A i \in DOMAIN f.seen :
              f.seen[i] \in Calleds /\ f.seen[i].id \in Nat /\ f.seen[i].prio \in Int /\ f.seen[i].pass \in {1, 2}
<1>1. /\ f.inc \in IncidentTypes /\ f.pass \in {1, 2} /\ f.at \in Int /\ f.lis \in Listeners \cup {Null}
      /\ f.in \in {"enter", "handle", "throw"} /\ f.due \in SUBSET Nat /\ f.seen \in Seq(Calleds)
  BY DEF FrameSet
<1>2. Len(f.seen) \in Nat /\ DOMAIN f.seen = 1..Len(f.seen) /\ \A i \in DOMAIN f.seen : f.seen[i] \in Calleds
  BY <1>1
<1>3. \A i \in DOMAIN f.seen : f.seen[i].id \in Nat /\ f.seen[i].prio \in Int /\ f.seen[i].pass \in {1, 2}
  BY <1>2 DEF Calleds
<1>4. ListOf(f) \in IncidentTypes /\ ListOf(f) = (IF f.pass = 1 THEN f.inc ELSE All)
  BY <1>1 DEF ListOf, IncidentTypes
<1> QED
  BY <1>1, <1>2, <1>3, <1>4

\* Precedes is a total order.
LEMMA NotBefore ==
  ASSUME NEW a, NEW b, NEW c, a.prio \in Int, a.id \in Int, b.prio \in Int, b.id \in Int, c.prio \in Int, c.id \in Int,
         ~Precedes(b, a)
  PROVE  (~Precedes(c, b) => ~Precedes(c, a)) /\ (Precedes(b, c) => Precedes(a, c))
BY DEF Precedes

\* What was said of a frame stays true when the lists change.
LEMMA FrameKept ==
  ASSUME SyncType, ListsInOrder, Inherited, NEW f \in FrameSet, FrameInv(f)
  PROVE  FrameInv(f)'
<1>1. nextId \in Nat /\ nextId' \in Nat /\ nextId' >= nextId
  BY DEF SyncType, Inherited
<1>2. (\A d \in f.due : d < nextId') /\ (f.pass = 2 => f.inc # All)
  BY <1>1, FrameParts DEF FrameInv
<1>3. SeenWhere(f)'
  <2> SUFFICES ASSUME NEW i \in DOMAIN f.seen
               PROVE  /\ f.seen[i].id < nextId' /\ f.seen[i].pass <= f.pass
                      /\ \A k \in IncidentTypes : \A j \in DOMAIN listeners'[k] :
                           listeners'[k][j].id = f.seen[i].id =>
                             k = Home(f, f.seen[i]) /\ listeners'[k][j].prio = f.seen[i].prio
    BY DEF SeenWhere, Home
  <2>1. f.seen[i].id < nextId /\ f.seen[i].id \in Nat /\ f.seen[i].pass <= f.pass
    BY FrameParts DEF FrameInv, SeenWhere
  <2>2. ASSUME NEW k \in IncidentTypes, NEW j \in DOMAIN listeners'[k],
               listeners'[k][j].id = f.seen[i].id
        PROVE  k = Home(f, f.seen[i]) /\ listeners'[k][j].prio = f.seen[i].prio
    <3>1. PICK a \in DOMAIN listeners[k] : SameKey(listeners'[k][j], listeners[k][a])
      BY <1>1, <2>1, <2>2 DEF Inherited
    <3>2. listeners[k][a].id = f.seen[i].id /\ listeners'[k][j].prio = listeners[k][a].prio
      BY <2>2, <3>1 DEF SameKey
    <3>3. k = Home(f, f.seen[i]) /\ listeners[k][a].prio = f.seen[i].prio
      BY <3>2, Zenon DEF FrameInv, SeenWhere
    <3> QED
      BY <3>2, <3>3
  <2> QED
    BY <1>1, <2>1, <2>2
<1>4. ASSUME Looping(f) PROVE f.at < nextId' /\ AtOrBehind(f)'
  <2> DEFINE k == ListOf(f)
             z == f.seen[Len(f.seen)]
  <2>1. /\ k \in IncidentTypes /\ f.at \in Int /\ f.at < nextId
        /\ z.id \in Int /\ z.prio \in Int
        /\ \A i \in DOMAIN nodes[k] : nodes[k][i] = f.at => ~Precedes(listeners[k][i], z)
    BY <1>4, FrameParts DEF FrameInv, AtOrBehind
  <2> HIDE DEF k, z
  <2>2. ASSUME NEW j \in DOMAIN nodes'[k], nodes'[k][j] = f.at
        PROVE  ~Precedes(listeners'[k][j], z)
    <3>1. PICK i \in DOMAIN nodes[k] :
            nodes'[k][j] = nodes[k][i] /\ ~Precedes(listeners'[k][j], listeners[k][i])
      BY <1>1, <2>1, <2>2 DEF Inherited, NodesInherited
    <3>2. ~Precedes(listeners[k][i], z)
      BY <2>1, <2>2, <3>1
    <3>3. listeners'[k][j] \in Entries /\ listeners[k][i] \in Entries
      <4>1. j \in DOMAIN listeners'[k] /\ listeners'[k] \in Seq(Entries)
        BY <2>1, <2>2 DEF Inherited
      <4>2. i \in DOMAIN listeners[k] /\ listeners[k] \in Seq(Entries)
        BY <2>1, <3>1 DEF SyncType, ListsInOrder, NodesInOrder
      <4> QED
        BY <4>1, <4>2
    <3>4. /\ listeners'[k][j].id \in Int /\ listeners'[k][j].prio \in Int
          /\ listeners[k][i].id \in Int /\ listeners[k][i].prio \in Int
      BY <3>3 DEF Entries
    <3> QED
      BY <2>1, <3>1, <3>2, <3>4, NotBefore
  <2>3. AtOrBehind(f)'
    BY <2>2 DEF AtOrBehind, ListOf, Precedes, k, z
  <2> QED
    BY <1>1, <2>1, <2>3
<1>5. SeenInOrder(f.seen)'
  BY DEF FrameInv, SeenInOrder, Precedes
<1> QED
  BY <1>2, <1>3, <1>4, <1>5 DEF FrameInv, Looping, SeenInOrder, Precedes

\* A frame that is new, 
LEMMA NewFrameInv ==
  ASSUME NEW inc \in IncidentTypes PROVE NewFrame(inc) \in FrameSet /\ FrameInv(NewFrame(inc))
<1> DEFINE f == NewFrame(inc)
<1>1. f \in FrameSet
  <2>1. /\ -1 \in Int /\ {} \in SUBSET Nat /\ <<>> \in Seq(Calleds) /\ 1 \in {1, 2}
        /\ "enter" \in {"enter", "handle", "throw"} /\ FALSE \in BOOLEAN /\ Null \in Listeners \cup {Null}
    OBVIOUS
  <2> QED
    BY <2>1, Zenon DEF NewFrame, FrameSet
<1>2. f.inc = inc /\ f.pass = 1 /\ f.in = "enter" /\ f.due = {} /\ f.seen = <<>>
  BY DEF NewFrame
<1> HIDE DEF f
<1>3. DOMAIN f.seen = {}
  BY <1>2
<1>4. FrameInv(f)
  BY <1>2, <1>3 DEF FrameInv, SeenWhere, SeenInOrder, Looping
<1> QED
  BY <1>1, <1>4 DEF f

\* one that goes on with "ALL",
LEMMA SecondPassInv ==
  ASSUME NEW f \in FrameSet, FrameInv(f), f.pass = 1, f.inc # All
  PROVE  SecondPass(f) \in FrameSet /\ FrameInv(SecondPass(f)) /\ ~Looping(SecondPass(f))
<1> DEFINE g == SecondPass(f)
<1>1. g \in FrameSet /\ g.inc = f.inc /\ g.pass = 2 /\ g.in = "enter" /\ g.due = {} /\ g.seen = f.seen
  <2> DEFINE h == [f EXCEPT !.pass = 2, !.in = "enter"]
  <2>1. h \in FrameSet /\ h.inc = f.inc /\ h.pass = 2 /\ h.in = "enter" /\ h.seen = f.seen
    BY DEF FrameSet
  <2> DEFINE nobody == Null
             nowhere == -1
             d == [h EXCEPT !.at = nowhere]
             e == [d EXCEPT !.lis = nobody]
             none == {}
  <2>2. g = [e EXCEPT !.due = none] /\ none \in SUBSET Nat
    BY DEF SecondPass
  <2>3. nobody \in Listeners \cup {Null} /\ nowhere \in Int
    OBVIOUS
  <2> HIDE DEF g, h, nobody, nowhere
  <2>4. d \in FrameSet /\ d.inc = f.inc /\ d.pass = 2 /\ d.in = "enter" /\ d.seen = f.seen
    BY <2>1, <2>3 DEF FrameSet
  <2> HIDE DEF d
  <2>5. e \in FrameSet /\ e.inc = f.inc /\ e.pass = 2 /\ e.in = "enter" /\ e.seen = f.seen
    BY <2>3, <2>4 DEF FrameSet
  <2> HIDE DEF e, none
  <2>6. g \in FrameSet /\ g.inc = f.inc /\ g.pass = 2 /\ g.in = "enter" /\ g.due = none /\ g.seen = f.seen
    BY <2>2, <2>5 DEF FrameSet
  <2> QED
    BY <2>6 DEF none
<1> HIDE DEF g
<1>2. \A i \in DOMAIN g.seen : g.seen[i].pass <= 1 /\ g.seen[i].pass \in {1, 2}
  BY <1>1, FrameParts DEF FrameInv, SeenWhere
<1>3. SeenWhere(g)
  BY <1>1, <1>2 DEF FrameInv, SeenWhere, Home
<1>4. FrameInv(g) /\ ~Looping(g)
  BY <1>1, <1>2, <1>3 DEF FrameInv, Looping
<1> QED
  BY <1>1, <1>4 DEF g

\* and one whose listener throws.
LEMMA ThrownInv ==
  ASSUME NEW f \in FrameSet, FrameInv(f), Looping(f)
  PROVE  /\ Thrown(f) \in FrameSet /\ FrameInv(Thrown(f)) /\ Looping(Thrown(f))
         /\ Thrown(f).inc = f.inc /\ ListOf(Thrown(f)) = ListOf(f) /\ Thrown(f).at = f.at
         /\ Thrown(f).shot = f.shot /\ Thrown(f).seen = f.seen /\ Thrown(f).due = f.due
<1> DEFINE g == Thrown(f)
<1>1. /\ g \in FrameSet /\ g.inc = f.inc /\ g.pass = f.pass /\ g.in = "throw" /\ g.due = f.due
      /\ g.seen = f.seen /\ g.at = f.at /\ g.lis = f.lis
  BY DEF Thrown, FrameSet
<1>2. g.shot = f.shot
  BY Zenon DEF Thrown, FrameSet
<1> HIDE DEF g
<1>3. ListOf(g) = ListOf(f) /\ Looping(g)
  BY <1>1 DEF ListOf, Looping
<1>4. FrameInv(g)
  BY <1>1, <1>3 DEF FrameInv, SeenWhere, Home, AtOrBehind
<1> QED
  BY <1>1, <1>2, <1>3, <1>4 DEF g

\* The parts of a frame that calls the listener l[i].
LEMMA AtNodeParts ==
  ASSUME NEW f \in FrameSet, NEW l \in Seq(Entries), NEW i \in DOMAIN l, nodes[ListOf(f)][i] \in Nat
  PROVE  /\ AtNode(f, l, i) \in FrameSet /\ AtNode(f, l, i).inc = f.inc /\ AtNode(f, l, i).pass = f.pass
         /\ AtNode(f, l, i).at = nodes[ListOf(f)][i] /\ AtNode(f, l, i).lis = l[i].lis /\ l[i].lis \in Listeners
         /\ AtNode(f, l, i).in = "handle" /\ AtNode(f, l, i).due = f.due
         /\ AtNode(f, l, i).seen = Append(f.seen, [id |-> l[i].id, prio |-> l[i].prio, pass |-> f.pass])
         /\ AtNode(f, l, i).shot = f.shot /\ Looping(AtNode(f, l, i)) /\ ListOf(AtNode(f, l, i)) = ListOf(f)
<1> DEFINE a == nodes[ListOf(f)][i]
           b == l[i].lis
           c == [id |-> l[i].id, prio |-> l[i].prio, pass |-> f.pass]
           s == Append(f.seen, c)
           e == [f EXCEPT !.at = a, !.lis = b]
           h == [e EXCEPT !.in = "handle"]
           g == AtNode(f, l, i)
<1>1. l[i] \in Entries
  OBVIOUS
<1>2. l[i].id \in Nat /\ l[i].prio \in Int /\ b \in Listeners /\ b \in Listeners \cup {Null} /\ a \in Int
  BY <1>1 DEF Entries
<1>3. c \in Calleds
  BY <1>2, FrameParts DEF Calleds
<1>4. s \in Seq(Calleds)
  BY <1>3, FrameParts
<1>5. g = [h EXCEPT !.seen = s]
  BY DEF AtNode
<1> HIDE DEF a, b, c, s, e, h, g
<1>6. /\ e \in FrameSet /\ e.inc = f.inc /\ e.pass = f.pass /\ e.at = a /\ e.lis = b
      /\ e.due = f.due /\ e.seen = f.seen
  BY <1>2 DEF FrameSet, e
<1>7. e.shot = f.shot
  BY Zenon DEF FrameSet, e
<1>8. /\ h \in FrameSet /\ h.inc = f.inc /\ h.pass = f.pass /\ h.at = a /\ h.lis = b /\ h.in = "handle"
      /\ h.due = f.due /\ h.seen = f.seen
  BY <1>6 DEF FrameSet, h
<1>9. h.shot = f.shot
  BY <1>6, <1>7, Zenon DEF FrameSet, h
<1>10. /\ g \in FrameSet /\ g.inc = f.inc /\ g.pass = f.pass /\ g.at = a /\ g.lis = b /\ g.in = "handle"
       /\ g.due = f.due /\ g.seen = s
  BY <1>4, <1>5, <1>8 DEF FrameSet
<1>11. g.shot = f.shot
  <2>1. g.shot = h.shot
    BY <1>5, <1>8, Zenon DEF FrameSet
  <2> QED
    BY <1>9, <2>1, Zenon
<1>12. Looping(g) /\ ListOf(g) = ListOf(f)
  BY <1>10 DEF Looping, ListOf
<1> QED
  BY <1>2, <1>10, <1>11, <1>12, Zenon DEF a, b, c, s, g

\* The node at a place of a list.
LEMMA NodeParts ==
  ASSUME SyncType, ListsInOrder, NEW k \in IncidentTypes, NEW i \in DOMAIN listeners[k]
  PROVE  i \in DOMAIN nodes[k] /\ nodes[k][i] \in Nat /\ nodes[k][i] < nextId
<1>1. nodes[k] \in Seq(Nat) /\ listeners[k] \in Seq(Entries) /\ Len(nodes[k]) = Len(listeners[k])
  BY DEF SyncType, ListsInOrder, NodesInOrder
<1>2. i \in DOMAIN nodes[k]
  BY <1>1
<1> QED
  BY <1>1, <1>2 DEF ListsInOrder, NodesInOrder

\* A loop over the list k calls its i-th listener, which is behind those that it
\* has called of this list.
LEMMA AtNodeInv ==
  ASSUME SyncType, ListsInOrder, NEW f \in FrameSet,
         NEW i \in DOMAIN listeners[ListOf(f)],
         f.pass = 2 => f.inc # All, \A d \in f.due : d < nextId, SeenWhere(f), SeenInOrder(f.seen),
         \A a \in DOMAIN f.seen : f.seen[a].pass = f.pass => Precedes(f.seen[a], listeners[ListOf(f)][i])
  PROVE  FrameInv(AtNode(f, listeners[ListOf(f)], i))
<1> DEFINE k == ListOf(f)
           n == listeners[k][i]
           c == [id |-> n.id, prio |-> n.prio, pass |-> f.pass]
           g == AtNode(f, listeners[k], i)
           z == Len(f.seen)
           x == nodes[k][i]
<1>1. /\ k \in IncidentTypes /\ n \in Entries /\ n.id \in Nat /\ n.prio \in Int /\ listeners[k] \in Seq(Entries)
      /\ n.id < nextId
  BY FrameParts, EntryParts DEF ListsInOrder
<1>2. c.id = n.id /\ c.prio = n.prio /\ c.pass = f.pass
  OBVIOUS
<1>3. /\ g \in FrameSet /\ g.inc = f.inc /\ g.pass = f.pass /\ g.at = x /\ g.lis \in Listeners /\ g.due = f.due
      /\ g.seen = Append(f.seen, c) /\ Looping(g) /\ ListOf(g) = k /\ x < nextId
  BY <1>1, NodeParts, AtNodeParts
<1> HIDE DEF c, g, x
<1>4. /\ z \in Nat /\ DOMAIN f.seen = 1..z /\ DOMAIN g.seen = 1..z + 1 /\ Len(g.seen) = z + 1 /\ g.seen[z + 1] = c
      /\ \A a \in 1..z : g.seen[a] = f.seen[a]
  BY <1>3, FrameParts
<1>5. k = Home(f, c) /\ \A a \in 1..z : Home(g, g.seen[a]) = Home(f, f.seen[a])
  BY <1>2, <1>3, <1>4, FrameParts DEF Home
<1>6. SeenWhere(g)
  <2>1. ASSUME NEW a \in 1..z
        PROVE  /\ g.seen[a].id < nextId /\ g.seen[a].pass <= g.pass
               /\ \A m \in IncidentTypes : \A j \in DOMAIN listeners[m] :
                    listeners[m][j].id = g.seen[a].id =>
                      m = Home(g, g.seen[a]) /\ listeners[m][j].prio = g.seen[a].prio
    BY <1>3, <1>4, <1>5 DEF SeenWhere
  <2>2. /\ c.id < nextId /\ c.pass <= g.pass
        /\ \A m \in IncidentTypes : \A j \in DOMAIN listeners[m] :
             listeners[m][j].id = c.id => m = Home(g, c) /\ listeners[m][j].prio = c.prio
    <3>1. c.id < nextId /\ c.pass <= g.pass
      BY <1>1, <1>2, <1>3, FrameParts
    <3>2. Home(g, c) = k
      BY <1>3, <1>5 DEF Home
    <3>3. ASSUME NEW m \in IncidentTypes, NEW j \in DOMAIN listeners[m], listeners[m][j].id = c.id
          PROVE  m = k /\ j = i
      <4>1. listeners[m][j].id = listeners[k][i].id
        BY <1>2, <3>3
      <4> QED
        BY <1>1, <4>1, Zenon DEF ListsInOrder
    <3> QED
      BY <1>2, <3>1, <3>2, <3>3
  <2>3. \A a \in DOMAIN g.seen : a \in 1..z \/ a = z + 1
    BY <1>4
  <2> QED
    <3>1. ASSUME NEW a \in DOMAIN g.seen, a = z + 1 PROVE g.seen[a] = c
      BY <1>4, <3>1
    <3>2. ASSUME NEW a \in DOMAIN g.seen
          PROVE  /\ g.seen[a].id < nextId /\ g.seen[a].pass <= g.pass
                 /\ \A m \in IncidentTypes : \A j \in DOMAIN listeners[m] :
                      listeners[m][j].id = g.seen[a].id =>
                        m = Home(g, g.seen[a]) /\ listeners[m][j].prio = g.seen[a].prio
      <4>1. CASE a \in 1..z
        BY <2>1, <4>1
      <4>2. CASE a = z + 1
        BY <2>2, <3>1, <4>2
      <4> QED
        BY <2>3, <4>1, <4>2
    <3> QED
      BY <3>2 DEF SeenWhere
<1>7. SeenInOrder(g.seen)
  <2> SUFFICES ASSUME NEW a \in DOMAIN g.seen, NEW b \in DOMAIN g.seen, a < b
               PROVE  /\ g.seen[a].id # g.seen[b].id
                      /\ g.seen[a].pass = g.seen[b].pass => Precedes(g.seen[a], g.seen[b])
    BY DEF SeenInOrder
  <2>1. a \in 1..z /\ g.seen[a] = f.seen[a]
    BY <1>4
  <2>2. CASE b \in 1..z
    BY <1>4, <2>1, <2>2 DEF SeenInOrder
  <2>3. CASE b = z + 1
    <3>1. f.seen[a].id \in Nat /\ f.seen[a].prio \in Int /\ f.seen[a].pass \in {1, 2}
      BY <2>1, FrameParts, <1>4
    <3>2. f.seen[a].pass = f.pass => Precedes(f.seen[a], n)
      BY <1>4, <2>1
    <3>3. f.seen[a].id # n.id
      <4>1. CASE f.seen[a].pass = f.pass
        <5>1. f.seen[a].id = n.id => n.prio = f.seen[a].prio
          BY <1>1, <1>4, <2>1, Zenon DEF SeenWhere
        <5> QED
          BY <1>1, <3>1, <3>2, <4>1, <5>1 DEF Precedes
      <4>2. CASE f.seen[a].pass # f.pass
        <5>1. f.seen[a].pass = 1 /\ f.pass = 2
          BY <1>4, <2>1, <3>1, <4>2, FrameParts DEF SeenWhere
        <5>2. Home(f, f.seen[a]) # k
          BY <5>1, FrameParts DEF Home
        <5> QED
          BY <1>1, <1>4, <2>1, <5>2, Zenon DEF SeenWhere
      <4> QED
        BY <4>1, <4>2
    <3> QED
      BY <1>2, <1>4, <2>1, <2>3, <3>2, <3>3 DEF Precedes
  <2> QED
    BY <1>4, <2>2, <2>3
<1>8. AtOrBehind(g)
  <2> SUFFICES ASSUME NEW j \in DOMAIN nodes[k], nodes[k][j] = x PROVE ~Precedes(listeners[k][j], c)
    BY <1>3, <1>4 DEF AtOrBehind
  <2>1. j = i
    BY <1>1, NodeParts DEF ListsInOrder, NodesInOrder, x
  <2> QED
    BY <1>1, <1>2, <2>1 DEF Precedes
<1>9. g.seen[Len(g.seen)].pass = g.pass /\ Len(g.seen) > 0
  BY <1>2, <1>3, <1>4
<1>10. FrameInv(g)
  BY <1>3, <1>6, <1>7, <1>8, <1>9 DEF FrameInv
<1> QED
  BY <1>10 DEF g

\* Where the node a loop is at is, and who is behind it.
LEMMA LoopPosition ==
  ASSUME SyncType, ListsInOrder, NEW f \in FrameSet, FrameInv(f), Looping(f), IteratorValid(f)
  PROVE  /\ Place(f) \in DOMAIN listeners[ListOf(f)] /\ Place(f) \in DOMAIN nodes[ListOf(f)]
         /\ nodes[ListOf(f)][Place(f)] = f.at
         /\ Here(f) = listeners[ListOf(f)][Place(f)] /\ Here(f) \in Entries
         /\ \A j \in DOMAIN nodes[ListOf(f)] : nodes[ListOf(f)][j] = f.at => j = Place(f)
         /\ ~Precedes(Here(f), f.seen[Len(f.seen)])
         /\ \A j \in DOMAIN listeners[ListOf(f)] :
              j > Place(f) =>
                \A a \in DOMAIN f.seen : f.seen[a].pass = f.pass => Precedes(f.seen[a], listeners[ListOf(f)][j])
<1> DEFINE k == ListOf(f)
           l == listeners[k]
           q == nodes[k]
           i == Place(f)
           z == Len(f.seen)
<1>1. /\ k \in IncidentTypes /\ z \in Nat /\ DOMAIN f.seen = 1..z /\ z > 0
      /\ \A a \in DOMAIN f.seen : f.seen[a].id \in Nat /\ f.seen[a].prio \in Int
  BY FrameParts DEF FrameInv
<1>2. /\ l \in Seq(Entries) /\ \A j \in DOMAIN l : l[j] \in Entries /\ l[j].id \in Nat /\ l[j].prio \in Int /\ j \in Nat
      /\ DOMAIN q = DOMAIN l
  BY <1>1, EntryParts DEF SyncType, ListsInOrder, NodesInOrder
<1>3. i \in DOMAIN q /\ q[i] = f.at
  BY DEF IteratorValid, Place
<1>4. Here(f) = l[i]
  BY DEF Here
<1>5. \A j \in DOMAIN q : q[j] = f.at => j = i
  BY <1>1, <1>3 DEF ListsInOrder, NodesInOrder
<1>6. ~Precedes(l[i], f.seen[z])
  BY <1>3 DEF FrameInv, AtOrBehind
<1>7. \A a, b \in DOMAIN l : a < b => Precedes(l[a], l[b])
  BY <1>1 DEF ListsInOrder, Sorted
<1> HIDE DEF l, i, k, z, q
<1>8. z \in DOMAIN f.seen /\ f.seen[z].pass = f.pass
  BY <1>1 DEF FrameInv, z
<1>9. ASSUME NEW j \in DOMAIN l, j > i, NEW a \in DOMAIN f.seen, f.seen[a].pass = f.pass
      PROVE  Precedes(f.seen[a], l[j])
  <2>1. Precedes(f.seen[z], l[j])
    <3>1. Precedes(l[i], l[j])
      BY <1>2, <1>3, <1>7, <1>9
    <3>2. /\ f.seen[z].id \in Int /\ f.seen[z].prio \in Int /\ l[i].id \in Int /\ l[i].prio \in Int
          /\ l[j].id \in Int /\ l[j].prio \in Int
      BY <1>1, <1>2, <1>3, <1>8
    <3> QED
      BY <1>6, <3>1, <3>2, NotBefore
  <2>2. CASE a = z
    BY <2>1, <2>2
  <2>3. CASE a < z
    <3>1. Precedes(f.seen[a], f.seen[z])
      BY <1>8, <1>9, <2>3 DEF FrameInv, SeenInOrder
    <3>2. /\ f.seen[a].id \in Nat /\ f.seen[a].prio \in Int
          /\ f.seen[z].id \in Nat /\ f.seen[z].prio \in Int
          /\ l[j].id \in Nat /\ l[j].prio \in Int
      BY <1>1, <1>2, <1>8, Zenon
    <3> QED
      BY <2>1, <3>1, <3>2 DEF Precedes
  <2> QED
    BY <1>1, <2>2, <2>3
<1> QED
  <2>1. i \in DOMAIN l /\ l[i] \in Entries
    BY <1>2, <1>3
  <2> QED
    BY <1>3, <1>4, <1>5, <1>6, <1>9, <2>1 DEF l, i, k, z, q

-----------------------------------------------------------------------------
(* Stacks.                                                                 *)

\* The innermost call.
LEMMA TopParts ==
  ASSUME SyncType, NEW t \in Threads, stack[t] # <<>>
  PROVE  /\ stack[t] \in Seq(FrameSet) /\ Len(stack[t]) \in Nat /\ Len(stack[t]) >= 1
         /\ Len(stack[t]) \in DOMAIN stack[t] /\ DOMAIN stack[t] = 1..Len(stack[t])
         /\ Top(t) = stack[t][Len(stack[t])] /\ Top(t) \in FrameSet
<1>1. stack[t] \in Seq(FrameSet)
  BY DEF SyncType
<1>2. /\ Len(stack[t]) \in Nat /\ Len(stack[t]) >= 1 /\ Len(stack[t]) \in DOMAIN stack[t]
      /\ DOMAIN stack[t] = 1..Len(stack[t])
  BY <1>1
<1>3. Top(t) = stack[t][Len(stack[t])] /\ Top(t) \in FrameSet
  BY <1>1, <1>2 DEF Top, Last
<1> QED
  BY <1>1, <1>2, <1>3

\* A stack without its innermost call.
LEMMA FrontParts ==
  ASSUME NEW S, NEW s \in Seq(S), s # <<>>
  PROVE  /\ Front(s) \in Seq(S) /\ Len(Front(s)) = Len(s) - 1
         /\ \A i \in DOMAIN Front(s) : i \in DOMAIN s /\ i < Len(s) /\ Front(s)[i] = s[i]
         /\ \A i \in DOMAIN s : i < Len(s) => i \in DOMAIN Front(s)
<1> DEFINE n == Len(s) - 1
           m == SubSeq(s, 1, n)
<1>1. /\ n \in 0..Len(s) /\ Len(s) \in Nat /\ DOMAIN s = 1..Len(s) /\ n < Len(s)
      /\ \A i \in DOMAIN s : i < Len(s) <=> i <= n
  OBVIOUS
<1>2. Front(s) = m
  BY DEF Front
<1> HIDE DEF n
<1>3. m \in Seq(S) /\ Len(m) = n /\ \A i \in 1..n : m[i] = s[i]
  BY <1>1
<1> HIDE DEF m
<1>4. DOMAIN m = 1..n
  BY <1>3
<1> QED
  BY <1>1, <1>2, <1>3, <1>4 DEF n

\* A step changes the stack of one thread.
LEMMA StackStep ==
  ASSUME SyncType, ListsInOrder, FramesInOrder, Inherited, NEW t \in Threads, NEW s \in Seq(FrameSet),
         stack' = [stack EXCEPT ![t] = s], \A i \in DOMAIN s : FrameInv(s[i])
  PROVE  /\ stack' \in [Threads -> Seq(FrameSet)] /\ FramesInOrder'
         /\ stack'[t] = s /\ \A u \in Threads : u # t => stack'[u] = stack[u]
<1>1. /\ stack' \in [Threads -> Seq(FrameSet)] /\ stack'[t] = s
      /\ \A u \in Threads : u # t => stack'[u] = stack[u]
  BY DEF SyncType
<1>2. ASSUME NEW u \in Threads, NEW i \in DOMAIN stack'[u] PROVE FrameInv(stack'[u][i])
  BY <1>1 DEF FramesInOrder
<1>3. ASSUME NEW u \in Threads, NEW i \in DOMAIN stack'[u] PROVE stack'[u][i] \in FrameSet
  <2>1. stack'[u] \in Seq(FrameSet)
    BY <1>1
  <2> QED
    BY <2>1
<1>4. ASSUME NEW f \in FrameSet, FrameInv(f) PROVE FrameInv(f)'
  BY <1>4, FrameKept
<1>5. FramesInOrder'
  BY <1>2, <1>3, <1>4 DEF FramesInOrder
<1> QED
  BY <1>1, <1>5

\* A step changes no stack.
LEMMA SameStacks ==
  ASSUME SyncType, ListsInOrder, FramesInOrder, Inherited, stack' = stack PROVE FramesInOrder'
<1>1. ASSUME NEW f \in FrameSet, FrameInv(f) PROVE FrameInv(f)'
  BY <1>1, FrameKept
<1>2. ASSUME NEW u \in Threads, NEW i \in DOMAIN stack[u] PROVE stack[u][i] \in FrameSet
  <2>1. stack[u] \in Seq(FrameSet)
    BY DEF SyncType
  <2> QED
    BY <2>1
<1> QED
  BY <1>1, <1>2 DEF FramesInOrder

\* A call returns from one list.
LEMMA AfterListParts ==
  ASSUME SyncType, NEW t \in Threads, stack[t] # <<>>, FrameInv(Top(t))
  PROVE  /\ AfterList(stack[t], Top(t)) \in Seq(FrameSet)
         /\ Len(AfterList(stack[t], Top(t))) <= Len(stack[t])
         /\ \A i \in DOMAIN AfterList(stack[t], Top(t)) :
              \/ i \in DOMAIN stack[t] /\ i < Len(stack[t]) /\ AfterList(stack[t], Top(t))[i] = stack[t][i]
              \/ /\ i = Len(stack[t]) /\ i = Len(AfterList(stack[t], Top(t)))
                 /\ AfterList(stack[t], Top(t))[i] \in FrameSet
                 /\ FrameInv(AfterList(stack[t], Top(t))[i]) /\ ~Looping(AfterList(stack[t], Top(t))[i])
         /\ \A i \in DOMAIN stack[t] : i < Len(stack[t]) =>
              i \in DOMAIN AfterList(stack[t], Top(t)) /\ AfterList(stack[t], Top(t))[i] = stack[t][i]
<1> DEFINE f == Top(t)
           s == stack[t]
           m == AfterList(s, f)
<1>1. /\ s \in Seq(FrameSet) /\ f \in FrameSet /\ s # <<>> /\ Len(s) \in Nat /\ DOMAIN s = 1..Len(s)
      /\ FrameInv(f)
  BY TopParts
<1> HIDE DEF f, s
<1>2. CASE f.pass = 1 /\ f.inc # All
  <2> DEFINE g == SecondPass(f)
  <2>1. g \in FrameSet /\ FrameInv(g) /\ ~Looping(g)
    BY <1>1, <1>2, SecondPassInv
  <2>2. m = WithTop(s, g)
    BY <1>2 DEF AfterList
  <2> HIDE DEF g, m
  <2>3. /\ m \in Seq(FrameSet) /\ Len(m) = Len(s) /\ DOMAIN m = DOMAIN s /\ m[Len(s)] = g
        /\ \A i \in DOMAIN s : i # Len(s) => m[i] = s[i]
    BY <1>1, <2>1, <2>2 DEF WithTop
  <2> QED
    BY <1>1, <2>1, <2>3 DEF f, s, m
<1>3. CASE ~(f.pass = 1 /\ f.inc # All)
  <2>1. m = Front(s)
    BY <1>3 DEF AfterList
  <2> HIDE DEF m
  <2>2. /\ m \in Seq(FrameSet) /\ Len(m) = Len(s) - 1
        /\ \A i \in DOMAIN m : i \in DOMAIN s /\ i < Len(s) /\ m[i] = s[i]
        /\ \A i \in DOMAIN s : i < Len(s) => i \in DOMAIN m
    BY <1>1, <2>1, FrontParts
  <2> QED
    BY <1>1, <2>2 DEF f, s, m
<1> QED
  BY <1>2, <1>3

-----------------------------------------------------------------------------
(* The steps, and what they do to lists and frames.                        *)

\* What a thread may call.
LEMMA CallsAreRequests ==
  ASSUME ServedInv, NEW t \in Threads, Calling(t), NEW x \in Calls(t) PROVE x \in Requests
<1>1. CASE stack[t] = <<>>
  BY <1>1, ClientsAssumption DEF Calls, ServedInv, SyncType
<1>2. CASE stack[t] # <<>>
  <2>1. FrameInv(Top(t)) /\ Looping(Top(t))
    BY <1>2, TopParts DEF ServedInv, FramesInOrder, Calling, Looping
  <2>2. Top(t).lis \in Listeners
    BY <2>1 DEF FrameInv
  <2> QED
    BY <1>2, <2>2, ClientsAssumption DEF Calls, ServedInv, SyncType
<1> QED
  BY <1>1, <1>2

\* addListener, by a thread or at the start.
LEMMA AddServed ==
  ASSUME ServedInv, NEW x \in Registrations, AddListener(x), UNCHANGED <<client, stack>>
  PROVE  ServedInv' /\ Inherited
<1>1. /\ listeners' \in [IncidentTypes -> Seq(Entries)] /\ nextId' \in Nat \ {0}
      /\ nodes' \in [IncidentTypes -> Seq(Nat)] /\ ListsInOrder' /\ Inherited
  BY AddedLists DEF ServedInv
<1>2. FramesInOrder'
  BY <1>1, SameStacks DEF ServedInv
<1> QED
  BY <1>1, <1>2 DEF ServedInv, SyncType

\* removeListener.
LEMMA RemovedLists ==
  ASSUME SyncType, NEW x \in Requests, x.op = "remove", RemoveListener(x)
  PROVE  /\ listeners' \in [IncidentTypes -> Seq(Entries)] /\ nextId' = nextId
         /\ EraseTail /\ \A k \in IncidentTypes : From(listeners'[k], listeners[k])
         /\ \E schedule \in ScheduleForRemoval(x.type) :
              /\ schedule \in BOOLEAN
              /\ \A k \in IncidentTypes :
                   listeners'[k] = IF x.type \in {"", k} THEN RemoveFromList(listeners[k], x.lis, schedule)
                                   ELSE listeners[k]
<1>1. nextId' = nextId /\ EraseTail /\ Types = IncidentTypes /\ \A k \in IncidentTypes : listeners[k] \in Seq(Entries)
  BY DEF RemoveListener, Types, SyncType
<1>2. PICK schedule \in ScheduleForRemoval(x.type) :
        listeners' = [t \in Types |-> IF x.type \in {"", t} THEN RemoveFromList(listeners[t], x.lis, schedule)
                                      ELSE listeners[t]]
  BY DEF RemoveListener
<1>3. schedule \in BOOLEAN
  BY DEF ScheduleForRemoval
<1>4. /\ DOMAIN listeners' = IncidentTypes
      /\ \A k \in IncidentTypes :
           listeners'[k] = IF x.type \in {"", k} THEN RemoveFromList(listeners[k], x.lis, schedule)
                           ELSE listeners[k]
  BY <1>1, <1>2
<1>5. \A k \in IncidentTypes : From(listeners[k], listeners[k])
  BY FromPlaces DEF SameKey
<1>6. \A k \in IncidentTypes : /\ RemoveFromList(listeners[k], x.lis, schedule) \in Seq(Entries)
                               /\ From(RemoveFromList(listeners[k], x.lis, schedule), listeners[k])
  BY <1>1, <1>3, RemovedList
<1>7. \A k \in IncidentTypes : listeners'[k] \in Seq(Entries) /\ From(listeners'[k], listeners[k])
  BY <1>1, <1>4, <1>5, <1>6
<1>8. listeners' = [t \in IncidentTypes |-> listeners'[t]]
  BY <1>1, <1>2
<1>9. listeners' \in [IncidentTypes -> Seq(Entries)]
  BY <1>7, <1>8, Zenon
<1> QED
  BY <1>1, <1>3, <1>4, <1>7, <1>9, Zenon

\* A listener is removed.
LEMMA RemoveServed ==
  ASSUME ServedInv, NEW x \in Requests, x.op = "remove", RemoveListener(x), UNCHANGED <<client, stack>>
  PROVE  ServedInv' /\ Inherited
<1>1. /\ listeners' \in [IncidentTypes -> Seq(Entries)] /\ nextId' = nextId /\ EraseTail
      /\ \A k \in IncidentTypes : From(listeners'[k], listeners[k])
  BY RemovedLists DEF ServedInv
<1>2. NodesStay
  BY <1>1, TailErased DEF ServedInv, ListsInOrder
<1>3. ListsInOrder' /\ Inherited
  BY <1>1, <1>2, ShrunkLists DEF ServedInv
<1>4. FramesInOrder'
  BY <1>3, SameStacks DEF ServedInv
<1> QED
  BY <1>1, <1>2, <1>3, <1>4 DEF ServedInv, SyncType, NodesStay

\* A step that leaves the lists alone,
LEMMA SameLists ==
  ASSUME SyncType, ListsInOrder, UNCHANGED <<listeners, nodes, nextId>>
  PROVE  ListsInOrder' /\ Inherited
<1>1. \A k \in IncidentTypes : From(listeners'[k], listeners[k])
  BY FromPlaces DEF SameKey
<1>2. listeners' \in [IncidentTypes -> Seq(Entries)]
  BY DEF SyncType
<1>3. NodesStay
  BY DEF NodesStay, SyncType, ListsInOrder, NodesInOrder
<1> QED
  BY <1>1, <1>2, <1>3, ShrunkLists

\* and changes one stack.
LEMMA FrameStepServed ==
  ASSUME ServedInv, NEW t \in Threads, NEW s \in Seq(FrameSet), \A i \in DOMAIN s : FrameInv(s[i]),
         stack' = [stack EXCEPT ![t] = s], UNCHANGED <<client, listeners, nodes, nextId>>
  PROVE  ServedInv' /\ Inherited
<1>1. ListsInOrder' /\ Inherited
  BY SameLists DEF ServedInv
<1>2. stack' \in [Threads -> Seq(FrameSet)] /\ FramesInOrder'
  BY <1>1, StackStep DEF ServedInv
<1> QED
  BY <1>1, <1>2 DEF ServedInv, SyncType

\* fireIncident is called,
LEMMA FireServed ==
  ASSUME ServedInv, NEW t \in Threads, NEW x \in Requests, x.op = "fire",
         stack' = [stack EXCEPT ![t] = Append(@, NewFrame(x.type))],
         UNCHANGED <<client, listeners, nodes, nextId>>
  PROVE  ServedInv' /\ Inherited
<1> DEFINE f == NewFrame(x.type)
           s == Append(stack[t], f)
<1>1. x.type \in IncidentTypes
  BY DEF Requests, Registrations
<1>2. f \in FrameSet /\ FrameInv(f)
  BY <1>1, NewFrameInv
<1>3. stack[t] \in Seq(FrameSet) /\ \A i \in DOMAIN stack[t] : FrameInv(stack[t][i])
  BY DEF ServedInv, SyncType, FramesInOrder
<1>4. stack' = [stack EXCEPT ![t] = s]
  OBVIOUS
<1> HIDE DEF f
<1>5. s \in Seq(FrameSet) /\ \A i \in DOMAIN s : FrameInv(s[i])
  <2>1. s \in Seq(FrameSet) /\ \A i \in DOMAIN s : (i \in DOMAIN stack[t] /\ s[i] = stack[t][i]) \/ s[i] = f
    BY <1>2, <1>3
  <2> QED
    BY <1>2, <1>3, <2>1
<1> HIDE DEF s
<1> QED
  BY <1>4, <1>5, FrameStepServed

\* finds no listener,
LEMMA PassServed ==
  ASSUME ServedInv, NEW t \in Threads, stack[t] # <<>>,
         stack' = [stack EXCEPT ![t] = AfterList(@, Top(t))],
         UNCHANGED <<client, listeners, nodes, nextId>>
  PROVE  ServedInv' /\ Inherited
<1> DEFINE s == AfterList(stack[t], Top(t))
<1>1. FrameInv(Top(t)) /\ \A i \in DOMAIN stack[t] : FrameInv(stack[t][i])
  BY TopParts DEF ServedInv, FramesInOrder
<1>2. s \in Seq(FrameSet) /\ \A i \in DOMAIN s : (i \in DOMAIN stack[t] /\ s[i] = stack[t][i]) \/ FrameInv(s[i])
  BY <1>1, AfterListParts DEF ServedInv
<1>3. stack' = [stack EXCEPT ![t] = s]
  OBVIOUS
<1> HIDE DEF s
<1>4. \A i \in DOMAIN s : FrameInv(s[i])
  BY <1>1, <1>2
<1> QED
  BY <1>2, <1>3, <1>4, FrameStepServed

\* calls a listener,
LEMMA CallServed ==
  ASSUME ServedInv, NEW t \in Threads, stack[t] # <<>>, NEW f \in FrameSet,
         NEW i \in DOMAIN listeners[ListOf(f)],
         FrameInv(AtNode(f, listeners[ListOf(f)], i)),
         listeners' = [listeners EXCEPT ![ListOf(f)] = Called(@, i)],
         stack' = [stack EXCEPT ![t] = WithTop(@, AtNode(f, listeners[ListOf(f)], i))],
         UNCHANGED <<client, nodes, nextId>>
  PROVE  ServedInv' /\ Inherited
<1> DEFINE k == ListOf(f)
           g == AtNode(f, listeners[k], i)
           s == WithTop(stack[t], g)
           l == Called(listeners[k], i)
<1>1. k \in IncidentTypes /\ listeners \in [IncidentTypes -> Seq(Entries)] /\ listeners[k] \in Seq(Entries)
  BY FrameParts DEF ServedInv, SyncType
<1>2. l \in Seq(Entries) /\ From(l, listeners[k]) /\ Len(l) = Len(listeners[k])
  BY <1>1, CalledList
<1>3. g \in FrameSet /\ FrameInv(g)
  BY <1>1, NodeParts, AtNodeParts DEF ServedInv
<1>4. listeners' = [listeners EXCEPT ![k] = l] /\ stack' = [stack EXCEPT ![t] = s]
  OBVIOUS
<1> HIDE DEF k, g, l
<1>5. /\ listeners' \in [IncidentTypes -> Seq(Entries)] /\ listeners'[k] = l
      /\ \A m \in IncidentTypes : m # k => listeners'[m] = listeners[m]
  BY <1>1, <1>2, <1>4
<1>6. \A m \in IncidentTypes : From(listeners'[m], listeners[m])
  <2>1. \A m \in IncidentTypes : From(listeners[m], listeners[m])
    BY FromPlaces DEF SameKey
  <2> QED
    BY <1>2, <1>5, <2>1
<1>7. ListsInOrder' /\ Inherited
  <2>1. \A m \in IncidentTypes : Len(nodes[m]) = Len(listeners'[m])
    BY <1>2, <1>5 DEF ServedInv, ListsInOrder, NodesInOrder
  <2>2. NodesStay
    BY <2>1 DEF NodesStay, ServedInv, SyncType
  <2> QED
    BY <1>5, <1>6, <2>2, ShrunkLists DEF ServedInv
<1>8. stack[t] \in Seq(FrameSet) /\ \A j \in DOMAIN stack[t] : FrameInv(stack[t][j])
  BY DEF ServedInv, SyncType, FramesInOrder
<1>9. s \in Seq(FrameSet) /\ \A j \in DOMAIN s : (j \in DOMAIN stack[t] /\ s[j] = stack[t][j]) \/ s[j] = g
  BY <1>3, <1>8 DEF WithTop
<1> HIDE DEF s
<1>10. \A j \in DOMAIN s : FrameInv(s[j])
  BY <1>3, <1>8, <1>9
<1>11. stack' \in [Threads -> Seq(FrameSet)] /\ FramesInOrder'
  BY <1>4, <1>7, <1>9, <1>10, StackStep DEF ServedInv
<1> QED
  BY <1>5, <1>7, <1>11 DEF ServedInv, SyncType

\* What the frame is when a loop begins.
LEMMA EnteredFrame ==
  ASSUME SyncType, NEW f \in FrameSet, NEW k \in IncidentTypes
  PROVE  LET g == [f EXCEPT !.shot = FALSE, !.due = Ids(listeners[k])]
         IN  /\ g \in FrameSet /\ g.inc = f.inc /\ g.pass = f.pass /\ g.due = Ids(listeners[k])
             /\ g.seen = f.seen /\ ListOf(g) = ListOf(f)
<1> DEFINE ids == Ids(listeners[k])
           h   == [f EXCEPT !.shot = FALSE]
           g   == [f EXCEPT !.shot = FALSE, !.due = ids]
<1>1. ids \in SUBSET Nat
  BY EntryParts DEF Ids
<1>2. h \in FrameSet /\ h.inc = f.inc /\ h.pass = f.pass /\ h.seen = f.seen
  BY DEF FrameSet
<1>3. g = [h EXCEPT !.due = ids]
  OBVIOUS
<1> HIDE DEF h, g, ids
<1>4. g \in FrameSet /\ g.inc = f.inc /\ g.pass = f.pass /\ g.due = ids /\ g.seen = f.seen
  BY <1>1, <1>2, <1>3 DEF FrameSet
<1>5. ListOf(g) = ListOf(f)
  BY <1>4 DEF ListOf
<1> QED
  BY <1>4, <1>5 DEF g, ids

\* the first one of a list
LEMMA EnterServed ==
  ASSUME ServedInv, NEW t \in Threads, EnterList(t) PROVE ServedInv' /\ Inherited
<1> DEFINE f == Top(t)
           k == ListOf(f)
           l == listeners[k]
           g == [f EXCEPT !.shot = FALSE, !.due = Ids(l)]
<1>1. /\ stack[t] # <<>> /\ f.in = "enter" /\ UNCHANGED <<client, nodes, left, nextId, missed, escaped>>
      /\ \/ stack' = [stack EXCEPT ![t] = AfterList(@, f)] /\ UNCHANGED <<listeners, current>>
         \/ /\ l # <<>> /\ listeners' = [listeners EXCEPT ![k] = Called(@, 1)]
            /\ stack' = [stack EXCEPT ![t] = WithTop(@, AtNode(g, l, 1))]
  BY DEF EnterList
<1>2. f \in FrameSet /\ FrameInv(f) /\ ~Looping(f) /\ k \in IncidentTypes
  BY <1>1, TopParts, FrameParts DEF ServedInv, FramesInOrder, Looping
<1>3. CASE stack' = [stack EXCEPT ![t] = AfterList(@, f)] /\ UNCHANGED <<listeners, current>>
  BY <1>1, <1>3, PassServed
<1>4. CASE /\ l # <<>> /\ listeners' = [listeners EXCEPT ![k] = Called(@, 1)]
           /\ stack' = [stack EXCEPT ![t] = WithTop(@, AtNode(g, l, 1))]
  <2>1. l \in Seq(Entries) /\ 1 \in DOMAIN l /\ \A j \in DOMAIN l : ~(j < 1)
    BY <1>2, <1>4 DEF ServedInv, SyncType
  <2>2. \A d \in Ids(l) : d < nextId
    <3>1. \A j \in DOMAIN l : l[j].id < nextId
      BY <1>2 DEF ServedInv, ListsInOrder
    <3> QED
      BY <3>1 DEF Ids
  <2>3. g \in FrameSet /\ g.inc = f.inc /\ g.pass = f.pass /\ g.due = Ids(l) /\ g.seen = f.seen
    BY <1>2, EnteredFrame DEF ServedInv
  <2>4. ListOf(g) = k
    BY <2>3 DEF ListOf
  <2> HIDE DEF g
  <2>5. /\ g.pass = 2 => g.inc # All
        /\ \A d \in g.due : d < nextId
        /\ SeenWhere(g) /\ SeenInOrder(g.seen)
        /\ \A a \in DOMAIN g.seen : g.seen[a].pass < g.pass /\ g.seen[a].pass \in {1, 2}
    BY <1>2, <2>2, <2>3, FrameParts DEF FrameInv, SeenWhere, Home
  <2>6. \A a \in DOMAIN g.seen : g.seen[a].pass # g.pass
    BY <2>3, <2>5, FrameParts
  <2>7. FrameInv(AtNode(g, listeners[ListOf(g)], 1))
    BY <2>1, <2>3, <2>4, <2>5, <2>6, AtNodeInv DEF ServedInv
  <2> QED
    BY <1>1, <1>4, <2>1, <2>3, <2>4, <2>7, CallServed
<1> QED
  BY <1>1, <1>3, <1>4

\* What firedSingleShot becomes.
LEMMA ShotFrame ==
  ASSUME NEW f \in FrameSet, Here(f) \in Entries
  PROVE  /\ Shot(f) \in BOOLEAN /\ [f EXCEPT !.shot = Shot(f)] \in FrameSet
         /\ [f EXCEPT !.shot = Shot(f)].inc = f.inc /\ [f EXCEPT !.shot = Shot(f)].pass = f.pass
         /\ [f EXCEPT !.shot = Shot(f)].due = f.due /\ [f EXCEPT !.shot = Shot(f)].seen = f.seen
         /\ [f EXCEPT !.shot = Shot(f)].shot = Shot(f)
<1> DEFINE b == Shot(f)
           g == [f EXCEPT !.shot = b]
<1>1. f.shot \in BOOLEAN /\ Here(f).single \in BOOLEAN
  BY Zenon DEF FrameSet, Entries
<1>2. b \in BOOLEAN
  BY <1>1, Zenon DEF Shot
<1> HIDE DEF b
<1>3. g.inc = f.inc /\ g.pass = f.pass /\ g.due = f.due /\ g.seen = f.seen
  BY DEF FrameSet
<1>4. g.shot = b
  BY Zenon DEF FrameSet
<1>5. g \in FrameSet
  <2>1. ASSUME NEW B, NEW c \in B,
               NEW h \in [inc : IncidentTypes, pass : {1, 2}, at : Int, lis : Listeners \cup {Null}, shot : B,
                          in : {"enter", "handle", "throw"}, due : SUBSET Nat, seen : Seq(Calleds)]
        PROVE  [h EXCEPT !.shot = c] \in
                 [inc : IncidentTypes, pass : {1, 2}, at : Int, lis : Listeners \cup {Null}, shot : B,
                  in : {"enter", "handle", "throw"}, due : SUBSET Nat, seen : Seq(Calleds)]
    OBVIOUS
  <2> QED
    BY <1>2, <2>1, Zenon DEF FrameSet
<1> QED
  BY <1>2, <1>3, <1>4, <1>5 DEF b

\* What the erasure leaves.
LEMMA SurvivorsList ==
  ASSUME SyncType, NEW f \in FrameSet, Here(f) \in Entries
  PROVE  /\ Survivors(f) \in Seq(Entries) /\ From(Survivors(f), listeners[ListOf(f)])
         /\ \A j \in DOMAIN Survivors(f) :
              \E i \in DOMAIN listeners[ListOf(f)] :
                Survivors(f)[j] = listeners[ListOf(f)][i] /\ (Shot(f) => ~listeners[ListOf(f)][i].single)
<1> DEFINE l == listeners[ListOf(f)]
           S == {i \in DOMAIN l : ~l[i].single}
<1>1. l \in Seq(Entries) /\ Shot(f) \in BOOLEAN
  BY FrameParts, ShotFrame DEF SyncType
<1>2. From(l, l)
  BY FromPlaces DEF SameKey
<1>3. S \in SUBSET DOMAIN l /\ \A i \in S : ~l[i].single
  OBVIOUS
<1>4. CASE Shot(f)
  <2> DEFINE m == Survivors(f)
  <2>1. m = Selected(l, S)
    BY <1>4 DEF Survivors
  <2> HIDE DEF S, l, m
  <2>2. /\ m \in Seq(Entries) /\ From(m, l)
        /\ \A k \in DOMAIN m : \E i \in S : m[k] = l[i]
    BY <1>1, <1>3, <2>1, FromSelected
  <2>3. ASSUME NEW k \in DOMAIN m
        PROVE  \E i \in DOMAIN l : m[k] = l[i] /\ (Shot(f) => ~l[i].single)
    <3>1. PICK i \in S : m[k] = l[i]
      BY <2>2
    <3>2. i \in DOMAIN l /\ ~l[i].single
      BY <1>3, Zenon
    <3> QED
      BY <3>1, <3>2, Zenon
  <2> QED
    BY <2>2, <2>3, Zenon DEF l, m
<1>5. CASE ~Shot(f)
  <2>1. Survivors(f) = l
    BY <1>5 DEF Survivors
  <2> QED
    BY <1>1, <1>2, <1>5, <2>1, Zenon
<1> QED
  BY <1>1, <1>4, <1>5

\* and the next one, or none.
LEMMA NextServed ==
  ASSUME ServedInv, NEW t \in Threads, stack[t] # <<>>, Looping(Top(t)), IteratorValid(Top(t)),
         NextNode(t, Top(t)), UNCHANGED <<client, nextId>>
  PROVE  ServedInv' /\ Inherited
<1> DEFINE f == Top(t)
           k == ListOf(f)
           l == listeners[k]
           i == Place(f)
           g == [f EXCEPT !.shot = Shot(f)]
<1>1. f \in FrameSet /\ FrameInv(f) /\ Looping(f) /\ k \in IncidentTypes /\ l \in Seq(Entries)
  BY TopParts, FrameParts DEF ServedInv, FramesInOrder, SyncType
<1>2. /\ i \in DOMAIN l /\ Here(f) \in Entries
      /\ \A j \in DOMAIN l : j > i => \A a \in DOMAIN f.seen : f.seen[a].pass = f.pass => Precedes(f.seen[a], l[j])
  BY <1>1, LoopPosition DEF ServedInv
<1>3. \/ /\ i < Len(l) /\ listeners' = [listeners EXCEPT ![k] = Called(@, i + 1)]
         /\ stack' = [stack EXCEPT ![t] = WithTop(@, AtNode(g, l, i + 1))] /\ nodes' = nodes
      \/ /\ i = Len(l) /\ listeners' = [listeners EXCEPT ![k] = Survivors(f)] /\ EraseTail
         /\ stack' = [stack EXCEPT ![t] = AfterList(@, f)]
  BY DEF NextNode
<1>4. CASE /\ i < Len(l) /\ listeners' = [listeners EXCEPT ![k] = Called(@, i + 1)]
           /\ stack' = [stack EXCEPT ![t] = WithTop(@, AtNode(g, l, i + 1))] /\ nodes' = nodes
  <2>1. g \in FrameSet /\ g.inc = f.inc /\ g.pass = f.pass /\ g.due = f.due /\ g.seen = f.seen
    BY <1>1, <1>2, ShotFrame
  <2>2. i + 1 \in DOMAIN l /\ i + 1 > i 
    BY <1>1, <1>2, <1>4
  <2> HIDE DEF g, i
  <2>3. ListOf(g) = k /\ SeenWhere(g)
    BY <1>1, <2>1 DEF ListOf, FrameInv, SeenWhere, Home
  <2>4. \A a \in DOMAIN g.seen : g.seen[a].pass = g.pass => Precedes(g.seen[a], l[i + 1])
    BY <1>2, <2>1, <2>2
  <2>5. /\ g.pass = 2 => g.inc # All
        /\ \A d \in g.due : d < nextId
        /\ SeenInOrder(g.seen)
    BY <1>1, <2>1 DEF FrameInv
  <2>6. FrameInv(AtNode(g, listeners[ListOf(g)], i + 1))
    BY <2>1, <2>2, <2>3, <2>4, <2>5, AtNodeInv DEF ServedInv
  <2> QED
    BY <1>4, <2>1, <2>2, <2>3, <2>6, CallServed
<1>5. CASE /\ i = Len(l) /\ listeners' = [listeners EXCEPT ![k] = Survivors(f)] /\ EraseTail
           /\ stack' = [stack EXCEPT ![t] = AfterList(@, f)]
  <2> DEFINE m == Survivors(f)
             s == AfterList(stack[t], f)
  <2>1. m \in Seq(Entries) /\ From(m, l)
    BY <1>1, <1>2, SurvivorsList DEF ServedInv
  <2>2. listeners' = [listeners EXCEPT ![k] = m] /\ stack' = [stack EXCEPT ![t] = s]
    BY <1>5
  <2> HIDE DEF m
  <2>3. listeners' \in [IncidentTypes -> Seq(Entries)] /\ \A o \in IncidentTypes : From(listeners'[o], listeners[o])
    <3>1. \A o \in IncidentTypes : From(listeners[o], listeners[o])
      BY FromPlaces DEF SameKey
    <3>2. listeners \in [IncidentTypes -> Seq(Entries)]
      BY DEF ServedInv, SyncType
    <3>3. /\ listeners' \in [IncidentTypes -> Seq(Entries)] /\ listeners'[k] = m
          /\ \A o \in IncidentTypes : o # k => listeners'[o] = listeners[o]
      BY <1>1, <2>1, <2>2, <3>2
    <3> QED
      BY <2>1, <3>1, <3>3
  <2>4. NodesStay
    BY <1>5, <2>3, TailErased DEF ServedInv, ListsInOrder
  <2>5. ListsInOrder' /\ Inherited
    BY <2>3, <2>4, ShrunkLists DEF ServedInv
  <2>6. \A j \in DOMAIN stack[t] : FrameInv(stack[t][j])
    BY DEF ServedInv, FramesInOrder
  <2>7. s \in Seq(FrameSet) /\ \A j \in DOMAIN s : (j \in DOMAIN stack[t] /\ s[j] = stack[t][j]) \/ FrameInv(s[j])
    BY <1>1, AfterListParts DEF ServedInv
  <2> HIDE DEF s
  <2>8. \A j \in DOMAIN s : FrameInv(s[j])
    BY <2>6, <2>7
  <2>9. stack' \in [Threads -> Seq(FrameSet)] /\ FramesInOrder'
    BY <2>2, <2>5, <2>7, <2>8, StackStep DEF ServedInv
  <2> QED
    BY <2>3, <2>5, <2>9, <2>4 DEF ServedInv, SyncType, NodesStay
<1> QED
  BY <1>3, <1>4, <1>5

\* A listener throws,
LEMMA ThrowServed ==
  ASSUME ServedInv, NEW t \in Threads, HandlerThrows(t) PROVE ServedInv' /\ Inherited
<1> DEFINE f == Top(t)
           g == Thrown(f)
           s == WithTop(stack[t], g)
<1>1. /\ stack[t] # <<>> /\ f.in = "handle" /\ stack' = [stack EXCEPT ![t] = s]
      /\ UNCHANGED <<client, listeners, nodes, nextId>>
  BY DEF HandlerThrows
<1>2. f \in FrameSet /\ FrameInv(f) /\ Looping(f) /\ stack[t] \in Seq(FrameSet)
  BY <1>1, TopParts DEF ServedInv, FramesInOrder, Looping
<1>3. g \in FrameSet /\ FrameInv(g)
  BY <1>2, ThrownInv
<1> HIDE DEF f, g
<1>4. s \in Seq(FrameSet) /\ \A j \in DOMAIN s : (j \in DOMAIN stack[t] /\ s[j] = stack[t][j]) \/ s[j] = g
  BY <1>1, <1>2, <1>3 DEF WithTop
<1> HIDE DEF s
<1>5. \A j \in DOMAIN s : FrameInv(s[j])
  BY <1>3, <1>4 DEF ServedInv, FramesInOrder
<1> QED
  BY <1>1, <1>4, <1>5, FrameStepServed

\* and the exception leaves the incident, and the handler that fired it.
LEMMA RethrowParts ==
  ASSUME ServedInv, Nested, NEW t \in Threads, stack[t] # <<>>
  PROVE  LET s == IF Len(stack[t]) = 1 THEN <<>> ELSE WithTop(Front(stack[t]), Thrown(Last(Front(stack[t]))))
         IN  /\ s \in Seq(FrameSet) /\ Len(s) = Len(stack[t]) - 1
             /\ \A j \in DOMAIN s :
                  /\ j \in DOMAIN stack[t] /\ j < Len(stack[t]) /\ FrameInv(s[j]) /\ Looping(s[j])
                  /\ s[j] = stack[t][j] \/ s[j] = Thrown(stack[t][j])
             /\ \A j \in DOMAIN stack[t] : j < Len(stack[t]) => j \in DOMAIN s
<1> DEFINE q == stack[t]
           r == Front(q)
           h == Last(r)
           g == Thrown(h)
           s == IF Len(q) = 1 THEN <<>> ELSE WithTop(r, g)
<1>1. q \in Seq(FrameSet) /\ q # <<>> /\ Len(q) \in Nat /\ Len(q) >= 1 /\ DOMAIN q = 1..Len(q)
  BY TopParts DEF ServedInv
<1>2. \A j \in DOMAIN q : FrameInv(q[j]) /\ (j < Len(q) => Looping(q[j]))
  BY DEF ServedInv, FramesInOrder, Nested
<1>3. /\ r \in Seq(FrameSet) /\ Len(r) = Len(q) - 1
      /\ \A i \in DOMAIN r : i \in DOMAIN q /\ i < Len(q) /\ r[i] = q[i]
      /\ \A i \in DOMAIN q : i < Len(q) => i \in DOMAIN r
  BY <1>1, FrontParts
<1> HIDE DEF q, r
<1>4. CASE Len(q) = 1
  <2>1. s = <<>> /\ DOMAIN s = {} /\ s \in Seq(FrameSet) /\ Len(s) = 0
    BY <1>4
  <2>2. \A j \in DOMAIN q : ~(j < Len(q))
    BY <1>1, <1>4
  <2> QED
    BY <1>1, <1>4, <2>1, <2>2 DEF q, r
<1>5. CASE Len(q) # 1
  <2>1. r # <<>> /\ Len(r) \in DOMAIN r /\ h = r[Len(r)]
    BY <1>1, <1>3, <1>5 DEF Last
  <2>2. h \in FrameSet /\ FrameInv(h) /\ Looping(h)
    BY <1>2, <1>3, <2>1
  <2>3. g \in FrameSet /\ FrameInv(g) /\ Looping(g)
    BY <2>2, ThrownInv
  <2>4. s = WithTop(r, g)
    BY <1>5
  <2>5. g = Thrown(r[Len(r)])
    BY <2>1
  <2> HIDE DEF g, s, h
  <2>6. /\ s \in Seq(FrameSet) /\ Len(s) = Len(r) /\ DOMAIN s = DOMAIN r /\ s[Len(r)] = g
        /\ \A i \in DOMAIN r : i # Len(r) => s[i] = r[i]
    BY <1>3, <2>1, <2>3, <2>4 DEF WithTop
  <2>7. ASSUME NEW j \in DOMAIN s
        PROVE  /\ j \in DOMAIN q /\ j < Len(q) /\ FrameInv(s[j]) /\ Looping(s[j])
               /\ s[j] = q[j] \/ s[j] = Thrown(q[j])
    <3>1. j \in DOMAIN r /\ r[j] = q[j] /\ j \in DOMAIN q /\ j < Len(q)
      BY <1>3, <2>6
    <3>2. CASE j = Len(r)
      BY <2>3, <2>5, <2>6, <3>1, <3>2
    <3>3. CASE j # Len(r)
      BY <1>2, <2>6, <3>1, <3>3
    <3> QED
      BY <3>2, <3>3
  <2> QED
    BY <1>3, <2>6, <2>7 DEF q, r, s, g, h
<1> QED
  BY <1>4, <1>5

\* So does the whole handler of an exception.
LEMMA CatchServed ==
  ASSUME ServedInv, Nested, NEW t \in Threads, CatchException(t) PROVE ServedInv' /\ Inherited
<1>1. /\ stack[t] # <<>> /\ Top(t).in = "throw" /\ IteratorValid(Top(t)) /\ UNCHANGED <<client, left, nextId>>
      /\ Swallow(t, Top(t)) \/ Rethrow(t, Top(t))
  BY DEF CatchException
<1>2. Looping(Top(t))
  BY <1>1 DEF Looping
<1>3. CASE Swallow(t, Top(t))
  BY <1>1, <1>2, <1>3, NextServed DEF Swallow
<1>4. CASE Rethrow(t, Top(t))
  <2> DEFINE s == IF Len(stack[t]) = 1 THEN <<>> ELSE WithTop(Front(stack[t]), Thrown(Last(Front(stack[t]))))
  <2>1. stack' = [stack EXCEPT ![t] = s] /\ UNCHANGED <<listeners, nodes>>
    BY <1>4 DEF Rethrow
  <2>2. s \in Seq(FrameSet) /\ \A j \in DOMAIN s : FrameInv(s[j])
    BY <1>1, RethrowParts
  <2> HIDE DEF s
  <2> QED
    BY <1>1, <2>1, <2>2, FrameStepServed
<1> QED
  BY <1>1, <1>3, <1>4

-----------------------------------------------------------------------------
(* The mutex and the pointer.                                              *)

\* A step of one thread: who may hold the mutex after it.
LEMMA LockStep ==
  ASSUME OneLooper, NEW t \in Threads, \A u \in Threads : u # t => stack'[u] = stack[u],
         LockIsFree(t) \/ (HasLock(t)' => HasLock(t))
  PROVE  OneLooper'
<1>1. \A u \in Threads : u # t => (HasLock(u)' <=> HasLock(u))
  BY DEF HasLock
<1> QED
  BY <1>1 DEF OneLooper, LockIsFree

\* The steps that leave m_currentIncidentType alone: no loop ends.
LEMMA PointerStep ==
  ASSUME LockInv, SyncType, NEW t \in Threads, NEW s \in Seq(FrameSet),
         stack' = [stack EXCEPT ![t] = s], UNCHANGED <<client, current>>,
         left' \in Nat, left' <= client.calls, left' <= left, Len(s) <= client.calls - left',
         \A i \in DOMAIN s : i < Len(s) => Looping(s[i]),
         \A i \in DOMAIN stack[t] : Looping(stack[t][i]) =>
           i \in DOMAIN s /\ Looping(s[i]) /\ s[i].inc = stack[t][i].inc,
         \A i \in DOMAIN s : Looping(s[i]) => HasLock(t)
  PROVE  LockInv'
<1>1. stack'[t] = s /\ \A u \in Threads : u # t => stack'[u] = stack[u]
  BY DEF SyncType
<1>2. Nested'
  BY <1>1 DEF LockInv, Nested, Looping
<1>3. OneLooper'
  <2>1. HasLock(t)' => HasLock(t)
    BY <1>1 DEF HasLock, Looping
  <2> QED
    BY <1>1, <2>1, LockStep DEF LockInv
<1>4. CallsBounded'
  <2>1. \A u \in Threads : Len(stack[u]) \in Nat /\ Len(stack[u]) <= client.calls - left
    <3>1. \A u \in Threads : stack[u] \in Seq(FrameSet)
      BY DEF SyncType
    <3> QED
      BY <3>1 DEF LockInv, CallsBounded
  <2>2. client.calls \in Nat /\ left \in Nat
    BY ClientsAssumption DEF LockInv, CallsBounded, SyncType
  <2>3. \A u \in Threads : Len(stack'[u]) <= client.calls - left'
    BY <1>1, <2>1, <2>2
  <2> QED
    BY <2>2, <2>3 DEF CallsBounded
<1>5. CurrentLives'
  <2>1. CASE current \in {Null, Freed}
    BY <2>1 DEF CurrentLives
  <2>2. ASSUME NEW u \in Threads, NEW i \in DOMAIN stack[u], Looping(stack[u][i]), stack[u][i].inc = current
        PROVE  CurrentLives'
    <3>1. i \in DOMAIN stack'[u] /\ Looping(stack'[u][i]) /\ stack'[u][i].inc = current'
      BY <1>1, <2>2
    <3> QED
      BY <3>1 DEF CurrentLives, Looping
  <2> QED
    BY <2>1, <2>2 DEF LockInv, CurrentLives
<1> QED
  BY <1>2, <1>3, <1>4, <1>5 DEF LockInv

\* Steps that leave the stacks alone.
LEMMA CallLocked ==
  ASSUME LockInv, SyncType, UNCHANGED <<client, current, stack>>, left' \in Nat, left' <= left
  PROVE  LockInv'
<1>1. Nested' /\ OneLooper' /\ CurrentLives'
  BY DEF LockInv, Nested, OneLooper, CurrentLives, HasLock, Looping
<1>2. client.calls \in Nat /\ \A u \in Threads : Len(stack[u]) \in Nat
  <2>1. \A u \in Threads : stack[u] \in Seq(FrameSet)
    BY DEF SyncType
  <2> QED
    BY <2>1, ClientsAssumption DEF SyncType
<1>3. CallsBounded'
  BY <1>2 DEF LockInv, CallsBounded
<1> QED
  BY <1>1, <1>3 DEF LockInv

\* A call of fireIncident.
LEMMA FireLocked ==
  ASSUME LockInv, SyncType, NEW t \in Threads, Calling(t), NEW f \in FrameSet, ~Looping(f),
         stack' = [stack EXCEPT ![t] = Append(@, f)], left > 0, left' = left - 1,
         UNCHANGED <<client, current>>
  PROVE  LockInv'
<1> DEFINE s == Append(stack[t], f)
<1>1. stack[t] \in Seq(FrameSet) /\ Len(stack[t]) \in Nat /\ DOMAIN stack[t] = 1..Len(stack[t])
  <2>1. stack[t] \in Seq(FrameSet)
    BY DEF SyncType
  <2> QED
    BY <2>1
<1>2. /\ s \in Seq(FrameSet) /\ Len(s) = Len(stack[t]) + 1 /\ DOMAIN s = 1..Len(stack[t]) + 1
      /\ s[Len(stack[t]) + 1] = f /\ \A i \in DOMAIN stack[t] : s[i] = stack[t][i]
  BY <1>1
<1>3. stack' = [stack EXCEPT ![t] = s]
  OBVIOUS
<1> HIDE DEF s
<1>4. \A i \in DOMAIN stack[t] : Looping(stack[t][i])
  <2>1. CASE stack[t] = <<>>
    BY <1>1, <2>1
  <2>2. CASE stack[t] # <<>>
    <3>1. Looping(stack[t][Len(stack[t])])
      BY <2>2, TopParts DEF Calling, Looping
    <3>2. \A i \in DOMAIN stack[t] : i < Len(stack[t]) => Looping(stack[t][i])
      BY DEF LockInv, Nested
    <3> QED
      BY <1>1, <3>1, <3>2
  <2> QED
    BY <2>1, <2>2
<1>5. /\ left' \in Nat /\ left' <= client.calls /\ left' <= left /\ Len(s) <= client.calls - left'
  <2>1. client.calls \in Nat /\ left \in Nat /\ left <= client.calls /\ Len(stack[t]) <= client.calls - left
    BY ClientsAssumption DEF LockInv, CallsBounded, SyncType
  <2> QED
    BY <1>1, <1>2, <2>1
<1>6. /\ \A i \in DOMAIN s : i < Len(s) => Looping(s[i])
      /\ \A i \in DOMAIN stack[t] : Looping(stack[t][i]) =>
           i \in DOMAIN s /\ Looping(s[i]) /\ s[i].inc = stack[t][i].inc
      /\ \A i \in DOMAIN s : Looping(s[i]) => HasLock(t)
  <2>1. \A i \in DOMAIN s : (i \in DOMAIN stack[t] /\ s[i] = stack[t][i]) \/ (i = Len(s) /\ s[i] = f)
    BY <1>1, <1>2
  <2>2. \A i \in DOMAIN s : i < Len(s) => i \in DOMAIN stack[t]
    BY <1>1, <1>2
  <2> QED
    BY <1>1, <1>2, <1>4, <2>1, <2>2 DEF HasLock
<1> QED
  BY <1>2, <1>3, <1>5, <1>6, PointerStep

\* The steps that set m_currentIncidentType.
LEMMA LockedStep ==
  ASSUME LockInv, SyncType, NEW t \in Threads, NEW s \in Seq(FrameSet),
         stack' = [stack EXCEPT ![t] = s], UNCHANGED <<client, left>>, Len(s) <= Len(stack[t]),
         \A i \in DOMAIN s : i < Len(s) => Looping(s[i]),
         LockIsFree(t) \/ HasLock(t),
         current' \in {Null, Freed} \/ \E i \in DOMAIN s : Looping(s[i]) /\ s[i].inc = current'
  PROVE  LockInv'
<1>1. stack'[t] = s /\ \A u \in Threads : u # t => stack'[u] = stack[u]
  BY DEF SyncType
<1>2. Nested'
  BY <1>1 DEF LockInv, Nested, Looping
<1>3. OneLooper'
  BY <1>1, LockStep DEF LockInv
<1>4. CallsBounded'
  <2>1. \A u \in Threads : Len(stack[u]) \in Nat /\ Len(stack[u]) <= client.calls - left
    <3>1. \A u \in Threads : stack[u] \in Seq(FrameSet)
      BY DEF SyncType
    <3> QED
      BY <3>1 DEF LockInv, CallsBounded
  <2>2. client.calls \in Nat /\ left \in Nat /\ Len(s) \in Nat
    BY ClientsAssumption DEF LockInv, CallsBounded, SyncType
  <2>3. \A u \in Threads : Len(stack'[u]) <= client.calls - left'
    BY <1>1, <2>1, <2>2
  <2> QED
    BY <2>2, <2>3 DEF LockInv, CallsBounded
<1>5. CurrentLives'
  BY <1>1 DEF CurrentLives, Looping
<1> QED
  BY <1>2, <1>3, <1>4, <1>5 DEF LockInv

\* The innermost call changes what it is at.
LEMMA TopLocked ==
  ASSUME LockInv, SyncType, NEW t \in Threads, stack[t] # <<>>, Looping(Top(t)),
         NEW g \in FrameSet, Looping(g), g.inc = Top(t).inc,
         stack' = [stack EXCEPT ![t] = WithTop(@, g)], UNCHANGED <<client, current, left>>
  PROVE  LockInv'
<1> DEFINE s == WithTop(stack[t], g)
<1>1. /\ stack[t] \in Seq(FrameSet) /\ Len(stack[t]) \in Nat /\ DOMAIN stack[t] = 1..Len(stack[t])
      /\ Top(t) = stack[t][Len(stack[t])] /\ Len(stack[t]) \in DOMAIN stack[t]
  BY TopParts
<1>2. stack' = [stack EXCEPT ![t] = s]
  OBVIOUS
<1>3. /\ s \in Seq(FrameSet) /\ Len(s) = Len(stack[t]) /\ DOMAIN s = DOMAIN stack[t] /\ s[Len(s)] = g
      /\ \A i \in DOMAIN s : i # Len(s) => s[i] = stack[t][i]
  BY <1>1 DEF WithTop
<1> HIDE DEF s
<1>4. HasLock(t)
  BY <1>1 DEF HasLock
<1>5. /\ \A i \in DOMAIN s : i < Len(s) => Looping(s[i])
      /\ \A i \in DOMAIN stack[t] : Looping(stack[t][i]) =>
           i \in DOMAIN s /\ Looping(s[i]) /\ s[i].inc = stack[t][i].inc
  BY <1>1, <1>3 DEF LockInv, Nested
<1>6. left' \in Nat /\ left' <= client.calls /\ left' <= left /\ Len(s) <= client.calls - left'
  BY <1>3 DEF LockInv, CallsBounded
<1> QED
  BY <1>2, <1>3, <1>4, <1>5, <1>6, PointerStep

\* i_fireIncident enters a list.
LEMMA EnterLocked ==
  ASSUME ServedInv, LockInv, NEW t \in Threads, EnterList(t) PROVE LockInv'
<1> DEFINE f == Top(t)
           l == listeners[ListOf(f)]
           g == [f EXCEPT !.shot = FALSE, !.due = Ids(l)]
           n == AtNode(g, l, 1)
<1>1. /\ stack[t] # <<>> /\ f.in = "enter" /\ UNCHANGED <<client, left>> /\ LockIsFree(t)
      /\ \/ stack' = [stack EXCEPT ![t] = AfterList(@, f)] /\ UNCHANGED current
         \/ l # <<>> /\ current' = f.inc /\ stack' = [stack EXCEPT ![t] = WithTop(@, n)]
  BY DEF EnterList
<1>2. /\ f \in FrameSet /\ FrameInv(f) /\ ~Looping(f) /\ ListOf(f) \in IncidentTypes
      /\ stack[t] \in Seq(FrameSet) /\ Len(stack[t]) \in Nat /\ DOMAIN stack[t] = 1..Len(stack[t])
      /\ f = stack[t][Len(stack[t])] /\ Len(stack[t]) \in DOMAIN stack[t]
  BY <1>1, TopParts, FrameParts DEF ServedInv, FramesInOrder, Looping
<1>3. \A i \in DOMAIN stack[t] : i < Len(stack[t]) <=> Looping(stack[t][i])
  BY <1>2 DEF LockInv, Nested
<1>4. CASE stack' = [stack EXCEPT ![t] = AfterList(@, f)] /\ UNCHANGED current
  <2> DEFINE s == AfterList(stack[t], f)
  <2>1. /\ s \in Seq(FrameSet) /\ Len(s) <= Len(stack[t])
        /\ \A i \in DOMAIN s : \/ i \in DOMAIN stack[t] /\ i < Len(stack[t]) /\ s[i] = stack[t][i]
                               \/ i = Len(s) /\ ~Looping(s[i])
        /\ \A i \in DOMAIN stack[t] : i < Len(stack[t]) => i \in DOMAIN s /\ s[i] = stack[t][i]
    BY <1>1, <1>2, AfterListParts DEF ServedInv
  <2>2. stack' = [stack EXCEPT ![t] = s]
    BY <1>4
  <2> HIDE DEF s, f
  <2>3. left \in Nat /\ left <= client.calls /\ Len(s) <= client.calls - left /\ left <= left
    <3>1. client.calls \in Nat /\ left \in Nat /\ left <= client.calls /\ Len(stack[t]) <= client.calls - left
      BY ClientsAssumption DEF LockInv, CallsBounded, ServedInv, SyncType
    <3>2. Len(s) \in Nat
      BY <2>1
    <3> QED
      BY <1>2, <2>1, <3>1, <3>2
  <2>4. \A i \in DOMAIN s : (i < Len(s) => Looping(s[i])) /\ (Looping(s[i]) => HasLock(t))
    <3>1. \A i \in DOMAIN s : i = Len(s) => ~(i < Len(s))
      BY <2>1
    <3> QED
      BY <1>3, <2>1, <3>1 DEF HasLock
  <2>5. \A i \in DOMAIN stack[t] : Looping(stack[t][i]) =>
          i \in DOMAIN s /\ Looping(s[i]) /\ s[i].inc = stack[t][i].inc
    BY <1>3, <2>1
  <2> QED
    BY <1>1, <1>4, <2>1, <2>2, <2>3, <2>4, <2>5, PointerStep DEF ServedInv
<1>5. CASE l # <<>> /\ current' = f.inc /\ stack' = [stack EXCEPT ![t] = WithTop(@, n)]
  <2> DEFINE s == WithTop(stack[t], n)
  <2>1. l \in Seq(Entries) /\ 1 \in DOMAIN l
    BY <1>2, <1>5 DEF ServedInv, SyncType
  <2>2. g \in FrameSet /\ g.inc = f.inc /\ ListOf(g) = ListOf(f)
    BY <1>2, <2>1, EnteredFrame DEF ServedInv
  <2>3. n \in FrameSet /\ n.inc = f.inc /\ Looping(n)
    <3>1. nodes[ListOf(g)][1] \in Nat
      BY <1>2, <2>1, <2>2, NodeParts DEF ServedInv
    <3> QED
      BY <2>1, <2>2, <3>1, AtNodeParts, ZenonT(20)
  <2>4. stack' = [stack EXCEPT ![t] = s]
    BY <1>5
  <2> HIDE DEF n, f
  <2>5. /\ s \in Seq(FrameSet) /\ Len(s) = Len(stack[t]) /\ DOMAIN s = DOMAIN stack[t] /\ s[Len(s)] = n
        /\ \A i \in DOMAIN s : i # Len(s) => s[i] = stack[t][i]
    BY <1>2, <2>3 DEF WithTop
  <2> HIDE DEF s
  <2>6. (\A i \in DOMAIN s : i < Len(s) => Looping(s[i])) /\ Len(s) \in DOMAIN s /\ Len(s) <= Len(stack[t])
    BY <1>2, <1>3, <2>5
  <2>7. \E i \in DOMAIN s : Looping(s[i]) /\ s[i].inc = current'
    BY <1>5, <2>3, <2>5, <2>6
  <2> QED
    BY <1>1, <2>4, <2>5, <2>6, <2>7, LockedStep DEF ServedInv
<1> QED
  BY <1>1, <1>4, <1>5

\* A loop ends, by itself,
LEMMA EndLocked ==
  ASSUME ServedInv, LockInv, NEW t \in Threads, stack[t] # <<>>, Looping(Top(t)), current' = Null,
         stack' = [stack EXCEPT ![t] = AfterList(@, Top(t))], UNCHANGED <<client, left>>
  PROVE  LockInv'
<1> DEFINE s == AfterList(stack[t], Top(t))
<1>1. /\ FrameInv(Top(t)) /\ Top(t) = stack[t][Len(stack[t])] /\ Len(stack[t]) \in DOMAIN stack[t]
  BY TopParts DEF ServedInv, FramesInOrder
<1>2. /\ s \in Seq(FrameSet) /\ Len(s) <= Len(stack[t])
      /\ \A i \in DOMAIN s : \/ i \in DOMAIN stack[t] /\ i < Len(stack[t]) /\ s[i] = stack[t][i]
                             \/ i = Len(s) /\ ~Looping(s[i])
  BY <1>1, AfterListParts DEF ServedInv
<1>3. stack' = [stack EXCEPT ![t] = s]
  OBVIOUS
<1> HIDE DEF s
<1>4. \A i \in DOMAIN s : i < Len(s) => Looping(s[i])
  <2>1. \A i \in DOMAIN s : i = Len(s) => ~(i < Len(s))
    BY <1>2
  <2> QED
    BY <1>2, <2>1 DEF LockInv, Nested
<1>5. HasLock(t) /\ current' \in {Null, Freed}
  BY <1>1 DEF HasLock
<1> QED
  BY <1>2, <1>3, <1>4, <1>5, LockedStep DEF ServedInv

\* or goes on.
LEMMA NextLocked ==
  ASSUME ServedInv, LockInv, NEW t \in Threads, stack[t] # <<>>, Looping(Top(t)), IteratorValid(Top(t)),
         NextNode(t, Top(t)), UNCHANGED <<client, left>>
  PROVE  LockInv'
<1> DEFINE f == Top(t)
           k == ListOf(f)
           l == listeners[k]
           i == Place(f)
           g == [f EXCEPT !.shot = Shot(f)]
<1>1. f \in FrameSet /\ FrameInv(f) /\ Looping(f) /\ k \in IncidentTypes /\ l \in Seq(Entries)
  BY TopParts, FrameParts DEF ServedInv, FramesInOrder, SyncType
<1>2. i \in DOMAIN l /\ Here(f) \in Entries
  BY <1>1, LoopPosition DEF ServedInv
<1>3. \/ /\ i < Len(l) /\ current' = current
         /\ stack' = [stack EXCEPT ![t] = WithTop(@, AtNode(g, l, i + 1))]
      \/ current' = Null /\ stack' = [stack EXCEPT ![t] = AfterList(@, f)]
  BY DEF NextNode
<1>4. CASE /\ i < Len(l) /\ current' = current
           /\ stack' = [stack EXCEPT ![t] = WithTop(@, AtNode(g, l, i + 1))]
  <2>1. g \in FrameSet /\ g.inc = f.inc /\ ListOf(g) = k
    BY <1>1, <1>2, ShotFrame DEF ListOf
  <2>2. i + 1 \in DOMAIN l
    BY <1>1, <1>2, <1>4
  <2>3. nodes[ListOf(g)][i + 1] \in Nat
    BY <1>1, <2>1, <2>2, NodeParts DEF ServedInv
  <2> HIDE DEF g, i, l, f
  <2>4. AtNode(g, l, i + 1) \in FrameSet /\ AtNode(g, l, i + 1).inc = f.inc /\ Looping(AtNode(g, l, i + 1))
    BY <1>1, <2>1, <2>2, <2>3, AtNodeParts
  <2> QED
    BY <1>4, <2>4, TopLocked DEF ServedInv, f
<1>5. CASE current' = Null /\ stack' = [stack EXCEPT ![t] = AfterList(@, f)]
  BY <1>5, EndLocked
<1> QED
  BY <1>3, <1>4, <1>5

\* A listener throws, and its exception is caught.
LEMMA ThrowLocked ==
  ASSUME ServedInv, LockInv, NEW t \in Threads, HandlerThrows(t) PROVE LockInv'
<1>1. /\ stack[t] # <<>> /\ Top(t).in = "handle" /\ stack' = [stack EXCEPT ![t] = WithTop(@, Thrown(Top(t)))]
      /\ UNCHANGED <<client, current, left>>
  BY DEF HandlerThrows
<1>2. Top(t) \in FrameSet /\ FrameInv(Top(t)) /\ Looping(Top(t))
  BY <1>1, TopParts DEF ServedInv, FramesInOrder, Looping
<1>3. Thrown(Top(t)) \in FrameSet /\ Looping(Thrown(Top(t))) /\ Thrown(Top(t)).inc = Top(t).inc
  BY <1>2, ThrownInv
<1> QED
  BY <1>1, <1>2, <1>3, TopLocked DEF ServedInv

\* An exception is caught, and reported or rethrown.
LEMMA CatchLocked ==
  ASSUME ServedInv, LockInv, NEW t \in Threads, CatchException(t) PROVE LockInv'
<1>1. /\ stack[t] # <<>> /\ Top(t).in = "throw" /\ IteratorValid(Top(t)) /\ UNCHANGED <<client, left, nextId>>
      /\ Swallow(t, Top(t)) \/ Rethrow(t, Top(t))
  BY DEF CatchException
<1>2. /\ Looping(Top(t)) /\ Top(t) = stack[t][Len(stack[t])]
      /\ Len(stack[t]) \in DOMAIN stack[t] /\ Len(stack[t]) \in Nat
  BY <1>1, TopParts DEF Looping, ServedInv
<1>3. CASE Swallow(t, Top(t))
  BY <1>1, <1>2, <1>3, NextLocked DEF Swallow
<1>4. CASE Rethrow(t, Top(t))
  <2> DEFINE s == IF Len(stack[t]) = 1 THEN <<>> ELSE WithTop(Front(stack[t]), Thrown(Last(Front(stack[t]))))
  <2>1. stack' = [stack EXCEPT ![t] = s] /\ current' \in {Null, Freed}
    BY <1>4 DEF Rethrow
  <2>2. s \in Seq(FrameSet) /\ Len(s) = Len(stack[t]) - 1 /\ \A j \in DOMAIN s : Looping(s[j])
    BY <1>1, RethrowParts DEF LockInv
  <2> HIDE DEF s
  <2>3. Len(s) <= Len(stack[t]) /\ \A i \in DOMAIN s : i < Len(s) => Looping(s[i])
    BY <1>2, <2>2
  <2>4. HasLock(t)
    BY <1>2 DEF HasLock
  <2> QED
    BY <1>1, <2>1, <2>2, <2>3, <2>4, LockedStep DEF ServedInv
<1> QED
  BY <1>1, <1>3, <1>4

-----------------------------------------------------------------------------
(* CalledOnceInOrder.                                                      *)

\* Every step of the service.
LEMMA SyncStep ==
  ASSUME ServedInv, LockInv, SyncNext PROVE (ServedInv /\ LockInv)' /\ Inherited
<1>1. CASE Register
  <2>1. /\ AddListener(client.initial[nextId]) /\ UNCHANGED <<client, current, stack, left>>
        /\ ~(nextId > Len(client.initial))
    BY <1>1 DEF Register, Registered
  <2>2. client.initial[nextId] \in Registrations
    <3>1. client.initial \in Seq(Registrations) /\ nextId \in Nat \ {0}
      BY ClientsAssumption DEF ServedInv, SyncType
    <3> QED
      BY <2>1, <3>1
  <2>3. ServedInv' /\ Inherited
    BY <2>1, <2>2, AddServed
  <2>4. LockInv'
    <3>1. left \in Nat /\ left' \in Nat /\ left' <= left
      BY <2>1 DEF LockInv, CallsBounded
    <3> QED
      BY <2>1, <3>1, CallLocked DEF ServedInv
  <2> QED
    BY <2>3, <2>4
<1>2. ASSUME NEW t \in Threads, Calling(t), NEW x \in Calls(t), Call(t, x) PROVE (ServedInv /\ LockInv)' /\ Inherited
  <2>1. /\ x \in Requests /\ left > 0 /\ left' = left - 1 /\ left \in Nat
        /\ UNCHANGED <<client, current>>
    BY <1>2, CallsAreRequests DEF Call, LockInv, CallsBounded
  <2>2. left' \in Nat /\ left' <= left
    BY <2>1
  <2>3. CASE x.op = "add" /\ AddListener(x) /\ UNCHANGED stack
    <3>1. x \in Registrations
      BY <2>1, <2>3 DEF Requests
    <3> QED
      BY <2>1, <2>2, <2>3, <3>1, AddServed, CallLocked DEF ServedInv
  <2>4. CASE x.op = "remove" /\ RemoveListener(x) /\ UNCHANGED stack
    BY <2>1, <2>2, <2>4, RemoveServed, CallLocked DEF ServedInv
  <2>5. CASE /\ x.op = "fire" /\ stack' = [stack EXCEPT ![t] = Append(@, NewFrame(x.type))]
             /\ UNCHANGED <<listeners, nodes, nextId>>
    <3>1. ServedInv' /\ Inherited
      BY <2>1, <2>5, FireServed
    <3>2. x.type \in IncidentTypes
      BY <2>1, <2>5 DEF Requests, Registrations
    <3>3. NewFrame(x.type) \in FrameSet
      BY <3>2, NewFrameInv
    <3>4. ~Looping(NewFrame(x.type))
      BY DEF NewFrame, Looping
    <3> QED
      BY <1>2, <2>1, <2>5, <3>1, <3>3, <3>4, FireLocked DEF ServedInv
  <2> QED
    BY <1>2, <2>3, <2>4, <2>5 DEF Call
<1>3. ASSUME NEW t \in Threads, EnterList(t) PROVE (ServedInv /\ LockInv)' /\ Inherited
  BY <1>3, EnterServed, EnterLocked
<1>4. ASSUME NEW t \in Threads, HandlerReturns(t) PROVE (ServedInv /\ LockInv)' /\ Inherited
  <2>1. /\ stack[t] # <<>> /\ Top(t).in = "handle" /\ IteratorValid(Top(t)) /\ NextNode(t, Top(t))
        /\ UNCHANGED <<client, left, nextId>>
    BY <1>4 DEF HandlerReturns
  <2>2. Looping(Top(t))
    BY <2>1 DEF Looping
  <2> QED
    BY <2>1, <2>2, NextServed, NextLocked
<1>5. ASSUME NEW t \in Threads, HandlerThrows(t) PROVE (ServedInv /\ LockInv)' /\ Inherited
  BY <1>5, ThrowServed, ThrowLocked
<1>6. ASSUME NEW t \in Threads, CatchException(t) PROVE (ServedInv /\ LockInv)' /\ Inherited
  BY <1>6, CatchServed, CatchLocked DEF LockInv
<1> QED
  BY <1>1, <1>2, <1>3, <1>4, <1>5, <1>6 DEF SyncNext

\* The start.
LEMMA SyncStart == ASSUME Init PROVE ServedInv /\ LockInv
<1>1. /\ client \in Clients /\ listeners = [k \in IncidentTypes |-> <<>>] /\ nextId = 1
      /\ nodes = [k \in IncidentTypes |-> <<>>]
      /\ current = Null /\ stack = [t \in Threads |-> <<>>] /\ left = client.calls
  BY DEF Init, SyncInit
<1>2. /\ listeners \in [IncidentTypes -> Seq(Entries)] /\ stack \in [Threads -> Seq(FrameSet)]
      /\ nodes \in [IncidentTypes -> Seq(Nat)]
      /\ \A k \in IncidentTypes : DOMAIN listeners[k] = {} /\ DOMAIN nodes[k] = {} /\ Len(nodes[k]) = Len(listeners[k])
      /\ \A t \in Threads : DOMAIN stack[t] = {} /\ Len(stack[t]) = 0
  BY <1>1
<1>3. ServedInv
  BY <1>1, <1>2 DEF ServedInv, SyncType, ListsInOrder, NodesInOrder, Sorted, FramesInOrder
<1>4. LockInv
  BY <1>1, <1>2, ClientsAssumption DEF LockInv, Nested, OneLooper, HasLock, CallsBounded, CurrentLives
<1> QED
  BY <1>3, <1>4

\* The steps of the slot leave all this alone.
LEMMA SyncUntouched == ASSUME ServedInv, LockInv, UNCHANGED syncVars PROVE (ServedInv /\ LockInv)' /\ Inherited
<1>1. UNCHANGED <<client, listeners, nodes, current, stack, left, nextId, missed, escaped>>
  BY DEF syncVars
<1>2. ListsInOrder' /\ Inherited
  BY <1>1, SameLists DEF ServedInv
<1>3. FramesInOrder'
  BY <1>1, <1>2, SameStacks DEF ServedInv
<1>4. ServedInv'
  BY <1>1, <1>2, <1>3 DEF ServedInv, SyncType
<1>5. LockInv'
  BY <1>1 DEF LockInv, Nested, OneLooper, HasLock, CallsBounded, CurrentLives, Looping
<1> QED
  BY <1>2, <1>4, <1>5

\* Every step preserves the invariants, and may be one of the slot.
LEMMA NextStep ==
  ASSUME ServedInv, LockInv, [Next]_vars
  PROVE  (ServedInv /\ LockInv)' /\ Inherited /\ (SyncNext \/ UNCHANGED syncVars)
<1>1. SyncNext \/ UNCHANGED syncVars
  BY DEF Next, vars, Done
<1> QED
  BY <1>1, SyncStep, SyncUntouched

\* The invariant is what CalledOnceInOrder needs.
LEMMA InvIsInOrder == ASSUME ServedInv PROVE CalledOnceInOrder
<1>1. ASSUME NEW p \in Frames PROVE SeenInOrder(FrameAt(p).seen)
  <2>1. p[1] \in Threads /\ p[2] \in DOMAIN stack[p[1]]
    <3>1. p[1] \in Threads /\ p[2] \in 1..client.calls /\ p[2] <= Len(stack[p[1]])
      BY DEF Frames
    <3>2. stack[p[1]] \in Seq(FrameSet) /\ client.calls \in Nat
      BY <3>1, ClientsAssumption DEF ServedInv, SyncType
    <3> QED
      BY <3>1, <3>2
  <2> QED
    BY <2>1 DEF ServedInv, FramesInOrder, FrameInv, FrameAt
<1> QED
  BY <1>1 DEF CalledOnceInOrder, SeenInOrder, Precedes

\* The invariants hold, whatever the client calls.
LEMMA SyncInvariant == Spec => [](ServedInv /\ LockInv)
<1>1. Init => ServedInv /\ LockInv
  BY SyncStart
<1>2. ServedInv /\ LockInv /\ [Next]_vars => (ServedInv /\ LockInv)'
  BY NextStep
<1> QED
  BY <1>1, <1>2, PTL DEF Spec

\* Whatever handlers and other threads do to the list that i_fireIncident loops
\* over (addListener and removeListener, nested incidents, exceptions), also if
\* erase() moves other listeners to the node the loop is at, the incident
\* reaches a registration once at most, by priority and then age.
THEOREM ListenersAreCalledInOrder == Spec => []CalledOnceInOrder
<1>1. ServedInv /\ LockInv => CalledOnceInOrder
  BY InvIsInOrder
<1> QED
  BY <1>1, SyncInvariant, PTL

-----------------------------------------------------------------------------
(* The loops before and after a step.                                      *)

\* g is the loop f, its exception apart.
SameLoop(g, f) ==
  /\ Looping(g) /\ ListOf(g) = ListOf(f) /\ g.at = f.at /\ g.shot = f.shot
  /\ g.seen = f.seen /\ g.due = f.due

\* The loops over the lists S go on.
LoopsStay(S) ==
  \A u \in Threads : \A j \in DOMAIN stack[u] :
    Looping(stack[u][j]) /\ ListOf(stack[u][j]) \in S => j \in DOMAIN stack'[u] /\ SameLoop(stack'[u][j], stack[u][j])

\* The loops after the step were there before.
LoopsAreOld ==
  \A u \in Threads : \A j \in DOMAIN stack'[u] :
    Looping(stack'[u][j]) => j \in DOMAIN stack[u] /\ Looping(stack[u][j]) /\ SameLoop(stack'[u][j], stack[u][j])

\* Nobody but the innermost call of t loops over its list.
LEMMA OnlyLoop ==
  ASSUME SyncType, OneLooper, NotNested, NEW t \in Threads, stack[t] # <<>>, Looping(Top(t)),
         NEW u \in Threads, NEW j \in DOMAIN stack[u], Looping(stack[u][j])
  PROVE  u = t /\ (ListOf(stack[u][j]) = ListOf(Top(t)) => j = Len(stack[t]))
<1>1. Top(t) = stack[t][Len(stack[t])] /\ Len(stack[t]) \in DOMAIN stack[t]
  BY TopParts
<1>2. u = t
  BY <1>1 DEF OneLooper, HasLock
<1> QED
  BY <1>1, <1>2 DEF NotNested

\* Nothing changes,
LEMMA LoopsUnchanged ==
  ASSUME stack' = stack PROVE LoopsStay(IncidentTypes) /\ LoopsAreOld
BY DEF LoopsStay, LoopsAreOld, SameLoop, Looping, ListOf

\* a call is added or goes that does not loop,
LEMMA LoopsSame ==
  ASSUME SyncType, NEW t \in Threads, NEW s \in Seq(FrameSet), stack' = [stack EXCEPT ![t] = s],
         \A j \in DOMAIN stack[t] : Looping(stack[t][j]) => j \in DOMAIN s /\ s[j] = stack[t][j],
         \A j \in DOMAIN s : Looping(s[j]) => j \in DOMAIN stack[t] /\ s[j] = stack[t][j]
  PROVE  LoopsStay(IncidentTypes) /\ LoopsAreOld
<1>1. stack'[t] = s /\ \A u \in Threads : u # t => stack'[u] = stack[u]
  BY DEF SyncType
<1>2. \A f : Looping(f) => SameLoop(f, f)
  BY DEF SameLoop
<1>3. LoopsStay(IncidentTypes)
  BY <1>1, <1>2, Zenon DEF LoopsStay
<1>4. LoopsAreOld
  BY <1>1, <1>2, Zenon DEF LoopsAreOld
<1> QED
  BY <1>3, <1>4

\* the innermost one is at another node,
LEMMA LoopsWithTop ==
  ASSUME SyncType, NEW t \in Threads, stack[t] # <<>>, NEW g \in FrameSet,
         stack' = [stack EXCEPT ![t] = WithTop(@, g)]
  PROVE  /\ DOMAIN stack'[t] = DOMAIN stack[t] /\ Len(stack[t]) \in DOMAIN stack[t]
         /\ stack'[t][Len(stack[t])] = g
         /\ \A u \in Threads : \A j \in DOMAIN stack[u] :
              u # t \/ j # Len(stack[t]) => j \in DOMAIN stack'[u] /\ stack'[u][j] = stack[u][j]
         /\ \A u \in Threads : DOMAIN stack'[u] = DOMAIN stack[u]
<1> DEFINE s == WithTop(stack[t], g)
<1>1. stack[t] \in Seq(FrameSet) /\ Len(stack[t]) \in DOMAIN stack[t]
  BY TopParts
<1>2. stack' = [stack EXCEPT ![t] = s]
  OBVIOUS
<1>3. /\ DOMAIN s = DOMAIN stack[t] /\ s[Len(stack[t])] = g
      /\ \A j \in DOMAIN s : j # Len(stack[t]) => s[j] = stack[t][j]
  BY <1>1 DEF WithTop
<1> HIDE DEF s
<1>4. stack'[t] = s /\ \A u \in Threads : u # t => stack'[u] = stack[u]
  BY <1>2 DEF SyncType
<1> QED
  BY <1>1, <1>3, <1>4

\* its listener throws,
LEMMA LoopsThrown ==
  ASSUME ServedInv, NEW t \in Threads, HandlerThrows(t)
  PROVE  LoopsStay(IncidentTypes) /\ LoopsAreOld
<1> DEFINE f == Top(t)
<1>1. /\ stack[t] # <<>> /\ f.in = "handle" /\ stack' = [stack EXCEPT ![t] = WithTop(@, Thrown(f))]
  BY DEF HandlerThrows
<1>2. f \in FrameSet /\ FrameInv(f) /\ Looping(f) /\ f = stack[t][Len(stack[t])]
  BY <1>1, TopParts DEF ServedInv, FramesInOrder, Looping
<1>3. Thrown(f) \in FrameSet /\ SameLoop(Thrown(f), f)
  BY <1>2, ThrownInv, Zenon DEF SameLoop
<1>4. /\ DOMAIN stack'[t] = DOMAIN stack[t] /\ Len(stack[t]) \in DOMAIN stack[t]
      /\ stack'[t][Len(stack[t])] = Thrown(f)
      /\ \A u \in Threads : \A j \in DOMAIN stack[u] :
           u # t \/ j # Len(stack[t]) => j \in DOMAIN stack'[u] /\ stack'[u][j] = stack[u][j]
      /\ \A u \in Threads : DOMAIN stack'[u] = DOMAIN stack[u]
  BY <1>1, <1>3, LoopsWithTop DEF ServedInv
<1> HIDE DEF f
<1>5. \A h : Looping(h) => SameLoop(h, h)
  BY DEF SameLoop
<1>6. ASSUME NEW u \in Threads, NEW j \in DOMAIN stack[u]
      PROVE  \/ u = t /\ j = Len(stack[t]) /\ stack'[u][j] = Thrown(f) /\ stack[u][j] = f
             \/ stack'[u][j] = stack[u][j]
  BY <1>2, <1>4
<1>7. LoopsStay(IncidentTypes)
  BY <1>3, <1>4, <1>5, <1>6, Zenon DEF LoopsStay
<1>8. LoopsAreOld
  BY <1>2, <1>3, <1>4, <1>5, <1>6, Zenon DEF LoopsAreOld
<1> QED
  BY <1>7, <1>8

\* or the innermost loop ends, by itself or by an exception.
LEMMA LoopsEnd ==
  ASSUME ServedInv, LockInv, NotNested, NEW t \in Threads, stack[t] # <<>>, Looping(Top(t)),
         \/ stack' = [stack EXCEPT ![t] = AfterList(@, Top(t))]
         \/ Rethrow(t, Top(t))
  PROVE  /\ LoopsStay(IncidentTypes \ {ListOf(Top(t))}) /\ LoopsAreOld
         /\ \A u \in Threads : \A j \in DOMAIN stack'[u] :
              Looping(stack'[u][j]) => ListOf(stack'[u][j]) # ListOf(Top(t))
<1> DEFINE f == Top(t)
           k == ListOf(f)
           n == Len(stack[t])
<1>1. f \in FrameSet /\ FrameInv(f) /\ f = stack[t][n] /\ n \in DOMAIN stack[t] /\ n \in Nat /\ DOMAIN stack[t] = 1..n
  BY TopParts DEF ServedInv, FramesInOrder
<1>2. \A u \in Threads : \A j \in DOMAIN stack[u] :
        Looping(stack[u][j]) => u = t /\ (ListOf(stack[u][j]) = k => j = n)
  BY OnlyLoop DEF ServedInv, LockInv
<1>3. \A h : Looping(h) => SameLoop(h, h)
  BY DEF SameLoop
<1>4. ASSUME NEW s, stack' = [stack EXCEPT ![t] = s],
             \A j \in DOMAIN s : Looping(s[j]) =>
               j \in DOMAIN stack[t] /\ j < n /\ Looping(stack[t][j]) /\ SameLoop(s[j], stack[t][j]),
             \A j \in DOMAIN stack[t] : j < n /\ Looping(stack[t][j]) => j \in DOMAIN s /\ SameLoop(s[j], stack[t][j])
      PROVE  /\ LoopsStay(IncidentTypes \ {k}) /\ LoopsAreOld
             /\ \A u \in Threads : \A j \in DOMAIN stack'[u] : Looping(stack'[u][j]) => ListOf(stack'[u][j]) # k
  <2>1. stack'[t] = s /\ \A u \in Threads : u # t => stack'[u] = stack[u]
    BY <1>4 DEF ServedInv, SyncType
  <2>2. \A j \in DOMAIN stack[t] : ListOf(stack[t][j]) # k => j < n
    <3>1. \A j \in DOMAIN stack[t] : j = n \/ j < n
      BY <1>1
    <3> QED
      BY <1>1, <3>1
  <2>3. LoopsStay(IncidentTypes \ {k})
    BY <1>2, <1>4, <2>1, <2>2, Zenon DEF LoopsStay
  <2>4. LoopsAreOld
    BY <1>3, <1>4, <2>1, Zenon DEF LoopsAreOld
  <2>5. ASSUME NEW u \in Threads, NEW j \in DOMAIN stack'[u], Looping(stack'[u][j])
        PROVE  ListOf(stack'[u][j]) # k
    <3>1. CASE u # t
      BY <1>2, <2>1, <2>5, <3>1
    <3>2. CASE u = t
      <4>1. j \in DOMAIN stack[t] /\ j < n /\ Looping(stack[t][j]) /\ ListOf(stack'[u][j]) = ListOf(stack[t][j])
        BY <1>4, <2>1, <2>5, <3>2 DEF SameLoop
      <4> QED
        BY <1>1, <1>2, <4>1
    <3> QED
      BY <3>1, <3>2
  <2> QED
    BY <2>3, <2>4, <2>5
<1>5. CASE stack' = [stack EXCEPT ![t] = AfterList(@, f)]
  <2> DEFINE s == AfterList(stack[t], f)
  <2>1. /\ \A i \in DOMAIN s : \/ i \in DOMAIN stack[t] /\ i < n /\ s[i] = stack[t][i]
                               \/ ~Looping(s[i])
        /\ \A i \in DOMAIN stack[t] : i < n => i \in DOMAIN s /\ s[i] = stack[t][i]
    BY <1>1, AfterListParts DEF ServedInv
  <2>2. stack' = [stack EXCEPT ![t] = s]
    BY <1>5
  <2> HIDE DEF s, f, n, k
  <2>3. /\ \A j \in DOMAIN s : Looping(s[j]) =>
             j \in DOMAIN stack[t] /\ j < n /\ Looping(stack[t][j]) /\ SameLoop(s[j], stack[t][j])
        /\ \A j \in DOMAIN stack[t] : j < n /\ Looping(stack[t][j]) => j \in DOMAIN s /\ SameLoop(s[j], stack[t][j])
    BY <1>3, <2>1, Zenon
  <2>4. QED
    BY <1>4, <2>2, <2>3, Zenon DEF f, k
<1>6. CASE Rethrow(t, f)
  <2> DEFINE s == IF Len(stack[t]) = 1 THEN <<>> ELSE WithTop(Front(stack[t]), Thrown(Last(Front(stack[t]))))
  <2>1. stack' = [stack EXCEPT ![t] = s]
    BY <1>6 DEF Rethrow
  <2>2. /\ \A j \in DOMAIN s : /\ j \in DOMAIN stack[t] /\ j < n
                               /\ s[j] = stack[t][j] \/ s[j] = Thrown(stack[t][j])
        /\ \A j \in DOMAIN stack[t] : j < n => j \in DOMAIN s
    BY RethrowParts DEF LockInv
  <2> HIDE DEF s, f, n, k
  <2>3. ASSUME NEW j \in DOMAIN stack[t], j < n
        PROVE  /\ Looping(stack[t][j]) /\ SameLoop(stack[t][j], stack[t][j])
               /\ SameLoop(Thrown(stack[t][j]), stack[t][j])
    <3>1. stack[t][j] \in FrameSet /\ FrameInv(stack[t][j]) /\ Looping(stack[t][j])
      <4>1. stack[t] \in Seq(FrameSet)
        BY DEF ServedInv, SyncType
      <4> QED
        BY <2>3, <4>1 DEF ServedInv, FramesInOrder, LockInv, Nested, n
    <3> QED
      BY <1>3, <3>1, ThrownInv, Zenon DEF SameLoop
  <2>4. /\ \A j \in DOMAIN s : Looping(s[j]) =>
             j \in DOMAIN stack[t] /\ j < n /\ Looping(stack[t][j]) /\ SameLoop(s[j], stack[t][j])
        /\ \A j \in DOMAIN stack[t] : j < n /\ Looping(stack[t][j]) => j \in DOMAIN s /\ SameLoop(s[j], stack[t][j])
    BY <2>2, <2>3, Zenon
  <2> QED
    BY <1>4, <2>1, <2>4, Zenon DEF f, k
<1> QED
  BY <1>5, <1>6

\* fireIncident is called,
LEMMA LoopsFire ==
  ASSUME SyncType, NEW t \in Threads, NEW f \in FrameSet, ~Looping(f), stack' = [stack EXCEPT ![t] = Append(@, f)]
  PROVE  LoopsStay(IncidentTypes) /\ LoopsAreOld
<1> DEFINE s == Append(stack[t], f)
<1>1. stack[t] \in Seq(FrameSet) /\ stack' = [stack EXCEPT ![t] = s]
  BY DEF SyncType
<1>2. /\ s \in Seq(FrameSet)
      /\ \A j \in DOMAIN stack[t] : j \in DOMAIN s /\ s[j] = stack[t][j]
      /\ \A j \in DOMAIN s : (j \in DOMAIN stack[t] /\ s[j] = stack[t][j]) \/ s[j] = f
  BY <1>1
<1> HIDE DEF s
<1>3. /\ \A j \in DOMAIN stack[t] : Looping(stack[t][j]) => j \in DOMAIN s /\ s[j] = stack[t][j]
      /\ \A j \in DOMAIN s : Looping(s[j]) => j \in DOMAIN stack[t] /\ s[j] = stack[t][j]
  BY <1>2
<1> QED
  BY <1>1, <1>2, <1>3, LoopsSame

\* or finds no listener.
LEMMA LoopsPass ==
  ASSUME ServedInv, NEW t \in Threads, stack[t] # <<>>, ~Looping(Top(t)),
         stack' = [stack EXCEPT ![t] = AfterList(@, Top(t))]
  PROVE  LoopsStay(IncidentTypes) /\ LoopsAreOld
<1> DEFINE s == AfterList(stack[t], Top(t))
           n == Len(stack[t])
<1>1. FrameInv(Top(t)) /\ Top(t) = stack[t][n] /\ n \in Nat /\ DOMAIN stack[t] = 1..n
  BY TopParts DEF ServedInv, FramesInOrder
<1>2. /\ s \in Seq(FrameSet)
      /\ \A i \in DOMAIN s : \/ i \in DOMAIN stack[t] /\ i < n /\ s[i] = stack[t][i]
                             \/ ~Looping(s[i])
      /\ \A i \in DOMAIN stack[t] : i < n => i \in DOMAIN s /\ s[i] = stack[t][i]
  BY <1>1, AfterListParts DEF ServedInv
<1>3. stack' = [stack EXCEPT ![t] = s]
  OBVIOUS
<1> HIDE DEF s
<1>4. \A i \in DOMAIN stack[t] : Looping(stack[t][i]) => i < n
  <2>1. \A i \in DOMAIN stack[t] : i < n \/ i = n
    BY <1>1
  <2> QED
    BY <1>1, <2>1
<1>5. /\ \A j \in DOMAIN stack[t] : Looping(stack[t][j]) => j \in DOMAIN s /\ s[j] = stack[t][j]
      /\ \A j \in DOMAIN s : Looping(s[j]) => j \in DOMAIN stack[t] /\ s[j] = stack[t][j]
  BY <1>2, <1>4
<1> QED
  BY <1>2, <1>3, <1>5, LoopsSame DEF ServedInv

\* The innermost call of t, which is f now, calls the i-th node of its list.
CallsNode(t, f, i) ==
  /\ stack[t] # <<>> /\ f \in FrameSet /\ i \in DOMAIN listeners[ListOf(f)]
  /\ listeners' = [listeners EXCEPT ![ListOf(f)] = Called(@, i)] /\ nodes' = nodes
  /\ stack' = [stack EXCEPT ![t] = WithTop(@, AtNode(f, listeners[ListOf(f)], i))]

\* What that does: the node is hit, and is the last that the loop has called.
NodeCalled(t, f, i, k, g) ==
  /\ \A m \in IncidentTypes : DOMAIN listeners'[m] = DOMAIN listeners[m]
  /\ listeners'[k][i] = Hit(listeners[k][i])
  /\ \A m \in IncidentTypes : \A j \in DOMAIN listeners[m] :
       m # k \/ j # i => listeners'[m][j] = listeners[m][j]
  /\ \A m \in IncidentTypes : \A j \in DOMAIN listeners[m] : SameKey(listeners'[m][j], listeners[m][j])
  /\ nodes' = nodes /\ Len(stack[t]) \in DOMAIN stack'[t] /\ stack'[t][Len(stack[t])] = g
  /\ Looping(g) /\ ListOf(g) = k /\ g.at = nodes[k][i] /\ g.shot = f.shot /\ g.due = f.due
  /\ SameKey(g.seen[Len(g.seen)], listeners[k][i])
  /\ \A id : SeenId(g, id) <=> SeenId(f, id) \/ id = listeners[k][i].id
  /\ SeenInOrder(g.seen) => ~SeenId(f, listeners[k][i].id)
  /\ \A u \in Threads : \A j \in DOMAIN stack[u] :
       u # t \/ j # Len(stack[t]) => j \in DOMAIN stack'[u] /\ stack'[u][j] = stack[u][j]
  /\ \A u \in Threads : DOMAIN stack'[u] = DOMAIN stack[u]

\* That is what it does.
LEMMA CallsNodeParts ==
  ASSUME SyncType, ListsInOrder, NEW t \in Threads, NEW f, NEW i, CallsNode(t, f, i)
  PROVE  /\ ListOf(f) \in IncidentTypes /\ i \in DOMAIN listeners[ListOf(f)]
         /\ NodeCalled(t, f, i, ListOf(f), stack'[t][Len(stack[t])])
<1> DEFINE k == ListOf(f)
           l == listeners[k]
           m == Called(l, i)
           g == AtNode(f, l, i)
           c == [id |-> l[i].id, prio |-> l[i].prio, pass |-> f.pass]
<1>1. /\ stack[t] # <<>> /\ f \in FrameSet /\ i \in DOMAIN l /\ listeners' = [listeners EXCEPT ![k] = m] /\ nodes' = nodes
      /\ stack' = [stack EXCEPT ![t] = WithTop(@, g)]
  BY DEF CallsNode
<1>2. k \in IncidentTypes /\ l \in Seq(Entries) /\ listeners \in [IncidentTypes -> Seq(Entries)]
  BY <1>1, FrameParts DEF SyncType
<1>3. /\ m \in Seq(Entries) /\ DOMAIN m = DOMAIN l /\ m[i] = Hit(l[i]) /\ \A j \in DOMAIN l : j # i => m[j] = l[j]
  BY <1>1, <1>2, CalledList
<1>4. l[i] \in Entries
  BY <1>1, <1>2
<1>5. SameKey(Hit(l[i]), l[i])
  BY <1>4, HitEntry
<1>6. /\ g \in FrameSet /\ Looping(g) /\ ListOf(g) = k /\ g.at = nodes[k][i] /\ g.shot = f.shot
      /\ g.seen = Append(f.seen, c) /\ g.due = f.due
  <2>1. nodes[k][i] \in Nat
    BY <1>1, <1>2, NodeParts
  <2> QED
    BY <1>1, <1>2, <2>1, AtNodeParts
<1>7. c.id = l[i].id /\ c.prio = l[i].prio
  OBVIOUS
<1> HIDE DEF g, m, c
<1>8. /\ listeners'[k] = m /\ \A o \in IncidentTypes : o # k => listeners'[o] = listeners[o]
  BY <1>1, <1>2, <1>3
<1>9. f.seen \in Seq(Calleds)
  BY <1>1, FrameParts
<1>10. /\ Len(g.seen) = Len(f.seen) + 1 /\ DOMAIN g.seen = DOMAIN f.seen \cup {Len(f.seen) + 1} /\ g.seen[Len(f.seen) + 1] = c
       /\ \A a \in DOMAIN f.seen : g.seen[a] = f.seen[a] /\ a < Len(f.seen) + 1
  BY <1>6, <1>9
<1>11. \A id : SeenId(g, id) <=> SeenId(f, id) \/ id = l[i].id
  BY <1>7, <1>10 DEF SeenId
<1>12. SeenInOrder(g.seen) => ~SeenId(f, l[i].id)
  BY <1>7, <1>10 DEF SeenId, SeenInOrder
<1>13. /\ DOMAIN stack'[t] = DOMAIN stack[t] /\ Len(stack[t]) \in DOMAIN stack[t]
       /\ stack'[t][Len(stack[t])] = g
       /\ \A u \in Threads : \A j \in DOMAIN stack[u] :
            u # t \/ j # Len(stack[t]) => j \in DOMAIN stack'[u] /\ stack'[u][j] = stack[u][j]
       /\ \A u \in Threads : DOMAIN stack'[u] = DOMAIN stack[u]
  BY <1>1, <1>6, LoopsWithTop
<1>14. /\ \A o \in IncidentTypes : DOMAIN listeners'[o] = DOMAIN listeners[o]
       /\ listeners'[k][i] = Hit(listeners[k][i])
       /\ \A o \in IncidentTypes : \A j \in DOMAIN listeners[o] :
            o # k \/ j # i => listeners'[o][j] = listeners[o][j]
  BY <1>3, <1>8
<1>15. \A o \in IncidentTypes : \A j \in DOMAIN listeners[o] : SameKey(listeners'[o][j], listeners[o][j])
  BY <1>5, <1>14 DEF SameKey
<1>16. SameKey(g.seen[Len(g.seen)], l[i])
  BY <1>7, <1>10 DEF SameKey
<1>17. NodeCalled(t, f, i, k, g)
  BY <1>1, <1>16, <1>6, <1>11, <1>12, <1>13, <1>14, <1>15, Zenon DEF NodeCalled
<1> QED
  BY <1>1, <1>2, <1>13, <1>17, Zenon

\* What entering a list does, and what the end of a handler.
LEMMA EnterCases ==
  ASSUME ServedInv, NEW t \in Threads, EnterList(t)
  PROVE  /\ stack[t] # <<>> /\ Top(t) \in FrameSet /\ ~Looping(Top(t)) /\ LockIsFree(t)
         /\ UNCHANGED <<nodes, missed, escaped>>
         /\ \/ stack' = [stack EXCEPT ![t] = AfterList(@, Top(t))] /\ UNCHANGED listeners
            \/ \E f : CallsNode(t, f, 1) /\ ListOf(f) = ListOf(Top(t))
<1> DEFINE f == Top(t)
           l == listeners[ListOf(f)]
           g == [f EXCEPT !.shot = FALSE, !.due = Ids(l)]
<1>1. /\ stack[t] # <<>> /\ f.in = "enter" /\ LockIsFree(t) /\ UNCHANGED <<nodes, missed, escaped>>
      /\ \/ stack' = [stack EXCEPT ![t] = AfterList(@, f)] /\ UNCHANGED listeners
         \/ /\ l # <<>> /\ listeners' = [listeners EXCEPT ![ListOf(f)] = Called(@, 1)]
            /\ stack' = [stack EXCEPT ![t] = WithTop(@, AtNode(g, l, 1))]
  BY DEF EnterList
<1>2. f \in FrameSet /\ ~Looping(f) /\ ListOf(f) \in IncidentTypes /\ l \in Seq(Entries)
  BY <1>1, TopParts, FrameParts DEF ServedInv, Looping, SyncType
<1>3. g \in FrameSet /\ ListOf(g) = ListOf(f)
  BY <1>2, EnteredFrame DEF ServedInv
<1>4. l # <<>> => 1 \in DOMAIN l
  BY <1>2
<1> QED
  BY <1>1, <1>2, <1>3, <1>4 DEF CallsNode

\* A loop that goes on calls the next node, or ends with the survivors.
LEMMA NextCases ==
  ASSUME ServedInv, NEW t \in Threads, stack[t] # <<>>, Looping(Top(t)), IteratorValid(Top(t)), NextNode(t, Top(t))
  PROVE  LET f == Top(t) IN
         /\ f \in FrameSet /\ FrameInv(f) /\ ListOf(f) \in IncidentTypes
         /\ Here(f) \in Entries /\ Shot(f) \in BOOLEAN
         /\ \/ \E g : /\ CallsNode(t, g, Place(f) + 1) /\ ListOf(g) = ListOf(f) /\ g.shot = Shot(f)
                      /\ g.seen = f.seen /\ g.due = f.due /\ missed' = missed
            \/ /\ stack' = [stack EXCEPT ![t] = AfterList(@, f)] /\ EraseTail
               /\ listeners' = [listeners EXCEPT ![ListOf(f)] = Survivors(f)]
               /\ Place(f) = Len(listeners[ListOf(f)]) /\ missed' = missed \cup PassedOver(f)
<1> DEFINE f == Top(t)
           k == ListOf(f)
           l == listeners[k]
           i == Place(f)
           g == [f EXCEPT !.shot = Shot(f)]
<1>1. f \in FrameSet /\ FrameInv(f) /\ Looping(f) /\ k \in IncidentTypes /\ l \in Seq(Entries)
  BY TopParts, FrameParts DEF ServedInv, FramesInOrder, SyncType
<1>2. i \in DOMAIN l /\ Here(f) \in Entries
  BY <1>1, LoopPosition DEF ServedInv
<1>3. \/ /\ i < Len(l) /\ listeners' = [listeners EXCEPT ![k] = Called(@, i + 1)] /\ nodes' = nodes
         /\ stack' = [stack EXCEPT ![t] = WithTop(@, AtNode(g, l, i + 1))] /\ missed' = missed
      \/ /\ i = Len(l) /\ listeners' = [listeners EXCEPT ![k] = Survivors(f)] /\ EraseTail
         /\ stack' = [stack EXCEPT ![t] = AfterList(@, f)] /\ missed' = missed \cup PassedOver(f)
  BY DEF NextNode
<1>4. /\ Shot(f) \in BOOLEAN /\ g \in FrameSet /\ g.inc = f.inc /\ g.pass = f.pass /\ g.seen = f.seen
      /\ g.shot = Shot(f) /\ g.due = f.due
  BY <1>1, <1>2, ShotFrame
<1>5. ListOf(g) = k
  BY <1>4 DEF ListOf
<1>6. i < Len(l) => i + 1 \in DOMAIN l
  BY <1>1, <1>2
<1> HIDE DEF g, i
<1>7. \/ CallsNode(t, g, i + 1) /\ missed' = missed
      \/ /\ listeners' = [listeners EXCEPT ![k] = Survivors(f)] /\ EraseTail /\ i = Len(l)
         /\ stack' = [stack EXCEPT ![t] = AfterList(@, f)] /\ missed' = missed \cup PassedOver(f)
  BY <1>3, <1>4, <1>5, <1>6 DEF CallsNode
<1> QED
  BY <1>1, <1>2, <1>4, <1>5, <1>7, Zenon DEF i

-----------------------------------------------------------------------------
(* The loops of clients that keep the rules.                               *)

\* The loop f, over the values l in the nodes q, stands on the listener that it
\* called last, and has called everybody due who is not behind that one.
LoopServed(f, l, q) ==
  /\ \E i \in DOMAIN q : q[i] = f.at /\ l[i].id = f.seen[Len(f.seen)].id
  /\ \A j \in DOMAIN l : l[j].id \in f.due /\ ~Precedes(f.seen[Len(f.seen)], l[j]) => SeenId(f, l[j].id)

\* So do the loops of all levels, and none has passed anybody over.
LoopsServed ==
  /\ missed = {}
  /\ \A t \in Threads : \A i \in DOMAIN stack[t] :
       Looping(stack[t][i]) =>
         LoopServed(stack[t][i], listeners[ListOf(stack[t][i])], nodes[ListOf(stack[t][i])])

\* Every value of the list k stays in its node.
ListKept(k) ==
  \A i \in DOMAIN nodes[k] :
    \E j \in DOMAIN nodes'[k] : nodes'[k][j] = nodes[k][i] /\ listeners'[k][j].id = listeners[k][i].id

\* A loop that goes on, over such a list,
LEMMA ServedKept ==
  ASSUME SyncType, Inherited, NEW k \in IncidentTypes, ListKept(k),
         NEW f \in FrameSet, FrameInv(f), LoopServed(f, listeners[k], nodes[k]),
         NEW g, g.at = f.at, g.seen = f.seen, g.due = f.due
  PROVE  LoopServed(g, listeners'[k], nodes'[k])
<1> DEFINE z == f.seen[Len(f.seen)]
<1>1. PICK i \in DOMAIN nodes[k] : nodes[k][i] = f.at /\ listeners[k][i].id = z.id
  BY DEF LoopServed
<1>2. PICK a \in DOMAIN nodes'[k] : nodes'[k][a] = f.at /\ listeners'[k][a].id = z.id
  BY <1>1 DEF ListKept
<1>3. ASSUME NEW j \in DOMAIN listeners'[k], listeners'[k][j].id \in f.due, ~Precedes(z, listeners'[k][j])
      PROVE  SeenId(f, listeners'[k][j].id)
  <2>1. listeners'[k][j].id < nextId
    BY <1>3 DEF FrameInv
  <2>2. nextId \in Nat /\ listeners'[k][j].id \in Nat
    <3>1. listeners'[k] \in Seq(Entries)
      BY DEF Inherited
    <3>2. listeners'[k][j] \in Entries
      BY <3>1
    <3> QED
      BY <3>2 DEF Entries, SyncType
  <2>3. PICK b \in DOMAIN listeners[k] : SameKey(listeners'[k][j], listeners[k][b])
    BY <2>1, <2>2 DEF Inherited
  <2>4. listeners[k][b].id \in f.due /\ ~Precedes(z, listeners[k][b])
    BY <1>3, <2>3 DEF SameKey, Precedes
  <2>5. SeenId(f, listeners[k][b].id)
    BY <2>4 DEF LoopServed
  <2> QED
    BY <2>3, <2>5 DEF SameKey
<1>4. \A id : SeenId(f, id) => SeenId(g, id)
  BY DEF SeenId
<1> QED
  BY <1>2, <1>3, <1>4 DEF LoopServed

\* and one that stands on its place.
LEMMA LoopPlace ==
  ASSUME SyncType, ListsInOrder, NEW f \in FrameSet, FrameInv(f), Looping(f),
         LoopServed(f, listeners[ListOf(f)], nodes[ListOf(f)])
  PROVE  /\ IteratorValid(f)
         /\ \A j \in DOMAIN listeners[ListOf(f)] :
              /\ j <= Place(f) /\ listeners[ListOf(f)][j].id \in f.due => SeenId(f, listeners[ListOf(f)][j].id)
              /\ listeners[ListOf(f)][j].id = f.seen[Len(f.seen)].id => listeners[ListOf(f)][j] = Here(f)
<1> DEFINE k == ListOf(f)
           l == listeners[k]
           i == Place(f)
           z == f.seen[Len(f.seen)]
<1>1. PICK a \in DOMAIN nodes[k] : nodes[k][a] = f.at /\ l[a].id = z.id
  BY DEF LoopServed
<1>2. IteratorValid(f)
  BY <1>1 DEF IteratorValid
<1>3. i \in DOMAIN l /\ Here(f) = l[i] /\ k \in IncidentTypes /\ a = i
  BY <1>1, <1>2, LoopPosition, FrameParts
<1>4. Len(f.seen) \in DOMAIN f.seen /\ z.id \in Int /\ z.prio \in Int
  BY FrameParts DEF FrameInv
<1>5. l[i].id = z.id /\ l[i].prio = z.prio
  BY <1>1, <1>3, <1>4 DEF FrameInv, SeenWhere
<1>6. ASSUME NEW j \in DOMAIN l, l[j].id = z.id PROVE j = i
  BY <1>3, <1>5, <1>6 DEF ListsInOrder
<1>7. SeenId(f, z.id)
  BY <1>4 DEF SeenId
<1>8. ASSUME NEW j \in DOMAIN l, j <= i, l[j].id \in f.due PROVE SeenId(f, l[j].id)
  <2>1. CASE j = i
    BY <1>5, <1>7, <2>1
  <2>2. CASE j < i
    <3>1. Precedes(l[j], l[i])
      BY <1>3, <2>2 DEF ListsInOrder, Sorted
    <3>2. /\ l[j].id \in Int /\ l[j].prio \in Int
      BY <1>3, EntryParts
    <3>3. ~Precedes(z, l[j])
      BY <1>4, <1>5, <3>1, <3>2 DEF Precedes
    <3> QED
      BY <1>8, <3>3 DEF LoopServed
  <2>3. i \in Nat /\ j \in Nat
    BY <1>3, EntryParts
  <2> QED
    BY <1>8, <2>1, <2>2, <2>3
<1> QED
  BY <1>2, <1>3, <1>6, <1>8

\* The loops go on if no list that is looped over moves a value.
LEMMA LoopsKept ==
  ASSUME ServedInv, Inherited, LoopsServed, LoopsAreOld, missed' = missed,
         \A u \in Threads : \A j \in DOMAIN stack'[u] : Looping(stack'[u][j]) => ListKept(ListOf(stack'[u][j]))
  PROVE  LoopsServed'
<1>1. ASSUME NEW u \in Threads, NEW j \in DOMAIN stack'[u], NEW g, g = stack'[u][j], Looping(g)
      PROVE  LoopServed(g, listeners'[ListOf(g)], nodes'[ListOf(g)])
  <2> DEFINE f == stack[u][j]
  <2>1. j \in DOMAIN stack[u] /\ Looping(f) /\ SameLoop(g, f)
    BY <1>1 DEF LoopsAreOld
  <2>2. f \in FrameSet /\ FrameInv(f)
    <3>1. stack[u] \in Seq(FrameSet)
      BY DEF ServedInv, SyncType
    <3> QED
      BY <2>1, <3>1 DEF ServedInv, FramesInOrder
  <2>3. LoopServed(f, listeners[ListOf(f)], nodes[ListOf(f)])
    BY <2>1 DEF LoopsServed
  <2> HIDE DEF f
  <2>4. ListOf(f) \in IncidentTypes /\ ListOf(g) = ListOf(f) /\ g.at = f.at /\ g.seen = f.seen /\ g.due = f.due
    BY <2>1, <2>2, FrameParts DEF SameLoop
  <2>5. ListKept(ListOf(f))
    BY <1>1, <2>4
  <2> QED
    BY <2>2, <2>3, <2>4, <2>5, ServedKept DEF ServedInv
<1>2. \A u \in Threads : \A j \in DOMAIN stack'[u] :
        Looping(stack'[u][j]) =>
          LoopServed(stack'[u][j], listeners'[ListOf(stack'[u][j])], nodes'[ListOf(stack'[u][j])])
  BY <1>1, Zenon
<1> QED
  BY <1>2 DEF LoopsServed, LoopServed, Looping, ListOf, SeenId, Precedes

\* The step leaves the list k alone, or flags or hits values.
LEMMA SameNodes ==
  ASSUME SyncType, NodesInOrder, NEW k \in IncidentTypes, nodes'[k] = nodes[k],
         \A j \in DOMAIN listeners[k] : listeners'[k][j].id = listeners[k][j].id
  PROVE  ListKept(k)
<1>1. DOMAIN nodes[k] = DOMAIN listeners[k]
  BY DEF SyncType, NodesInOrder
<1> QED
  BY <1>1 DEF ListKept

\* A loop calls the listener of the next node,
LEMMA LoopAdvances ==
  ASSUME ServedInv, Inherited, LoopsServed, missed' = missed, NEW t \in Threads, NEW f, NEW i, CallsNode(t, f, i),
         \A j \in DOMAIN listeners[ListOf(f)] :
           j < i /\ listeners[ListOf(f)][j].id \in f.due => SeenId(f, listeners[ListOf(f)][j].id)
  PROVE  LoopsServed'
<1> DEFINE k == ListOf(f)
           l == listeners[k]
           g == stack'[t][Len(stack[t])]
<1>0. k \in IncidentTypes /\ i \in DOMAIN l /\ NodeCalled(t, f, i, k, g)
  BY CallsNodeParts, Zenon DEF ServedInv
<1>1. /\ \A m \in IncidentTypes : DOMAIN listeners'[m] = DOMAIN listeners[m]
      /\ \A m \in IncidentTypes : \A j \in DOMAIN listeners[m] : SameKey(listeners'[m][j], listeners[m][j])
      /\ nodes' = nodes /\ ListOf(g) = k /\ g.at = nodes[k][i] /\ g.due = f.due
      /\ SameKey(g.seen[Len(g.seen)], l[i])
      /\ \A id : SeenId(g, id) <=> SeenId(f, id) \/ id = l[i].id
      /\ \A u \in Threads : \A j \in DOMAIN stack[u] :
           u # t \/ j # Len(stack[t]) => j \in DOMAIN stack'[u] /\ stack'[u][j] = stack[u][j]
      /\ \A u \in Threads : DOMAIN stack'[u] = DOMAIN stack[u]
  BY <1>0, Zenon DEF NodeCalled
<1>2. i \in DOMAIN nodes[k] /\ i \in Nat
  BY <1>0, NodeParts, EntryParts DEF ServedInv
<1>3. ASSUME NEW j \in DOMAIN listeners'[k], listeners'[k][j].id \in g.due,
             ~Precedes(g.seen[Len(g.seen)], listeners'[k][j])
      PROVE  SeenId(g, listeners'[k][j].id)
  <2>1. j \in DOMAIN l /\ SameKey(listeners'[k][j], l[j]) /\ j \in Nat
    BY <1>0, <1>1, <1>3, EntryParts DEF ServedInv
  <2>2. ~Precedes(l[i], l[j])
    BY <1>1, <1>3, <2>1 DEF Precedes, SameKey
  <2>3. ~(i < j)
    BY <1>0, <2>1, <2>2 DEF ServedInv, ListsInOrder, Sorted
  <2>4. CASE j = i
    BY <1>1, <2>1, <2>4 DEF SameKey
  <2>5. CASE j < i
    BY <1>1, <1>3, <2>1, <2>5 DEF SameKey
  <2> QED
    BY <1>2, <2>1, <2>3, <2>4, <2>5
<1>4. LoopServed(g, listeners'[k], nodes'[k])
  <2>1. i \in DOMAIN nodes'[k] /\ nodes'[k][i] = g.at /\ listeners'[k][i].id = g.seen[Len(g.seen)].id
    BY <1>0, <1>1, <1>2 DEF SameKey
  <2> HIDE DEF g
  <2> QED
    BY <1>3, <2>1 DEF LoopServed
<1>5. ASSUME NEW u \in Threads, NEW j \in DOMAIN stack'[u], NEW h, h = stack'[u][j], Looping(h)
      PROVE  LoopServed(h, listeners'[ListOf(h)], nodes'[ListOf(h)])
  <2>1. CASE u = t /\ j = Len(stack[t])
    BY <1>1, <1>4, <1>5, <2>1
  <2>2. CASE ~(u = t /\ j = Len(stack[t]))
    <3>1. j \in DOMAIN stack[u] /\ h = stack[u][j]
      BY <1>1, <1>5, <2>2
    <3>2. h \in FrameSet /\ FrameInv(h) /\ LoopServed(h, listeners[ListOf(h)], nodes[ListOf(h)])
      <4>1. stack[u] \in Seq(FrameSet)
        BY DEF ServedInv, SyncType
      <4> QED
        BY <1>5, <3>1, <4>1 DEF ServedInv, FramesInOrder, LoopsServed
    <3>3. ListOf(h) \in IncidentTypes
      BY <3>2, FrameParts
    <3>4. ListKept(ListOf(h))
      BY <1>1, <3>3, SameNodes DEF SameKey, ServedInv, ListsInOrder
    <3> QED
      BY <3>2, <3>3, <3>4, ServedKept DEF ServedInv
  <2> QED
    BY <2>1, <2>2
<1>6. \A u \in Threads : \A j \in DOMAIN stack'[u] :
        Looping(stack'[u][j]) =>
          LoopServed(stack'[u][j], listeners'[ListOf(stack'[u][j])], nodes'[ListOf(stack'[u][j])])
  BY <1>5, Zenon
<1> QED
  BY <1>6 DEF LoopsServed, LoopServed, Looping, ListOf, SeenId, Precedes

\* or it ends: what it erases is in a list that no other loop is in, and nobody
\* was passed over.
LEMMA LoopEnds ==
  ASSUME ServedInv, LockInv, Inherited, LoopsServed, NotNested, NEW t \in Threads, stack[t] # <<>>, Looping(Top(t)),
         \/ stack' = [stack EXCEPT ![t] = AfterList(@, Top(t))]
         \/ Rethrow(t, Top(t)),
         missed' = missed,
         \A k \in IncidentTypes : k # ListOf(Top(t)) => listeners'[k] = listeners[k] /\ nodes'[k] = nodes[k]
  PROVE  LoopsServed'
<1>1. /\ LoopsAreOld
      /\ \A u \in Threads : \A j \in DOMAIN stack'[u] : Looping(stack'[u][j]) => ListOf(stack'[u][j]) # ListOf(Top(t))
  BY LoopsEnd
<1>2. ASSUME NEW u \in Threads, NEW j \in DOMAIN stack'[u], Looping(stack'[u][j])
      PROVE  ListKept(ListOf(stack'[u][j]))
  <2>1. j \in DOMAIN stack[u] /\ ListOf(stack'[u][j]) = ListOf(stack[u][j]) /\ stack[u] \in Seq(FrameSet)
    BY <1>1, <1>2 DEF LoopsAreOld, SameLoop, ServedInv, SyncType
  <2>2. stack[u][j] \in FrameSet
    BY <2>1
  <2>3. ListOf(stack'[u][j]) \in IncidentTypes
    BY <2>1, <2>2, FrameParts
  <2> QED
    BY <1>1, <1>2, <2>3, SameNodes DEF ServedInv, ListsInOrder
<1> QED
  BY <1>1, <1>2, LoopsKept

\* The end of the list has called everybody due.
LEMMA NobodyLeft ==
  ASSUME ServedInv, NEW f \in FrameSet, FrameInv(f), Looping(f),
         LoopServed(f, listeners[ListOf(f)], nodes[ListOf(f)]), Place(f) = Len(listeners[ListOf(f)])
  PROVE  PassedOver(f) = {}
<1>1. \A j \in DOMAIN listeners[ListOf(f)] :
        listeners[ListOf(f)][j].id \in f.due => SeenId(f, listeners[ListOf(f)][j].id)
  <2>1. ListOf(f) \in IncidentTypes
    BY FrameParts
  <2>2. \A j \in DOMAIN listeners[ListOf(f)] : j <= Place(f)
    BY <2>1, EntryParts DEF ServedInv
  <2> QED
    BY <2>2, LoopPlace DEF ServedInv
<1> QED
  BY <1>1 DEF PassedOver, Ids, SeenId

\* A call of removeListener moves no value that is looped over.
LEMMA RemovalKeeps ==
  ASSUME ServedInv, LockInv, RemovalsSafe, NEW t \in Threads, Calling(t), NEW x \in Calls(t), x.op = "remove",
         LockIsFree(t), RemoveListener(x),
         NEW u \in Threads, NEW j \in DOMAIN stack[u], Looping(stack[u][j])
  PROVE  ListKept(ListOf(stack[u][j]))
<1> DEFINE k == ListOf(stack[u][j])
<1>1. u = t /\ stack[t] \in Seq(FrameSet) /\ stack[t] # <<>>
  <2>1. u = t
    BY DEF LockIsFree, HasLock
  <2>2. stack[t] \in Seq(FrameSet)
    BY DEF ServedInv, SyncType
  <2> QED
    BY <2>1, <2>2
<1>2. stack[u][j] \in FrameSet /\ k \in IncidentTypes
  <2>1. stack[u][j] \in FrameSet
    BY <1>1
  <2> QED
    BY <2>1, FrameParts
<1>3. x \in Requests
  BY CallsAreRequests
<1>4. PICK schedule \in ScheduleForRemoval(x.type) :
        /\ schedule \in BOOLEAN
        /\ \A m \in IncidentTypes :
             listeners'[m] = IF x.type \in {"", m} THEN RemoveFromList(listeners[m], x.lis, schedule)
                             ELSE listeners[m]
  BY <1>3, RemovedLists DEF ServedInv
<1>5. listeners[k] \in Seq(Entries)
  BY <1>2 DEF ServedInv, SyncType
<1>6. NodesStay
  BY <1>3, RemovedLists, TailErased DEF ServedInv, ListsInOrder
<1>7. ASSUME DOMAIN listeners'[k] = DOMAIN listeners[k],
             \A i \in DOMAIN listeners[k] : listeners'[k][i].id = listeners[k][i].id
      PROVE  ListKept(k)
  <2>1. /\ nodes[k] \in Seq(Nat) /\ nodes'[k] \in Seq(Nat) /\ listeners'[k] \in Seq(Entries)
        /\ Len(nodes[k]) = Len(listeners[k]) /\ Len(nodes'[k]) = Len(listeners'[k])
    BY <1>2, <1>3, <1>6, RemovedLists DEF NodesStay, ServedInv, SyncType, ListsInOrder, NodesInOrder
  <2>2. DOMAIN nodes'[k] = DOMAIN nodes[k]
    BY <1>5, <1>7, <2>1
  <2>3. nodes'[k] = nodes[k]
    BY <1>2, <1>6, <2>1, <2>2 DEF NodesStay
  <2> HIDE DEF k
  <2> QED
    BY <1>2, <1>7, <2>3, SameNodes DEF ServedInv, ListsInOrder
<1> HIDE DEF k
<1>8. CASE x.type \notin {"", k}
  <2>1. listeners'[k] = listeners[k]
    BY <1>2, <1>4, <1>8
  <2> QED
    BY <1>7, <2>1 DEF k
<1>9. CASE x.type \in {"", k}
  <2>1. current = x.type
    BY <1>1, <1>9 DEF RemovalsSafe, k
  <2>2. x.type # Freed
    BY <1>3 DEF Requests, Registrations, IncidentTypes, Freed, All
  <2>3. schedule = TRUE
    BY <2>1, <2>2, <1>4 DEF ScheduleForRemoval
  <2> DEFINE m == RemoveFromList(listeners[k], x.lis, schedule)
  <2>4. listeners'[k] = m
    BY <1>2, <1>4, <1>9
  <2>5. /\ DOMAIN m = DOMAIN listeners[k]
        /\ \A i \in DOMAIN listeners[k] : m[i] \in {listeners[k][i], Flagged(listeners[k][i])}
    BY <1>4, <1>5, <2>3, RemovedList
  <2> HIDE DEF m
  <2>6. ASSUME NEW i \in DOMAIN listeners[k] PROVE m[i].id = listeners[k][i].id
    <3>1. listeners[k][i] \in Entries
      BY <1>5
    <3>2. Flagged(listeners[k][i]).id = listeners[k][i].id
      BY <3>1, FlaggedEntry DEF SameKey
    <3> QED
      BY <2>5, <3>2
  <2> QED
    BY <1>7, <2>4, <2>5, <2>6 DEF k
<1> QED
  BY <1>8, <1>9 DEF k

\* Every step of the service keeps the loops served.
LEMMA LoopsStep ==
  ASSUME ServedInv, LockInv, LoopsServed, NotNested, RemovalsSafe, SyncNext PROVE LoopsServed'
<1>0. Inherited
  BY SyncStep
<1>1. ASSUME NEW x \in Registrations, AddListener(x), UNCHANGED <<stack, missed>> PROVE LoopsServed'
  <2>1. LoopsAreOld
    BY <1>1, LoopsUnchanged
  <2>2. \A k \in IncidentTypes : ListKept(k)
    <3>1. \A k \in IncidentTypes : NodesKept(k)
      BY <1>1, AddedLists DEF ServedInv
    <3> QED
      BY <3>1 DEF ListKept, NodesKept
  <2>3. \A u \in Threads : \A j \in DOMAIN stack'[u] : ListOf(stack'[u][j]) \in IncidentTypes
    <3>1. \A u \in Threads : stack'[u] \in Seq(FrameSet)
      BY <1>1 DEF ServedInv, SyncType
    <3>2. \A u \in Threads : \A j \in DOMAIN stack'[u] : stack'[u][j] \in FrameSet
      BY <3>1
    <3> QED
      BY <3>2, FrameParts
  <2> QED
    BY <1>0, <1>1, <2>1, <2>2, <2>3, LoopsKept
<1>2. ASSUME LoopsAreOld, UNCHANGED <<listeners, nodes, missed>> PROVE LoopsServed'
  BY <1>0, <1>2, LoopsKept DEF ListKept
<1>3. CASE Register
  <2>1. AddListener(client.initial[nextId]) /\ UNCHANGED <<stack, missed>> /\ ~(nextId > Len(client.initial))
    BY <1>3 DEF Register, Registered
  <2>2. client.initial \in Seq(Registrations) /\ nextId \in Nat \ {0}
    BY ClientsAssumption DEF ServedInv, SyncType
  <2>3. client.initial[nextId] \in Registrations
    BY <2>1, <2>2
  <2> QED
    BY <1>1, <2>1, <2>3
<1>4. ASSUME NEW t \in Threads, Calling(t), NEW x \in Calls(t), Call(t, x) PROVE LoopsServed'
  <2>1. x \in Requests /\ missed' = missed
    BY <1>4, CallsAreRequests DEF Call
  <2>2. CASE x.op = "add" /\ AddListener(x) /\ UNCHANGED stack
    <3>1. x \in Registrations
      BY <2>1, <2>2 DEF Requests
    <3> QED
      BY <1>1, <2>1, <2>2, <3>1
  <2>3. CASE x.op = "remove" /\ LockIsFree(t) /\ RemoveListener(x) /\ UNCHANGED stack
    <3>1. \A u \in Threads : \A j \in DOMAIN stack[u] : Looping(stack[u][j]) => ListKept(ListOf(stack[u][j]))
      BY <1>4, <2>3, RemovalKeeps
    <3>2. LoopsAreOld
      BY <2>3, LoopsUnchanged
    <3> QED
      BY <1>0, <2>1, <2>3, <3>1, <3>2, LoopsKept
  <2>4. CASE /\ x.op = "fire" /\ stack' = [stack EXCEPT ![t] = Append(@, NewFrame(x.type))]
             /\ UNCHANGED <<listeners, nodes, nextId>>
    <3>1. x.type \in IncidentTypes
      BY <2>1, <2>4 DEF Requests, Registrations
    <3>2. NewFrame(x.type) \in FrameSet
      BY <3>1, NewFrameInv
    <3>3. ~Looping(NewFrame(x.type))
      BY DEF NewFrame, Looping
    <3>4. LoopsAreOld
      BY <2>4, <3>2, <3>3, LoopsFire DEF ServedInv
    <3> QED
      BY <1>2, <2>1, <2>4, <3>4
  <2> QED
    BY <1>4, <2>2, <2>3, <2>4 DEF Call
<1>5. ASSUME NEW t \in Threads, EnterList(t) PROVE LoopsServed'
  <2>1. /\ stack[t] # <<>> /\ ~Looping(Top(t)) /\ UNCHANGED <<nodes, missed>>
        /\ \/ stack' = [stack EXCEPT ![t] = AfterList(@, Top(t))] /\ UNCHANGED listeners
           \/ \E f : CallsNode(t, f, 1) /\ ListOf(f) = ListOf(Top(t))
    BY <1>5, EnterCases
  <2>2. CASE stack' = [stack EXCEPT ![t] = AfterList(@, Top(t))] /\ UNCHANGED listeners
    BY <1>2, <2>1, <2>2, LoopsPass
  <2>3. CASE \E f : CallsNode(t, f, 1)
    <3>1. PICK f : CallsNode(t, f, 1)
      BY <2>3
    <3>2. \A j \in DOMAIN listeners[ListOf(f)] : ~(j < 1)
      <4>1. f \in FrameSet
        BY <3>1 DEF CallsNode
      <4> QED
        BY <4>1, FrameParts, EntryParts DEF ServedInv
    <3> QED
      BY <1>0, <2>1, <3>1, <3>2, LoopAdvances
  <2> QED
    BY <2>1, <2>2, <2>3
<1>6. ASSUME NEW t \in Threads, stack[t] # <<>>, Looping(Top(t)), IteratorValid(Top(t)), NextNode(t, Top(t))
      PROVE  LoopsServed'
  <2> DEFINE f == Top(t)
  <2>1. /\ f \in FrameSet /\ FrameInv(f) /\ Looping(f) /\ ListOf(f) \in IncidentTypes
        /\ \/ \E g : /\ CallsNode(t, g, Place(f) + 1) /\ ListOf(g) = ListOf(f)
                     /\ g.seen = f.seen /\ g.due = f.due /\ missed' = missed
           \/ /\ stack' = [stack EXCEPT ![t] = AfterList(@, f)] /\ EraseTail
              /\ listeners' = [listeners EXCEPT ![ListOf(f)] = Survivors(f)]
              /\ Place(f) = Len(listeners[ListOf(f)]) /\ missed' = missed \cup PassedOver(f)
    BY <1>6, NextCases, Zenon
  <2>2. LoopServed(f, listeners[ListOf(f)], nodes[ListOf(f)])
    <3>1. f = stack[t][Len(stack[t])] /\ Len(stack[t]) \in DOMAIN stack[t]
      BY <1>6, TopParts DEF ServedInv
    <3> QED
      BY <1>6, <3>1 DEF LoopsServed
  <2>3. CASE \E g : /\ CallsNode(t, g, Place(f) + 1) /\ ListOf(g) = ListOf(f)
                    /\ g.seen = f.seen /\ g.due = f.due /\ missed' = missed
    <3>1. PICK g : /\ CallsNode(t, g, Place(f) + 1) /\ ListOf(g) = ListOf(f)
                   /\ g.seen = f.seen /\ g.due = f.due /\ missed' = missed
      BY <2>3
    <3>2. Place(f) \in Nat /\ \A j \in DOMAIN listeners[ListOf(f)] : j \in Nat
      BY <1>6, <2>1, LoopPosition, EntryParts DEF ServedInv
    <3>3. \A j \in DOMAIN listeners[ListOf(f)] :
            j <= Place(f) /\ listeners[ListOf(f)][j].id \in f.due => SeenId(f, listeners[ListOf(f)][j].id)
      BY <2>1, <2>2, LoopPlace DEF ServedInv
    <3> HIDE DEF f
    <3>4. \A j \in DOMAIN listeners[ListOf(g)] :
            j < Place(f) + 1 /\ listeners[ListOf(g)][j].id \in g.due => SeenId(g, listeners[ListOf(g)][j].id)
      BY <3>1, <3>2, <3>3 DEF SeenId
    <3> QED
      BY <1>0, <3>1, <3>4, LoopAdvances
  <2>4. CASE /\ stack' = [stack EXCEPT ![t] = AfterList(@, f)] /\ EraseTail
             /\ listeners' = [listeners EXCEPT ![ListOf(f)] = Survivors(f)]
             /\ Place(f) = Len(listeners[ListOf(f)]) /\ missed' = missed \cup PassedOver(f)
    <3>1. missed' = missed
      BY <2>1, <2>2, <2>4, NobodyLeft
    <3>2. \A k \in IncidentTypes : k # ListOf(f) => listeners'[k] = listeners[k]
      BY <2>4 DEF ServedInv, SyncType
    <3>3. ASSUME NEW k \in IncidentTypes, k # ListOf(f) PROVE nodes'[k] = nodes[k]
      <4>1. nodes'[k] = SubSeq(nodes[k], 1, Len(listeners[k]))
        BY <2>4, <3>2, <3>3 DEF EraseTail, Types, ServedInv, SyncType
      <4>2. nodes[k] \in Seq(Nat) /\ Len(nodes[k]) = Len(listeners[k])
        BY DEF ServedInv, SyncType, ListsInOrder, NodesInOrder
      <4> QED
        BY <4>1, <4>2
    <3> QED
      BY <1>0, <1>6, <2>4, <3>1, <3>2, <3>3, LoopEnds
  <2> QED
    BY <2>1, <2>3, <2>4
<1>7. ASSUME NEW t \in Threads, HandlerReturns(t) PROVE LoopsServed'
  BY <1>6, <1>7 DEF HandlerReturns, Looping
<1>8. ASSUME NEW t \in Threads, HandlerThrows(t) PROVE LoopsServed'
  <2>1. UNCHANGED <<listeners, nodes, missed>>
    BY <1>8 DEF HandlerThrows
  <2> QED
    BY <1>2, <1>8, <2>1, LoopsThrown
<1>9. ASSUME NEW t \in Threads, CatchException(t) PROVE LoopsServed'
  <2>1. /\ stack[t] # <<>> /\ Top(t).in = "throw" /\ IteratorValid(Top(t))
        /\ Swallow(t, Top(t)) \/ Rethrow(t, Top(t))
    BY <1>9 DEF CatchException
  <2>2. Looping(Top(t))
    BY <2>1 DEF Looping
  <2>3. CASE Swallow(t, Top(t))
    BY <1>6, <2>1, <2>2, <2>3 DEF Swallow
  <2>4. CASE Rethrow(t, Top(t))
    <3>1. UNCHANGED <<listeners, nodes, missed>>
      BY <2>4 DEF Rethrow
    <3> QED
      BY <1>0, <2>1, <2>2, <2>4, <3>1, LoopEnds
  <2> QED
    BY <2>1, <2>3, <2>4
<1> QED
  BY <1>3, <1>4, <1>5, <1>7, <1>8, <1>9 DEF SyncNext

\* So they stay with clients that keep the rules.
LEMMA LoopsInvariant == Spec /\ [](NotNested /\ RemovalsSafe) => []LoopsServed
<1>1. Init => LoopsServed
  BY DEF Init, SyncInit, LoopsServed
<1>2. ASSUME ServedInv, LockInv, LoopsServed, NotNested, RemovalsSafe, [Next]_vars PROVE LoopsServed'
  <2>1. Inherited /\ (SyncNext \/ UNCHANGED syncVars)
    BY <1>2, NextStep
  <2>2. CASE UNCHANGED syncVars
    <3>1. UNCHANGED <<listeners, nodes, stack, missed>>
      BY <2>2 DEF syncVars
    <3>2. LoopsAreOld
      BY <3>1, LoopsUnchanged
    <3> QED
      BY <1>2, <2>1, <3>1, <3>2, LoopsKept DEF ListKept
  <2> QED
    BY <1>2, <2>1, <2>2, LoopsStep
<1> QED
  BY <1>1, <1>2, SyncInvariant, PTL DEF Spec

-----------------------------------------------------------------------------
(* ListenersServed and PointersValid.                                      *)

\* As long as handlers do not fire, on whatever detour, an incident that is being
\* fired, and remove only listeners of the current incident or of a named type
\* that is not being fired, i_fireIncident calls everybody who was registered
\* when it began and still is when it ends, once, by priority and then age,
\* whatever else handlers and other threads add, remove, fire and throw.
THEOREM ListenersAreServed == Spec /\ [](NotNested /\ RemovalsSafe) => []ListenersServed
<1>1. LoopsServed => NobodyMissed
  BY DEF LoopsServed, NobodyMissed
<1>2. CalledOnceInOrder /\ NobodyMissed => ListenersServed
  BY DEF ListenersServed
<1> QED
  BY <1>1, <1>2, ListenersAreCalledInOrder, LoopsInvariant, PTL

\* The invariants are what PointersValid needs.
LEMMA InvIsValid == ASSUME ServedInv, LockInv, LoopsServed PROVE PointersValid
<1>1. \A p \in Frames : /\ p[1] \in Threads /\ p[2] \in DOMAIN stack[p[1]]
                        /\ Looping(FrameAt(p)) /\ FrameAt(p) \in FrameSet
  <2> SUFFICES ASSUME NEW p \in Frames
               PROVE  /\ p[1] \in Threads /\ p[2] \in DOMAIN stack[p[1]]
                      /\ Looping(FrameAt(p)) /\ FrameAt(p) \in FrameSet
    OBVIOUS
  <2>1. p[1] \in Threads /\ p[2] \in 1..client.calls /\ p[2] <= Len(stack[p[1]]) /\ Looping(FrameAt(p))
    BY DEF Frames
  <2>2. stack[p[1]] \in Seq(FrameSet) /\ client.calls \in Nat
    BY <2>1, ClientsAssumption DEF ServedInv, SyncType
  <2>3. p[2] \in DOMAIN stack[p[1]]
    BY <2>1, <2>2
  <2> QED
    BY <2>1, <2>2, <2>3 DEF FrameAt
<1>2. IteratorsValid
  BY <1>1 DEF IteratorsValid, IteratorValid, LoopsServed, LoopServed, FrameAt
<1>3. Types = IncidentTypes
  BY DEF Types, ServedInv, SyncType
<1>4. current \in {FrameAt(p).inc : p \in Frames} \cup {Null, Freed}
  <2>1. ASSUME NEW t \in Threads, NEW i \in DOMAIN stack[t], Looping(stack[t][i]), stack[t][i].inc = current
        PROVE  current \in {FrameAt(p).inc : p \in Frames}
    <3>1. i \in 1..client.calls /\ i <= Len(stack[t])
      <4>1. stack[t] \in Seq(FrameSet) /\ client.calls \in Nat /\ left \in Nat /\ Len(stack[t]) <= client.calls - left
        BY ClientsAssumption DEF ServedInv, SyncType, LockInv, CallsBounded
      <4> QED
        BY <4>1
    <3> DEFINE p == <<t, i>>
    <3>2. p[1] = t /\ p[2] = i /\ p \in Threads \X (1..client.calls)
      BY <3>1
    <3> HIDE DEF p
    <3>3. FrameAt(p) = stack[t][i]
      BY <3>2 DEF FrameAt
    <3>4. p \in Frames
      BY <2>1, <3>1, <3>2, <3>3 DEF Frames
    <3> QED
      BY <2>1, <3>3, <3>4
  <2> QED
    BY <2>1 DEF LockInv, CurrentLives
<1>5. left \in 0..client.calls
  BY ClientsAssumption DEF ServedInv, SyncType, LockInv, CallsBounded
<1>6. \A k \in IncidentTypes :
        /\ Len(nodes[k]) = Len(listeners[k])
        /\ \A i \in DOMAIN listeners[k] : listeners[k][i].id < nextId /\ nodes[k][i] < nextId
  <2>1. \A k \in IncidentTypes : \A i \in DOMAIN listeners[k] : nodes[k][i] < nextId
    BY NodeParts DEF ServedInv
  <2> QED
    BY <2>1 DEF ServedInv, ListsInOrder, NodesInOrder
<1>7. \A p \in Frames : ListOf(FrameAt(p)) \in Types /\ FrameAt(p).inc \in Types
  BY <1>1, <1>3, FrameParts
<1> QED
  BY <1>2, <1>3, <1>4, <1>5, <1>6, <1>7 DEF PointersValid, TypeOK

\* For the same clients, no iterator of a loop of i_fireIncident dangles, on any
\* level, whatever removeListener erases, and m_currentIncidentType points into
\* an incident that exists, or is null, or was left behind by an exception.
THEOREM PointersStayValid == Spec /\ [](NotNested /\ RemovalsSafe) => []PointersValid
<1>1. ServedInv /\ LockInv /\ LoopsServed => PointersValid
  BY InvIsValid
<1> QED
  BY <1>1, SyncInvariant, LoopsInvariant, PTL

-----------------------------------------------------------------------------
(* SilencedAfterShot.                                                      *)

\* A node that was removed, or is for one shot, is flagged for its erasure.
EntryTidy(n) == (n.gone # -1 => n.single) /\ (n.once => n.single)
EntryFine(n) == EntryTidy(n) /\ n.gone <= 1 /\ (n.once => n.calls <= 1)

\* It must not be called again,
Spent(n) == n.gone >= 1 \/ (n.once /\ n.calls >= 1)

\* and the loop that called it will erase it.
LastId(f) == f.seen[Len(f.seen)].id
Holds(f, k, id) == Looping(f) /\ ListOf(f) = k /\ SeenId(f, id) /\ (f.shot = TRUE \/ LastId(f) = id)
HeldIn(st, k, id) == \E t \in Threads : \E j \in DOMAIN st[t] : Holds(st[t][j], k, id)

Quiet(st, k, n) == EntryFine(n) /\ (Spent(n) => HeldIn(st, k, n.id))

\* The invariant: every node is fine, and one that is spent is held.
SilentInv ==
  \A k \in IncidentTypes \ escaped : \A i \in DOMAIN listeners[k] : Quiet(stack, k, listeners[k][i])

\* A node that is called,
LEMMA HitFine ==
  ASSUME NEW n \in Entries, EntryFine(n), ~Spent(n) PROVE EntryFine(Hit(n))
<1>1. /\ Hit(n).calls = n.calls + 1 /\ Hit(n).gone = (IF n.gone = -1 THEN -1 ELSE n.gone + 1)
      /\ Hit(n).single = n.single /\ Hit(n).once = n.once
  BY HitEntry
<1>2. n.gone \in Int /\ n.calls \in Nat
  BY DEF Entries
<1>3. n.single \in BOOLEAN /\ n.once \in BOOLEAN
  BY Zenon DEF Entries
<1>4. /\ ~(n.gone >= 1) => Hit(n).gone <= 1
      /\ Hit(n).gone # -1 => n.gone # -1
      /\ ~(n.calls >= 1) => Hit(n).calls <= 1
  BY <1>1, <1>2
<1> QED
  BY <1>1, <1>3, <1>4, Zenon DEF EntryFine, EntryTidy, Spent

\* flagged
LEMMA FlaggedFine ==
  ASSUME NEW n \in Entries, EntryFine(n) PROVE EntryFine(Flagged(n)) /\ (Spent(Flagged(n)) => Spent(n))
<1>1. /\ Flagged(n).single = TRUE /\ Flagged(n).gone = 0
      /\ Flagged(n).calls = n.calls /\ Flagged(n).once = n.once
  BY FlaggedEntry
<1>2. n.single \in BOOLEAN /\ n.once \in BOOLEAN
  BY Zenon DEF Entries
<1>3. Flagged(n).gone <= 1 /\ ~(Flagged(n).gone >= 1)
  BY <1>1
<1> QED
  BY <1>1, <1>2, <1>3, Zenon DEF EntryFine, EntryTidy, Spent

\* or new.
LEMMA NewFine ==
  ASSUME NEW x \in Registrations, NEW id \in Nat PROVE EntryFine(Entry(x, id)) /\ ~Spent(Entry(x, id))
<1>1. /\ Entry(x, id).gone = -1 /\ Entry(x, id).calls = 0
      /\ Entry(x, id).single = x.single /\ Entry(x, id).once = x.single
  BY NewEntry
<1>2. Entry(x, id).gone <= 1 /\ ~(Entry(x, id).gone >= 1) /\ Entry(x, id).calls <= 1 /\ ~(Entry(x, id).calls >= 1)
  BY <1>1
<1>3. x.single \in BOOLEAN
  BY Zenon DEF Registrations
<1> QED
  BY <1>1, <1>2, <1>3, Zenon DEF EntryFine, EntryTidy, Spent

\* A node that is spent is flagged.
LEMMA SpentSingle ==
  ASSUME NEW n \in Entries, EntryFine(n), Spent(n) PROVE n.single = TRUE
<1>1. n.gone >= 1 => n.gone # -1
  BY DEF Entries
<1>2. n.single \in BOOLEAN
  BY Zenon DEF Entries
<1> QED
  BY <1>1, <1>2, Zenon DEF EntryFine, EntryTidy, Spent

\* What is held stays held while the loops stay.
LEMMA HeldStays ==
  ASSUME NEW S, LoopsStay(S), NEW k \in S, NEW id, HeldIn(stack, k, id) PROVE HeldIn(stack', k, id)
<1>0. PICK t \in Threads : \E j \in DOMAIN stack[t] : Holds(stack[t][j], k, id)
  BY DEF HeldIn
<1>1. PICK j \in DOMAIN stack[t] : Holds(stack[t][j], k, id)
  BY <1>0
<1>2. j \in DOMAIN stack'[t] /\ SameLoop(stack'[t][j], stack[t][j])
  BY <1>1, Zenon DEF LoopsStay, Holds
<1>3. Holds(stack'[t][j], k, id)
  BY <1>1, <1>2, Zenon DEF Holds, SameLoop, SeenId, LastId
<1> QED
  BY <1>2, <1>3 DEF HeldIn

\* A node that a step leaves alone.
LEMMA QuietStays ==
  ASSUME SilentInv, NEW S, LoopsStay(S), NEW k \in IncidentTypes \ escaped, k \in S,
         NEW i \in DOMAIN listeners[k]
  PROVE  Quiet(stack', k, listeners[k][i])
<1>1. Quiet(stack, k, listeners[k][i])
  BY DEF SilentInv
<1>2. HeldIn(stack, k, listeners[k][i].id) => HeldIn(stack', k, listeners[k][i].id)
  BY HeldStays
<1> QED
  BY <1>1, <1>2, Zenon DEF Quiet

\* To show that the invariant holds after a step.
LEMMA SilentAfter ==
  ASSUME \A k \in IncidentTypes \ escaped' : \A j \in DOMAIN listeners'[k] : Quiet(stack', k, listeners'[k][j])
  PROVE  SilentInv'
BY DEF SilentInv, Quiet, EntryFine, EntryTidy, Spent, HeldIn, Holds, Looping, ListOf, SeenId, LastId

\* The lists do not change.
LEMMA SilentSame ==
  ASSUME SilentInv, LoopsStay(IncidentTypes), UNCHANGED <<listeners, escaped>> PROVE SilentInv'
<1>1. ASSUME NEW k \in IncidentTypes \ escaped, NEW j \in DOMAIN listeners[k]
      PROVE  Quiet(stack', k, listeners[k][j])
  BY QuietStays
<1> QED
  BY <1>1, SilentAfter

\* Who holds a node of the list that the innermost call loops over is that call.
LEMMA HolderIsTop ==
  ASSUME ServedInv, LockInv, NotNested, NEW t \in Threads, stack[t] # <<>>, Looping(Top(t)), NEW id,
         HeldIn(stack, ListOf(Top(t)), id)
  PROVE  Holds(Top(t), ListOf(Top(t)), id)
<1>0. PICK u \in Threads : \E j \in DOMAIN stack[u] : Holds(stack[u][j], ListOf(Top(t)), id)
  BY DEF HeldIn
<1>1. PICK j \in DOMAIN stack[u] : Holds(stack[u][j], ListOf(Top(t)), id)
  BY <1>0
<1>2. Looping(stack[u][j]) /\ ListOf(stack[u][j]) = ListOf(Top(t))
  BY <1>1 DEF Holds
<1>3. u = t /\ j = Len(stack[t])
  BY <1>2, OnlyLoop DEF ServedInv, LockInv
<1>4. stack[u][j] = Top(t)
  BY <1>3, TopParts DEF ServedInv
<1> QED
  BY <1>1, <1>4

\* addListener,
LEMMA AddSilent ==
  ASSUME ServedInv, SilentInv, NEW x \in Registrations, AddListener(x), UNCHANGED <<stack, escaped>>
  PROVE  SilentInv'
<1>1. \A k \in IncidentTypes : \A j \in DOMAIN listeners'[k] :
        \/ listeners'[k][j] = Entry(x, nextId)
        \/ \E i \in DOMAIN listeners[k] : listeners'[k][j] = listeners[k][i]
  BY AddedLists DEF ServedInv
<1>2. EntryFine(Entry(x, nextId)) /\ ~Spent(Entry(x, nextId))
  <2>1. nextId \in Nat
    BY DEF ServedInv, SyncType
  <2> QED
    BY <2>1, NewFine
<1>3. LoopsStay(IncidentTypes)
  BY LoopsUnchanged
<1>4. ASSUME NEW k \in IncidentTypes \ escaped, NEW i \in DOMAIN listeners[k]
      PROVE  Quiet(stack', k, listeners[k][i])
  BY <1>3, QuietStays
<1>5. ASSUME NEW k \in IncidentTypes \ escaped', NEW j \in DOMAIN listeners'[k]
      PROVE  Quiet(stack', k, listeners'[k][j])
  <2>1. CASE listeners'[k][j] = Entry(x, nextId)
    BY <1>2, <2>1, Zenon DEF Quiet
  <2>2. CASE \E i \in DOMAIN listeners[k] : listeners'[k][j] = listeners[k][i]
    BY <1>4, <2>2
  <2> QED
    BY <1>1, <2>1, <2>2
<1> QED
  BY <1>5, SilentAfter

\* removeListener,
LEMMA RemoveSilent ==
  ASSUME ServedInv, SilentInv, NEW x \in Requests, x.op = "remove", RemoveListener(x), UNCHANGED <<stack, escaped>>
  PROVE  SilentInv'
<1>1. PICK schedule \in ScheduleForRemoval(x.type) :
        /\ schedule \in BOOLEAN
        /\ \A k \in IncidentTypes :
             listeners'[k] = IF x.type \in {"", k} THEN RemoveFromList(listeners[k], x.lis, schedule)
                             ELSE listeners[k]
  BY RemovedLists DEF ServedInv
<1>2. LoopsStay(IncidentTypes)
  BY LoopsUnchanged
<1>3. ASSUME NEW k \in IncidentTypes \ escaped', NEW j \in DOMAIN listeners'[k]
      PROVE  Quiet(stack', k, listeners'[k][j])
  <2>1. listeners[k] \in Seq(Entries) /\ k \in IncidentTypes \ escaped
    BY DEF ServedInv, SyncType
  <2>2. \A i \in DOMAIN listeners[k] : Quiet(stack', k, listeners[k][i]) /\ listeners[k][i] \in Entries
    BY <1>2, <2>1, QuietStays
  <2>3. ASSUME NEW n \in Entries, Quiet(stack', k, n) PROVE Quiet(stack', k, Flagged(n))
    <3>1. EntryFine(Flagged(n)) /\ (Spent(Flagged(n)) => Spent(n))
      BY <2>3, FlaggedFine DEF Quiet
    <3>2. Flagged(n).id = n.id
      BY FlaggedEntry DEF SameKey
    <3> QED
      BY <2>3, <3>1, <3>2, Zenon DEF Quiet
  <2>4. CASE x.type \notin {"", k}
    BY <1>1, <2>1, <2>2, <2>4
  <2>5. CASE x.type \in {"", k}
    <3> DEFINE m == RemoveFromList(listeners[k], x.lis, schedule)
    <3>1. listeners'[k] = m
      BY <1>1, <2>1, <2>5
    <3>2. ASSUME schedule
          PROVE  /\ DOMAIN m = DOMAIN listeners[k]
                 /\ \A i \in DOMAIN listeners[k] : m[i] \in {listeners[k][i], Flagged(listeners[k][i])}
      BY <1>1, <2>1, <3>2, RemovedList
    <3>3. ASSUME schedule = FALSE
          PROVE  \A i \in DOMAIN m : \E a \in DOMAIN listeners[k] : m[i] = listeners[k][a]
      <4>1. OnlyOf(m, listeners[k])
        BY <1>1, <2>1, <3>3, RemovedList
      <4> QED
        BY <4>1 DEF OnlyOf
    <3> HIDE DEF m
    <3>4. \E i \in DOMAIN listeners[k] : m[j] \in {listeners[k][i], Flagged(listeners[k][i])}
      BY <1>1, <1>3, <3>1, <3>2, <3>3
    <3> QED
      BY <2>2, <2>3, <3>1, <3>4
  <2> QED
    BY <2>4, <2>5
<1> QED
  BY <1>3, SilentAfter

\* i_fireIncident that enters a list: nobody holds its first node,
LEMMA EnterSilent ==
  ASSUME ServedInv, SilentInv, NotNested', NEW t \in Threads, NEW f, CallsNode(t, f, 1), ~Looping(Top(t)),
         LockIsFree(t), escaped' = escaped
  PROVE  SilentInv'
<1> DEFINE k == ListOf(f)
           n == listeners[k][1]
           z == Len(stack[t])
           g == stack'[t][z]
<1>1. k \in IncidentTypes /\ 1 \in DOMAIN listeners[k] /\ NodeCalled(t, f, 1, k, g) /\ stack[t] # <<>>
  <2>1. SyncType /\ ListsInOrder
    BY DEF ServedInv
  <2>2. stack[t] # <<>>
    BY DEF CallsNode
  <2> QED
    BY <2>1, <2>2, CallsNodeParts, Zenon
<1>2. n \in Entries /\ Top(t) = stack[t][z] /\ z \in DOMAIN stack[t]
  BY <1>1, EntryParts, TopParts DEF ServedInv
<1> HIDE DEF k, n, z, g
<1>3. /\ \A m \in IncidentTypes : DOMAIN listeners'[m] = DOMAIN listeners[m]
      /\ listeners'[k][1] = Hit(n)
      /\ \A m \in IncidentTypes : \A j \in DOMAIN listeners[m] : m # k \/ j # 1 => listeners'[m][j] = listeners[m][j]
      /\ z \in DOMAIN stack'[t] /\ stack'[t][z] = g /\ Looping(g) /\ ListOf(g) = k /\ LastId(g) = n.id /\ SeenId(g, n.id)
      /\ \A u \in Threads : \A j \in DOMAIN stack[u] :
           u # t \/ j # z => j \in DOMAIN stack'[u] /\ stack'[u][j] = stack[u][j]
  BY <1>1, Zenon DEF NodeCalled, n, z, LastId, SameKey
<1>4. \A u \in Threads : \A j \in DOMAIN stack[u] :
        Looping(stack[u][j]) => u = t /\ j # z /\ j \in DOMAIN stack'[u] /\ stack'[u][j] = stack[u][j]
  BY <1>2, <1>3 DEF LockIsFree, HasLock
<1>5. LoopsStay(IncidentTypes)
  BY <1>4, Zenon DEF LoopsStay, SameLoop
<1>6. ~HeldIn(stack, k, n.id)
  <2> SUFFICES ASSUME NEW u \in Threads, NEW j \in DOMAIN stack[u], Holds(stack[u][j], k, n.id) PROVE FALSE
    BY DEF HeldIn
  <2>1. Looping(stack[u][j]) /\ ListOf(stack[u][j]) = k
    BY DEF Holds
  <2>2. u = t /\ j # z /\ j \in DOMAIN stack'[t] /\ stack'[t][j] = stack[t][j]
    BY <1>4, <2>1
  <2>3. \A a, b \in DOMAIN stack'[t] :
          Looping(stack'[t][a]) /\ Looping(stack'[t][b]) /\ ListOf(stack'[t][a]) = ListOf(stack'[t][b]) => a = b
    BY DEF NotNested, Looping, ListOf
  <2> QED
    BY <1>3, <2>1, <2>2, <2>3
<1>7. HeldIn(stack', k, n.id)
  BY <1>3, Zenon DEF HeldIn, Holds
<1>8. ASSUME NEW m \in IncidentTypes \ escaped', NEW j \in DOMAIN listeners'[m]
      PROVE  Quiet(stack', m, listeners'[m][j])
  <2>1. m \in IncidentTypes \ escaped /\ j \in DOMAIN listeners[m]
    BY <1>3
  <2>2. CASE m = k /\ j = 1
    <3>1. Quiet(stack, k, n)
      BY <2>1, <2>2 DEF SilentInv, n
    <3>2. EntryFine(Hit(n))
      BY <1>2, <1>6, <3>1, HitFine DEF Quiet
    <3>3. Hit(n).id = n.id
      BY <1>2, HitEntry DEF SameKey
    <3> QED
      BY <1>3, <1>7, <2>2, <3>2, <3>3, Zenon DEF Quiet
  <2>3. CASE m # k \/ j # 1
    <3>1. listeners'[m][j] = listeners[m][j]
      BY <1>3, <2>1, <2>3
    <3> QED
      BY <1>5, <2>1, <3>1, QuietStays
  <2> QED
    BY <2>2, <2>3
<1> QED
  BY <1>8, SilentAfter

\* that goes on: it holds none that it has yet to call, and those it holds it
\* remembers,
LEMMA AdvanceSilent ==
  ASSUME ServedInv, LockInv, SilentInv, NotNested, FramesInOrder',
         NEW t \in Threads, stack[t] # <<>>, Looping(Top(t)),
         Here(Top(t)) \in Entries, Shot(Top(t)) \in BOOLEAN,
         \A j \in DOMAIN listeners[ListOf(Top(t))] :
           listeners[ListOf(Top(t))][j].id = LastId(Top(t)) => listeners[ListOf(Top(t))][j] = Here(Top(t)),
         NEW f, NEW i, CallsNode(t, f, i), ListOf(f) = ListOf(Top(t)), f.shot = Shot(Top(t)), f.seen = Top(t).seen,
         escaped' = escaped
  PROVE  SilentInv'
<1> DEFINE k == ListOf(f)
           n == listeners[k][i]
           z == Len(stack[t])
           g == stack'[t][z]
           o == Top(t)
<1>1. k \in IncidentTypes /\ i \in DOMAIN listeners[k] /\ NodeCalled(t, f, i, k, g)
  <2>1. SyncType /\ ListsInOrder
    BY DEF ServedInv
  <2> QED
    BY <2>1, CallsNodeParts, Zenon
<1>2. n \in Entries /\ o = stack[t][z] /\ z \in DOMAIN stack[t] /\ k = ListOf(o) /\ Looping(o)
  BY <1>1, EntryParts, TopParts DEF ServedInv
<1>3. /\ o.shot = TRUE => Shot(o) = TRUE
      /\ Here(o).single = TRUE => Shot(o) = TRUE
  BY Zenon DEF Shot
<1>4. \A id : SeenId(o, id) <=> SeenId(f, id)
  BY DEF SeenId
<1>5. \A j \in DOMAIN listeners[k] : listeners[k][j].id = LastId(o) => listeners[k][j] = Here(o)
  OBVIOUS
<1>6. \A id : HeldIn(stack, k, id) => Holds(o, k, id)
  BY HolderIsTop
<1>7. f.shot = Shot(o)
  OBVIOUS
<1> HIDE DEF k, n, z, g, o
<1>8. /\ \A m \in IncidentTypes : DOMAIN listeners'[m] = DOMAIN listeners[m]
      /\ listeners'[k][i] = Hit(n)
      /\ \A m \in IncidentTypes : \A j \in DOMAIN listeners[m] : m # k \/ j # i => listeners'[m][j] = listeners[m][j]
      /\ z \in DOMAIN stack'[t] /\ stack'[t][z] = g /\ Looping(g) /\ ListOf(g) = k /\ LastId(g) = n.id /\ g.shot = f.shot
      /\ \A id : SeenId(g, id) <=> SeenId(f, id) \/ id = n.id
      /\ SeenInOrder(g.seen) => ~SeenId(f, n.id)
      /\ \A u \in Threads : \A j \in DOMAIN stack[u] :
           u # t \/ j # z => j \in DOMAIN stack'[u] /\ stack'[u][j] = stack[u][j]
  BY <1>1, Zenon DEF NodeCalled, n, z, LastId, SameKey
<1>9. ~HeldIn(stack, k, n.id)
  <2>1. SeenInOrder(g.seen)
    <3>1. \A a \in DOMAIN stack'[t] : SeenInOrder(stack'[t][a].seen)
      BY DEF FramesInOrder, FrameInv, SeenInOrder, Precedes
    <3> QED
      BY <1>8, <3>1
  <2> QED
    BY <1>4, <1>6, <1>8, <2>1, Zenon DEF Holds
<1>10. \A id : SeenId(g, id) /\ g.shot = TRUE => HeldIn(stack', k, id)
  BY <1>8, Zenon DEF HeldIn, Holds
<1>11. HeldIn(stack', k, n.id)
  BY <1>8, Zenon DEF HeldIn, Holds
<1>12. LoopsStay(IncidentTypes \ {k})
  <2>1. \A u \in Threads : \A j \in DOMAIN stack[u] :
          ListOf(stack[u][j]) # k => j \in DOMAIN stack'[u] /\ stack'[u][j] = stack[u][j]
    BY <1>2, <1>8
  <2> QED
    BY <2>1, Zenon DEF LoopsStay, SameLoop
<1>13. ASSUME NEW m \in IncidentTypes \ escaped', NEW j \in DOMAIN listeners'[m]
       PROVE  Quiet(stack', m, listeners'[m][j])
  <2>1. m \in IncidentTypes \ escaped /\ j \in DOMAIN listeners[m]
    BY <1>8
  <2>2. CASE m = k /\ j = i
    <3>1. Quiet(stack, k, n)
      BY <2>1, <2>2 DEF SilentInv, n
    <3>2. EntryFine(Hit(n))
      BY <1>2, <1>9, <3>1, HitFine DEF Quiet
    <3>3. Hit(n).id = n.id
      BY <1>2, HitEntry DEF SameKey
    <3> QED
      BY <1>8, <1>11, <2>2, <3>2, <3>3, Zenon DEF Quiet
  <2>3. CASE m = k /\ j # i
    <3> DEFINE e == listeners[k][j]
    <3>1. listeners'[m][j] = e /\ Quiet(stack, k, e) /\ e \in Entries /\ (e.id = LastId(o) => e = Here(o))
      BY <1>5, <1>8, <2>1, <2>3, EntryParts DEF SilentInv, ServedInv
    <3> HIDE DEF e
    <3>2. ASSUME Spent(e) PROVE HeldIn(stack', k, e.id)
      <4>1. Holds(o, k, e.id) /\ e.single = TRUE
        BY <1>6, <3>1, <3>2, SpentSingle DEF Quiet
      <4>2. Shot(o) = TRUE
        BY <1>3, <3>1, <4>1, Zenon DEF Holds
      <4>3. SeenId(g, e.id) /\ g.shot = TRUE
        BY <1>4, <1>7, <1>8, <4>1, <4>2, Zenon DEF Holds
      <4> QED
        BY <1>10, <4>3
    <3> QED
      BY <2>3, <3>1, <3>2, Zenon DEF Quiet
  <2>4. CASE m # k
    <3>1. listeners'[m][j] = listeners[m][j]
      BY <1>8, <2>1, <2>4
    <3>2. m \in IncidentTypes \ {k}
      BY <2>1, <2>4
    <3> QED
      BY <1>12, <2>1, <3>1, <3>2, QuietStays
  <2> QED
    BY <2>2, <2>3, <2>4
<1> QED
  BY <1>13, SilentAfter

\* that ends: it erases those it holds,
LEMMA EndSilent ==
  ASSUME ServedInv, LockInv, SilentInv, NotNested, NEW t \in Threads, stack[t] # <<>>, Looping(Top(t)),
         Top(t) \in FrameSet, Here(Top(t)) \in Entries, Shot(Top(t)) \in BOOLEAN,
         \A j \in DOMAIN listeners[ListOf(Top(t))] :
           listeners[ListOf(Top(t))][j].id = LastId(Top(t)) => listeners[ListOf(Top(t))][j] = Here(Top(t)),
         stack' = [stack EXCEPT ![t] = AfterList(@, Top(t))],
         listeners' = [listeners EXCEPT ![ListOf(Top(t))] = Survivors(Top(t))], escaped' = escaped
  PROVE  SilentInv'
<1> DEFINE o == Top(t)
           k == ListOf(o)
<1>1. LoopsStay(IncidentTypes \ {k})
  BY LoopsEnd
<1>2. /\ k \in IncidentTypes /\ listeners'[k] = Survivors(o)
      /\ \A m \in IncidentTypes : m # k => listeners'[m] = listeners[m]
  BY FrameParts DEF ServedInv, SyncType
<1>3. \A j \in DOMAIN Survivors(o) :
        \E i \in DOMAIN listeners[k] : Survivors(o)[j] = listeners[k][i] /\ (Shot(o) => ~listeners[k][i].single)
  BY SurvivorsList DEF ServedInv
<1>4. /\ o.shot = TRUE => Shot(o) = TRUE
      /\ Here(o).single = TRUE => Shot(o) = TRUE
  BY Zenon DEF Shot
<1>5. \A id : HeldIn(stack, k, id) => Holds(o, k, id)
  BY HolderIsTop
<1>6. \A j \in DOMAIN listeners[k] : listeners[k][j].id = LastId(o) => listeners[k][j] = Here(o)
  OBVIOUS
<1> HIDE DEF k, o
<1>7. ASSUME NEW m \in IncidentTypes \ escaped', NEW j \in DOMAIN listeners'[m]
      PROVE  Quiet(stack', m, listeners'[m][j])
  <2>1. CASE m # k
    <3>1. listeners'[m] = listeners[m] /\ m \in IncidentTypes \ {k} /\ m \in IncidentTypes \ escaped
      BY <1>2, <2>1
    <3> QED
      BY <1>1, <3>1, QuietStays
  <2>2. CASE m = k
    <3>0. j \in DOMAIN Survivors(o) /\ listeners'[m][j] = Survivors(o)[j]
      BY <1>2, <2>2
    <3>1. PICK i \in DOMAIN listeners[k] : listeners'[m][j] = listeners[k][i] /\ (Shot(o) => ~listeners[k][i].single)
      BY <1>3, <3>0, Zenon
    <3> DEFINE e == listeners[k][i]
    <3>2. Quiet(stack, k, e) /\ e \in Entries /\ (e.id = LastId(o) => e = Here(o))
      BY <1>2, <1>6, <2>2, EntryParts DEF SilentInv, ServedInv
    <3>3. listeners'[m][j] = e /\ (Shot(o) => ~e.single)
      BY <3>1, Zenon
    <3> HIDE DEF e
    <3>4. ASSUME Spent(e) PROVE FALSE
      <4>1. Holds(o, k, e.id) /\ e.single = TRUE
        BY <1>5, <3>2, <3>4, SpentSingle DEF Quiet
      <4>2. Shot(o) = TRUE
        BY <1>4, <3>2, <4>1, Zenon DEF Holds
      <4> QED
        BY <3>3, <4>1, <4>2, Zenon
    <3> QED
      BY <3>2, <3>3, <3>4, Zenon DEF Quiet
  <2> QED
    BY <2>1, <2>2
<1> QED
  BY <1>7, SilentAfter

\* or is left by an exception: nothing is said of its list any more.
LEMMA RethrowSilent ==
  ASSUME ServedInv, LockInv, SilentInv, NotNested, NEW t \in Threads, stack[t] # <<>>, Looping(Top(t)),
         Rethrow(t, Top(t))
  PROVE  SilentInv'
<1>1. LoopsStay(IncidentTypes \ {ListOf(Top(t))})
  BY LoopsEnd
<1>2. escaped' = escaped \cup {ListOf(Top(t))} /\ listeners' = listeners
  BY DEF Rethrow
<1>3. ASSUME NEW m \in IncidentTypes \ escaped', NEW j \in DOMAIN listeners'[m]
      PROVE  Quiet(stack', m, listeners'[m][j])
  <2>1. m \in IncidentTypes \ {ListOf(Top(t))} /\ m \in IncidentTypes \ escaped
    BY <1>2
  <2> QED
    BY <1>1, <1>2, <2>1, QuietStays
<1> QED
  BY <1>3, SilentAfter

\* Every step of the service.
LEMMA SilentStep ==
  ASSUME ServedInv, LockInv, LoopsServed, SilentInv, NotNested, NotNested', SyncNext PROVE SilentInv'
<1>1. ServedInv'
  BY SyncStep
<1>2. CASE Register
  <2>1. AddListener(client.initial[nextId]) /\ UNCHANGED <<stack, escaped>> /\ ~(nextId > Len(client.initial))
    BY <1>2 DEF Register, Registered
  <2>2. client.initial \in Seq(Registrations) /\ nextId \in Nat \ {0}
    BY ClientsAssumption DEF ServedInv, SyncType
  <2>3. client.initial[nextId] \in Registrations
    BY <2>1, <2>2
  <2> QED
    BY <2>1, <2>3, AddSilent
<1>3. ASSUME NEW t \in Threads, Calling(t), NEW x \in Calls(t), Call(t, x) PROVE SilentInv'
  <2>1. x \in Requests /\ escaped' = escaped
    BY <1>3, CallsAreRequests DEF Call
  <2>2. CASE x.op = "add" /\ AddListener(x) /\ UNCHANGED stack
    <3>1. x \in Registrations
      BY <2>1, <2>2 DEF Requests
    <3> QED
      BY <2>1, <2>2, <3>1, AddSilent
  <2>3. CASE x.op = "remove" /\ RemoveListener(x) /\ UNCHANGED stack
    BY <2>1, <2>3, RemoveSilent
  <2>4. CASE /\ x.op = "fire" /\ stack' = [stack EXCEPT ![t] = Append(@, NewFrame(x.type))]
             /\ UNCHANGED listeners
    <3>1. x.type \in IncidentTypes
      BY <2>1, <2>4 DEF Requests, Registrations
    <3>2. NewFrame(x.type) \in FrameSet
      BY <3>1, NewFrameInv
    <3>3. ~Looping(NewFrame(x.type))
      BY DEF NewFrame, Looping
    <3>4. LoopsStay(IncidentTypes)
      BY <2>4, <3>2, <3>3, LoopsFire DEF ServedInv
    <3> QED
      BY <2>1, <2>4, <3>4, SilentSame
  <2> QED
    BY <1>3, <2>2, <2>3, <2>4 DEF Call
<1>4. ASSUME NEW t \in Threads, EnterList(t) PROVE SilentInv'
  <2>1. /\ stack[t] # <<>> /\ ~Looping(Top(t)) /\ LockIsFree(t) /\ escaped' = escaped
        /\ \/ stack' = [stack EXCEPT ![t] = AfterList(@, Top(t))] /\ UNCHANGED listeners
           \/ \E f : CallsNode(t, f, 1) /\ ListOf(f) = ListOf(Top(t))
    BY <1>4, EnterCases
  <2>2. CASE stack' = [stack EXCEPT ![t] = AfterList(@, Top(t))] /\ UNCHANGED listeners
    <3>1. LoopsStay(IncidentTypes)
      BY <2>1, <2>2, LoopsPass
    <3> QED
      BY <2>1, <2>2, <3>1, SilentSame
  <2>3. CASE \E f : CallsNode(t, f, 1)
    <3>1. PICK f : CallsNode(t, f, 1)
      BY <2>3
    <3> QED
      BY <2>1, <3>1, EnterSilent, Zenon
  <2> QED
    BY <2>1, <2>2, <2>3
<1>5. ASSUME NEW t \in Threads, stack[t] # <<>>, Looping(Top(t)), IteratorValid(Top(t)), NextNode(t, Top(t)),
             escaped' = escaped
      PROVE  SilentInv'
  <2>1. LET f == Top(t) IN
        /\ f \in FrameSet /\ FrameInv(f) /\ Here(f) \in Entries /\ Shot(f) \in BOOLEAN
        /\ \/ \E g : CallsNode(t, g, Place(f) + 1) /\ ListOf(g) = ListOf(f) /\ g.shot = Shot(f) /\ g.seen = f.seen
           \/ /\ stack' = [stack EXCEPT ![t] = AfterList(@, f)]
              /\ listeners' = [listeners EXCEPT ![ListOf(f)] = Survivors(f)]
    BY <1>5, NextCases, Zenon
  <2>2. \A j \in DOMAIN listeners[ListOf(Top(t))] :
          listeners[ListOf(Top(t))][j].id = LastId(Top(t)) => listeners[ListOf(Top(t))][j] = Here(Top(t))
    <3>1. Top(t) = stack[t][Len(stack[t])] /\ Len(stack[t]) \in DOMAIN stack[t]
      BY <1>5, TopParts DEF ServedInv
    <3>2. LoopServed(Top(t), listeners[ListOf(Top(t))], nodes[ListOf(Top(t))])
      BY <1>5, <3>1, Zenon DEF LoopsServed
    <3> QED
      BY <1>5, <2>1, <3>2, LoopPlace DEF ServedInv, LastId
  <2>3. ASSUME NEW g, CallsNode(t, g, Place(Top(t)) + 1), ListOf(g) = ListOf(Top(t)), g.shot = Shot(Top(t)),
               g.seen = Top(t).seen
        PROVE  SilentInv'
    <3>1. FramesInOrder'
      BY <1>1 DEF ServedInv
    <3> QED
      BY <1>5, <2>1, <2>2, <2>3, <3>1, AdvanceSilent, Zenon
  <2>4. CASE /\ stack' = [stack EXCEPT ![t] = AfterList(@, Top(t))]
             /\ listeners' = [listeners EXCEPT ![ListOf(Top(t))] = Survivors(Top(t))]
    BY <1>5, <2>1, <2>2, <2>4, EndSilent
  <2> QED
    BY <2>1, <2>3, <2>4, Zenon
<1>6. ASSUME NEW t \in Threads, HandlerReturns(t) PROVE SilentInv'
  BY <1>5, <1>6 DEF HandlerReturns, Looping
<1>7. ASSUME NEW t \in Threads, HandlerThrows(t) PROVE SilentInv'
  <2>1. UNCHANGED <<listeners, escaped>>
    BY <1>7 DEF HandlerThrows
  <2>2. LoopsStay(IncidentTypes)
    BY <1>7, LoopsThrown
  <2> QED
    BY <2>1, <2>2, SilentSame
<1>8. ASSUME NEW t \in Threads, CatchException(t) PROVE SilentInv'
  <2>1. /\ stack[t] # <<>> /\ Top(t).in = "throw" /\ IteratorValid(Top(t))
        /\ (Swallow(t, Top(t)) /\ escaped' = escaped) \/ Rethrow(t, Top(t))
    BY <1>8 DEF CatchException
  <2>2. Looping(Top(t))
    BY <2>1 DEF Looping
  <2>3. CASE Swallow(t, Top(t)) /\ escaped' = escaped
    BY <1>5, <2>1, <2>2, <2>3 DEF Swallow
  <2>4. CASE Rethrow(t, Top(t))
    BY <2>1, <2>2, <2>4, RethrowSilent
  <2> QED
    BY <2>1, <2>3, <2>4
<1> QED
  BY <1>2, <1>3, <1>4, <1>6, <1>7, <1>8 DEF SyncNext

\* As long as handlers do not fire the incident that is being fired, and remove
\* only listeners of the current incident or of a named type not being fired, a
\* single-shot listener is called once and a removed one once more at most,
\* although both are only flagged in the list until the loop of i_fireIncident
\* ends, other incidents are fired meanwhile, and firedSingleShot belongs to
\* one loop; but for lists that an exception left.
THEOREM ListenersFallSilent == Spec /\ [](NotNested /\ RemovalsSafe) => []SilencedAfterShot
<1>1. Init => SilentInv
  <2>1. Init => \A k \in IncidentTypes : DOMAIN listeners[k] = {}
    BY DEF Init, SyncInit
  <2> QED
    BY <2>1 DEF SilentInv
<1>2. ASSUME ServedInv, LockInv, LoopsServed, SilentInv, NotNested, NotNested', [Next]_vars PROVE SilentInv'
  <2>1. SyncNext \/ UNCHANGED syncVars
    BY <1>2, NextStep
  <2>2. CASE UNCHANGED syncVars
    <3>1. UNCHANGED <<listeners, escaped, stack>>
      BY <2>2 DEF syncVars
    <3>2. LoopsStay(IncidentTypes)
      BY <3>1, LoopsUnchanged
    <3> QED
      BY <1>2, <3>1, <3>2, SilentSame
  <2> QED
    BY <1>2, <2>1, <2>2, SilentStep
<1>3. ASSUME ServedInv, SilentInv PROVE SilencedAfterShot
  <2>1. Types = IncidentTypes
    BY <1>3 DEF Types, ServedInv, SyncType
  <2>2. SingleShotOnce
    BY <1>3, <2>1, Zenon DEF SilentInv, Quiet, EntryFine, SingleShotOnce
  <2>3. RemovedFallsSilent
    BY <1>3, <2>1, Zenon DEF SilentInv, Quiet, EntryFine, RemovedFallsSilent
  <2> QED
    BY <2>2, <2>3 DEF SilencedAfterShot
<1> QED
  BY <1>1, <1>2, <1>3, SyncInvariant, LoopsInvariant, PTL DEF Spec
=============================================================================
