------------------------ MODULE ApplicationMgrProofs ------------------------
(***************************************************************************)
(* What service() answers, what the loops of ServiceManager find, and in   *)
(* which order the hooks of a service are called, for every set of         *)
(* services, algorithms and threads and every job, whatever the hooks ask  *)
(* for and wherever they fail.  AppInv says, phase by phase, in which      *)
(* state a service is that is listed and not being created; LifeInv adds   *)
(* what the trace says of its last instance then.                          *)
(***************************************************************************)
EXTENDS ApplicationMgr, ListsProofs

-----------------------------------------------------------------------------
(* The list of services.                                                   *)

\* An entry of it.
Entry == [svc : AllServices, prio : Int, active : BOOLEAN]

\* The sorted list has the same entries.
LEMMA SortedList ==
  ASSUME NEW l \in Seq(Entry)
  PROVE  Sorted(l) \in Seq(Entry) /\ Rearranges(Sorted(l), l, DOMAIN l)
<1> DEFINE S == DOMAIN l
           before == [i \in S |-> {j \in S : l[j].prio < l[i].prio \/ (l[j].prio = l[i].prio /\ j < i)}]
<1>1. S \subseteq Nat /\ \A i \in S : l[i].prio \in Int
  <2>1. S \subseteq Nat
    BY DomainFinite
  <2>2. \A i \in S : l[i] \in Entry
    OBVIOUS
  <2> QED
    BY <2>1, <2>2 DEF Entry
<1> HIDE DEF S
<1>2. /\ before \in [S -> SUBSET S]
      /\ \A i \in S : i \notin before[i]
      /\ \A i, j \in S : i # j => i \in before[j] \/ j \in before[i]
  BY <1>1
<1>3. \A i, j \in S : j \in before[i] => before[j] \subseteq before[i]
  <2> SUFFICES ASSUME NEW i \in S, NEW j \in before[i], NEW k \in before[j] PROVE k \in before[i]
    BY DEF before
  <2>1. /\ j \in S /\ k \in S /\ (l[j].prio < l[i].prio \/ (l[j].prio = l[i].prio /\ j < i))
        /\ l[k].prio < l[j].prio \/ (l[k].prio = l[j].prio /\ k < j)
    OBVIOUS
  <2>2. l[k].prio < l[i].prio \/ (l[k].prio = l[i].prio /\ k < i)
    BY <1>1, <2>1
  <2> QED
    BY <2>1, <2>2
<1> HIDE DEF before
<1>4. Arranged(l, S, before) \in Seq(Entry) /\ Rearranges(Arranged(l, S, before), l, S)
  BY <1>2, <1>3, ArrangedList DEF S
<1> QED
  BY <1>4 DEF Sorted, before, S

-----------------------------------------------------------------------------
(* The list of services.                                                   *)

Distinct(l) == \A i, j \in DOMAIN l : l[i].svc = l[j].svc => i = j

\* What is listed in a list that is rearranged.
LEMMA RearrangedList ==
  ASSUME NEW l \in Seq(Entry), NEW m \in Seq(Entry), NEW S \in SUBSET DOMAIN l, Rearranges(m, l, S)
  PROVE  /\ Distinct(l) => Distinct(m)
         /\ \A s : Listed(m, s) <=> \E i \in S : l[i].svc = s
         /\ \A k \in DOMAIN m : \E i \in S : m[k] = l[i]
         /\ \A i \in S : \E k \in DOMAIN m : m[k] = l[i]
<1>1. PICK f \in [DOMAIN m -> S] : /\ \A k \in DOMAIN m : m[k] = l[f[k]]
                                   /\ \A j, k \in DOMAIN m : f[j] = f[k] => j = k
                                   /\ \A i \in S : \E k \in DOMAIN m : f[k] = i
  BY DEF Rearranges
<1>2. /\ \A k \in DOMAIN m : \E i \in S : m[k] = l[i]
      /\ \A i \in S : \E k \in DOMAIN m : m[k] = l[i]
  BY <1>1
<1>3. Distinct(l) => Distinct(m)
  BY <1>1 DEF Distinct
<1>4. \A s : Listed(m, s) <=> \E i \in S : l[i].svc = s
  BY <1>2 DEF Listed
<1> QED
  BY <1>2, <1>3, <1>4

\* removeService: the service leaves the list.
LEMMA WithoutList ==
  ASSUME NEW l \in Seq(Entry), Distinct(l), NEW s
  PROVE  /\ Without(l, s) \in Seq(Entry) /\ Distinct(Without(l, s))
         /\ \A x : Listed(Without(l, s), x) <=> Listed(l, x) /\ x # s
         /\ \A k \in DOMAIN Without(l, s) : \E i \in DOMAIN l : Without(l, s)[k] = l[i]
<1> DEFINE S == {i \in DOMAIN l : l[i].svc # s}
           m == Selected(l, S)
<1>1. m \in Seq(Entry) /\ Rearranges(m, l, S)
  BY SelectedList
<1> HIDE DEF m
<1>2. /\ Distinct(m) /\ \A x : Listed(m, x) <=> \E i \in S : l[i].svc = x
      /\ \A k \in DOMAIN m : \E i \in S : m[k] = l[i]
  BY <1>1, RearrangedList
<1> QED
  BY <1>1, <1>2 DEF Without, m, Listed

\* A new entry at the back.
LEMMA AppendList ==
  ASSUME NEW l \in Seq(Entry), Distinct(l), NEW e \in Entry, ~ Listed(l, e.svc)
  PROVE  /\ Append(l, e) \in Seq(Entry) /\ Distinct(Append(l, e))
         /\ \A x : Listed(Append(l, e), x) <=> Listed(l, x) \/ x = e.svc
         /\ \A k \in DOMAIN Append(l, e) :
              (\E i \in DOMAIN l : Append(l, e)[k] = l[i]) \/ Append(l, e)[k] = e
<1> DEFINE m == Append(l, e)
<1>1. m \in Seq(Entry) /\ DOMAIN m = DOMAIN l \cup {Len(l) + 1} /\ Len(l) + 1 \notin DOMAIN l
  OBVIOUS
<1>2. m[Len(l) + 1] = e /\ \A i \in DOMAIN l : m[i] = l[i]
  OBVIOUS
<1> HIDE DEF m
<1>3. Distinct(m)
  BY <1>1, <1>2 DEF Distinct, Listed
<1>4. \A x : Listed(m, x) <=> Listed(l, x) \/ x = e.svc
  BY <1>1, <1>2 DEF Listed
<1>5. \A k \in DOMAIN m : (\E i \in DOMAIN l : m[k] = l[i]) \/ m[k] = e
  BY <1>1, <1>2
<1> QED
  BY <1>1, <1>3, <1>4, <1>5 DEF m

\* The end of addService: the service stays listed and becomes active.
LEMMA MoveToBackList ==
  ASSUME NEW l \in Seq(Entry), Distinct(l), NEW s, Listed(l, s)
  PROVE  /\ MoveToBack(l, s) \in Seq(Entry) /\ Distinct(MoveToBack(l, s))
         /\ \A x : Listed(MoveToBack(l, s), x) <=> Listed(l, x)
         /\ \A k \in DOMAIN MoveToBack(l, s) :
              /\ (\E i \in DOMAIN l : MoveToBack(l, s)[k] = l[i]) \/ MoveToBack(l, s)[k].active
              /\ MoveToBack(l, s)[k].svc = s => MoveToBack(l, s)[k].active
<1> DEFINE e == [Find(l, s) EXCEPT !.active = TRUE]
           w == Without(l, s)
<1>1. Find(l, s) \in Entry /\ Find(l, s).svc = s
  BY DEF Find, Listed
<1>2. e \in Entry /\ e.svc = s /\ e.active
  BY <1>1 DEF Entry
<1> HIDE DEF e
<1>3. /\ w \in Seq(Entry) /\ Distinct(w) /\ \A x : Listed(w, x) <=> Listed(l, x) /\ x # s
      /\ \A k \in DOMAIN w : \E i \in DOMAIN l : w[k] = l[i]
  BY WithoutList
<1> HIDE DEF w
<1>4. /\ Append(w, e) \in Seq(Entry) /\ Distinct(Append(w, e))
      /\ \A x : Listed(Append(w, e), x) <=> Listed(w, x) \/ x = e.svc
      /\ \A k \in DOMAIN Append(w, e) :
           (\E i \in DOMAIN w : Append(w, e)[k] = w[i]) \/ Append(w, e)[k] = e
  BY <1>2, <1>3, AppendList
<1>5. MoveToBack(l, s) = Append(w, e)
  BY DEF MoveToBack, w, e
<1>6. \A k \in DOMAIN w : w[k].svc # s
  BY <1>3 DEF Listed
<1> QED
  BY <1>2, <1>3, <1>4, <1>5, <1>6

\* activeSvc: the names of the active services.
LEMMA ActiveList ==
  ASSUME NEW l \in Seq(Entry)
  PROVE  /\ ActiveSvc(l) \in Seq(AllServices)
         /\ \A s : s \in Range(ActiveSvc(l)) <=> \E i \in DOMAIN l : l[i].active /\ l[i].svc = s
<1> DEFINE S == {i \in DOMAIN l : l[i].active}
           m == Selected(l, S)
           a == ActiveSvc(l)
<1>1. m \in Seq(Entry) /\ Rearranges(m, l, S)
  BY SelectedList
<1>2. a = [i \in DOMAIN m |-> m[i].svc]
  BY DEF ActiveSvc
<1> HIDE DEF m, a
<1>0. S \in SUBSET DOMAIN l
  OBVIOUS
<1>3. /\ \A k \in DOMAIN m : \E i \in S : m[k] = l[i]
      /\ \A i \in S : \E k \in DOMAIN m : m[k] = l[i]
  <2> HIDE DEF S
  <2> QED
    BY <1>0, <1>1, RearrangedList
<1>4. \A i \in DOMAIN m : m[i].svc \in AllServices
  <2>1. \A i \in DOMAIN m : m[i] \in Entry
    BY <1>1
  <2> QED
    BY <2>1 DEF Entry
<1>5. a \in Seq(AllServices)
  BY <1>1, <1>2, <1>4
<1>6. \A s : s \in Range(a) <=> \E i \in S : l[i].svc = s
  BY <1>2, <1>3 DEF Range
<1> QED
  BY <1>5, <1>6 DEF a

\* In reverse.
LEMMA ReverseList ==
  ASSUME NEW T, NEW q \in Seq(T)
  PROVE  Reverse(q) \in Seq(T) /\ Range(Reverse(q)) = Range(q)
<1> DEFINE r == Reverse(q)
<1>1. Len(q) \in Nat /\ DOMAIN q = 1..Len(q) /\ r = [i \in 1..Len(q) |-> q[Len(q) - i + 1]]
  BY DEF Reverse
<1>2. \A i \in 1..Len(q) : Len(q) - i + 1 \in 1..Len(q) /\ Len(q) - (Len(q) - i + 1) + 1 = i
  BY <1>1
<1> HIDE DEF r
<1>3. r \in Seq(T)
  BY <1>1, <1>2
<1>4. DOMAIN r = 1..Len(q) /\ \A i \in 1..Len(q) : r[i] = q[Len(q) - i + 1] /\ q[i] = r[Len(q) - i + 1]
  BY <1>1, <1>2
<1>5. Range(r) = Range(q)
  <2>1. ASSUME NEW i \in DOMAIN r PROVE r[i] \in Range(q)
    BY <1>1, <1>2, <1>4 DEF Range
  <2>2. ASSUME NEW i \in DOMAIN q PROVE q[i] \in Range(r)
    BY <1>1, <1>2, <1>4 DEF Range
  <2>3. Range(r) = {r[i] : i \in DOMAIN r} /\ Range(q) = {q[i] : i \in DOMAIN q}
    BY DEF Range
  <2> QED
    BY <2>1, <2>2, <2>3
<1> QED
  BY <1>3, <1>5 DEF r

-----------------------------------------------------------------------------
(* The invariant.                                                          *)

Ops == {"initialize", "start", "stop", "finalize"}
Hook ==
  [who : AllServices \cup Algs, op : Ops, next : Nat, refused : BOOLEAN, onDemand : BOOLEAN]

ServiceLoop == phase \in {"initialize", "start", "stop", "finalize"}

AppType ==
  /\ job \in Jobs /\ phase \in Phases /\ target \in States /\ appState \in States
  /\ state \in [AllServices \cup Algs -> States]
  /\ stack \in [Threads -> Seq(Hook)]
  /\ list \in Seq(Entry) /\ Distinct(list)
  /\ algs \in Seq(Algs)
  /\ todo \in Seq(AllServices \cup Algs)
  /\ (AlgLoop => todo \in Seq(Algs)) /\ (ServiceLoop => todo \in Seq(AllServices))
  /\ sc \in {"success", "failure"} /\ returnCode \in {"Success", "FinalizationFailure"}

\* m_targetState and m_state in each phase.
TargetOfPhase ==
  /\ phase \in {"initialize", "initAlgs", "stopAlgs", "stop"} => target = "INITIALIZED"
  /\ phase \in {"start", "startAlgs", "running"} => target = "RUNNING"
  /\ phase \in {"finalizeAlgs", "finalize"} => target = "CONFIGURED"
  /\ phase \in {"initialize", "initAlgs"} => appState = "CONFIGURED"
  /\ phase \in {"start", "startAlgs"} => appState = "INITIALIZED"
  /\ phase = "configure" => appState = "OFFLINE"
  /\ phase \in {"running", "stop", "stopAlgs"} => appState = "RUNNING"

\* The hook that a loop calls is the outermost one of the main thread; the
\* others are those of creations on demand.
HookInPlace(f, t, i) ==
  /\ f.onDemand => f.op \in {"initialize", "start"}
  /\ f.onDemand /\ f.op = "start" => target = "RUNNING"
  /\ ~ f.onDemand => t = Main /\ i = 1

HooksNested ==
  /\ phase # "running" => \A t \in Workers : stack[t] = <<>>
  /\ \A t \in Threads : \A i \in DOMAIN stack[t] : HookInPlace(stack[t][i], t, i)
  /\ stack[Main] # <<>> =>
       /\ Loop /\ todo # <<>> /\ ~ stack[Main][1].onDemand
       /\ stack[Main][1].who = Head(todo) /\ stack[Main][1].op = Op(phase)

Creating(s, t, i) == i \in DOMAIN stack[t] /\ stack[t][i].who = s /\ stack[t][i].onDemand
UnderWay(s) == \E t \in Threads : \E i \in DOMAIN stack[t] : Creating(s, t, i)

\* A service that is being created is listed, and is created once.
CreatedOnce(s) ==
  \A t, u \in Threads : \A i \in DOMAIN stack[t] : Creating(s, t, i) =>
    /\ Listed(list, s)
    /\ \A j \in DOMAIN stack[u] : Creating(s, u, j) => t = u /\ i = j

\* The hook under way in the loop over the services.
Hooked(s) == stack[Main] # <<>> /\ stack[Main][1].who = s

\* The state of a listed service that nobody is creating.
StateInPhase(s) ==
  CASE phase = "initialize" ->
         \/ state[s] = "INITIALIZED"
         \/ s \in Range(todo) /\ state[s] = "OFFLINE"
         \/ Hooked(s) /\ state[s] = "CONFIGURED"
    [] phase = "initAlgs" -> state[s] = "INITIALIZED"
    [] phase = "start" -> state[s] = "RUNNING" \/ (s \in Range(todo) /\ state[s] = "INITIALIZED")
    [] phase \in {"startAlgs", "running"} -> state[s] = "RUNNING"
    [] phase \in {"stopAlgs", "stop"} -> state[s] \in {"INITIALIZED", "RUNNING"}
    [] phase \in {"finalizeAlgs", "finalize"} -> state[s] # "CONFIGURED"
    [] OTHER -> TRUE

Over == phase \in {"terminate", "done", "threw"}

ListedInState(s) ==
  /\ ~ Over /\ ~ Listed(list, s) => state[s] = "OFFLINE"
  /\ ~ Over /\ Listed(list, s) /\ ~ UnderWay(s) => StateInPhase(s)

\* Only the core services stay inactive.
ActiveListed ==
  /\ phase = "configure" => list = <<>>
  /\ ~ Over => \A s \in AllServices : \A i \in DOMAIN list : list[i].svc = s =>
       list[i].active \/ s \in Range(Core) \/ UnderWay(s)
  /\ ~ Over /\ phase # "configure" => \A s \in Range(Core) : Listed(list, s) /\ ~ UnderWay(s)
  /\ ServiceLoop => \A s \in Range(todo) : Listed(list, s) /\ ~ UnderWay(s)

AppInv ==
  /\ AppType /\ TargetOfPhase /\ HooksNested /\ ActiveListed
  /\ \A s \in AllServices : CreatedOnce(s) /\ ListedInState(s)

-----------------------------------------------------------------------------
(* The stacks of hooks.                                                    *)

\* Two stacks of the same hooks, which may have come further.
SameHooks(p, q) ==
  /\ DOMAIN p = DOMAIN q
  /\ \A i \in DOMAIN q : p[i].who = q[i].who /\ p[i].op = q[i].op /\ p[i].onDemand = q[i].onDemand

\* An answer leaves the hooks as they are.
LEMMA AnsweredHooks ==
  ASSUME NEW q \in Seq(Hook), NEW b \in BOOLEAN
  PROVE  Answered(q, b) \in Seq(Hook) /\ SameHooks(Answered(q, b), q)
<1>1. CASE q = <<>>
  BY <1>1 DEF Answered, SameHooks
<1>2. CASE q # <<>>
  <2> DEFINE n == Len(q)
             h == q[n]
             e == Told(h, b)
  <2>1. n \in DOMAIN q /\ h \in Hook
    BY <1>2
  <2>2. Answered(q, b) = [q EXCEPT ![n] = e]
    BY <1>2 DEF Answered
  <2> HIDE DEF h
  <2>3. h.refused \in BOOLEAN /\ h.next \in Nat
    BY <2>1 DEF Hook
  <2>4. (h.refused \/ b) \in BOOLEAN /\ h.next + 1 \in Nat
    <3>1. (h.refused \/ b) \in BOOLEAN
      BY Zenon
    <3> QED
      BY <2>3, <3>1
  <2>5. e \in Hook /\ e.who = h.who /\ e.op = h.op /\ e.onDemand = h.onDemand
    <3> DEFINE rf == h.refused \/ b
               nx == h.next + 1
    <3>1. e = [h EXCEPT !.next = nx, !.refused = rf]
      BY DEF Told
    <3>2. rf \in BOOLEAN /\ nx \in Nat
      BY <2>4
    <3> HIDE DEF rf, nx
    <3> QED
      BY <2>1, <3>1, <3>2 DEF Hook
  <2> HIDE DEF e
  <2>6. [q EXCEPT ![n] = e] \in Seq(Hook) /\ SameHooks([q EXCEPT ![n] = e], q)
    BY <2>1, <2>5 DEF SameHooks, h
  <2> QED
    BY <2>2, <2>6
<1> QED
  BY <1>1, <1>2

\* The innermost hook and the ones around it.
LEMMA FrontHooks ==
  ASSUME NEW q \in Seq(Hook), q # <<>>
  PROVE  /\ Last(q) = q[Len(q)] /\ Last(q) \in Hook /\ Len(q) \in DOMAIN q /\ DOMAIN q = 1..Len(q)
         /\ Front(q) \in Seq(Hook) /\ DOMAIN Front(q) = 1..(Len(q) - 1) /\ Len(Front(q)) = Len(q) - 1
         /\ \A i \in DOMAIN Front(q) : Front(q)[i] = q[i]
<1>1. Len(q) \in Nat \ {0} /\ DOMAIN q = 1..Len(q) /\ \A i \in 1..Len(q) : q[i] \in Hook
  OBVIOUS
<1>2. Last(q) = q[Len(q)] /\ Last(q) \in Hook /\ Len(q) \in DOMAIN q
  BY <1>1 DEF Last
<1> DEFINE n == Len(q) - 1
           p == SubSeq(q, 1, n)
<1>3. n \in Nat /\ n <= Len(q)
  BY <1>1
<1>4. p \in Seq(Hook) /\ Len(p) = n /\ \A i \in 1..n : p[i] = q[i]
  BY <1>1, <1>3
<1>5. DOMAIN p = 1..n
  BY <1>4
<1> QED
  BY <1>1, <1>2, <1>4, <1>5 DEF Front

\* What a step of a thread leaves of the application, and of what the loop under
\* way has to go through.
TodoKept ==
  /\ phase # "finalizeAlgs" => todo' = todo
  /\ todo # <<>> => todo' # <<>> /\ Head(todo') = Head(todo)
  /\ todo' \in Seq(AllServices \cup Algs) /\ (AlgLoop => todo' \in Seq(Algs))
AppKept ==
  /\ TodoKept
  /\ UNCHANGED <<appState, phase, closing, sc, svcFinalize, returnCode, failedIn>>

\* A step that changes the stack of one thread keeps the hooks nested.
LEMMA NestedStep ==
  ASSUME AppInv, NEW t \in Threads, NEW q \in Seq(Hook), stack' = [stack EXCEPT ![t] = q],
         UNCHANGED <<phase, target>>, TodoKept,
         \A i \in DOMAIN q : HookInPlace(q[i], t, i),
         t \in Workers => phase = "running",
         t = Main => /\ (q = <<>> <=> stack[t] = <<>>)
                     /\ q # <<>> => /\ q[1].who = stack[t][1].who /\ q[1].op = stack[t][1].op
                                    /\ q[1].onDemand = stack[t][1].onDemand
  PROVE  /\ stack' \in [Threads -> Seq(Hook)] /\ HooksNested'
         /\ stack'[t] = q /\ \A u \in Threads : u # t => stack'[u] = stack[u]
         /\ \A s : Hooked(s)' <=> Hooked(s)
<1>1. stack \in [Threads -> Seq(Hook)] /\ HooksNested
  BY DEF AppInv, AppType
<1>2. /\ stack' \in [Threads -> Seq(Hook)] /\ stack'[t] = q
      /\ \A u \in Threads : u # t => stack'[u] = stack[u]
  BY <1>1
<1>3. Main \in Threads /\ Workers \subseteq Threads
  BY DEF Threads
<1>4. \A f, u, i : HookInPlace(f, u, i)' <=> HookInPlace(f, u, i)
  BY DEF HookInPlace
<1>5. \A u \in Threads : \A i \in DOMAIN stack'[u] : HookInPlace(stack'[u][i], u, i)
  BY <1>1, <1>2 DEF HooksNested
<1>6. /\ stack'[Main] = <<>> <=> stack[Main] = <<>>
      /\ stack'[Main] # <<>> => /\ stack'[Main][1].who = stack[Main][1].who
                                /\ stack'[Main][1].op = stack[Main][1].op
                                /\ stack'[Main][1].onDemand = stack[Main][1].onDemand
  BY <1>2, <1>3
<1>7. phase' # "running" => \A u \in Workers : stack'[u] = <<>>
  BY <1>1, <1>2, <1>3 DEF HooksNested
<1>8. Op(phase') = Op(phase) /\ (Loop' <=> Loop)
  BY DEF Loop, Op
<1>9. HooksNested'
  BY <1>1, <1>4, <1>5, <1>6, <1>7, <1>8 DEF HooksNested, HookInPlace, TodoKept
<1>10. \A s : Hooked(s)' <=> Hooked(s)
  BY <1>6 DEF Hooked
<1> QED
  BY <1>2, <1>9, <1>10

\* Who may ask for a service: a hook, or an event-processing thread.
Asking(t) == stack[t] # <<>> \/ (t \in Workers /\ phase = "running")

\* A thread with hooks under way is the main thread or processes events.
LEMMA BusyThread ==
  ASSUME AppInv, NEW t \in Threads, Asking(t)
  PROVE  /\ t \in Workers => phase = "running"
         /\ t = Main => stack[t] # <<>> /\ t \notin Workers
         /\ stack[t] \in Seq(Hook) /\ \A i \in DOMAIN stack[t] : HookInPlace(stack[t][i], t, i)
         /\ Loop \/ phase = "running"
<1>1. t \in Workers \/ t = Main
  BY DEF Threads
<1>2. stack \in [Threads -> Seq(Hook)] /\ HooksNested
  BY DEF AppInv, AppType
<1> QED
  BY <1>1, <1>2, NamesAssumption DEF Asking, HooksNested

\* One more hook.
LEMMA AppendHook ==
  ASSUME NEW k \in Seq(Hook), NEW f \in Hook
  PROVE  /\ Append(k, f) \in Seq(Hook) /\ DOMAIN Append(k, f) = DOMAIN k \cup {Len(k) + 1}
         /\ Len(k) + 1 \notin DOMAIN k /\ Append(k, f)[Len(k) + 1] = f
         /\ Append(k, f) # <<>> /\ (k # <<>> => 1 \in DOMAIN k)
         /\ \A i \in DOMAIN k : Append(k, f)[i] = k[i]
OBVIOUS

\* What each kind of step leaves of the hooks.  An answer leaves them all,
LEMMA StackAnswered ==
  ASSUME AppInv, NEW t \in Threads, Asking(t), NEW b \in BOOLEAN,
         stack' = [stack EXCEPT ![t] = Answered(stack[t], b)], UNCHANGED <<phase, target>>, TodoKept
  PROVE  /\ stack' \in [Threads -> Seq(Hook)] /\ HooksNested' /\ \A s : Hooked(s)' <=> Hooked(s)
         /\ \A s : \A u \in Threads : \A i : Creating(s, u, i)' <=> Creating(s, u, i)
<1> DEFINE q == Answered(stack[t], b)
<1>1. /\ t \in Workers => phase = "running"
      /\ stack[t] \in Seq(Hook) /\ \A i \in DOMAIN stack[t] : HookInPlace(stack[t][i], t, i)
  BY BusyThread
<1>2. q \in Seq(Hook) /\ SameHooks(q, stack[t])
  BY <1>1, AnsweredHooks
<1> HIDE DEF q
<1>3. \A i \in DOMAIN q : HookInPlace(q[i], t, i)
  BY <1>1, <1>2 DEF SameHooks, HookInPlace
<1>4. q = <<>> <=> stack[t] = <<>>
  BY <1>1, <1>2 DEF SameHooks
<1>5. q # <<>> => 1 \in DOMAIN q
  BY <1>2
<1>6. q # <<>> => /\ q[1].who = stack[t][1].who /\ q[1].op = stack[t][1].op
                  /\ q[1].onDemand = stack[t][1].onDemand
  BY <1>2, <1>5 DEF SameHooks
<1>7. /\ stack' \in [Threads -> Seq(Hook)] /\ HooksNested'
      /\ stack'[t] = q /\ \A u \in Threads : u # t => stack'[u] = stack[u]
      /\ \A s : Hooked(s)' <=> Hooked(s)
  BY <1>1, <1>2, <1>3, <1>4, <1>6, NestedStep DEF q
<1>8. \A s : \A u \in Threads : \A i : Creating(s, u, i)' <=> Creating(s, u, i)
  BY <1>2, <1>7 DEF SameHooks, Creating
<1> QED
  BY <1>7, <1>8

\* a call adds one,
LEMMA StackCalled ==
  ASSUME AppInv, NEW t \in Threads, Asking(t), NEW x \in AllServices \cup Algs,
         Call(t, stack[t], x, "initialize", TRUE), UNCHANGED <<phase, target>>, TodoKept
  PROVE  /\ stack' \in [Threads -> Seq(Hook)] /\ HooksNested' /\ \A s : Hooked(s)' <=> Hooked(s)
         /\ \A s : \A u \in Threads : \A i : Creating(s, u, i)' <=>
              Creating(s, u, i) \/ (s = x /\ u = t /\ i = Len(stack[t]) + 1)
<1> DEFINE f == Frame(x, "initialize", TRUE)
           q == Append(stack[t], f)
<1>1. /\ t \in Workers => phase = "running"
      /\ t = Main => stack[t] # <<>>
      /\ stack[t] \in Seq(Hook) /\ \A i \in DOMAIN stack[t] : HookInPlace(stack[t][i], t, i)
  BY BusyThread
<1>2. f \in Hook /\ f.who = x /\ f.op = "initialize" /\ f.onDemand
  BY DEF Frame, Hook, Ops
<1> HIDE DEF f
<1>3. /\ q \in Seq(Hook) /\ DOMAIN q = DOMAIN stack[t] \cup {Len(stack[t]) + 1}
      /\ Len(stack[t]) + 1 \notin DOMAIN stack[t] /\ q[Len(stack[t]) + 1] = f
      /\ q # <<>> /\ (stack[t] # <<>> => 1 \in DOMAIN stack[t])
      /\ \A i \in DOMAIN stack[t] : q[i] = stack[t][i]
  <2> DEFINE k == stack[t]
  <2>1. k \in Seq(Hook)
    BY <1>1
  <2> HIDE DEF k
  <2>2. /\ Append(k, f) \in Seq(Hook) /\ DOMAIN Append(k, f) = DOMAIN k \cup {Len(k) + 1}
        /\ Len(k) + 1 \notin DOMAIN k /\ Append(k, f)[Len(k) + 1] = f
        /\ Append(k, f) # <<>> /\ (k # <<>> => 1 \in DOMAIN k)
        /\ \A i \in DOMAIN k : Append(k, f)[i] = k[i]
    BY <1>2, <2>1, AppendHook
  <2> QED
    BY <2>2 DEF k
<1> HIDE DEF q
<1>4. \A i \in DOMAIN q : HookInPlace(q[i], t, i)
  BY <1>1, <1>2, <1>3 DEF HookInPlace
<1>5. /\ stack' \in [Threads -> Seq(Hook)] /\ HooksNested'
      /\ stack'[t] = q /\ \A u \in Threads : u # t => stack'[u] = stack[u]
      /\ \A s : Hooked(s)' <=> Hooked(s)
  <2>1. stack' = [stack EXCEPT ![t] = q]
    BY DEF Call, q, f
  <2>2. t = Main => q # <<>> /\ stack[t] # <<>> /\ q[1] = stack[t][1]
    BY <1>1, <1>3
  <2> QED
    BY <1>1, <1>3, <1>4, <2>1, <2>2, NestedStep
<1>6. \A s : \A u \in Threads : \A i : Creating(s, u, i)' <=>
        Creating(s, u, i) \/ (s = x /\ u = t /\ i = Len(stack[t]) + 1)
  BY <1>2, <1>3, <1>5 DEF Creating
<1> QED
  BY <1>5, <1>6

\* starting at once puts another hook in the same place,
LEMMA StackRestarted ==
  ASSUME AppInv, NEW t \in Threads, stack[t] # <<>>, Top(t).onDemand, target = "RUNNING",
         Call(t, Front(stack[t]), Top(t).who, "start", TRUE), UNCHANGED <<phase, target>>, TodoKept
  PROVE  /\ stack' \in [Threads -> Seq(Hook)] /\ HooksNested' /\ \A s : Hooked(s)' <=> Hooked(s)
         /\ \A s : \A u \in Threads : \A i : Creating(s, u, i)' <=> Creating(s, u, i)
<1> DEFINE f == Frame(Top(t).who, "start", TRUE)
           q == Append(Front(stack[t]), f)
           n == Len(stack[t])
<1>1. /\ t \in Workers => phase = "running"
      /\ t = Main => ~ stack[t][1].onDemand
      /\ stack[t] \in Seq(Hook) /\ \A i \in DOMAIN stack[t] : HookInPlace(stack[t][i], t, i)
  BY BusyThread DEF Asking, AppInv, HooksNested
<1>2. /\ Top(t) = stack[t][n] /\ Top(t) \in Hook /\ n \in DOMAIN stack[t] /\ DOMAIN stack[t] = 1..n
      /\ Front(stack[t]) \in Seq(Hook) /\ DOMAIN Front(stack[t]) = 1..(n - 1)
      /\ Len(Front(stack[t])) = n - 1
      /\ \A i \in DOMAIN Front(stack[t]) : Front(stack[t])[i] = stack[t][i]
  BY <1>1, FrontHooks DEF Top
<1>3. f \in Hook /\ f.who = Top(t).who /\ f.op = "start" /\ f.onDemand
  BY <1>2 DEF Frame, Hook, Ops
<1>4. n \in Nat \ {0} /\ (n - 1) + 1 = n
  BY <1>1, <1>2
<1> HIDE DEF f, n
<1>5. /\ q \in Seq(Hook) /\ DOMAIN q = 1..n /\ q # <<>> /\ q[n] = f
      /\ \A i \in 1..(n - 1) : q[i] = stack[t][i]
  BY <1>2, <1>3, <1>4
<1> HIDE DEF q
<1>6. \A i \in 1..n : i # n => i \in 1..(n - 1)
  BY <1>4
<1>7. ASSUME NEW i \in DOMAIN q PROVE HookInPlace(q[i], t, i)
  <2>1. CASE i = n
    BY <1>3, <1>5, <2>1 DEF HookInPlace
  <2>2. CASE i # n
    <3>1. i \in DOMAIN stack[t] /\ q[i] = stack[t][i]
      BY <1>2, <1>5, <1>6, <2>2
    <3> QED
      BY <1>1, <3>1
  <2> QED
    BY <2>1, <2>2
<1>8. t = Main => q[1] = stack[t][1]
  <2>1. t = Main => n # 1
    BY <1>1, <1>2
  <2>2. n # 1 => 1 \in 1..(n - 1)
    BY <1>4
  <2> QED
    BY <1>5, <2>1, <2>2
<1>9. /\ stack' \in [Threads -> Seq(Hook)] /\ HooksNested'
      /\ stack'[t] = q /\ \A u \in Threads : u # t => stack'[u] = stack[u]
      /\ \A s : Hooked(s)' <=> Hooked(s)
  BY <1>1, <1>5, <1>7, <1>8, NestedStep DEF Call, q, f
<1>10. ASSUME NEW s, NEW u \in Threads, NEW i PROVE Creating(s, u, i)' <=> Creating(s, u, i)
  <2>1. CASE u # t
    BY <1>9, <2>1 DEF Creating
  <2>2. CASE u = t /\ i = n
    BY <1>2, <1>3, <1>5, <1>9, <2>2 DEF Creating
  <2>3. CASE u = t /\ i # n
    <3>1. DOMAIN q = DOMAIN stack[t] /\ (i \in DOMAIN q => q[i] = stack[t][i])
      BY <1>2, <1>5, <1>6, <2>3
    <3> QED
      BY <1>9, <2>3, <3>1 DEF Creating
  <2> QED
    BY <2>1, <2>2, <2>3
<1> QED
  BY <1>9, <1>10

\* and the end of a creation takes one away.
LEMMA StackPopped ==
  ASSUME AppInv, NEW t \in Threads, stack[t] # <<>>, Top(t).onDemand, NEW b \in BOOLEAN,
         stack' = [stack EXCEPT ![t] = Answered(Front(stack[t]), b)], UNCHANGED <<phase, target>>, TodoKept
  PROVE  /\ stack' \in [Threads -> Seq(Hook)] /\ HooksNested' /\ \A s : Hooked(s)' <=> Hooked(s)
         /\ \A s : \A u \in Threads : \A i : Creating(s, u, i)' <=>
              Creating(s, u, i) /\ ~ (u = t /\ i = Len(stack[t]))
<1> DEFINE p == Front(stack[t])
           q == Answered(p, b)
           n == Len(stack[t])
<1>1. /\ t \in Workers => phase = "running"
      /\ t = Main => ~ stack[t][1].onDemand
      /\ stack[t] \in Seq(Hook) /\ \A i \in DOMAIN stack[t] : HookInPlace(stack[t][i], t, i)
  BY BusyThread DEF Asking, AppInv, HooksNested
<1>2. /\ Top(t) = stack[t][n] /\ n \in DOMAIN stack[t] /\ DOMAIN stack[t] = 1..n
      /\ p \in Seq(Hook) /\ DOMAIN p = 1..(n - 1)
      /\ \A i \in DOMAIN p : p[i] = stack[t][i]
  BY <1>1, FrontHooks DEF Top
<1>3. n \in Nat \ {0}
  BY <1>1, <1>2
<1> HIDE DEF n, p
<1>4. q \in Seq(Hook) /\ SameHooks(q, p)
  BY <1>2, AnsweredHooks
<1> HIDE DEF q
<1>5. \A i \in 1..n : i # n <=> i \in 1..(n - 1)
  BY <1>3
<1>6. 1..(n - 1) \subseteq 1..n
  BY <1>3
<1>7. \A i \in DOMAIN q : HookInPlace(q[i], t, i)
  BY <1>1, <1>2, <1>4, <1>6 DEF SameHooks, HookInPlace
<1>8. t = Main => 1 \in 1..(n - 1)
  BY <1>1, <1>2, <1>3
<1>9. t = Main => /\ q # <<>>
                  /\ q[1].who = stack[t][1].who /\ q[1].op = stack[t][1].op
                  /\ q[1].onDemand = stack[t][1].onDemand
  BY <1>2, <1>4, <1>8 DEF SameHooks
<1>10. /\ stack' \in [Threads -> Seq(Hook)] /\ HooksNested'
       /\ stack'[t] = q /\ \A u \in Threads : u # t => stack'[u] = stack[u]
       /\ \A s : Hooked(s)' <=> Hooked(s)
  BY <1>1, <1>4, <1>7, <1>9, NestedStep DEF q, p
<1>11. \A s : \A u \in Threads : \A i : Creating(s, u, i)' <=>
         Creating(s, u, i) /\ ~ (u = t /\ i = n)
  BY <1>2, <1>4, <1>5, <1>6, <1>10 DEF SameHooks, Creating
<1> QED
  BY <1>10, <1>11 DEF n

-----------------------------------------------------------------------------
(* What happens to services while a phase goes on.                         *)

\* A step within a phase that touches the services X only.
LEMMA ThreadStepInv ==
  ASSUME AppInv, phase # "configure", UNCHANGED <<job, target>>, AppKept, NEW X \in SUBSET AllServices,
         state' \in [AllServices \cup Algs -> States], stack' \in [Threads -> Seq(Hook)],
         list' \in Seq(Entry), Distinct(list'), algs' \in Seq(Algs),
         HooksNested', \A s : Hooked(s)' <=> Hooked(s),
         \A s \in AllServices \ X :
           /\ state'[s] = state[s] /\ (Listed(list', s) <=> Listed(list, s))
           /\ \A u \in Threads : \A i : Creating(s, u, i)' <=> Creating(s, u, i),
         \A i \in DOMAIN list' :
           (\E j \in DOMAIN list : list'[i] = list[j]) \/ list'[i].active \/ list'[i].svc \in X,
         \A s \in X : /\ s \notin Range(Core) /\ ~ (ServiceLoop /\ s \in Range(todo))
                      /\ CreatedOnce(s)' /\ ListedInState(s)'
                      /\ \A i \in DOMAIN list' : list'[i].svc = s => list'[i].active \/ UnderWay(s)'
  PROVE  AppInv'
<1> USE DEF AppKept, TodoKept
<1>1. AppType' /\ TargetOfPhase'
  BY DEF AppInv, AppType, TargetOfPhase, AlgLoop, ServiceLoop
<1>2. \A s \in AllServices \ X : UnderWay(s)' <=> UnderWay(s)
  <2>1. \A s : UnderWay(s) <=> \E u \in Threads : \E i : Creating(s, u, i)
    BY DEF UnderWay, Creating
  <2>2. \A s : UnderWay(s)' <=> \E u \in Threads : \E i : Creating(s, u, i)'
    BY DEF UnderWay, Creating
  <2> QED
    BY <2>1, <2>2
<1>3. ASSUME NEW s \in AllServices \ X
      PROVE  CreatedOnce(s)' /\ ListedInState(s)'
  <2>1. CreatedOnce(s) /\ ListedInState(s)
    BY DEF AppInv
  <2>2. CreatedOnce(s)'
    <3> SUFFICES ASSUME NEW t \in Threads, NEW u \in Threads, NEW i, Creating(s, t, i)'
                 PROVE  /\ Listed(list', s)
                        /\ \A j : Creating(s, u, j)' => t = u /\ i = j
      BY DEF CreatedOnce, Creating
    <3>1. Creating(s, t, i) /\ \A j : Creating(s, u, j)' <=> Creating(s, u, j)
      OBVIOUS
    <3>2. Listed(list, s) /\ \A j : Creating(s, u, j) => t = u /\ i = j
      BY <2>1, <3>1 DEF CreatedOnce, Creating
    <3> QED
      BY <3>1, <3>2
  <2>3. StateInPhase(s)' <=> StateInPhase(s)
    BY DEF StateInPhase
  <2>4. ListedInState(s)'
    BY <1>2, <2>1, <2>3 DEF ListedInState, Over
  <2> QED
    BY <2>2, <2>4
<1>4. ActiveListed'
  <2>1. ActiveListed /\ list \in Seq(Entry)
    BY DEF AppInv, AppType
  <2>2. ASSUME ~ Over, NEW s \in AllServices, NEW i \in DOMAIN list', list'[i].svc = s
        PROVE  list'[i].active \/ s \in Range(Core) \/ UnderWay(s)'
    <3>1. CASE s \in X
      BY <2>2, <3>1
    <3>2. CASE s \notin X /\ ~ list'[i].active
      <4>1. PICK j \in DOMAIN list : list'[i] = list[j]
        BY <2>2, <3>2
      <4>2. s \in Range(Core) \/ UnderWay(s)
        BY <2>1, <2>2, <3>2, <4>1 DEF ActiveListed
      <4> QED
        BY <1>2, <3>2, <4>2
    <3> QED
      BY <3>1, <3>2
  <2>3. Range(Core) \subseteq AllServices
    BY DEF AllServices
  <2>4. ~ Over /\ phase # "configure" => \A s \in Range(Core) : Listed(list', s) /\ ~ UnderWay(s)'
    BY <1>2, <2>1, <2>3 DEF ActiveListed
  <2>5. ServiceLoop => \A s \in Range(todo) : Listed(list', s) /\ ~ UnderWay(s)'
    <3>1. ServiceLoop => todo \in Seq(AllServices)
      BY DEF AppInv, AppType
    <3>2. ServiceLoop => Range(todo) \subseteq AllServices
      BY <3>1 DEF Range
    <3> QED
      BY <1>2, <2>1, <3>2 DEF ActiveListed
  <2> QED
    BY <2>2, <2>4, <2>5 DEF ActiveListed, Over, ServiceLoop
<1> QED
  BY <1>1, <1>3, <1>4 DEF AppInv

\* An answer is right if the service is ready for a thread that processes
\* events, and a loop is one of the asking thread.
LEMMA RightAnswer ==
  ASSUME AppInv, RequestsAnswered, NEW t \in Threads, NEW stk \in Seq(Hook), NEW x, NEW got,
         Answer(t, stk, x, got),
         x \in AllServices /\ got \in States /\ stk = <<>> /\ t \in Workers => got = "RUNNING",
         got = "loop" => \E i \in DOMAIN stack[t] : stack[t][i].who = x
  PROVE  RequestsAnswered'
<1> DEFINE h == [to |-> IF stk = <<>> THEN t ELSE Last(stk).who,
                 op |-> IF stk = <<>> THEN "execute" ELSE Last(stk).op,
                 svc |-> x, got |-> got,
                 own |-> \E i \in DOMAIN stack[t] : stack[t][i].who = x]
<1>1. handed' = handed \cup {h}
  BY DEF Answer
<1>2. stk # <<>> => Last(stk).who \notin Workers
  <2>1. stk # <<>> => Last(stk) \in Hook
    BY FrontHooks
  <2> QED
    BY <2>1, NamesAssumption DEF Hook, Threads
<1>3. /\ h.to \in Workers => stk = <<>> /\ t \in Workers
      /\ h.svc = x /\ h.got = got /\ (h.own <=> \E i \in DOMAIN stack[t] : stack[t][i].who = x)
  BY <1>2
<1> HIDE DEF h
<1>4. /\ h.to \in Workers /\ h.svc \in AllServices /\ h.got \in States => h.got = "RUNNING"
      /\ h.got = "loop" => h.own
  BY <1>3
<1> QED
  BY <1>1, <1>4 DEF RequestsAnswered, ReadyWhenRunning, LoopErrorsReal

\* Between the beginning of initialize and the end of finalize.
LEMMA BusyPhase ==
  ASSUME AppInv, NEW t \in Threads, Asking(t)
  PROVE  ~ Over /\ phase # "configure"
BY BusyThread DEF Over, Loop

\* A service that is not touched by a step.
LEMMA NothingTouched ==
  ASSUME AppInv, NEW t \in Threads, Asking(t), UNCHANGED <<job, target, list>>, AppKept,
         state' \in [AllServices \cup Algs -> States], \A s \in AllServices : state'[s] = state[s],
         stack' \in [Threads -> Seq(Hook)], HooksNested', \A s : Hooked(s)' <=> Hooked(s),
         algs' \in Seq(Algs),
         \A s \in AllServices : \A u \in Threads : \A i : Creating(s, u, i)' <=> Creating(s, u, i)
  PROVE  AppInv'
<1> DEFINE X == {}
<1>1. list' \in Seq(Entry) /\ Distinct(list') /\ list' = list
  BY DEF AppInv, AppType
<1>2. X \in SUBSET AllServices /\ phase # "configure"
  BY BusyPhase
<1>3. \A i \in DOMAIN list' : \E j \in DOMAIN list : list'[i] = list[j]
  BY <1>1
<1> QED
  BY <1>1, <1>2, <1>3, ThreadStepInv

\* A request that is answered at once.
LEMMA OnlyAnswered ==
  ASSUME AppInv, NEW t \in Threads, Asking(t), NEW x, NEW got, Answer(t, stack[t], x, got),
         UNCHANGED <<job, target, list, state>>, AppKept, algs' \in Seq(Algs)
  PROVE  AppInv'
<1> DEFINE b == got \notin States
<1>1. b \in BOOLEAN /\ stack' = [stack EXCEPT ![t] = Answered(stack[t], b)]
  BY DEF Answer
<1>2. UNCHANGED <<phase, target>> /\ TodoKept
  BY DEF AppKept
<1> HIDE DEF b
<1>3. /\ stack' \in [Threads -> Seq(Hook)] /\ HooksNested' /\ \A s : Hooked(s)' <=> Hooked(s)
      /\ \A s : \A u \in Threads : \A i : Creating(s, u, i)' <=> Creating(s, u, i)
  BY <1>1, <1>2, StackAnswered
<1>4. state' \in [AllServices \cup Algs -> States] /\ state' = state
  BY DEF AppInv, AppType
<1> QED
  BY <1>3, <1>4, NothingTouched

\* service() for a service that is there.
LEMMA FoundStep ==
  ASSUME AppInv, RequestsAnswered, NEW t \in Threads, NEW x, Asking(t), ServiceFound(t, x),
         UNCHANGED <<job, target>>, AppKept
  PROVE  AppInv' /\ RequestsAnswered'
<1> DEFINE got == IF LoopCheck(x) THEN "loop" ELSE state[x]
<1>1. /\ x \in AllServices /\ LockIsFree(t, x) /\ Listed(list, x) /\ Answer(t, stack[t], x, got)
      /\ UNCHANGED <<list, algs, state>>
  BY DEF ServiceFound
<1>2. /\ t \in Workers => phase = "running"
      /\ t = Main => stack[t] # <<>> /\ t \notin Workers
      /\ stack[t] \in Seq(Hook)
  BY BusyThread
<1>3. ListedInState(x) /\ ~ Over /\ phase # "configure"
  BY <1>1, BusyPhase DEF AppInv
<1>4. \A u \in Threads : \A i : Creating(x, u, i) => u = t
  BY <1>1 DEF LockIsFree, Creating
<1>5. state[x] \in States /\ "loop" \notin States
  BY <1>1 DEF AppInv, AppType, States, Rank
<1>6. stack[t] = <<>> => state[x] = "RUNNING"
  <2> SUFFICES ASSUME stack[t] = <<>> PROVE state[x] = "RUNNING"
    OBVIOUS
  <2>1. phase = "running"
    BY DEF Asking
  <2>2. ~ UnderWay(x)
    BY <1>4 DEF UnderWay, Creating
  <2> QED
    BY <1>1, <1>3, <2>1, <2>2 DEF ListedInState, StateInPhase
<1>7. LoopCheck(x) => \E i \in DOMAIN stack[t] : stack[t][i].who = x
  <2> SUFFICES ASSUME state[x] = "CONFIGURED" PROVE \E i \in DOMAIN stack[t] : stack[t][i].who = x
    BY DEF LoopCheck
  <2>1. CASE UnderWay(x)
    BY <1>4, <2>1 DEF UnderWay, Creating
  <2>2. CASE ~ UnderWay(x)
    <3>1. phase = "initialize" /\ Hooked(x)
      BY <1>1, <1>3, <2>2 DEF ListedInState, StateInPhase, Over, AppInv, AppType, Phases
    <3>2. t = Main
      BY <1>2, <3>1 DEF Threads
    <3>3. 1 \in DOMAIN stack[t]
      BY <1>2, <3>2
    <3> QED
      BY <3>1, <3>2, <3>3 DEF Hooked
  <2> QED
    BY <2>1, <2>2
<1>8. RequestsAnswered'
  <2>1. got = "loop" => LoopCheck(x)
    BY <1>5
  <2>2. got \in States => got = state[x]
    BY <1>5
  <2> HIDE DEF got
  <2> QED
    BY <1>1, <1>2, <1>6, <1>7, <2>1, <2>2, RightAnswer
<1>9. AppInv'
  <2>1. algs' \in Seq(Algs)
    BY <1>1 DEF AppInv, AppType
  <2> HIDE DEF got
  <2> QED
    BY <1>1, <2>1, OnlyAnswered
<1> QED
  BY <1>8, <1>9

\* createService finds no factory.
LEMMA NoFactoryStep ==
  ASSUME AppInv, RequestsAnswered, NEW t \in Threads, NEW x, Asking(t), NoFactory(t, x),
         UNCHANGED <<job, target>>, AppKept
  PROVE  AppInv' /\ RequestsAnswered'
<1>1. Answer(t, stack[t], x, "none") /\ UNCHANGED <<list, algs, state>>
  BY DEF NoFactory
<1>2. "none" \notin States /\ stack[t] \in Seq(Hook) /\ algs' \in Seq(Algs)
  BY <1>1, BusyThread DEF States, Rank, AppInv, AppType
<1>3. RequestsAnswered'
  BY <1>1, <1>2, RightAnswer
<1> QED
  BY <1>1, <1>2, <1>3, OnlyAnswered

\* algorithm(), with its creation.
LEMMA AlgorithmStep ==
  ASSUME AppInv, RequestsAnswered, NEW t \in Threads, NEW x, Asking(t), Algorithm(t, x),
         UNCHANGED <<job, target>>, AppKept
  PROVE  AppInv' /\ RequestsAnswered'
<1>1. x \in Algs /\ x \notin AllServices /\ UNCHANGED <<list, state>>
  BY NamesAssumption DEF Algorithm
<1>2. stack[t] \in Seq(Hook) /\ algs \in Seq(Algs)
  BY BusyThread DEF AppInv, AppType
<1>3. algs' \in Seq(Algs)
  <2>1. algs' = algs \/ algs' = Append(algs, x)
    BY DEF Algorithm
  <2> QED
    BY <1>1, <1>2, <2>1
<1>4. state[x] \in States /\ "loop" \notin States
  BY <1>1 DEF AppInv, AppType, States, Rank
<1>5. CASE Answer(t, stack[t], x, state[x])
  <2>1. RequestsAnswered'
    BY <1>1, <1>2, <1>4, <1>5, RightAnswer
  <2> QED
    BY <1>1, <1>3, <1>5, <2>1, OnlyAnswered
<1>6. CASE Call(t, stack[t], x, "initialize", TRUE) /\ UNCHANGED handed
  <2>1. UNCHANGED <<phase, target>> /\ TodoKept /\ x \in AllServices \cup Algs
    BY <1>1 DEF AppKept
  <2>2. /\ stack' \in [Threads -> Seq(Hook)] /\ HooksNested' /\ \A s : Hooked(s)' <=> Hooked(s)
        /\ \A s : \A u \in Threads : \A i : Creating(s, u, i)' <=>
             Creating(s, u, i) \/ (s = x /\ u = t /\ i = Len(stack[t]) + 1)
    BY <1>6, <2>1, StackCalled
  <2>3. \A s \in AllServices : \A u \in Threads : \A i : Creating(s, u, i)' <=> Creating(s, u, i)
    BY <1>1, <2>2
  <2>4. AppInv'
    <3>1. state' \in [AllServices \cup Algs -> States] /\ state' = state
      BY <1>1 DEF AppInv, AppType
    <3> QED
      BY <1>1, <1>3, <2>2, <2>3, <3>1, NothingTouched
  <2>5. RequestsAnswered'
    BY <1>6 DEF RequestsAnswered, ReadyWhenRunning, LoopErrorsReal
  <2> QED
    BY <2>4, <2>5
<1> QED
  BY <1>5, <1>6 DEF Algorithm

\* service() for a service that is not there: it is created.
LEMMA CreatedStep ==
  ASSUME AppInv, RequestsAnswered, NEW t \in Threads, NEW x, Asking(t), ServiceCreated(t, x),
         UNCHANGED <<job, target>>, AppKept
  PROVE  AppInv' /\ RequestsAnswered'
<1> DEFINE low  == Rank[target] < Rank["INITIALIZED"]
           e    == Item(x, DefaultPriority, low)
<1>1. /\ x \in AllServices /\ ~ Listed(list, x) /\ algs' = algs
      /\ list' = Append(list, e)
      /\ ~ low => /\ state' = Begun(x, "initialize")
                  /\ Call(t, stack[t], x, "initialize", TRUE) /\ handed' = handed
      /\ low => Answer(t, stack[t], x, state[x]) /\ state' = state
  <2>1. target \in States
    BY DEF AppInv, AppType
  <2>2. Rank[target] \in Nat /\ Rank["INITIALIZED"] \in Nat
    BY <2>1 DEF Rank, States
  <2>3. low <=> ~ (Rank[target] >= Rank["INITIALIZED"])
    BY <2>2
  <2> HIDE DEF low
  <2> QED
    BY <2>3 DEF ServiceCreated
<1>2. /\ low \in BOOLEAN
      /\ low <=> target \in {"OFFLINE", "CONFIGURED"}
  <2>1. target \in States
    BY DEF AppInv, AppType
  <2> QED
    BY <2>1 DEF Rank, States
<1> HIDE DEF low
<1>3. e \in Entry /\ e.svc = x /\ e.active = low
  BY <1>1, <1>2 DEF Item, Entry, DefaultPriority
<1> HIDE DEF e
<1>4. list \in Seq(Entry) /\ Distinct(list) /\ algs' \in Seq(Algs) /\ stack[t] \in Seq(Hook)
  BY <1>1, BusyThread DEF AppInv, AppType
<1>5. /\ list' \in Seq(Entry) /\ Distinct(list')
      /\ \A s : Listed(list', s) <=> Listed(list, s) \/ s = x
      /\ \A k \in DOMAIN list' : (\E i \in DOMAIN list : list'[k] = list[i]) \/ list'[k] = e
  BY <1>1, <1>3, <1>4, AppendList
<1>6. /\ state[x] = "OFFLINE" /\ ~ Over /\ phase # "configure" /\ x \notin Range(Core)
      /\ ~ (ServiceLoop /\ x \in Range(todo)) /\ \A u \in Threads : \A i : ~ Creating(x, u, i)
  <2>1. CreatedOnce(x) /\ ListedInState(x) /\ ~ Over /\ phase # "configure" /\ ActiveListed
    BY <1>1, BusyPhase DEF AppInv
  <2>2. \A u \in Threads : \A i : ~ Creating(x, u, i)
    BY <1>1, <2>1 DEF CreatedOnce, Creating
  <2> QED
    BY <1>1, <2>1, <2>2 DEF ListedInState, ActiveListed
<1>7. \A i \in DOMAIN list' : list'[i].svc = x => list'[i] = e
  BY <1>1, <1>5 DEF Listed
<1>8. CASE ~ low
  <2>1. UNCHANGED <<phase, target>> /\ TodoKept
    BY DEF AppKept
  <2>2. /\ stack' \in [Threads -> Seq(Hook)] /\ HooksNested' /\ \A s : Hooked(s)' <=> Hooked(s)
        /\ \A s : \A u \in Threads : \A i : Creating(s, u, i)' <=>
             Creating(s, u, i) \/ (s = x /\ u = t /\ i = Len(stack[t]) + 1)
    BY <1>1, <1>8, <2>1, StackCalled
  <2>3. \A u \in Threads : \A i : Creating(x, u, i)' <=> u = t /\ i = Len(stack[t]) + 1
    BY <1>6, <2>2
  <2>4. UnderWay(x)'
    BY <2>3 DEF UnderWay, Creating
  <2>5. CreatedOnce(x)'
    BY <1>5, <2>3 DEF CreatedOnce, Creating
  <2>6. ListedInState(x)'
    BY <1>5, <2>4 DEF ListedInState
  <2>7. /\ state' \in [AllServices \cup Algs -> States]
        /\ \A s \in AllServices \ {x} : state'[s] = state[s]
    BY <1>1, <1>8 DEF Begun, AppInv, AppType, States, Rank
  <2>8. AppInv'
    <3> DEFINE X == {x}
    <3>1. X \in SUBSET AllServices
      BY <1>1
    <3>2. \A s \in AllServices \ X :
           /\ state'[s] = state[s] /\ (Listed(list', s) <=> Listed(list, s))
           /\ \A u \in Threads : \A i : Creating(s, u, i)' <=> Creating(s, u, i)
      BY <1>5, <2>2, <2>7
    <3>3. \A i \in DOMAIN list' :
           (\E j \in DOMAIN list : list'[i] = list[j]) \/ list'[i].active \/ list'[i].svc \in X
      BY <1>3, <1>5
    <3>4. \A s \in X : /\ s \notin Range(Core) /\ ~ (ServiceLoop /\ s \in Range(todo))
                       /\ CreatedOnce(s)' /\ ListedInState(s)' /\ UnderWay(s)'
      BY <1>6, <2>4, <2>5, <2>6
    <3> HIDE DEF X
    <3> QED
      BY <1>4, <1>5, <1>6, <2>2, <2>7, <3>1, <3>2, <3>3, <3>4, ThreadStepInv
  <2>9. RequestsAnswered'
    BY <1>1, <1>8 DEF RequestsAnswered, ReadyWhenRunning, LoopErrorsReal
  <2> QED
    BY <2>8, <2>9
<1>9. CASE low
  <2> DEFINE b == state[x] \notin States
  <2>1. UNCHANGED <<phase, target>> /\ TodoKept
    BY DEF AppKept
  <2>2. b \in BOOLEAN /\ stack' = [stack EXCEPT ![t] = Answered(stack[t], b)]
    BY <1>1, <1>9 DEF Answer
  <2> HIDE DEF b
  <2>3. /\ stack' \in [Threads -> Seq(Hook)] /\ HooksNested' /\ \A s : Hooked(s)' <=> Hooked(s)
        /\ \A s : \A u \in Threads : \A i : Creating(s, u, i)' <=> Creating(s, u, i)
    BY <2>1, <2>2, StackAnswered
  <2>4. phase \in {"finalizeAlgs", "finalize"}
    <3>1. Loop \/ phase = "running"
      BY BusyThread
    <3>2. TargetOfPhase
      BY DEF AppInv
    <3> QED
      BY <1>2, <1>9, <3>1, <3>2 DEF TargetOfPhase, Loop, Phases
  <2>5. CreatedOnce(x)'
    <3>1. \A u \in Threads : \A i : ~ Creating(x, u, i)'
      BY <1>6, <2>3
    <3> QED
      BY <3>1 DEF CreatedOnce
  <2>6. ListedInState(x)'
    BY <1>1, <1>5, <1>6, <1>9, <2>1, <2>4 DEF ListedInState, StateInPhase
  <2>7. state' \in [AllServices \cup Algs -> States] /\ state' = state
    BY <1>1, <1>9 DEF AppInv, AppType
  <2>8. AppInv'
    <3> DEFINE X == {x}
    <3>1. X \in SUBSET AllServices
      BY <1>1
    <3>2. \A s \in AllServices \ X :
           /\ state'[s] = state[s] /\ (Listed(list', s) <=> Listed(list, s))
           /\ \A u \in Threads : \A i : Creating(s, u, i)' <=> Creating(s, u, i)
      BY <1>5, <2>3, <2>7
    <3>3. \A i \in DOMAIN list' :
           (\E j \in DOMAIN list : list'[i] = list[j]) \/ list'[i].active \/ list'[i].svc \in X
      BY <1>3, <1>5
    <3>4. \A s \in X : /\ s \notin Range(Core) /\ ~ (ServiceLoop /\ s \in Range(todo))
                       /\ CreatedOnce(s)' /\ ListedInState(s)'
                       /\ \A i \in DOMAIN list' : list'[i].svc = s => list'[i].active \/ UnderWay(s)'
      BY <1>3, <1>6, <1>7, <1>9, <2>5, <2>6
    <3> HIDE DEF X
    <3> QED
      BY <1>4, <1>5, <1>6, <2>3, <2>7, <3>1, <3>2, <3>3, <3>4, ThreadStepInv
  <2>9. RequestsAnswered'
    <3>1. phase # "running" /\ (stack[t] = <<>> => phase = "running") /\ state[x] # "loop"
      BY <1>6, <2>4 DEF Asking
    <3> QED
      BY <1>1, <1>4, <1>9, <3>1, RightAnswer
  <2> QED
    BY <2>8, <2>9
<1> QED
  BY <1>8, <1>9

\* A hook of a creation on demand: what it is, and what it stands for.
LEMMA CreationHook ==
  ASSUME AppInv, NEW t \in Threads, stack[t] # <<>>, Top(t).onDemand, NEW f, f = Top(t)
  PROVE  /\ Asking(t) /\ f \in Hook /\ f.op \in {"initialize", "start"}
         /\ f.op = "start" => target = "RUNNING"
         /\ stack[t] \in Seq(Hook) /\ Front(stack[t]) \in Seq(Hook)
         /\ Creating(f.who, t, Len(stack[t]))
         /\ f.who \in AllServices =>
              /\ Listed(list, f.who) /\ f.who \notin Range(Core)
              /\ ~ (ServiceLoop /\ f.who \in Range(todo))
              /\ \A u \in Threads : \A i : Creating(f.who, u, i) <=> u = t /\ i = Len(stack[t])
<1> DEFINE n == Len(stack[t])
<1>1. Asking(t) /\ stack[t] \in Seq(Hook) /\ \A i \in DOMAIN stack[t] : HookInPlace(stack[t][i], t, i)
  BY BusyThread DEF Asking
<1>2. f = stack[t][n] /\ f \in Hook /\ n \in DOMAIN stack[t] /\ Front(stack[t]) \in Seq(Hook)
  BY <1>1, FrontHooks DEF Top
<1>3. f.op \in {"initialize", "start"} /\ (f.op = "start" => target = "RUNNING")
  BY <1>1, <1>2 DEF HookInPlace
<1>4. Creating(f.who, t, n)
  BY <1>2 DEF Creating
<1>5. f.who \in AllServices =>
        /\ Listed(list, f.who)
        /\ \A u \in Threads : \A i : Creating(f.who, u, i) => u = t /\ i = n
  <2> SUFFICES ASSUME NEW w \in AllServices, w = f.who
               PROVE  /\ Listed(list, w)
                      /\ \A u \in Threads : \A i : Creating(w, u, i) => u = t /\ i = n
    OBVIOUS
  <2>1. CreatedOnce(w) /\ Creating(w, t, n) /\ n \in DOMAIN stack[t]
    BY <1>2, <1>4 DEF AppInv
  <2>2. Listed(list, w)
    BY <2>1 DEF CreatedOnce
  <2>3. \A u \in Threads : \A i : Creating(w, u, i) => i \in DOMAIN stack[u]
    BY DEF Creating
  <2>4. \A u \in Threads : \A i \in DOMAIN stack[u] : Creating(w, u, i) => t = u /\ n = i
    BY <2>1 DEF CreatedOnce
  <2> QED
    BY <2>2, <2>3, <2>4
<1>6. UnderWay(f.who)
  BY <1>2, <1>4 DEF UnderWay
<1>7. f.who \notin Range(Core) /\ ~ (ServiceLoop /\ f.who \in Range(todo))
  <2>1. ~ Over /\ phase # "configure" /\ ActiveListed
    BY <1>1, BusyPhase DEF AppInv
  <2> QED
    BY <1>6, <2>1 DEF ActiveListed
<1> QED
  BY <1>1, <1>2, <1>3, <1>4, <1>5, <1>7

\* What the return of such a hook makes of the states.
LEMMA ReturnedStates ==
  ASSUME AppInv, NEW f \in Hook, f.onDemand, f.op \in {"initialize", "start"}, NEW ok \in BOOLEAN,
         state' = Returned(f, ok)
  PROVE  /\ state' \in [AllServices \cup Algs -> States]
         /\ \A s \in AllServices : s # f.who => state'[s] = state[s]
         /\ f.who \in AllServices =>
              /\ ok => state'[f.who] = Reached(f.who, f.op)
              /\ ~ ok => state'[f.who] = "OFFLINE"
<1> DEFINE w == f.who
           r == Reached(w, f.op)
<1>1. w \in AllServices \cup Algs /\ state \in [AllServices \cup Algs -> States]
  BY DEF AppInv, AppType, Hook
<1>2. r \in States /\ "OFFLINE" \in States
  BY DEF Reached, States, Rank
<1>3. w \in AllServices => w \notin Algs
  BY NamesAssumption
<1>4. CASE ok
  <2>1. state' = [state EXCEPT ![w] = r]
    BY <1>4 DEF Returned
  <2> HIDE DEF r, w
  <2> QED
    BY <1>1, <1>2, <1>4, <2>1 DEF r, w
<1>5. CASE ~ ok /\ w \notin Algs
  <2>1. state' = [state EXCEPT ![w] = "OFFLINE"]
    BY <1>5 DEF Returned
  <2> QED
    BY <1>1, <1>2, <1>5, <2>1
<1>6. CASE ~ ok /\ w \in Algs
  <2>1. state' = state
    BY <1>6 DEF Returned
  <2> QED
    BY <1>1, <1>3, <1>6, <2>1
<1> QED
  BY <1>4, <1>5, <1>6

\* A step of a creation that touches one service.
LEMMA OneTouched ==
  ASSUME AppInv, NEW t \in Threads, Asking(t), UNCHANGED <<job, target, algs>>, AppKept,
         NEW w \in AllServices, w \notin Range(Core), ~ (ServiceLoop /\ w \in Range(todo)),
         state' \in [AllServices \cup Algs -> States],
         \A s \in AllServices : s # w => state'[s] = state[s],
         list' \in Seq(Entry), Distinct(list'),
         \A s : s # w => (Listed(list', s) <=> Listed(list, s)),
         \A i \in DOMAIN list' : (\E j \in DOMAIN list : list'[i] = list[j]) \/ list'[i].active,
         stack' \in [Threads -> Seq(Hook)], HooksNested', \A s : Hooked(s)' <=> Hooked(s),
         \A s : s # w => \A u \in Threads : \A i : Creating(s, u, i)' <=> Creating(s, u, i),
         CreatedOnce(w)', ListedInState(w)',
         \A i \in DOMAIN list' : list'[i].svc = w => list'[i].active \/ UnderWay(w)'
  PROVE  AppInv'
<1> DEFINE X == {w}
<1>1. X \in SUBSET AllServices /\ phase # "configure" /\ algs' \in Seq(Algs)
  BY BusyPhase DEF AppInv, AppType
<1>2. \A s \in AllServices \ X :
        /\ state'[s] = state[s] /\ (Listed(list', s) <=> Listed(list, s))
        /\ \A u \in Threads : \A i : Creating(s, u, i)' <=> Creating(s, u, i)
  OBVIOUS
<1>3. \A s \in X : /\ s \notin Range(Core) /\ ~ (ServiceLoop /\ s \in Range(todo))
                   /\ CreatedOnce(s)' /\ ListedInState(s)'
                   /\ \A i \in DOMAIN list' : list'[i].svc = s => list'[i].active \/ UnderWay(s)'
  OBVIOUS
<1> HIDE DEF X
<1> QED
  BY <1>1, <1>2, <1>3, ThreadStepInv

\* addService starts a service at once when the application runs.
LEMMA StartStep ==
  ASSUME AppInv, NEW t \in Threads, stack[t] # <<>>, Top(t).onDemand, NEW f, f = Top(t),
         target = "RUNNING", Call(t, Front(stack[t]), f.who, "start", TRUE),
         state' \in [AllServices \cup Algs -> States],
         \A s \in AllServices : s # f.who => state'[s] = state[s],
         UNCHANGED <<job, target, algs, list>>, AppKept
  PROVE  AppInv'
<1>1. UNCHANGED <<phase, target>> /\ TodoKept
  BY DEF AppKept
<1>2. /\ stack' \in [Threads -> Seq(Hook)] /\ HooksNested' /\ \A s : Hooked(s)' <=> Hooked(s)
      /\ \A s : \A u \in Threads : \A i : Creating(s, u, i)' <=> Creating(s, u, i)
  BY <1>1, StackRestarted
<1>3. Asking(t) /\ list' = list /\ list' \in Seq(Entry) /\ Distinct(list') /\ algs' \in Seq(Algs)
  BY DEF Asking, AppInv, AppType
<1>4. CASE f.who \notin AllServices
  BY <1>2, <1>3, <1>4, NothingTouched
<1>5. CASE f.who \in AllServices
  <2> SUFFICES ASSUME NEW w \in AllServices, w = f.who PROVE AppInv'
    BY <1>5
  <2>1. /\ Listed(list, w) /\ w \notin Range(Core) /\ ~ (ServiceLoop /\ w \in Range(todo))
        /\ \A u \in Threads : \A i : Creating(w, u, i) <=> u = t /\ i = Len(stack[t])
    BY CreationHook
  <2>2. \A u \in Threads : \A i : Creating(w, u, i)' <=> u = t /\ i = Len(stack[t])
    BY <1>2, <2>1
  <2>3. UnderWay(w)'
    BY <2>2 DEF UnderWay, Creating
  <2>4. CreatedOnce(w)'
    BY <1>3, <2>1, <2>2 DEF CreatedOnce
  <2>5. ListedInState(w)'
    BY <1>3, <2>1, <2>3 DEF ListedInState
  <2> QED
    BY <1>2, <1>3, <2>1, <2>3, <2>4, <2>5, OneTouched
<1> QED
  BY <1>4, <1>5

\* The end of addService.
LEMMA AddedStep ==
  ASSUME AppInv, RequestsAnswered, NEW t \in Threads, stack[t] # <<>>, Top(t).onDemand,
         NEW f, f = Top(t), NEW ok \in BOOLEAN, ~ StartAtOnce(f, ok),
         Answer(t, Front(stack[t]), f.who, IF ok THEN Reached(f.who, f.op) ELSE "failed"),
         list' = AfterAdd(list, f, ok), state' = Returned(f, ok),
         UNCHANGED <<job, target, algs>>, AppKept
  PROVE  AppInv' /\ RequestsAnswered'
<1> DEFINE got == IF ok THEN Reached(f.who, f.op) ELSE "failed"
           b == got \notin States
           n == Len(stack[t])
<1>1. /\ Asking(t) /\ f \in Hook /\ f.op \in {"initialize", "start"}
      /\ f.op = "start" => target = "RUNNING"
      /\ stack[t] \in Seq(Hook) /\ Front(stack[t]) \in Seq(Hook)
  BY CreationHook
<1>2. UNCHANGED <<phase, target>> /\ TodoKept
  BY DEF AppKept
<1>3. /\ b \in BOOLEAN /\ stack' = [stack EXCEPT ![t] = Answered(Front(stack[t]), b)]
      /\ Answer(t, Front(stack[t]), f.who, got)
  BY DEF Answer
<1>4. /\ f.op = "start" => Reached(f.who, f.op) = "RUNNING"
      /\ f.op = "initialize" => Reached(f.who, f.op) = "INITIALIZED"
      /\ "failed" \notin States
  BY DEF Reached, States, Rank
<1>5. ok /\ f.op = "initialize" => target # "RUNNING"
  BY DEF StartAtOnce
<1>6. RequestsAnswered'
  <2>1. got # "loop" /\ (got \in States => ok /\ got = Reached(f.who, f.op))
    BY <1>1, <1>4
  <2>2. t \in Workers => target = "RUNNING"
    BY <1>1, BusyThread DEF AppInv, TargetOfPhase
  <2>3. got \in States /\ t \in Workers => got = "RUNNING"
    BY <1>1, <1>4, <1>5, <2>1, <2>2
  <2> HIDE DEF got
  <2> QED
    BY <1>1, <1>3, <2>1, <2>3, RightAnswer
<1> HIDE DEF b, got
<1>7. /\ stack' \in [Threads -> Seq(Hook)] /\ HooksNested' /\ \A s : Hooked(s)' <=> Hooked(s)
      /\ \A s : \A u \in Threads : \A i : Creating(s, u, i)' <=>
           Creating(s, u, i) /\ ~ (u = t /\ i = n)
  BY <1>2, <1>3, StackPopped
<1>8. \A s : s # f.who => \A u \in Threads : \A i : Creating(s, u, i)' <=> Creating(s, u, i)
  <2>1. \A s : Creating(s, t, n) => s = f.who
    BY <1>1, FrontHooks DEF Creating, Top
  <2> QED
    BY <1>7, <2>1
<1>9. /\ state' \in [AllServices \cup Algs -> States]
      /\ \A s \in AllServices : s # f.who => state'[s] = state[s]
      /\ f.who \in AllServices =>
           /\ ok => state'[f.who] = Reached(f.who, f.op)
           /\ ~ ok => state'[f.who] = "OFFLINE"
  BY <1>1, ReturnedStates
<1>10. list \in Seq(Entry) /\ Distinct(list) /\ algs' \in Seq(Algs)
  BY DEF AppInv, AppType
<1>11. CASE f.who \notin AllServices
  <2>1. f.who \in Algs
    BY <1>1, <1>11 DEF Hook
  <2>2. list' = list
    BY <2>1 DEF AfterAdd
  <2>3. AppInv'
    BY <1>1, <1>7, <1>8, <1>9, <1>10, <1>11, <2>2, NothingTouched
  <2> QED
    BY <1>6, <2>3
<1>12. CASE f.who \in AllServices
  <2> SUFFICES ASSUME NEW w \in AllServices, w = f.who PROVE AppInv'
    BY <1>6, <1>12
  <2>1. /\ Listed(list, w) /\ w \notin Range(Core) /\ ~ (ServiceLoop /\ w \in Range(todo))
        /\ \A u \in Threads : \A i : Creating(w, u, i) <=> u = t /\ i = n
    BY CreationHook
  <2>2. \A u \in Threads : \A i : ~ Creating(w, u, i)'
    BY <1>7, <2>1
  <2>3. ~ UnderWay(w)' /\ CreatedOnce(w)'
    BY <2>2 DEF UnderWay, CreatedOnce
  <2>4. w \notin Algs
    BY NamesAssumption
  <2>5. CASE ok
    <3>1. list' = MoveToBack(list, w)
      BY <2>4, <2>5 DEF AfterAdd
    <3>2. /\ list' \in Seq(Entry) /\ Distinct(list')
          /\ \A s : Listed(list', s) <=> Listed(list, s)
          /\ \A i \in DOMAIN list' : (\E j \in DOMAIN list : list'[i] = list[j]) \/ list'[i].active
          /\ \A i \in DOMAIN list' : list'[i].svc = w => list'[i].active
      BY <1>10, <2>1, <3>1, MoveToBackList
    <3>3. \/ state'[w] = "RUNNING" /\ target = "RUNNING"
          \/ state'[w] = "INITIALIZED" /\ target # "RUNNING"
      BY <1>1, <1>4, <1>5, <1>9, <2>5
    <3>4. StateInPhase(w)'
      <4>1. TargetOfPhase
        BY DEF AppInv
      <4> QED
        BY <1>2, <3>3, <4>1 DEF TargetOfPhase, StateInPhase
    <3>5. ListedInState(w)'
      BY <2>1, <3>2, <3>4 DEF ListedInState
    <3> QED
      BY <1>1, <1>7, <1>8, <1>9, <2>1, <2>3, <3>2, <3>5, OneTouched
  <2>6. CASE ~ ok
    <3>1. list' = Without(list, w)
      BY <2>4, <2>6 DEF AfterAdd
    <3>2. /\ list' \in Seq(Entry) /\ Distinct(list')
          /\ \A s : Listed(list', s) <=> Listed(list, s) /\ s # w
          /\ \A i \in DOMAIN list' : \E j \in DOMAIN list : list'[i] = list[j]
      BY <1>10, <3>1, WithoutList
    <3>3. \A i \in DOMAIN list' : list'[i].svc # w
      BY <3>2 DEF Listed
    <3>4. ListedInState(w)'
      BY <1>9, <2>6, <3>2 DEF ListedInState
    <3> QED
      BY <1>1, <1>7, <1>8, <1>9, <2>1, <2>3, <3>2, <3>3, <3>4, OneTouched
  <2> QED
    BY <2>5, <2>6
<1> QED
  BY <1>11, <1>12

\* The hook of a creation returns.
LEMMA ReturnStep ==
  ASSUME AppInv, RequestsAnswered, NEW t \in Threads, OnDemandReturns(t), AppKept
  PROVE  AppInv' /\ RequestsAnswered'
<1>1. PICK ok \in BOOLEAN :
        /\ HookReturns(t, ok) /\ Top(t).onDemand
        /\ IF StartAtOnce(Top(t), ok)
           THEN Call(t, Front(stack[t]), Top(t).who, "start", TRUE) /\ UNCHANGED <<list, handed>>
           ELSE /\ Answer(t, Front(stack[t]), Top(t).who,
                          IF ok THEN Reached(Top(t).who, Top(t).op) ELSE "failed")
                /\ list' = AfterAdd(list, Top(t), ok)
        /\ UNCHANGED <<algs, target>>
  BY DEF OnDemandReturns
<1> DEFINE f == Top(t)
<1>2. stack[t] # <<>> /\ state' = Returned(f, ok) /\ UNCHANGED job
  BY <1>1 DEF HookReturns
<1>3. f \in Hook /\ f.op \in {"initialize", "start"}
  BY <1>1, <1>2, CreationHook
<1>4. /\ state' \in [AllServices \cup Algs -> States]
      /\ \A s \in AllServices : s # f.who => state'[s] = state[s]
  BY <1>1, <1>2, <1>3, ReturnedStates
<1>5. CASE StartAtOnce(f, ok)
  <2>1. AppInv'
    BY <1>1, <1>2, <1>4, <1>5, StartStep DEF StartAtOnce
  <2>2. RequestsAnswered'
    BY <1>1, <1>5 DEF RequestsAnswered, ReadyWhenRunning, LoopErrorsReal
  <2> QED
    BY <2>1, <2>2
<1>6. CASE ~ StartAtOnce(f, ok)
  BY <1>1, <1>2, <1>6, AddedStep
<1> QED
  BY <1>5, <1>6

\* Which is what a step of a thread does.
LEMMA ThreadKeeps ==
  ASSUME AppInv, NEW t \in Threads, ThreadSteps(t)
  PROVE  AppKept
<1>1. /\ algs \in Seq(Algs) /\ todo \in Seq(AllServices \cup Algs)
      /\ (AlgLoop => todo \in Seq(Algs))
  BY DEF AppInv, AppType
<1>2. algs' = algs \/ \E x \in Algs : algs' = Append(algs, x)
  <2>1. ASSUME NEW x, Retrieve(t, x) PROVE algs' = algs \/ \E y \in Algs : algs' = Append(algs, y)
    BY <2>1 DEF Retrieve, ServiceFound, NoFactory, ServiceCreated, Algorithm
  <2> QED
    BY <2>1 DEF ThreadSteps, HookAsks, WorkerAsks, OnDemandReturns
<1>3. CASE todo' = todo
  BY <1>1, <1>3 DEF AppKept, TodoKept, ThreadSteps
<1>4. CASE todo' # todo
  <2>1. phase = "finalizeAlgs" /\ algs' # algs /\ todo' = Append(todo, Last(algs'))
    BY <1>4 DEF ThreadSteps
  <2>2. PICK x \in Algs : algs' = Append(algs, x)
    BY <1>2, <2>1
  <2>3. Last(algs') = x
    BY <1>1, <2>2 DEF Last
  <2>4. /\ todo' \in Seq(AllServices \cup Algs) /\ (AlgLoop => todo' \in Seq(Algs))
        /\ todo # <<>> => todo' # <<>> /\ Head(todo') = Head(todo)
    BY <1>1, <2>1, <2>3
  <2> QED
    BY <2>1, <2>4 DEF AppKept, TodoKept, ThreadSteps
<1> QED
  BY <1>3, <1>4

\* A step of a thread.
LEMMA ThreadStep ==
  ASSUME AppInv, RequestsAnswered, NEW t \in Threads, ThreadSteps(t)
  PROVE  AppInv' /\ RequestsAnswered'
<1>1. ASSUME NEW x, Asking(t), Retrieve(t, x), UNCHANGED <<job, target>>, AppKept
      PROVE  AppInv' /\ RequestsAnswered'
  BY <1>1, FoundStep, NoFactoryStep, CreatedStep, AlgorithmStep DEF Retrieve
<1>2. CASE HookAsks(t)
  <2>1. Asking(t) /\ UNCHANGED <<job, target>> /\ AppKept /\ \E x : Retrieve(t, x)
    BY <1>2, ThreadKeeps DEF HookAsks, Asking
  <2> QED
    BY <1>1, <2>1
<1>3. CASE phase = "running" /\ t # Main /\ WorkerAsks(t)
  <2>1. Asking(t) /\ UNCHANGED <<job, target>> /\ AppKept /\ \E x : Retrieve(t, x)
    BY <1>3, ThreadKeeps DEF WorkerAsks, Asking, Threads
  <2> QED
    BY <1>1, <2>1
<1>4. CASE OnDemandReturns(t)
  BY <1>4, ThreadKeeps, ReturnStep
<1> QED
  BY <1>2, <1>3, <1>4 DEF ThreadSteps

-----------------------------------------------------------------------------
(* A phase begins.                                                         *)

\* finalize() sets priorities and nothing else.
LEMMA LateList ==
  ASSUME NEW l \in Seq(Entry)
  PROVE  /\ LatePriorities(l) \in Seq(Entry) /\ DOMAIN LatePriorities(l) = DOMAIN l
         /\ \A i \in DOMAIN l : /\ LatePriorities(l)[i].svc = l[i].svc
                                /\ LatePriorities(l)[i].active = l[i].active
<1> DEFINE late(i) == l[i].svc \in DOMAIN LateOffset
           prio(i) == Find(l, ToolSvc).prio - LateOffset[l[i].svc]
           m == [i \in DOMAIN l |-> IF late(i) THEN [l[i] EXCEPT !.prio = prio(i)] ELSE l[i]]
<1>1. CASE ~ (Listed(l, ToolSvc) /\ Find(l, ToolSvc).prio # 0)
  BY <1>1 DEF LatePriorities
<1>2. CASE Listed(l, ToolSvc) /\ Find(l, ToolSvc).prio # 0
  <2>1. LatePriorities(l) = m
    BY <1>2 DEF LatePriorities
  <2>2. Find(l, ToolSvc).prio \in Int
    <3>1. Find(l, ToolSvc) \in Entry
      BY <1>2 DEF Find, Listed
    <3> QED
      BY <3>1 DEF Entry
  <2>3. \A i \in DOMAIN l : late(i) => prio(i) \in Int
    BY <2>2, LateAssumption
  <2>4. \A i \in DOMAIN l : l[i] \in Entry
    OBVIOUS
  <2> HIDE DEF late, prio
  <2>5. \A i \in DOMAIN l : m[i] \in Entry /\ m[i].svc = l[i].svc /\ m[i].active = l[i].active
    <3> SUFFICES ASSUME NEW i \in DOMAIN l
                 PROVE  m[i] \in Entry /\ m[i].svc = l[i].svc /\ m[i].active = l[i].active
      OBVIOUS
    <3> DEFINE e == l[i]
    <3>1. e \in Entry /\ m[i] = IF late(i) THEN [e EXCEPT !.prio = prio(i)] ELSE e
      BY <2>4
    <3> HIDE DEF e, m
    <3>2. m[i] \in Entry /\ m[i].svc = e.svc /\ m[i].active = e.active
      BY <2>3, <3>1 DEF Entry
    <3> QED
      BY <3>2 DEF e
  <2>6. DOMAIN m = DOMAIN l /\ DOMAIN l = 1..Len(l) /\ Len(l) \in Nat
    OBVIOUS
  <2>7. m = [i \in 1..Len(l) |-> m[i]]
    BY <2>6
  <2> HIDE DEF m
  <2>8. m \in Seq(Entry)
    <3>1. m \in [1..Len(l) -> Entry]
      BY <2>5, <2>6, <2>7, Zenon
    <3> QED
      BY <2>6, <3>1, FunctionIsSeq
  <2> QED
    BY <2>1, <2>5, <2>6, <2>8
<1> QED
  BY <1>1, <1>2

\* m has the entries of l, up to priorities.
SameEntries(m, l) ==
  /\ \A s : Listed(m, s) <=> Listed(l, s)
  /\ \A k \in DOMAIN m : \E i \in DOMAIN l : m[k].svc = l[i].svc /\ m[k].active = l[i].active
  /\ \A i \in DOMAIN l : \E k \in DOMAIN m : m[k].svc = l[i].svc /\ m[k].active = l[i].active

\* A sorted list.
LEMMA SortedEntries ==
  ASSUME NEW l \in Seq(Entry), Distinct(l)
  PROVE  Sorted(l) \in Seq(Entry) /\ Distinct(Sorted(l)) /\ SameEntries(Sorted(l), l)
<1> DEFINE m == Sorted(l)
           S == DOMAIN l
<1>1. m \in Seq(Entry) /\ Rearranges(m, l, S) /\ S \in SUBSET DOMAIN l
  BY SortedList
<1> HIDE DEF m, S
<1>2. /\ Distinct(m) /\ \A s : Listed(m, s) <=> \E i \in S : l[i].svc = s
      /\ \A k \in DOMAIN m : \E i \in S : m[k] = l[i]
      /\ \A i \in S : \E k \in DOMAIN m : m[k] = l[i]
  BY <1>1, RearrangedList
<1>3. SameEntries(m, l)
  BY <1>2 DEF SameEntries, Listed, S
<1> QED
  BY <1>1, <1>2, <1>3 DEF m

\* The list a phase finds.
LEMMA PreparedList ==
  ASSUME NEW p, NEW l \in Seq(Entry), Distinct(l)
  PROVE  Prepared(p, l) \in Seq(Entry) /\ Distinct(Prepared(p, l)) /\ SameEntries(Prepared(p, l), l)
<1>1. SameEntries(l, l)
  BY DEF SameEntries
<1>2. CASE p \in {"initialize", "start", "stop"}
  BY <1>2, SortedEntries DEF Prepared
<1>3. CASE p = "finalize"
  <2> DEFINE k == LatePriorities(l)
  <2>1. /\ k \in Seq(Entry) /\ DOMAIN k = DOMAIN l
        /\ \A i \in DOMAIN l : k[i].svc = l[i].svc /\ k[i].active = l[i].active
    BY LateList
  <2> HIDE DEF k
  <2>2. Distinct(k) /\ SameEntries(k, l)
    BY <2>1 DEF Distinct, SameEntries, Listed
  <2>3. Sorted(k) \in Seq(Entry) /\ Distinct(Sorted(k)) /\ SameEntries(Sorted(k), k)
    BY <2>1, <2>2, SortedEntries
  <2>4. SameEntries(Sorted(k), l)
    <3> DEFINE m == Sorted(k)
    <3>1. SameEntries(m, k)
      BY <2>3
    <3> HIDE DEF m
    <3>2. \A s : Listed(m, s) <=> Listed(l, s)
      BY <2>2, <3>1 DEF SameEntries
    <3>3. \A j \in DOMAIN m : \E i \in DOMAIN l : m[j].svc = l[i].svc /\ m[j].active = l[i].active
      BY <2>1, <3>1 DEF SameEntries
    <3>4. \A i \in DOMAIN l : \E j \in DOMAIN m : m[j].svc = l[i].svc /\ m[j].active = l[i].active
      BY <2>1, <3>1 DEF SameEntries
    <3>5. SameEntries(m, l)
      BY <3>2, <3>3, <3>4 DEF SameEntries
    <3> QED
      BY <3>5 DEF m
  <2> QED
    BY <1>3, <2>3, <2>4 DEF Prepared, k
<1>4. CASE p \notin {"initialize", "start", "stop", "finalize"}
  BY <1>1, <1>4 DEF Prepared
<1> QED
  BY <1>2, <1>3, <1>4

\* What the phase goes through.
LEMMA WorkList ==
  ASSUME NEW p, NEW l \in Seq(Entry), algs \in Seq(Algs)
  PROVE  /\ Work(p, l) \in Seq(AllServices \cup Algs)
         /\ p \in {"initAlgs", "startAlgs", "stopAlgs", "finalizeAlgs"} => Work(p, l) \in Seq(Algs)
         /\ p \in {"initialize", "start", "stop", "finalize"} =>
              /\ Work(p, l) \in Seq(AllServices)
              /\ \A s : s \in Range(Work(p, l)) <=> \E i \in DOMAIN l : l[i].active /\ l[i].svc = s
<1> DEFINE a == ActiveSvc(l)
<1>1. /\ a \in Seq(AllServices)
      /\ \A s : s \in Range(a) <=> \E i \in DOMAIN l : l[i].active /\ l[i].svc = s
  BY ActiveList
<1> HIDE DEF a
<1>2. Reverse(a) \in Seq(AllServices) /\ Range(Reverse(a)) = Range(a)
  BY <1>1, ReverseList
<1>3. /\ Seq(AllServices) \subseteq Seq(AllServices \cup Algs)
      /\ Seq(Algs) \subseteq Seq(AllServices \cup Algs)
  BY SeqMonotonic
<1>4. CASE p \in {"initialize", "start"}
  <2>1. Work(p, l) = a
    BY <1>4 DEF Work, a
  <2> QED
    BY <1>1, <1>3, <1>4, <2>1
<1>5. CASE p \in {"stop", "finalize"}
  <2>1. Work(p, l) = Reverse(a)
    BY <1>5 DEF Work, a
  <2> QED
    BY <1>1, <1>2, <1>3, <1>5, <2>1
<1>6. CASE p \in {"initAlgs", "startAlgs", "stopAlgs", "finalizeAlgs"}
  <2>1. Work(p, l) = algs
    BY <1>6 DEF Work
  <2> QED
    BY <1>3, <1>6, <2>1
<1>7. CASE p \notin {"initialize", "start", "stop", "finalize", "initAlgs", "startAlgs", "stopAlgs", "finalizeAlgs"}
  <2>1. Work(p, l) = <<>>
    BY <1>7 DEF Work
  <2> QED
    BY <1>7, <2>1
<1> QED
  BY <1>4, <1>5, <1>6, <1>7

\* The state st in which phase p may find a listed service s.
Entered(p, s, st) ==
  CASE p = "initialize" -> st = "INITIALIZED" \/ (s \notin Range(Core) /\ st = "OFFLINE")
    [] p = "initAlgs" -> st = "INITIALIZED"
    [] p = "start" -> st = "RUNNING" \/ (s \notin Range(Core) /\ st = "INITIALIZED")
    [] p \in {"startAlgs", "running"} -> st = "RUNNING"
    [] p \in {"stopAlgs", "stop"} -> st \in {"INITIALIZED", "RUNNING"}
    [] p \in {"finalizeAlgs", "finalize"} -> st # "CONFIGURED"
    [] OTHER -> TRUE

\* The list l and the states with which phase p may begin.
FitFor(p, l) ==
  p \notin {"terminate", "done"} =>
    /\ \A s \in AllServices : /\ ~ Listed(l, s) => state'[s] = "OFFLINE"
                              /\ Listed(l, s) => Entered(p, s, state'[s])
                              /\ s \in Range(Core) => Listed(l, s)
    /\ \A i \in DOMAIN l : l[i].active \/ l[i].svc \in Range(Core)

\* A phase begins, with no hook under way.
LEMMA BeginInv ==
  ASSUME job' \in Jobs, algs \in Seq(Algs), algs' \in Seq(Algs),
         state' \in [AllServices \cup Algs -> States],
         stack' \in [Threads -> Seq(Hook)], \A t \in Threads : stack'[t] = <<>>,
         sc' \in {"success", "failure"}, returnCode' \in {"Success", "FinalizationFailure"},
         appState' \in States, target' \in States, TargetOfPhase',
         NEW p \in Phases \ {"configure"}, NEW l \in Seq(Entry), Distinct(l), Begin(p, l), FitFor(p, l)
  PROVE  AppInv'
<1>1. phase' = p /\ list' = Prepared(p, l) /\ todo' = Work(p, list')
  BY DEF Begin
<1>2. list' \in Seq(Entry) /\ Distinct(list') /\ SameEntries(list', l)
  BY <1>1, PreparedList
<1>3. /\ todo' \in Seq(AllServices \cup Algs)
      /\ p \in {"initAlgs", "startAlgs", "stopAlgs", "finalizeAlgs"} => todo' \in Seq(Algs)
      /\ p \in {"initialize", "start", "stop", "finalize"} =>
           /\ todo' \in Seq(AllServices)
           /\ \A s : s \in Range(todo') <=> \E i \in DOMAIN list' : list'[i].active /\ list'[i].svc = s
  <2> DEFINE m == list'
  <2>1. m \in Seq(Entry) /\ todo' = Work(p, m)
    BY <1>1, <1>2
  <2> HIDE DEF m
  <2>2. /\ todo' \in Seq(AllServices \cup Algs)
        /\ p \in {"initAlgs", "startAlgs", "stopAlgs", "finalizeAlgs"} => todo' \in Seq(Algs)
        /\ p \in {"initialize", "start", "stop", "finalize"} =>
             /\ todo' \in Seq(AllServices)
             /\ \A s : s \in Range(todo') <=> \E i \in DOMAIN m : m[i].active /\ m[i].svc = s
    BY <2>1, WorkList
  <2> QED
    BY <2>2 DEF m
<1>4. AppType'
  BY <1>1, <1>2, <1>3 DEF AppType, AlgLoop, ServiceLoop
<1>5. Main \in Threads /\ Workers \subseteq Threads
  BY DEF Threads
<1>6. HooksNested'
  BY <1>5 DEF HooksNested
<1>7. \A s : ~ UnderWay(s)' /\ ~ Hooked(s)' /\ \A u \in Threads : \A i : ~ Creating(s, u, i)'
  BY <1>5 DEF UnderWay, Hooked, Creating
<1>8. \A s \in AllServices : CreatedOnce(s)'
  BY <1>7 DEF CreatedOnce
<1>9. ASSUME NEW s \in AllServices PROVE ListedInState(s)'
  <2>1. CASE p \in {"terminate", "done", "threw"}
    BY <1>1, <2>1 DEF ListedInState, Over
  <2>2. CASE p \notin {"terminate", "done", "threw"}
    <3>1. /\ Listed(list', s) <=> Listed(l, s)
          /\ ~ Listed(l, s) => state'[s] = "OFFLINE"
          /\ Listed(l, s) => Entered(p, s, state'[s])
      BY <1>2, <2>2 DEF FitFor, SameEntries
    <3>2. ASSUME Listed(l, s), p \in {"initialize", "start"}, s \notin Range(Core)
          PROVE  s \in Range(todo')
      <4>1. PICK i \in DOMAIN l : l[i].svc = s /\ l[i].active
        BY <2>2, <3>2 DEF FitFor, Listed
      <4>2. \E k \in DOMAIN list' : list'[k].svc = s /\ list'[k].active
        BY <1>2, <4>1 DEF SameEntries
      <4> QED
        BY <1>3, <3>2, <4>2
    <3>3. Listed(l, s) => StateInPhase(s)'
      BY <1>1, <2>2, <3>1, <3>2 DEF StateInPhase, Entered
    <3> QED
      BY <3>1, <3>3 DEF ListedInState
  <2> QED
    BY <2>1, <2>2
<1>10. ActiveListed'
  <2>1. CASE p \in {"terminate", "done", "threw"}
    BY <1>1, <2>1 DEF ActiveListed, Over, ServiceLoop
  <2>2. CASE p \notin {"terminate", "done", "threw"}
    <3>1. ASSUME NEW s \in AllServices, NEW k \in DOMAIN list', list'[k].svc = s
          PROVE  list'[k].active \/ s \in Range(Core)
      <4>1. PICK i \in DOMAIN l : list'[k].svc = l[i].svc /\ list'[k].active = l[i].active
        BY <1>2 DEF SameEntries
      <4> QED
        BY <2>2, <3>1, <4>1 DEF FitFor
    <3>2. \A s \in Range(Core) : Listed(list', s)
      BY <1>2, <2>2 DEF FitFor, SameEntries, AllServices
    <3>3. p \in {"initialize", "start", "stop", "finalize"} => \A s \in Range(todo') : Listed(list', s)
      BY <1>3 DEF Listed
    <3> QED
      BY <1>1, <1>7, <2>2, <3>1, <3>2, <3>3 DEF ActiveListed, Over, ServiceLoop
  <2> QED
    BY <2>1, <2>2
<1> QED
  BY <1>4, <1>6, <1>8, <1>9, <1>10 DEF AppInv

-----------------------------------------------------------------------------
(* The loops over services and algorithms.                                 *)

\* What holds when no service is being created.
Calm ==
  /\ \A s : ~ UnderWay(s)
  /\ \A s \in AllServices : /\ ~ Listed(list, s) => state[s] = "OFFLINE"
                            /\ Listed(list, s) => StateInPhase(s)
                            /\ s \in Range(Core) => Listed(list, s)
  /\ \A i \in DOMAIN list : list[i].active \/ list[i].svc \in Range(Core)

LEMMA WhenCalm ==
  ASSUME AppInv, ~ Over, phase # "configure", \A s : ~ UnderWay(s)
  PROVE  Calm
<1>1. \A i \in DOMAIN list : list[i] \in Entry
  BY DEF AppInv, AppType
<1>2. \A i \in DOMAIN list : list[i].svc \in AllServices
  BY <1>1 DEF Entry
<1> QED
  BY <1>2 DEF AppInv, ActiveListed, ListedInState, Calm

\* The loop is between two hooks, or in one.
LEMMA LoopCalm ==
  ASSUME AppInv, Loop, stack[Main] = <<>> \/ ~ Top(Main).onDemand
  PROVE  /\ Calm /\ \A t \in Workers : stack[t] = <<>>
         /\ stack[Main] # <<>> => /\ Top(Main) = stack[Main][1] /\ Top(Main) \in Hook
                                  /\ Top(Main).who = Head(todo) /\ Top(Main).op = Op(phase)
                                  /\ todo # <<>>
<1>1. HooksNested /\ stack[Main] \in Seq(Hook) /\ Main \in Threads
  BY DEF AppInv, AppType, Threads
<1>2. ~ Over /\ phase # "configure" /\ phase # "running"
  BY DEF Loop, Over
<1>3. \A t \in Workers : stack[t] = <<>>
  BY <1>1, <1>2 DEF HooksNested
<1>4. stack[Main] # <<>> =>
        /\ Top(Main) = stack[Main][Len(stack[Main])] /\ Top(Main) \in Hook
        /\ Len(stack[Main]) = 1 /\ DOMAIN stack[Main] = 1..1
  <2> SUFFICES ASSUME stack[Main] # <<>>
               PROVE  /\ Top(Main) = stack[Main][Len(stack[Main])] /\ Top(Main) \in Hook
                      /\ Len(stack[Main]) = 1 /\ DOMAIN stack[Main] = 1..1
    OBVIOUS
  <2>1. /\ Top(Main) = stack[Main][Len(stack[Main])] /\ Top(Main) \in Hook
        /\ Len(stack[Main]) \in DOMAIN stack[Main] /\ DOMAIN stack[Main] = 1..Len(stack[Main])
    BY <1>1, FrontHooks DEF Top
  <2>2. Len(stack[Main]) = 1
    BY <1>1, <2>1 DEF HooksNested, HookInPlace
  <2> QED
    BY <2>1, <2>2
<1>5. \A s : ~ UnderWay(s)
  <2>1. \A i \in DOMAIN stack[Main] : ~ stack[Main][i].onDemand
    BY <1>4
  <2> QED
    BY <1>3, <2>1 DEF UnderWay, Creating, Threads
<1>6. Calm
  BY <1>2, <1>5, WhenCalm
<1> QED
  BY <1>1, <1>3, <1>4, <1>6 DEF HooksNested

\* The rest of the work.
LEMMA TailWork ==
  ASSUME NEW T, NEW q \in Seq(T), q # <<>>
  PROVE  /\ Head(q) \in T /\ Tail(q) \in Seq(T) /\ Head(q) \in Range(q)
         /\ Range(q) = Range(Tail(q)) \cup {Head(q)}
<1>1. 1 \in DOMAIN q /\ q[1] = Head(q) /\ Head(q) \in T /\ Tail(q) \in Seq(T)
  OBVIOUS
<1>2. /\ \A i \in DOMAIN Tail(q) : i + 1 \in DOMAIN q /\ q[i + 1] = Tail(q)[i]
      /\ \A i \in DOMAIN q : i = 1 \/ (i - 1 \in DOMAIN Tail(q) /\ Tail(q)[i - 1] = q[i])
  OBVIOUS
<1> DEFINE p == Tail(q)
           h == Head(q)
<1>3. h \in Range(q)
  BY <1>1 DEF Range
<1>4. \A i \in DOMAIN p : p[i] \in Range(q)
  BY <1>2 DEF Range
<1>5. ASSUME NEW i \in DOMAIN q PROVE q[i] \in Range(p) \cup {h}
  <2>1. CASE i = 1
    BY <1>1, <2>1
  <2>2. CASE i - 1 \in DOMAIN p /\ p[i - 1] = q[i]
    <3>1. p[i - 1] \in Range(p)
      BY <2>2, Zenon DEF Range
    <3> QED
      BY <2>2, <3>1
  <2> QED
    BY <1>2, <2>1, <2>2
<1> HIDE DEF p, h
<1>6. Range(q) = Range(p) \cup {h}
  BY <1>3, <1>4, <1>5 DEF Range
<1> QED
  BY <1>1, <1>3, <1>6 DEF p, h

\* The loop goes on, with no hook under way.
LEMMA LoopGoesOn ==
  ASSUME AppInv, Loop, Calm, UNCHANGED <<job, target, list, appState, phase, sc>>,
         returnCode' \in {"Success", "FinalizationFailure"}, algs' \in Seq(Algs),
         state' \in [AllServices \cup Algs -> States],
         stack' \in [Threads -> Seq(Hook)], \A t \in Threads : stack'[t] = <<>>,
         todo # <<>>, todo' \in {<<>>, Tail(todo)},
         \A s \in AllServices : /\ ~ Listed(list, s) => state'[s] = "OFFLINE"
                                /\ Listed(list, s) => StateInPhase(s)'
  PROVE  AppInv'
<1>1. /\ todo \in Seq(AllServices \cup Algs)
      /\ (AlgLoop => todo \in Seq(Algs)) /\ (ServiceLoop => todo \in Seq(AllServices))
  BY DEF AppInv, AppType
<1>2. ASSUME NEW T, todo \in Seq(T) PROVE todo' \in Seq(T)
  <2>1. Tail(todo) \in Seq(T) /\ <<>> \in Seq(T)
    BY <1>2, TailWork
  <2> QED
    BY <2>1
<1>2a. /\ todo' \in Seq(AllServices \cup Algs)
       /\ (AlgLoop => todo' \in Seq(Algs)) /\ (ServiceLoop => todo' \in Seq(AllServices))
  BY <1>1, <1>2
<1>3. Range(todo') \subseteq Range(todo)
  <2>1. Range(<<>>) = {}
    BY DEF Range
  <2>2. Range(Tail(todo)) \subseteq Range(todo)
    BY <1>1, TailWork
  <2>3. CASE todo' = <<>>
    BY <2>1, <2>3
  <2>4. CASE todo' = Tail(todo)
    BY <2>2, <2>4
  <2> QED
    BY <2>3, <2>4
<1>4. AppType' /\ TargetOfPhase'
  BY <1>2a DEF AppInv, AppType, TargetOfPhase, AlgLoop, ServiceLoop
<1>5. Main \in Threads /\ Workers \subseteq Threads
  BY DEF Threads
<1>6. HooksNested'
  BY <1>5 DEF HooksNested
<1>7. \A s : ~ UnderWay(s)' /\ \A u \in Threads : \A i : ~ Creating(s, u, i)'
  BY DEF UnderWay, Creating
<1>8. \A s \in AllServices : CreatedOnce(s)' /\ ListedInState(s)'
  BY <1>7 DEF CreatedOnce, ListedInState
<1>9. ActiveListed'
  <2>1. \A s \in Range(Core) : Listed(list, s)
    BY DEF Calm, AllServices
  <2>2. ServiceLoop => \A s \in Range(todo') : Listed(list, s)
    BY <1>3 DEF AppInv, ActiveListed
  <2> QED
    BY <1>7, <2>1, <2>2 DEF Calm, ActiveListed, Over, Loop, ServiceLoop
<1> QED
  BY <1>4, <1>6, <1>8, <1>9 DEF AppInv

\* AlgorithmManager::finalize removes an algorithm.
LEMMA FinishedAlgs == ASSUME AppInv, NEW x PROVE Finished(x) \in Seq(Algs)
<1>1. algs \in Seq(Algs)
  BY DEF AppInv, AppType
<1> DEFINE S == {i \in DOMAIN algs : algs[i] # x}
<1>2. S \in SUBSET DOMAIN algs
  OBVIOUS
<1> HIDE DEF S
<1>3. Selected(algs, S) \in Seq(Algs)
  BY <1>1, <1>2, SelectedList
<1> QED
  BY <1>1, <1>3 DEF Finished, S

\* A service or algorithm that needs nothing.
LEMMA SkipStep ==
  ASSUME AppInv, NEW x, Skip(x)
  PROVE  AppInv'
<1>1. /\ Loop /\ stack[Main] = <<>> /\ todo # <<>> /\ x = Head(todo) /\ Skips(x)
      /\ todo' = Tail(todo) /\ algs' = Finished(x)
      /\ UNCHANGED <<job, target, list, state, stack, appState, phase, sc, returnCode>>
  BY DEF Skip, NextInLoop
<1>2. Calm /\ \A t \in Workers : stack[t] = <<>>
  BY <1>1, LoopCalm
<1>3. /\ algs' \in Seq(Algs) /\ state' \in [AllServices \cup Algs -> States]
      /\ stack' \in [Threads -> Seq(Hook)] /\ \A t \in Threads : stack'[t] = <<>>
      /\ returnCode' \in {"Success", "FinalizationFailure"}
  BY <1>1, <1>2, FinishedAlgs DEF AppInv, AppType, Threads
<1>4. ASSUME NEW s \in AllServices, Listed(list, s)
      PROVE  StateInPhase(s)'
  <2>1. StateInPhase(s) /\ state' = state /\ phase' = phase
    BY <1>1, <1>2, <1>4 DEF Calm
  <2>2. s \in Range(todo) => s \in Range(todo') \/ s = x
    BY <1>1, TailWork DEF AppInv, AppType
  <2>3. ~ Hooked(s)
    BY <1>1 DEF Hooked
  <2> QED
    BY <1>1, <2>1, <2>2, <2>3 DEF StateInPhase, Skips
<1> QED
  BY <1>1, <1>2, <1>3, <1>4, LoopGoesOn DEF Calm

\* The hook of the next service or algorithm is called.
LEMMA CallHookStep ==
  ASSUME AppInv, NEW x, CallHook(x)
  PROVE  AppInv'
<1> DEFINE f == Frame(x, Op(phase), FALSE)
<1>1. /\ Loop /\ stack[Main] = <<>> /\ todo # <<>> /\ x = Head(todo) /\ ~ Skips(x) /\ Calls(x)
      /\ state' = Begun(x, Op(phase)) /\ stack' = [stack EXCEPT ![Main] = Append(<<>>, f)]
      /\ UNCHANGED <<job, target, list, algs, appState, phase, todo, sc, returnCode>>
  BY DEF CallHook, NextInLoop, Call, appVars
<1>2. Calm /\ \A t \in Workers : stack[t] = <<>>
  BY <1>1, LoopCalm
<1>3. /\ Main \in Threads /\ Main \notin Workers /\ Threads = Workers \cup {Main}
      /\ AllServices \cap Algs = {} /\ stack \in [Threads -> Seq(Hook)]
      /\ state \in [AllServices \cup Algs -> States]
      /\ todo \in Seq(AllServices \cup Algs)
      /\ (AlgLoop => todo \in Seq(Algs)) /\ (ServiceLoop => todo \in Seq(AllServices))
  BY NamesAssumption DEF Threads, AppInv, AppType
<1>4. /\ x \in AllServices \cup Algs /\ x \in Range(todo)
      /\ (AlgLoop => x \in Algs) /\ (ServiceLoop => x \in AllServices /\ Listed(list, x))
  <2>1. x \in AllServices \cup Algs /\ x \in Range(todo)
    BY <1>1, <1>3, TailWork
  <2>2. AlgLoop => x \in Algs
    BY <1>1, <1>3, TailWork
  <2>3. ServiceLoop => x \in AllServices
    BY <1>1, <1>3, TailWork
  <2>4. ServiceLoop => Listed(list, x)
    BY <2>1 DEF AppInv, ActiveListed
  <2> QED
    BY <2>1, <2>2, <2>3, <2>4
<1>5. f \in Hook /\ f.who = x /\ f.op = Op(phase) /\ ~ f.onDemand
  BY <1>1, <1>4 DEF Frame, Hook, Op, Loop, Phases, Ops
<1>6. AlgLoop \/ ServiceLoop
  BY <1>1 DEF AlgLoop, ServiceLoop, Loop, Phases
<1>7. /\ stack'[Main] = <<f>> /\ (\A t \in Workers : stack'[t] = <<>>)
      /\ stack' \in [Threads -> Seq(Hook)]
  <2> HIDE DEF f
  <2>1. Append(<<>>, f) = <<f>>
    OBVIOUS
  <2>2. <<f>> \in Seq(Hook)
    BY <1>5
  <2> QED
    BY <1>1, <1>2, <1>3, <2>1, <2>2
<1> HIDE DEF f
<1>8. DOMAIN stack'[Main] = {1} /\ stack'[Main][1] = f /\ stack'[Main] # <<>>
  BY <1>7
<1>9. \A s : ~ UnderWay(s)' /\ \A u \in Threads : \A i : ~ Creating(s, u, i)'
  BY <1>3, <1>5, <1>7, <1>8 DEF UnderWay, Creating
<1>10. /\ state' \in [AllServices \cup Algs -> States]
       /\ \A s \in AllServices : s # x => state'[s] = state[s]
       /\ phase # "initialize" => state' = state
       /\ x \in AllServices => state'[x] \in {state[x], "CONFIGURED"}
  <2>1. "CONFIGURED" \in States
    BY DEF States, Rank
  <2>2. state' \in {state, [state EXCEPT ![x] = "CONFIGURED"]}
    BY <1>1 DEF Begun
  <2>3. phase # "initialize" => state' = state
    <3>1. CASE phase = "initAlgs"
      BY <1>1, <1>3, <1>4, <3>1 DEF Begun, AlgLoop
    <3>2. CASE phase \notin {"initialize", "initAlgs"}
      <4>1. Op(phase) # "initialize"
        BY <1>1, <3>2 DEF Op, Loop, Phases
      <4> QED
        BY <1>1, <4>1 DEF Begun
    <3> QED
      BY <3>1, <3>2
  <2> QED
    BY <1>3, <1>4, <2>1, <2>2, <2>3
<1>11. AppType' /\ TargetOfPhase'
  BY <1>1, <1>7, <1>10 DEF AppInv, AppType, TargetOfPhase, AlgLoop, ServiceLoop
<1>12. HooksNested'
  <2>1. Op(phase)' = Op(phase) /\ Loop' /\ Head(todo') = x
    BY <1>1 DEF Op, Loop
  <2>2. \A t \in Threads : \A i \in DOMAIN stack'[t] : t = Main /\ i = 1 /\ stack'[t][i] = f
    BY <1>3, <1>7, <1>8
  <2> QED
    BY <1>1, <1>5, <1>7, <1>8, <2>1, <2>2 DEF HooksNested, HookInPlace
<1>13. Hooked(x)'
  BY <1>5, <1>8 DEF Hooked
<1>14. ASSUME NEW s \in AllServices PROVE CreatedOnce(s)' /\ ListedInState(s)'
  <2>1. CreatedOnce(s)'
    BY <1>9 DEF CreatedOnce
  <2>2. Listed(list', s) <=> Listed(list, s)
    BY <1>1
  <2>3. ~ Listed(list, s) => state'[s] = "OFFLINE"
    <3>1. CASE s = x
      BY <1>2, <1>3, <1>4, <1>6, <1>10, <3>1 DEF Calm
    <3>2. CASE s # x
      BY <1>2, <1>10, <3>2 DEF Calm
    <3> QED
      BY <3>1, <3>2
  <2>4. Listed(list, s) => StateInPhase(s)'
    <3>1. Listed(list, s) => StateInPhase(s)
      BY <1>2 DEF Calm
    <3>2. ~ Hooked(s)
      BY <1>1 DEF Hooked
    <3>3. CASE s = x
      BY <1>1, <1>10, <1>13, <3>1, <3>2, <3>3 DEF StateInPhase
    <3>4. CASE s # x
      BY <1>1, <1>10, <3>1, <3>2, <3>4 DEF StateInPhase
    <3> QED
      BY <3>3, <3>4
  <2> QED
    BY <2>1, <2>2, <2>3, <2>4 DEF ListedInState
<1>15. ActiveListed'
  <2>1. \A s \in Range(Core) : Listed(list, s)
    BY <1>2 DEF Calm, AllServices
  <2>2. ServiceLoop => \A s \in Range(todo) : Listed(list, s)
    BY DEF AppInv, ActiveListed
  <2> QED
    BY <1>1, <1>2, <1>9, <2>1, <2>2 DEF Calm, ActiveListed, Over, Loop, ServiceLoop
<1> QED
  BY <1>11, <1>12, <1>14, <1>15 DEF AppInv

\* Algorithm::sysStop or sysFinalize throws: the job is over.
LEMMA ThrowsStep ==
  ASSUME AppInv, NEW x, ChangeStateThrows(x)
  PROVE  AppInv'
<1>1. /\ Loop /\ stack[Main] = <<>> /\ phase' = "threw"
      /\ UNCHANGED <<job, target, list, algs, state, stack, appState, todo, sc, returnCode>>
  BY DEF ChangeStateThrows, NextInLoop, svcVars
<1>2. Calm /\ \A t \in Workers : stack[t] = <<>>
  BY <1>1, LoopCalm
<1>3. AppType' /\ TargetOfPhase'
  BY <1>1 DEF AppInv, AppType, TargetOfPhase, AlgLoop, ServiceLoop, Phases
<1>4. \A t \in Threads : stack'[t] = <<>>
  BY <1>1, <1>2 DEF Threads
<1>5. HooksNested'
  BY <1>4 DEF HooksNested, Threads
<1>6. \A s \in AllServices : CreatedOnce(s)' /\ ListedInState(s)'
  BY <1>1, <1>4 DEF CreatedOnce, ListedInState, Over
<1>7. ActiveListed'
  BY <1>1 DEF ActiveListed, Over, ServiceLoop
<1> QED
  BY <1>3, <1>5, <1>6, <1>7 DEF AppInv

\* What a phase ended by its last hook, or by a failing one, leaves.
LEMMA FailsStep ==
  ASSUME AppInv, NEW s0 \in States, NEW l \in Seq(Entry), Distinct(l), PhaseFails(s0, l),
         job' = job, algs' \in Seq(Algs), returnCode' \in {"Success", "FinalizationFailure"},
         state' \in [AllServices \cup Algs -> States],
         stack' \in [Threads -> Seq(Hook)], \A t \in Threads : stack'[t] = <<>>,
         s0 \notin {"OFFLINE", "CONFIGURED"} => FitFor(Towards(s0), l)
  PROVE  AppInv'
<1> DEFINE p == IF closing THEN "done" ELSE Towards(s0)
<1>1. Begin(p, l) /\ appState' = (IF closing THEN "OFFLINE" ELSE s0) /\ sc' = "failure"
  BY DEF PhaseFails
<1>2. s0 \in {"OFFLINE", "CONFIGURED", "INITIALIZED", "RUNNING"} /\ "OFFLINE" \in States
  BY DEF States, Rank
<1>3. p \in {"done", "terminate", "finalizeAlgs", "stopAlgs"} /\ p \in Phases \ {"configure"}
  BY <1>2 DEF Towards, Phases
<1>4. FitFor(p, l)
  <2>1. CASE p \in {"terminate", "done"}
    BY <2>1 DEF FitFor
  <2>2. CASE p \notin {"terminate", "done"}
    BY <1>2, <2>2 DEF Towards
  <2> QED
    BY <2>1, <2>2
<1>5. target' = Target(p) /\ phase' = p
  BY <1>1 DEF Begin
<1>6. p = "stopAlgs" => appState' = "RUNNING"
  BY <1>1, <1>2 DEF Towards
<1> HIDE DEF p
<1>7. TargetOfPhase' /\ target' \in States
  BY <1>3, <1>5, <1>6 DEF TargetOfPhase, Target, AppInv, AppType, States, Rank
<1>8. job' \in Jobs /\ algs \in Seq(Algs) /\ appState' \in States /\ sc' \in {"success", "failure"}
  BY <1>1, <1>2 DEF AppInv, AppType
<1> QED
  BY <1>1, <1>3, <1>4, <1>7, <1>8, BeginInv

\* What the return of a hook that a loop called makes of the states.
LEMMA LoopReturnedStates ==
  ASSUME AppInv, NEW f \in Hook, ~ f.onDemand, NEW ok \in BOOLEAN, state' = Returned(f, ok)
  PROVE  /\ state' \in [AllServices \cup Algs -> States]
         /\ \A s \in AllServices : s # f.who => state'[s] = state[s]
         /\ ok => state'[f.who] = Reached(f.who, f.op)
         /\ ~ ok /\ f.op # "initialize" => state' = state
<1> DEFINE w == f.who
           r == Reached(w, f.op)
<1>1. w \in AllServices \cup Algs /\ state \in [AllServices \cup Algs -> States]
  BY DEF AppInv, AppType, Hook
<1>2. r \in States /\ "CONFIGURED" \in States
  BY DEF Reached, States, Rank, Hook, Ops
<1>3. CASE ok
  <2>1. state' = [state EXCEPT ![w] = r]
    BY <1>3 DEF Returned
  <2> HIDE DEF r, w
  <2> QED
    BY <1>1, <1>2, <1>3, <2>1 DEF r, w
<1>4. CASE ~ ok /\ f.op = "initialize"
  <2>1. state' = [state EXCEPT ![w] = "CONFIGURED"]
    BY <1>4 DEF Returned
  <2> QED
    BY <1>1, <1>2, <1>4, <2>1
<1>5. CASE ~ ok /\ f.op # "initialize"
  <2>1. state' = state
    BY <1>5 DEF Returned
  <2> QED
    BY <1>1, <1>5, <2>1
<1> QED
  BY <1>3, <1>4, <1>5

\* The hook that a loop called returns.
LEMMA LoopHookStep ==
  ASSUME AppInv, LoopHookReturns
  PROVE  AppInv' /\ handed' = handed
<1> DEFINE f == Top(Main)
<1>1. PICK ok \in BOOLEAN :
        /\ HookReturns(Main, ok) /\ ~ f.onDemand
        /\ stack' = [stack EXCEPT ![Main] = <<>>]
        /\ algs' = IF ok THEN Finished(f.who) ELSE algs
        /\ IF ok \/ f.op = "finalize"
           THEN /\ todo' = IF ~ ok /\ phase = "finalizeAlgs" THEN <<>> ELSE Tail(todo)
                /\ returnCode' = IF ok THEN returnCode ELSE "FinalizationFailure"
                /\ UNCHANGED <<list, target, appState, phase, closing, sc>>
           ELSE /\ PhaseFails(appState, list)
                /\ UNCHANGED <<svcFinalize, returnCode>>
        /\ handed' = handed
  BY DEF LoopHookReturns
<1>2. stack[Main] # <<>> /\ state' = Returned(f, ok) /\ job' = job
  BY <1>1 DEF HookReturns
<1>3. Loop
  BY <1>2 DEF AppInv, HooksNested
<1>4. /\ Calm /\ (\A t \in Workers : stack[t] = <<>>) /\ f = stack[Main][1] /\ f \in Hook
      /\ f.who = Head(todo) /\ f.op = Op(phase) /\ todo # <<>>
  BY <1>1, <1>2, <1>3, LoopCalm
<1> HIDE DEF f
<1> DEFINE x == f.who
<1>5. /\ Main \in Threads /\ Main \notin Workers /\ Threads = Workers \cup {Main}
      /\ AllServices \cap Algs = {} /\ stack \in [Threads -> Seq(Hook)]
      /\ todo \in Seq(AllServices \cup Algs) /\ list \in Seq(Entry) /\ Distinct(list)
      /\ (AlgLoop => todo \in Seq(Algs)) /\ (ServiceLoop => todo \in Seq(AllServices))
      /\ appState \in States /\ algs \in Seq(Algs)
      /\ returnCode \in {"Success", "FinalizationFailure"}
  BY NamesAssumption DEF Threads, AppInv, AppType
<1>6. Range(todo) = Range(Tail(todo)) \cup {x} /\ x \in Range(todo)
  BY <1>4, <1>5, TailWork
<1>7. (AlgLoop => x \in Algs) /\ (ServiceLoop => x \in AllServices /\ Listed(list, x))
  <2>1. AlgLoop => x \in Algs
    BY <1>4, <1>5, TailWork
  <2>2. ServiceLoop => x \in AllServices
    BY <1>4, <1>5, TailWork
  <2>3. ServiceLoop => Listed(list, x)
    BY <1>6 DEF AppInv, ActiveListed
  <2> QED
    BY <2>1, <2>2, <2>3
<1>8. AlgLoop \/ ServiceLoop
  BY <1>3 DEF AlgLoop, ServiceLoop, Loop, Phases
<1>9. /\ state' \in [AllServices \cup Algs -> States]
      /\ \A s \in AllServices : s # x => state'[s] = state[s]
      /\ ok => state'[x] = Reached(x, Op(phase))
      /\ ~ ok /\ Op(phase) # "initialize" => state' = state
  BY <1>1, <1>2, <1>4, LoopReturnedStates
<1>10. stack' \in [Threads -> Seq(Hook)] /\ \A t \in Threads : stack'[t] = <<>>
  BY <1>1, <1>4, <1>5
<1>11. algs' \in Seq(Algs)
  BY <1>1, <1>5, FinishedAlgs
<1>12. \A s \in AllServices : /\ ~ Listed(list, s) => s # x /\ state'[s] = "OFFLINE"
                              /\ Listed(list, s) => StateInPhase(s)
                              /\ Hooked(s) => s = x
  <2>1. \A s \in AllServices : ~ Listed(list, s) => s # x
    BY <1>5, <1>7, <1>8
  <2>2. \A s \in AllServices : Hooked(s) => s = x
    BY <1>4 DEF Hooked
  <2> QED
    BY <1>4, <1>9, <2>1, <2>2 DEF Calm
<1>13. AlgLoop => \A s \in AllServices : state'[s] = state[s]
  BY <1>5, <1>7, <1>9
<1> HIDE DEF x
<1>14. CASE ok \/ f.op = "finalize"
  <2>1. /\ todo' \in {<<>>, Tail(todo)} /\ UNCHANGED <<job, target, list, appState, phase, sc>>
        /\ returnCode' \in {"Success", "FinalizationFailure"}
        /\ phase # "finalizeAlgs" => todo' = Tail(todo)
    BY <1>1, <1>2, <1>5, <1>14
  <2>2. ASSUME NEW s \in AllServices, Listed(list, s)
        PROVE  StateInPhase(s)'
    <3>1. StateInPhase(s) /\ (Hooked(s) => s = x)
      BY <1>12, <2>2
    <3>2. CASE AlgLoop
      BY <1>13, <2>1, <3>1, <3>2 DEF StateInPhase, AlgLoop
    <3>3. CASE ServiceLoop /\ s # x
      <4>1. state'[s] = state[s] /\ ~ Hooked(s) /\ (s \in Range(todo) => s \in Range(todo'))
        BY <1>6, <1>9, <2>1, <3>1, <3>3 DEF ServiceLoop
      <4> QED
        BY <2>1, <3>1, <3>3, <4>1 DEF StateInPhase, ServiceLoop
    <3>4. CASE ServiceLoop /\ s = x /\ ok
      <4>1. state'[s] = Reached(s, Op(phase)) /\ s \notin Algs
        BY <1>5, <1>9, <3>4
      <4> QED
        BY <2>1, <3>4, <4>1 DEF StateInPhase, ServiceLoop, Reached, Op
    <3>5. CASE ServiceLoop /\ ~ ok
      <4>1. Op(phase) = "finalize" /\ phase = "finalize"
        BY <1>4, <1>14, <3>5 DEF ServiceLoop, Op
      <4> QED
        BY <1>9, <2>1, <3>1, <3>5, <4>1 DEF StateInPhase
    <3> QED
      BY <1>8, <3>2, <3>3, <3>4, <3>5
  <2> QED
    BY <1>1, <1>3, <1>4, <1>9, <1>10, <1>11, <1>12, <2>1, <2>2, LoopGoesOn
<1>15. CASE ~ (ok \/ f.op = "finalize")
  <2>1. PhaseFails(appState, list) /\ returnCode' = returnCode
    BY <1>1, <1>15
  <2>2. appState \notin {"OFFLINE", "CONFIGURED"} => FitFor(Towards(appState), list)
    <3> SUFFICES ASSUME appState \notin {"OFFLINE", "CONFIGURED"}
                 PROVE  FitFor(Towards(appState), list)
      OBVIOUS
    <3>1. /\ phase \in {"start", "startAlgs", "stop", "stopAlgs"}
          /\ phase \in {"start", "startAlgs"} => appState = "INITIALIZED"
          /\ phase \in {"stop", "stopAlgs"} => appState = "RUNNING"
      <4>1. TargetOfPhase
        BY DEF AppInv
      <4>2. phase \notin {"finalize", "finalizeAlgs"}
        BY <1>4, <1>15 DEF Op
      <4> QED
        BY <1>3, <4>1, <4>2 DEF TargetOfPhase, Loop, Phases
    <3>2. state' = state
      BY <1>9, <1>15, <3>1 DEF Op
    <3>3. \A s \in AllServices : Listed(list, s) => Entered(Towards(appState), s, state'[s])
      BY <1>12, <3>1, <3>2 DEF Entered, StateInPhase, Towards
    <3> QED
      BY <1>4, <1>12, <3>3 DEF FitFor, Calm
  <2>3. AppInv'
    BY <1>2, <1>5, <1>9, <1>10, <1>11, <2>1, <2>2, FailsStep
  <2> QED
    BY <1>1, <2>3
<1> QED
  BY <1>14, <1>15

-----------------------------------------------------------------------------
(* The transitions.                                                        *)

\* A loop is through.
LEMMA LoopEndsStep ==
  ASSUME AppInv, LoopEnds
  PROVE  AppInv' /\ handed' = handed
<1> DEFINE ends == {i \in DOMAIN list : ~ list[i].active}
           rest == Selected(list, ends)
<1>1. /\ Loop /\ stack[Main] = <<>> /\ todo = <<>>
      /\ UNCHANGED <<job, algs, stack, handed, returnCode>>
  BY DEF LoopEnds
<1>2. Calm /\ \A t \in Workers : stack[t] = <<>>
  BY <1>1, LoopCalm
<1>3. /\ job' \in Jobs /\ algs \in Seq(Algs) /\ algs' \in Seq(Algs)
      /\ stack' \in [Threads -> Seq(Hook)] /\ (\A t \in Threads : stack'[t] = <<>>)
      /\ returnCode' \in {"Success", "FinalizationFailure"}
      /\ state \in [AllServices \cup Algs -> States] /\ list \in Seq(Entry) /\ Distinct(list)
      /\ appState \in States /\ target \in States /\ sc \in {"success", "failure"}
  BY <1>1, <1>2 DEF AppInv, AppType, Threads
<1>4. rest \in Seq(Entry) /\ Distinct(rest)
  <2>1. ends \in SUBSET DOMAIN list
    OBVIOUS
  <2> HIDE DEF ends
  <2>2. rest \in Seq(Entry) /\ Rearranges(rest, list, ends)
    BY <1>3, <2>1, SelectedList
  <2> HIDE DEF rest
  <2> QED
    BY <1>3, <2>1, <2>2, RearrangedList
<1>5. \A s : s \notin Range(todo) /\ ~ Hooked(s)
  BY <1>1 DEF Range, Hooked
<1>6. /\ \A s \in AllServices : /\ ~ Listed(list, s) => state[s] = "OFFLINE" /\ s \notin Range(Core)
                                /\ Listed(list, s) => StateInPhase(s)
                                /\ s \in Range(Core) => Listed(list, s)
      /\ \A i \in DOMAIN list : list[i].active \/ list[i].svc \in Range(Core)
  BY <1>2 DEF Calm
<1>7. ASSUME NEW s0 \in States
      PROVE  /\ Cores(s0) \in [AllServices \cup Algs -> States]
             /\ \A s \in AllServices : Cores(s0)[s] = IF s \in Range(Core) THEN s0 ELSE state[s]
  BY <1>3 DEF Cores
<1>8. {"OFFLINE", "CONFIGURED", "INITIALIZED", "RUNNING"} \subseteq States
  BY DEF States, Rank
<1>9. TargetOfPhase
  BY DEF AppInv
<1>10. ASSUME NEW p \in Phases \ {"configure"}, Begin(p, list), FitFor(p, list), sc' = sc,
              state' \in [AllServices \cup Algs -> States], appState' \in States,
              target' \in States, TargetOfPhase'
       PROVE  AppInv'
  BY <1>3, <1>10, BeginInv
<1>11. CASE UNCHANGED sc /\ Continues("initialize", "initAlgs")
  <2>1. /\ phase = "initialize" /\ Begin("initAlgs", list) /\ UNCHANGED <<state, appState, sc>>
        /\ phase' = "initAlgs" /\ target' = Target("initAlgs")
    BY <1>11 DEF Continues, Begin
  <2>2. FitFor("initAlgs", list)
    BY <1>5, <1>6, <2>1 DEF FitFor, Entered, StateInPhase
  <2>3. TargetOfPhase' /\ target' \in States
    BY <1>3, <1>9, <2>1 DEF TargetOfPhase, Target
  <2> QED
    BY <1>1, <1>3, <1>10, <2>1, <2>2, <2>3 DEF Phases
<1>12. CASE UNCHANGED sc /\ InitializeEnds
  <2>1. /\ phase = "initAlgs" /\ Begin("start", list) /\ UNCHANGED sc
        /\ state' = Cores("RUNNING") /\ appState' = "INITIALIZED"
        /\ phase' = "start" /\ target' = Target("start")
    BY <1>12 DEF InitializeEnds, Begin
  <2>2. FitFor("start", list)
    BY <1>6, <1>7, <1>8, <2>1 DEF FitFor, Entered, StateInPhase
  <2>3. TargetOfPhase' /\ target' \in States
    BY <1>8, <2>1 DEF TargetOfPhase, Target
  <2> QED
    BY <1>1, <1>7, <1>8, <1>10, <2>1, <2>2, <2>3 DEF Phases
<1>13. CASE UNCHANGED sc /\ Continues("start", "startAlgs")
  <2>1. /\ phase = "start" /\ Begin("startAlgs", list) /\ UNCHANGED <<state, appState, sc>>
        /\ phase' = "startAlgs" /\ target' = Target("startAlgs")
    BY <1>13 DEF Continues, Begin
  <2>2. FitFor("startAlgs", list)
    BY <1>5, <1>6, <2>1 DEF FitFor, Entered, StateInPhase
  <2>3. TargetOfPhase' /\ target' \in States
    BY <1>3, <1>9, <2>1 DEF TargetOfPhase, Target
  <2> QED
    BY <1>1, <1>3, <1>10, <2>1, <2>2, <2>3 DEF Phases
<1>14. CASE UNCHANGED sc /\ StartEnds
  <2>1. /\ phase = "startAlgs" /\ Begin("running", list) /\ UNCHANGED <<state, sc>>
        /\ appState' = "RUNNING" /\ phase' = "running" /\ target' = Target("running")
    BY <1>14 DEF StartEnds, Begin
  <2>2. FitFor("running", list)
    BY <1>6, <2>1 DEF FitFor, Entered, StateInPhase
  <2>3. TargetOfPhase' /\ target' \in States
    BY <1>3, <1>9, <2>1 DEF TargetOfPhase, Target
  <2> QED
    BY <1>1, <1>3, <1>8, <1>10, <2>1, <2>2, <2>3 DEF Phases
<1>15. CASE UNCHANGED sc /\ Continues("stopAlgs", "stop")
  <2>1. /\ phase = "stopAlgs" /\ Begin("stop", list) /\ UNCHANGED <<state, appState, sc>>
        /\ phase' = "stop" /\ target' = Target("stop")
    BY <1>15 DEF Continues, Begin
  <2>2. FitFor("stop", list)
    BY <1>6, <2>1 DEF FitFor, Entered, StateInPhase
  <2>3. TargetOfPhase' /\ target' \in States
    BY <1>3, <1>9, <2>1 DEF TargetOfPhase, Target
  <2> QED
    BY <1>1, <1>3, <1>10, <2>1, <2>2, <2>3 DEF Phases
<1>16. CASE UNCHANGED sc /\ StopEnds
  <2>1. /\ phase = "stop" /\ Begin("finalizeAlgs", list) /\ UNCHANGED sc
        /\ state' = Cores("INITIALIZED") /\ appState' = "INITIALIZED"
        /\ phase' = "finalizeAlgs" /\ target' = Target("finalizeAlgs")
    BY <1>16 DEF StopEnds, Begin
  <2>2. FitFor("finalizeAlgs", list)
    BY <1>6, <1>7, <1>8, <2>1 DEF FitFor, Entered, StateInPhase
  <2>3. TargetOfPhase' /\ target' \in States
    BY <1>8, <2>1 DEF TargetOfPhase, Target
  <2> QED
    BY <1>1, <1>7, <1>8, <1>10, <2>1, <2>2, <2>3 DEF Phases
<1>17. CASE UNCHANGED sc /\ Continues("finalizeAlgs", "finalize")
  <2>1. /\ phase = "finalizeAlgs" /\ Begin("finalize", list) /\ UNCHANGED <<state, appState, sc>>
        /\ phase' = "finalize" /\ target' = Target("finalize")
    BY <1>17 DEF Continues, Begin
  <2>2. FitFor("finalize", list)
    BY <1>6, <2>1 DEF FitFor, Entered, StateInPhase
  <2>3. TargetOfPhase' /\ target' \in States
    BY <1>3, <1>9, <2>1 DEF TargetOfPhase, Target
  <2> QED
    BY <1>1, <1>3, <1>10, <2>1, <2>2, <2>3 DEF Phases
<1>18. CASE UNCHANGED sc /\ FinalizeEnds
  <2>1. /\ Begin("terminate", rest) /\ UNCHANGED <<state, sc>> /\ appState' = "CONFIGURED"
        /\ phase' = "terminate" /\ target' = Target("terminate")
    BY <1>18 DEF FinalizeEnds, Begin
  <2> HIDE DEF rest
  <2>2. FitFor("terminate", rest)
    BY DEF FitFor
  <2>3. TargetOfPhase' /\ target' \in States
    BY <1>8, <2>1 DEF TargetOfPhase, Target
  <2> QED
    BY <1>1, <1>3, <1>4, <1>8, <2>1, <2>2, <2>3, BeginInv DEF Phases
<1>19. CASE FinalizeFails /\ UNCHANGED state
  <2>1. PhaseFails("CONFIGURED", rest) /\ UNCHANGED state
    BY <1>19 DEF FinalizeFails
  <2> HIDE DEF rest
  <2> QED
    BY <1>1, <1>3, <1>4, <1>8, <2>1, FailsStep
<1> QED
  BY <1>1, <1>11, <1>12, <1>13, <1>14, <1>15, <1>16, <1>17, <1>18, <1>19 DEF LoopEnds

\* The runable returns.
LEMMA RunableStep ==
  ASSUME AppInv, RunableReturns
  PROVE  AppInv' /\ handed' = handed
<1>1. /\ phase = "running" /\ (\A t \in Workers : stack[t] = <<>>)
      /\ UNCHANGED <<job, algs, state, stack, handed, returnCode>>
  BY DEF RunableReturns
<1>2. stack[Main] = <<>>
  BY <1>1 DEF AppInv, HooksNested, Loop
<1>3. /\ job' \in Jobs /\ algs \in Seq(Algs) /\ algs' \in Seq(Algs)
      /\ stack' \in [Threads -> Seq(Hook)] /\ (\A t \in Threads : stack'[t] = <<>>)
      /\ returnCode' \in {"Success", "FinalizationFailure"}
      /\ state' \in [AllServices \cup Algs -> States] /\ list \in Seq(Entry) /\ Distinct(list)
      /\ appState \in States /\ sc \in {"success", "failure"}
  BY <1>1, <1>2 DEF AppInv, AppType, Threads
<1>4. Calm
  <2>1. \A s : ~ UnderWay(s)
    BY <1>1, <1>2 DEF UnderWay, Creating, Threads
  <2> QED
    BY <1>1, <2>1, WhenCalm DEF Over
<1>5. FitFor("stopAlgs", list)
  BY <1>1, <1>4 DEF FitFor, Entered, StateInPhase, Calm
<1>6. {"INITIALIZED", "RUNNING"} \subseteq States
  BY DEF States, Rank
<1>7. CASE Begin("stopAlgs", list) /\ UNCHANGED <<sc, appState>>
  <2>1. phase' = "stopAlgs" /\ target' = Target("stopAlgs") /\ UNCHANGED <<sc, appState>>
    BY <1>7 DEF Begin
  <2>2. TargetOfPhase' /\ target' \in States
    BY <1>1, <1>6, <2>1 DEF TargetOfPhase, Target, AppInv
  <2> QED
    BY <1>1, <1>3, <1>5, <1>7, <2>1, <2>2, BeginInv DEF Phases
<1>8. CASE PhaseFails("RUNNING", list)
  <2>1. Towards("RUNNING") = "stopAlgs"
    BY DEF Towards
  <2> QED
    BY <1>1, <1>3, <1>5, <1>6, <1>8, <2>1, FailsStep
<1> QED
  BY <1>7, <1>8 DEF RunableReturns

\* terminate(): the job is done.
LEMMA TerminateStep ==
  ASSUME AppInv, Terminate
  PROVE  AppInv' /\ handed' = handed
<1> DEFINE S == {i \in DOMAIN list : list[i].svc \notin Range(Core)}
           rest == Selected(list, S)
<1>1. /\ phase = "terminate" /\ state' = Cores("OFFLINE") /\ appState' = "OFFLINE"
      /\ Begin("done", rest) /\ UNCHANGED <<job, algs, stack, handed, sc, returnCode>>
      /\ phase' = "done" /\ target' = Target("done")
  BY DEF Terminate, Begin
<1>2. stack[Main] = <<>> /\ \A t \in Workers : stack[t] = <<>>
  BY <1>1 DEF AppInv, HooksNested, Loop
<1>3. "OFFLINE" \in States
  BY DEF States, Rank
<1>4. /\ job' \in Jobs /\ algs \in Seq(Algs) /\ algs' \in Seq(Algs)
      /\ stack' \in [Threads -> Seq(Hook)] /\ (\A t \in Threads : stack'[t] = <<>>)
      /\ returnCode' \in {"Success", "FinalizationFailure"} /\ sc' \in {"success", "failure"}
      /\ state \in [AllServices \cup Algs -> States] /\ list \in Seq(Entry) /\ Distinct(list)
      /\ target \in States
  BY <1>1, <1>2 DEF AppInv, AppType, Threads
<1>5. rest \in Seq(Entry) /\ Distinct(rest)
  <2>1. S \in SUBSET DOMAIN list
    OBVIOUS
  <2> HIDE DEF S
  <2>2. rest \in Seq(Entry) /\ Rearranges(rest, list, S)
    BY <1>4, <2>1, SelectedList
  <2> HIDE DEF rest
  <2> QED
    BY <1>4, <2>1, <2>2, RearrangedList
<1> HIDE DEF rest
<1>6. state' \in [AllServices \cup Algs -> States]
  BY <1>1, <1>3, <1>4 DEF Cores
<1>7. TargetOfPhase' /\ target' \in States
  BY <1>1, <1>4 DEF TargetOfPhase, Target
<1>8. FitFor("done", rest)
  BY DEF FitFor
<1> QED
  BY <1>1, <1>3, <1>4, <1>5, <1>6, <1>7, <1>8, BeginInv DEF Phases

\* The list that configure() makes: the core services and n declared ones.
ConfiguredList(n) ==
  [i \in DOMAIN Core |-> Item(Core[i], 0, FALSE)]
    \o [i \in 1..n |-> Item(job.declared[i].svc, job.declared[i].prio, TRUE)]

LEMMA Configured ==
  ASSUME job \in Jobs, NEW n \in 0..Len(job.declared)
  PROVE  /\ ConfiguredList(n) \in Seq(Entry) /\ Distinct(ConfiguredList(n))
         /\ \A s \in Range(Core) : Listed(ConfiguredList(n), s)
         /\ \A i \in DOMAIN ConfiguredList(n) :
              ConfiguredList(n)[i].active \/ ConfiguredList(n)[i].svc \in Range(Core)
<1> DEFINE d == job.declared
           a == [i \in DOMAIN Core |-> Item(Core[i], 0, FALSE)]
           b == [i \in 1..n |-> Item(d[i].svc, d[i].prio, TRUE)]
           l == ConfiguredList(n)
<1>1. /\ d \in Seq([svc : Services, prio : Int])
      /\ \A i, k \in DOMAIN d : d[i].svc = d[k].svc => i = k
  BY JobsAssumption
<1>2. n \in Nat /\ 1..n \subseteq DOMAIN d
  BY <1>1
<1>3. \A i \in 1..n : d[i].svc \in Services /\ d[i].prio \in Int
  <2> HIDE DEF d
  <2> DEFINE R == [svc : Services, prio : Int]
  <2>1. d \in Seq(R)
    BY <1>1
  <2> HIDE DEF R
  <2>2. \A i \in DOMAIN d : d[i] \in R
    BY <2>1
  <2> QED
    BY <1>2, <2>2 DEF R
<1>4. /\ DOMAIN Core = 1..2 /\ Core[1] = "MessageSvc" /\ Core[2] = "JobOptionsSvc"
      /\ Core[1] # Core[2] /\ Core[1] \in Range(Core) /\ Core[2] \in Range(Core)
      /\ \A s \in Range(Core) : s = Core[1] \/ s = Core[2]
  BY DEF Core, Range
<1> HIDE DEF d
<1>5. \A i \in 1..n : /\ b[i] \in Entry /\ b[i].svc = d[i].svc /\ b[i].active
                      /\ b[i].svc \notin Range(Core)
  <2>1. Services \cap Range(Core) = {} /\ Services \subseteq AllServices
    BY NamesAssumption DEF AllServices
  <2> QED
    BY <1>3, <2>1 DEF Item, Entry
<1>6. \A i \in 1..2 : a[i] \in Entry /\ a[i].svc = Core[i] /\ a[i].svc \in Range(Core)
  BY <1>4 DEF Item, Entry, AllServices
<1>7. a \in [1..2 -> Entry] /\ b \in [1..n -> Entry]
  <2>1. a = [i \in 1..2 |-> a[i]] /\ b = [i \in 1..n |-> b[i]]
    BY <1>4
  <2> HIDE DEF a, b
  <2> QED
    BY <1>5, <1>6, <2>1, Zenon
<1> HIDE DEF a, b
<1>8. a \in Seq(Entry) /\ Len(a) = 2 /\ b \in Seq(Entry) /\ Len(b) = n
  <2>1. a \in Seq(Entry) /\ b \in Seq(Entry)
    BY <1>2, <1>7, FunctionIsSeq
  <2>2. DOMAIN a = 1..2 /\ DOMAIN b = 1..n
    BY <1>7
  <2> QED
    BY <1>2, <2>1, <2>2
<1>9. /\ l \in Seq(Entry) /\ DOMAIN l = 1..(2 + n)
      /\ \A i \in 1..2 : l[i] = a[i]
      /\ \A i \in 1..n : l[2 + i] = b[i]
  <2>1. l = a \o b
    BY DEF ConfiguredList, a, b, d
  <2> HIDE DEF l
  <2>2. /\ l \in Seq(Entry) /\ Len(l) = 2 + n
        /\ \A i \in 1..(2 + n) : l[i] = IF i <= 2 THEN a[i] ELSE b[i - 2]
    <3>1. /\ a \o b \in Seq(Entry) /\ Len(a \o b) = Len(a) + Len(b)
          /\ \A i \in 1..(Len(a) + Len(b)) : (a \o b)[i] = IF i <= Len(a) THEN a[i] ELSE b[i - Len(a)]
      BY <1>8, ConcatProperties, Zenon
    <3> QED
      BY <1>8, <2>1, <3>1, Zenon
  <2> QED
    BY <1>2, <2>2
<1> HIDE DEF l
<1>10. \A i \in DOMAIN l :
         \/ i \in 1..2 /\ l[i] = a[i]
         \/ i \notin 1..2 /\ i - 2 \in 1..n /\ i = 2 + (i - 2) /\ l[i] = b[i - 2]
  <2> SUFFICES ASSUME NEW i \in DOMAIN l, i \notin 1..2
               PROVE  i - 2 \in 1..n /\ i = 2 + (i - 2) /\ l[i] = b[i - 2]
    BY <1>9
  <2>1. i - 2 \in 1..n /\ i = 2 + (i - 2)
    BY <1>2, <1>9
  <2>2. l[2 + (i - 2)] = b[i - 2]
    BY <1>9, <2>1
  <2> QED
    BY <2>1, <2>2
<1>11. Distinct(l)
  <2> SUFFICES ASSUME NEW i \in DOMAIN l, NEW j \in DOMAIN l, l[i].svc = l[j].svc PROVE i = j
    BY DEF Distinct
  <2>1. CASE i \in 1..2 /\ j \in 1..2
    <3>1. Core[i] = Core[j] /\ (i = 1 \/ i = 2) /\ (j = 1 \/ j = 2)
      BY <1>6, <1>10, <2>1
    <3> QED
      BY <1>4, <3>1
  <2>2. CASE i \notin 1..2 /\ j \notin 1..2
    <3>1. i - 2 \in DOMAIN d /\ j - 2 \in DOMAIN d /\ d[i - 2].svc = d[j - 2].svc
      BY <1>2, <1>5, <1>10, <2>2
    <3>2. i - 2 = j - 2
      BY <1>1, <3>1 DEF d
    <3> QED
      BY <1>10, <2>2, <3>2
  <2>3. CASE i \in 1..2 /\ j \notin 1..2
    BY <1>5, <1>6, <1>10, <2>3
  <2>4. CASE i \notin 1..2 /\ j \in 1..2
    BY <1>5, <1>6, <1>10, <2>4
  <2> QED
    BY <2>1, <2>2, <2>3, <2>4
<1>12. \A s \in Range(Core) : Listed(l, s)
  <2>1. 1 \in DOMAIN l /\ 2 \in DOMAIN l /\ l[1].svc = Core[1] /\ l[2].svc = Core[2]
    BY <1>2, <1>6, <1>9
  <2> QED
    BY <1>4, <2>1 DEF Listed
<1>13. \A i \in DOMAIN l : l[i].active \/ l[i].svc \in Range(Core)
  BY <1>5, <1>6, <1>10
<1> QED
  BY <1>9, <1>11, <1>12, <1>13 DEF l

LEMMA ConfigureStep ==
  ASSUME AppInv, Configure
  PROVE  AppInv' /\ handed' = handed
<1>1. phase = "configure" /\ UNCHANGED <<job, algs, stack, handed, returnCode>>
  BY DEF Configure
<1>2. PICK n \in 0..Len(job.declared) :
        /\ state' = [x \in DOMAIN state |-> IF x \in Range(Core) THEN "INITIALIZED" ELSE state[x]]
        /\ IF n = Len(job.declared)
           THEN /\ appState' = "CONFIGURED"
                /\ Begin("initialize", ConfiguredList(n))
                /\ UNCHANGED sc
           ELSE PhaseFails("OFFLINE", ConfiguredList(n))
  BY DEF Configure, ConfiguredList
<1> DEFINE l == ConfiguredList(n)
<1>3. stack[Main] = <<>> /\ \A t \in Workers : stack[t] = <<>>
  BY <1>1 DEF AppInv, HooksNested, Loop
<1>4. {"OFFLINE", "CONFIGURED", "INITIALIZED"} \subseteq States
  BY DEF States, Rank
<1>5. /\ job \in Jobs /\ job' \in Jobs /\ algs \in Seq(Algs) /\ algs' \in Seq(Algs)
      /\ stack' \in [Threads -> Seq(Hook)] /\ (\A t \in Threads : stack'[t] = <<>>)
      /\ returnCode' \in {"Success", "FinalizationFailure"} /\ sc \in {"success", "failure"}
      /\ state \in [AllServices \cup Algs -> States]
  BY <1>1, <1>3 DEF AppInv, AppType, Threads
<1>6. /\ l \in Seq(Entry) /\ Distinct(l) /\ (\A s \in Range(Core) : Listed(l, s))
      /\ \A i \in DOMAIN l : l[i].active \/ l[i].svc \in Range(Core)
  BY <1>5, Configured
<1> HIDE DEF l
<1>7. /\ state' \in [AllServices \cup Algs -> States]
      /\ \A s \in AllServices : state'[s] = IF s \in Range(Core) THEN "INITIALIZED" ELSE state[s]
  BY <1>2, <1>4, <1>5
<1>8. \A s \in AllServices : state[s] = "OFFLINE"
  <2>1. list = <<>> /\ ~ Over
    BY <1>1 DEF AppInv, ActiveListed, Over
  <2>2. \A s : ~ Listed(list, s)
    BY <2>1 DEF Listed
  <2> QED
    BY <2>1, <2>2 DEF AppInv, ListedInState
<1>9. CASE n = Len(job.declared)
  <2>1. /\ appState' = "CONFIGURED" /\ Begin("initialize", l) /\ UNCHANGED sc
        /\ phase' = "initialize" /\ target' = Target("initialize")
    BY <1>2, <1>9 DEF l, Begin
  <2>2. FitFor("initialize", l)
    BY <1>6, <1>7, <1>8 DEF FitFor, Entered
  <2>3. TargetOfPhase' /\ target' \in States
    BY <1>4, <2>1 DEF TargetOfPhase, Target
  <2> QED
    BY <1>1, <1>4, <1>5, <1>6, <1>7, <2>1, <2>2, <2>3, BeginInv DEF Phases
<1>10. CASE n # Len(job.declared)
  <2>1. PhaseFails("OFFLINE", l)
    BY <1>2, <1>10 DEF l
  <2> QED
    BY <1>1, <1>4, <1>5, <1>6, <1>7, <2>1, FailsStep
<1> QED
  BY <1>9, <1>10

-----------------------------------------------------------------------------
(* The theorems.                                                           *)

LEMMA InitInv == Init => AppInv /\ RequestsAnswered
<1> SUFFICES ASSUME Init PROVE AppInv /\ RequestsAnswered
  OBVIOUS
<1>1. \A t \in Threads : stack[t] = <<>>
  BY DEF Init
<1>2. Main \in Threads /\ Workers \subseteq Threads
  BY DEF Threads
<1>3. \A s \in AllServices : state[s] = "OFFLINE" /\ s \notin Algs
  BY NamesAssumption DEF Init
<1>4. AppType
  <2>1. state \in [AllServices \cup Algs -> States]
    BY DEF Init, States, Rank
  <2>2. list \in Seq(Entry) /\ Distinct(list) /\ stack \in [Threads -> Seq(Hook)]
    BY DEF Init, Distinct
  <2> QED
    BY <2>1, <2>2 DEF Init, AppType, States, Rank, Phases
<1>5. TargetOfPhase /\ HooksNested
  BY <1>1, <1>2 DEF Init, TargetOfPhase, HooksNested
<1>6. \A s : ~ Listed(list, s)
  BY DEF Init, Listed
<1>7. \A s \in AllServices : CreatedOnce(s) /\ ListedInState(s)
  BY <1>1, <1>3, <1>6 DEF CreatedOnce, ListedInState
<1>8. ActiveListed
  BY DEF Init, ActiveListed, ServiceLoop
<1>9. RequestsAnswered
  BY DEF Init, RequestsAnswered, ReadyWhenRunning, LoopErrorsReal
<1> QED
  BY <1>4, <1>5, <1>7, <1>8, <1>9 DEF AppInv

LEMMA NextInv == AppInv /\ RequestsAnswered /\ [Next]_vars => AppInv' /\ RequestsAnswered'
<1> SUFFICES ASSUME AppInv, RequestsAnswered, [Next]_vars PROVE AppInv' /\ RequestsAnswered'
  OBVIOUS
<1>1. handed' = handed => RequestsAnswered'
  BY DEF RequestsAnswered, ReadyWhenRunning, LoopErrorsReal
<1>2. CASE Configure
  BY <1>1, <1>2, ConfigureStep
<1>3. ASSUME NEW x \in AllServices \cup Algs, Skip(x) \/ CallHook(x) \/ ChangeStateThrows(x)
      PROVE  AppInv' /\ RequestsAnswered'
  <2>1. handed' = handed
    BY <1>3 DEF Skip, CallHook, ChangeStateThrows, svcVars
  <2> QED
    BY <1>1, <1>3, <2>1, SkipStep, CallHookStep, ThrowsStep
<1>4. ASSUME NEW t \in Threads, ThreadSteps(t)
      PROVE  AppInv' /\ RequestsAnswered'
  BY <1>4, ThreadStep
<1>5. CASE LoopHookReturns
  BY <1>1, <1>5, LoopHookStep
<1>6. CASE LoopEnds
  BY <1>1, <1>6, LoopEndsStep
<1>7. CASE RunableReturns
  BY <1>1, <1>7, RunableStep
<1>8. CASE Terminate
  BY <1>1, <1>8, TerminateStep
<1>9. CASE UNCHANGED vars
  <2>1. /\ UNCHANGED <<job, target, list, algs, state, stack, handed>>
        /\ UNCHANGED <<appState, phase, todo, closing, sc, returnCode>>
    BY <1>9 DEF vars, svcVars, appVars
  <2>2. AppType' /\ TargetOfPhase' /\ HooksNested' /\ ActiveListed'
    <3>1. AppType' /\ TargetOfPhase'
      BY <2>1 DEF AppInv, AppType, TargetOfPhase, AlgLoop, ServiceLoop
    <3>2. HooksNested'
      BY <2>1 DEF AppInv, HooksNested, HookInPlace, Loop, Op
    <3>3. ActiveListed'
      BY <2>1 DEF AppInv, ActiveListed, Over, ServiceLoop, UnderWay, Creating
    <3> QED
      BY <3>1, <3>2, <3>3
  <2>3. ASSUME NEW s \in AllServices PROVE CreatedOnce(s)' /\ ListedInState(s)'
    <3>1. CreatedOnce(s) /\ ListedInState(s)
      BY DEF AppInv
    <3>2. CreatedOnce(s)'
      BY <2>1, <3>1 DEF CreatedOnce, Creating
    <3>3. ListedInState(s)'
      BY <2>1, <3>1 DEF ListedInState, Over, UnderWay, Creating, StateInPhase, Hooked
    <3> QED
      BY <3>2, <3>3
  <2> QED
    BY <1>1, <2>1, <2>2, <2>3 DEF AppInv
<1> QED
  BY <1>2, <1>3, <1>4, <1>5, <1>6, <1>7, <1>8, <1>9 DEF Next, Ended

\* service() answers rightly while any number of threads ask for the same
\* service and creations nest: an event-processing thread gets a service that
\* runs or an error, and "Initialization loop detected" is only said to a
\* thread that is itself initialising the service.
THEOREM RequestsAreAnswered == Spec => []RequestsAnswered
<1>1. Init => AppInv /\ RequestsAnswered
  BY InitInv
<1>2. AppInv /\ RequestsAnswered /\ [Next]_vars => AppInv' /\ RequestsAnswered'
  BY NextInv
<1> QED
  BY <1>1, <1>2, PTL DEF Spec

\* What the loops meet.
LEMMA RightState == AppInv => TypeOK /\ LoopsFindRightState
<1> SUFFICES ASSUME AppInv PROVE TypeOK /\ LoopsFindRightState
  OBVIOUS
<1>1. TypeOK
  <2>1. \A i \in DOMAIN list : list[i] \in Entry
    BY DEF AppInv, AppType
  <2> QED
    BY <2>1 DEF AppInv, AppType, TypeOK, Entry, Distinct
<1>2. ASSUME NEW x \in Services, NextInLoop(x) PROVE Skips(x) \/ Calls(x)
  <2>1. Loop /\ stack[Main] = <<>> /\ todo # <<>> /\ x = Head(todo) /\ x \in AllServices /\ x \notin Algs
    BY <1>2, NamesAssumption DEF NextInLoop, AllServices
  <2>2. Calm
    BY <2>1, LoopCalm
  <2>3. todo \in Seq(AllServices \cup Algs) /\ (AlgLoop => todo \in Seq(Algs))
    BY DEF AppInv, AppType
  <2>4. ~ AlgLoop
    BY <2>1, <2>3, TailWork
  <2>5. ServiceLoop /\ x \in Range(todo)
    BY <2>1, <2>3, <2>4, TailWork DEF ServiceLoop, AlgLoop, Loop, Phases
  <2>6. Listed(list, x)
    BY <2>5 DEF AppInv, ActiveListed
  <2>7. StateInPhase(x) /\ ~ Hooked(x)
    BY <2>1, <2>2, <2>6 DEF Calm, Hooked
  <2> QED
    BY <2>5, <2>7 DEF ServiceLoop, StateInPhase, Skips, Calls
<1> QED
  BY <1>1, <1>2 DEF LoopsFindRightState

-----------------------------------------------------------------------------
(* The life of a service.                                                  *)

Event == (Ops \cup {"create"}) \X (AllServices \cup Algs) \X (BOOLEAN \cup States)

\* What trace tr says of the last instance of x.
LifeOf(tr, x) ==
  {tr[i] : i \in {i \in DOMAIN tr :
     /\ tr[i][2] = x
     /\ \A k \in DOMAIN tr : k > i /\ tr[k][2] = x => tr[k][1] # "create"}}

Past(s) == LifeOf(trace, s)
Done(s, o) == <<o, s, TRUE>> \in Past(s)
Tried(s, o) == \E r \in BOOLEAN : <<o, s, r>> \in Past(s)

Declares(s) == \E i \in DOMAIN job.declared : job.declared[i].svc = s
StartFailed == failedIn \cap {"start", "startAlgs"} # {}

\* How far the instance has come.
Fresh(s) == \A o \in Ops : ~ Tried(s, o)
Ready(s) == Done(s, "initialize") /\ ~ Done(s, "start") /\ ~ Done(s, "stop") /\ ~ Tried(s, "finalize")
Started(s) == Done(s, "initialize") /\ Done(s, "start") /\ ~ Done(s, "stop") /\ ~ Tried(s, "finalize")
Stopped(s) == Done(s, "initialize") /\ (Done(s, "start") => Done(s, "stop")) /\ ~ Tried(s, "finalize")
CanFinalize(s) ==
  /\ ~ Tried(s, "finalize")
  /\ Done(s, "initialize") \/ (~ Declares(s) /\ <<"create", s, "CONFIGURED">> \in Past(s))
  /\ (Done(s, "start") => Done(s, "stop")) \/ StartFailed

\* What its hook op is called after.
HookDue(s, op) ==
  /\ op = "initialize" => Fresh(s)
  /\ op = "start" => Ready(s)
  /\ op = "stop" => Started(s)
  /\ op = "finalize" => CanFinalize(s)

HookAt(s, op) ==
  \E t \in Threads : \E i \in DOMAIN stack[t] : stack[t][i].who = s /\ stack[t][i].op = op

\* What a listed service that nobody is creating has behind it.
Lived(s) ==
  /\ phase \in {"initialize", "initAlgs", "start"} /\ state[s] = "INITIALIZED" => Ready(s)
  /\ phase = "initialize" /\ state[s] # "INITIALIZED" => Fresh(s)
  /\ phase \in {"start", "startAlgs", "running", "stopAlgs", "stop"} /\ state[s] = "RUNNING" => Started(s)
  /\ phase \in {"stopAlgs", "stop"} /\ state[s] = "INITIALIZED" => Stopped(s)
  /\ phase = "stop" /\ state[s] = "RUNNING" => s \in Range(todo)
  /\ phase = "finalizeAlgs" \/ (phase = "finalize" /\ s \in Range(todo)) => CanFinalize(s)

LifeKept(s) ==
  /\ ~ Over /\ phase # "configure" /\ Listed(list, s) /\ ~ UnderWay(s) => Lived(s)
  /\ \A op \in Ops : HookAt(s, op) => HookDue(s, op)
  /\ ~ Over /\ phase # "configure" /\ Declares(s) => Listed(list, s) /\ ~ UnderWay(s)

Once(q) == \A i, j \in DOMAIN q : q[i] = q[j] => i = j

LifeInv ==
  /\ HooksInOrder
  /\ trace \in Seq(Event)
  /\ phase = "configure" => trace = <<>>
  /\ ServiceLoop => Once(todo)
  /\ \A s \in Services : LifeKept(s)

-----------------------------------------------------------------------------
(* The history.                                                            *)

\* An entry more: the creation of an instance begins its life.
LEMMA LifeAppended ==
  ASSUME NEW tr \in Seq(Event), NEW e \in Event, NEW s
  PROVE  LifeOf(Append(tr, e), s) =
           IF e[2] # s THEN LifeOf(tr, s)
           ELSE IF e[1] = "create" THEN {e} ELSE LifeOf(tr, s) \cup {e}
<1> DEFINE n == Len(tr) + 1
           at == Append(tr, e)
           D == DOMAIN tr
           Since(q, i) == \A k \in DOMAIN q : k > i /\ q[k][2] = s => q[k][1] # "create"
<1>1. /\ DOMAIN at = D \cup {n} /\ at[n] = e /\ (\A i \in D : at[i] = tr[i] /\ i < n)
      /\ n \in Nat /\ D \subseteq Nat
  OBVIOUS
<1>2. /\ LifeOf(at, s) = {at[i] : i \in {i \in DOMAIN at : at[i][2] = s /\ Since(at, i)}}
      /\ LifeOf(tr, s) = {tr[i] : i \in {i \in D : tr[i][2] = s /\ Since(tr, i)}}
  BY DEF LifeOf
<1> HIDE DEF at, D, n
<1>3. \A i \in D : Since(at, i) <=> Since(tr, i) /\ (e[2] = s => e[1] # "create")
  BY <1>1 DEF D
<1>4. Since(at, n)
  BY <1>1 DEF D
<1> HIDE DEF Since
<1>5. LifeOf(at, s) = {at[i] : i \in {i \in D : at[i][2] = s /\ Since(at, i)}}
                        \cup (IF e[2] = s THEN {e} ELSE {})
  BY <1>1, <1>2, <1>4
<1>6. {at[i] : i \in {i \in D : at[i][2] = s /\ Since(at, i)}} =
        IF e[2] = s /\ e[1] = "create" THEN {} ELSE LifeOf(tr, s)
  BY <1>1, <1>2, <1>3
<1> QED
  BY <1>5, <1>6 DEF at

\* HooksInOrder is about the last entry.
LEMMA OrderKept ==
  ASSUME trace \in Seq(Event), NEW e \in Event, trace' = Append(trace, e),
         job' = job, failedIn \subseteq failedIn',
         e[2] \in Services => e[1] = "create" \/ (e[1] \in Ops /\ HookDue(e[2], e[1]))
  PROVE  HooksInOrder'
<1> DEFINE n == Len(trace)
           x == e[2]
<1>1. /\ Last(trace') = e /\ Len(trace') - 1 = n /\ DOMAIN trace = 1..n
      /\ \A i \in 1..n : trace'[i] = trace[i]
  BY DEF Last
<1>2. {trace'[i] : i \in {i \in 1..n :
         /\ trace'[i][2] = x
         /\ \A k \in 1..n : k > i /\ trace'[k][2] = x => trace'[k][1] # "create"}} = Past(x)
  BY <1>1 DEF Past, LifeOf
<1> DEFINE before == 1..(Len(trace') - 1)
           y == Last(trace')[2]
           past == {trace'[i] : i \in {i \in before :
                      /\ trace'[i][2] = y
                      /\ \A k \in before : k > i /\ trace'[k][2] = y => trace'[k][1] # "create"}}
<1>2a. y = x /\ past = Past(x)
  BY <1>1, <1>2
<1> HIDE DEF n, x
<1> SUFFICES ASSUME x \in Services
             PROVE  CASE e[1] = "initialize" -> ~ Tried(x, "initialize")
                      [] e[1] = "start" -> Done(x, "initialize") /\ ~ Done(x, "start")
                      [] e[1] = "stop" -> Done(x, "start") /\ ~ Done(x, "stop")
                      [] e[1] = "finalize" ->
                           /\ ~ Tried(x, "finalize")
                           /\ \/ Done(x, "initialize")
                              \/ ~ Declares(x) /\ <<"create", x, "CONFIGURED">> \in Past(x)
                           /\ \/ Done(x, "start") => Done(x, "stop")
                              \/ failedIn' \cap {"start", "startAlgs"} # {}
                      [] e[1] = "create" -> TRUE
  <2> HIDE DEF past, y
  <2>1. Last(trace')[1] = e[1]
    BY <1>1
  <2> DEFINE op == Last(trace')[1]
             done(o) == <<o, y, TRUE>> \in past
             tried(o) == \E r \in BOOLEAN : <<o, y, r>> \in past
             declared == \E i \in DOMAIN job'.declared : job'.declared[i].svc = y
             right == y \in Services =>
          CASE op = "initialize" -> ~ tried("initialize")
            [] op = "start" -> done("initialize") /\ ~ done("start")
            [] op = "stop" -> done("start") /\ ~ done("stop")
            [] op = "finalize" -> /\ ~ tried("finalize")
                                  /\ \/ done("initialize")
                                     \/ ~ declared /\ <<"create", y, "CONFIGURED">> \in past
                                  /\ \/ done("start") => done("stop")
                                     \/ failedIn' \cap {"start", "startAlgs"} # {}
            [] op = "create" -> TRUE
  <2>2. \A o : (done(o) <=> Done(x, o)) /\ (tried(o) <=> Tried(x, o))
    BY <1>2a DEF Done, Tried
  <2>3. declared <=> Declares(x)
    BY <1>2a DEF Declares
  <2>4. right
    <3> HIDE DEF done, tried, declared
    <3> QED
      BY <1>2a, <2>1, <2>2, <2>3
  <2> QED
    BY <2>4 DEF HooksInOrder, past, y
<1>3. e[1] = "create" \/ (e[1] \in Ops /\ HookDue(x, e[1]))
  BY DEF x
<1>4. CASE e[1] = "create"
  BY <1>4
<1>5. CASE e[1] = "initialize"
  BY <1>3, <1>5 DEF HookDue, Fresh, Ops
<1>6. CASE e[1] = "start"
  BY <1>3, <1>6, Zenon DEF HookDue, Ready, Ops
<1>7. CASE e[1] = "stop"
  BY <1>3, <1>7, Zenon DEF HookDue, Started, Ops
<1>8. CASE e[1] = "finalize"
  BY <1>3, <1>8 DEF HookDue, CanFinalize, StartFailed, Ops
<1> QED
  BY <1>3, <1>4, <1>5, <1>6, <1>7, <1>8 DEF Ops


\* A service of whose last instance nothing more is said.
LEMMA SameLife ==
  ASSUME NEW s, Past(s)' = Past(s), job' = job, failedIn \subseteq failedIn'
  PROVE  /\ (Fresh(s)' <=> Fresh(s)) /\ (Ready(s)' <=> Ready(s)) /\ (Started(s)' <=> Started(s))
         /\ (Stopped(s)' <=> Stopped(s)) /\ (CanFinalize(s) => CanFinalize(s)')
         /\ \A op : HookDue(s, op) => HookDue(s, op)'
<1>1. \A o : (Done(s, o)' <=> Done(s, o)) /\ (Tried(s, o)' <=> Tried(s, o))
  BY DEF Done, Tried
<1>2. (Declares(s)' <=> Declares(s)) /\ (StartFailed => StartFailed')
  BY DEF Declares, StartFailed
<1>3. /\ (Fresh(s)' <=> Fresh(s)) /\ (Ready(s)' <=> Ready(s)) /\ (Started(s)' <=> Started(s))
      /\ (Stopped(s)' <=> Stopped(s))
  BY <1>1 DEF Fresh, Ready, Started, Stopped
<1>4. CanFinalize(s) => CanFinalize(s)'
  BY <1>1, <1>2 DEF CanFinalize
<1> QED
  BY <1>3, <1>4 DEF HookDue

\* The return of a hook is logged.
LEMMA HookLogged ==
  ASSUME trace \in Seq(Event), NEW w \in AllServices \cup Algs, NEW o \in Ops, NEW ok \in BOOLEAN,
         trace' = Append(trace, <<o, w, ok>>)
  PROVE  /\ trace' \in Seq(Event) /\ <<o, w, ok>> \in Event
         /\ \A s : s # w => Past(s)' = Past(s)
         /\ \A q : Done(w, q)' <=> Done(w, q) \/ (q = o /\ ok)
         /\ \A q : Tried(w, q)' <=> Tried(w, q) \/ q = o
         /\ \A tg : <<"create", w, tg>> \in Past(w)' <=> <<"create", w, tg>> \in Past(w)
<1> DEFINE e == <<o, w, ok>>
<1>1. e \in Event /\ e[1] = o /\ e[2] = w /\ o # "create"
  BY DEF Event, Ops
<1>2. \A q, r : <<q, w, r>> = e <=> q = o /\ r = ok
  OBVIOUS
<1>3. trace' \in Seq(Event)
  <2>1. trace' = Append(trace, e)
    OBVIOUS
  <2> HIDE DEF e
  <2> QED
    BY <1>1, <2>1
<1> HIDE DEF e
<1>4. \A s : Past(s)' = IF w # s THEN Past(s) ELSE Past(s) \cup {e}
  BY <1>1, LifeAppended DEF Past, e
<1>5. \A q, r : <<q, w, r>> \in Past(w)' <=> <<q, w, r>> \in Past(w) \/ (q = o /\ r = ok)
  BY <1>2, <1>4
<1>6. \A q : Done(w, q)' <=> Done(w, q) \/ (q = o /\ ok)
  <2>1. TRUE = ok <=> ok
    OBVIOUS
  <2> QED
    BY <1>5, <2>1, Zenon DEF Done
<1>7. \A q : Tried(w, q)' <=> Tried(w, q) \/ q = o
  BY <1>5, Zenon DEF Tried
<1> QED
  BY <1>1, <1>3, <1>4, <1>5, <1>6, <1>7 DEF e

\* What a hook leaves behind when it was called in time.
LEMMA HookLived ==
  ASSUME trace \in Seq(Event), NEW w \in AllServices \cup Algs, NEW o \in Ops, NEW ok \in BOOLEAN,
         trace' = Append(trace, <<o, w, ok>>), HookDue(w, o)
  PROVE  /\ o = "initialize" /\ ok => Ready(w)'
         /\ o = "start" => (ok => Started(w)') /\ (~ ok => Ready(w)')
         /\ o = "stop" => (ok => Stopped(w)') /\ (~ ok => Started(w)')
<1>1. /\ \A q : Done(w, q)' <=> Done(w, q) \/ (q = o /\ ok)
      /\ \A q : Tried(w, q)' <=> Tried(w, q) \/ q = o
  BY HookLogged
<1>2. \A q \in Ops : Done(w, q) => Tried(w, q)
  BY Zenon DEF Done, Tried
<1>3. Ops = {"initialize", "start", "stop", "finalize"}
  BY DEF Ops
<1>4. o = "initialize" /\ ok => Ready(w)'
  BY <1>1, <1>2, <1>3 DEF HookDue, Fresh, Ready
<1>5. o = "start" => (ok => Started(w)') /\ (~ ok => Ready(w)')
  BY <1>1, <1>3 DEF HookDue, Ready, Started
<1>6. o = "stop" => (ok => Stopped(w)') /\ (~ ok => Started(w)')
  BY <1>1, <1>3 DEF HookDue, Started, Stopped
<1> QED
  BY <1>4, <1>5, <1>6

\* A creation is logged: a new life.
LEMMA CreationLogged ==
  ASSUME trace \in Seq(Event), NEW w \in AllServices \cup Algs, NEW tg \in States,
         trace' = Append(trace, <<"create", w, tg>>)
  PROVE  /\ trace' \in Seq(Event) /\ <<"create", w, tg>> \in Event
         /\ \A s : s # w => Past(s)' = Past(s)
         /\ Fresh(w)'
         /\ tg = "CONFIGURED" /\ ~ Declares(w)' => CanFinalize(w)'
<1> DEFINE e == <<"create", w, tg>>
<1>1. e \in Event /\ e[1] = "create" /\ e[2] = w
  BY DEF Event
<1>2. \A q \in Ops : \A r : <<q, w, r>> # e
  BY DEF Ops
<1>3. trace' \in Seq(Event)
  <2>1. trace' = Append(trace, e)
    OBVIOUS
  <2> HIDE DEF e
  <2> QED
    BY <1>1, <2>1
<1>4. \A s : Past(s)' = IF w # s THEN Past(s) ELSE {e}
  <2>1. trace' = Append(trace, e)
    OBVIOUS
  <2> HIDE DEF e
  <2>2. \A s : LifeOf(Append(trace, e), s) = IF w # s THEN LifeOf(trace, s) ELSE {e}
    BY <1>1, LifeAppended, Zenon
  <2> QED
    BY <2>1, <2>2 DEF Past
<1> HIDE DEF e
<1>5. \A q \in Ops : ~ Tried(w, q)' /\ ~ Done(w, q)'
  <2>1. \A q \in Ops : \A r : <<q, w, r>> \notin Past(w)'
    BY <1>2, <1>4
  <2> QED
    BY <2>1, Zenon DEF Tried, Done
<1>6. tg = "CONFIGURED" /\ ~ Declares(w)' => CanFinalize(w)'
  <2>1. "start" \in Ops /\ "finalize" \in Ops
    BY DEF Ops
  <2>2. tg = "CONFIGURED" => <<"create", w, "CONFIGURED">> \in Past(w)'
    BY <1>4 DEF e
  <2> QED
    BY <1>5, <2>1, <2>2 DEF CanFinalize
<1> QED
  BY <1>1, <1>3, <1>4, <1>5, <1>6 DEF Fresh, e

-----------------------------------------------------------------------------
(* The hooks under way.                                                    *)

\* A service has one hook under way.
LEMMA OneHook ==
  ASSUME AppInv, NEW s \in AllServices, NEW t \in Threads, NEW u \in Threads,
         NEW i \in DOMAIN stack[t], NEW j \in DOMAIN stack[u],
         stack[t][i].who = s, stack[u][j].who = s
  PROVE  t = u /\ i = j
<1>1. \A v \in Threads : \A k \in DOMAIN stack[v] : HookInPlace(stack[v][k], v, k)
  BY DEF AppInv, HooksNested
<1>2. ASSUME NEW v \in Threads, NEW k \in DOMAIN stack[v], stack[v][k].who = s, ~ stack[v][k].onDemand
      PROVE  v = Main /\ k = 1 /\ ~ UnderWay(s)
  <2>1. v = Main /\ k = 1
    BY <1>1, <1>2 DEF HookInPlace
  <2>2. stack[Main] # <<>>
    <3>1. stack[Main] \in Seq(Hook) /\ 1 \in DOMAIN stack[Main]
      BY <2>1 DEF AppInv, AppType
    <3> QED
      BY <3>1
  <2>3. Loop /\ todo # <<>> /\ s = Head(todo)
    BY <1>2, <2>1, <2>2 DEF AppInv, HooksNested
  <2>4. todo \in Seq(AllServices \cup Algs) /\ (AlgLoop => todo \in Seq(Algs))
    BY DEF AppInv, AppType
  <2>5. s \in Range(todo) /\ ~ AlgLoop
    BY <2>3, <2>4, TailWork, NamesAssumption
  <2>6. ServiceLoop
    BY <2>3, <2>5 DEF ServiceLoop, AlgLoop, Loop, Phases
  <2> QED
    BY <2>1, <2>5, <2>6 DEF AppInv, ActiveListed
<1>3. CASE stack[t][i].onDemand /\ stack[u][j].onDemand
  BY <1>3 DEF AppInv, CreatedOnce, Creating
<1>4. CASE ~ stack[t][i].onDemand /\ ~ stack[u][j].onDemand
  BY <1>2, <1>4
<1>5. CASE ~ stack[t][i].onDemand /\ stack[u][j].onDemand
  <2>1. UnderWay(s)
    BY <1>5 DEF UnderWay, Creating
  <2> QED
    BY <1>2, <1>5, <2>1
<1>6. CASE stack[t][i].onDemand /\ ~ stack[u][j].onDemand
  <2>1. UnderWay(s)
    BY <1>6 DEF UnderWay, Creating
  <2> QED
    BY <1>2, <1>6, <2>1
<1> QED
  BY <1>3, <1>4, <1>5, <1>6, Zenon

\* What each kind of step leaves of them: an answer leaves them all,
LEMMA HooksAnswered ==
  ASSUME AppInv, NEW t \in Threads, NEW b \in BOOLEAN,
         stack' = [stack EXCEPT ![t] = Answered(stack[t], b)]
  PROVE  \A s, op : HookAt(s, op)' <=> HookAt(s, op)
<1> DEFINE q == Answered(stack[t], b)
<1>1. stack \in [Threads -> Seq(Hook)]
  BY DEF AppInv, AppType
<1>2. SameHooks(q, stack[t])
  BY <1>1, AnsweredHooks
<1> HIDE DEF q
<1>3. stack'[t] = q /\ \A u \in Threads : u # t => stack'[u] = stack[u]
  BY <1>1 DEF q
<1> QED
  BY <1>2, <1>3 DEF HookAt, SameHooks

\* a call adds one,
LEMMA HooksCalled ==
  ASSUME AppInv, NEW t \in Threads, NEW x, NEW o, NEW d, Call(t, stack[t], x, o, d)
  PROVE  \A s, op : HookAt(s, op)' => HookAt(s, op) \/ (s = x /\ op = o)
<1> DEFINE k == stack[t]
           f == Frame(x, o, d)
           q == Append(k, f)
<1>1. stack \in [Threads -> Seq(Hook)]
  BY DEF AppInv, AppType
<1>2. f.who = x /\ f.op = o
  BY DEF Frame
<1>3. k \in Seq(Hook)
  BY <1>1
<1>4. stack'[t] = q /\ \A u \in Threads : u # t => stack'[u] = stack[u]
  BY <1>1 DEF Call
<1> HIDE DEF f, k
<1>5. DOMAIN q = DOMAIN k \cup {Len(k) + 1} /\ q[Len(k) + 1] = f /\ \A i \in DOMAIN k : q[i] = k[i]
  <2>1. DOMAIN q = 1..(Len(k) + 1) /\ Len(k) \in Nat /\ DOMAIN k = 1..Len(k)
    BY <1>3
  <2>2. q[Len(k) + 1] = f /\ \A i \in 1..Len(k) : q[i] = k[i]
    BY <1>3
  <2> QED
    BY <2>1, <2>2
<1> HIDE DEF q
<1> SUFFICES ASSUME NEW s, NEW op, NEW u \in Threads, NEW i \in DOMAIN stack'[u],
                    stack'[u][i].who = s, stack'[u][i].op = op
             PROVE  HookAt(s, op) \/ (s = x /\ op = o)
  BY DEF HookAt
<1>6. CASE u = t
  BY <1>2, <1>4, <1>5, <1>6 DEF HookAt, k
<1>7. CASE u # t
  BY <1>4, <1>7 DEF HookAt
<1> QED
  BY <1>6, <1>7

\* starting at once puts another hook in the same place,
LEMMA HooksRestarted ==
  ASSUME AppInv, NEW t \in Threads, stack[t] # <<>>, NEW w, w = Top(t).who,
         Call(t, Front(stack[t]), w, "start", TRUE)
  PROVE  \A s \in AllServices : \A op : HookAt(s, op)' =>
           (HookAt(s, op) /\ s # w) \/ (s = w /\ op = "start")
<1> DEFINE k == stack[t]
           p == Front(k)
           f == Frame(w, "start", TRUE)
           q == Append(p, f)
<1>1. stack \in [Threads -> Seq(Hook)]
  BY DEF AppInv, AppType
<1>2. f.who = w /\ f.op = "start"
  BY DEF Frame
<1>3. /\ p \in Seq(Hook) /\ DOMAIN p = 1..(Len(k) - 1) /\ Len(k) \in DOMAIN k /\ DOMAIN k = 1..Len(k)
      /\ k[Len(k)].who = w /\ \A i \in DOMAIN p : p[i] = k[i]
  BY <1>1, FrontHooks DEF Top
<1>4. stack'[t] = q /\ \A u \in Threads : u # t => stack'[u] = stack[u]
  BY <1>1 DEF Call
<1> HIDE DEF f, k, p
<1>5. DOMAIN q = DOMAIN p \cup {Len(p) + 1} /\ q[Len(p) + 1] = f /\ \A i \in DOMAIN p : q[i] = p[i]
  <2>0. p \in Seq(Hook)
    BY <1>3
  <2>1. DOMAIN q = 1..(Len(p) + 1) /\ Len(p) \in Nat /\ DOMAIN p = 1..Len(p)
    BY <2>0
  <2>2. q[Len(p) + 1] = f /\ \A i \in 1..Len(p) : q[i] = p[i]
    BY <2>0
  <2> QED
    BY <2>1, <2>2
<1>6. \A i \in DOMAIN p : i \in DOMAIN k /\ i # Len(k)
  BY <1>3
<1> HIDE DEF q
<1> SUFFICES ASSUME NEW s \in AllServices, NEW op, HookAt(s, op)'
             PROVE  (HookAt(s, op) /\ s # w) \/ (s = w /\ op = "start")
  BY Zenon
<1>6a. PICK u \in Threads : \E i \in DOMAIN stack'[u] : stack'[u][i].who = s /\ stack'[u][i].op = op
  BY DEF HookAt
<1>6b. PICK i \in DOMAIN stack'[u] : stack'[u][i].who = s /\ stack'[u][i].op = op
  BY <1>6a
<1>7. CASE u = t /\ i \notin DOMAIN p
  BY <1>6b, <1>2, <1>4, <1>5, <1>7
<1>8. CASE u = t /\ i \in DOMAIN p
  <2>1. i \in DOMAIN stack[t] /\ stack[t][i].who = s /\ stack[t][i].op = op /\ i # Len(k)
    BY <1>6b, <1>3, <1>4, <1>5, <1>6, <1>8 DEF k
  <2>2. s # w
    BY <1>3, <2>1, OneHook DEF k
  <2> QED
    BY <2>1, <2>2 DEF HookAt
<1>9. CASE u # t
  <2>1. i \in DOMAIN stack[u] /\ stack[u][i].who = s /\ stack[u][i].op = op
    BY <1>6b, <1>4, <1>9
  <2>2. s # w
    BY <1>3, <1>9, <2>1, OneHook DEF k
  <2> QED
    BY <2>1, <2>2 DEF HookAt
<1> QED
  BY <1>7, <1>8, <1>9

\* and the end of a creation takes one away.
LEMMA HooksPopped ==
  ASSUME AppInv, NEW t \in Threads, stack[t] # <<>>, NEW b \in BOOLEAN,
         stack' = [stack EXCEPT ![t] = Answered(Front(stack[t]), b)]
  PROVE  \A s \in AllServices : \A op : HookAt(s, op)' => HookAt(s, op) /\ s # Top(t).who
<1> DEFINE k == stack[t]
           p == Front(k)
           q == Answered(p, b)
<1>1. stack \in [Threads -> Seq(Hook)]
  BY DEF AppInv, AppType
<1>2. /\ p \in Seq(Hook) /\ DOMAIN p = 1..(Len(k) - 1) /\ Len(k) \in DOMAIN k /\ DOMAIN k = 1..Len(k)
      /\ k[Len(k)] = Top(t) /\ \A i \in DOMAIN p : p[i] = k[i]
  BY <1>1, FrontHooks DEF Top
<1>3. stack'[t] = q /\ \A u \in Threads : u # t => stack'[u] = stack[u]
  BY <1>1
<1> HIDE DEF p, k
<1>4. SameHooks(q, p)
  BY <1>2, AnsweredHooks
<1> HIDE DEF q
<1>5. \A i \in DOMAIN p : i \in DOMAIN k /\ i # Len(k)
  BY <1>2
<1> SUFFICES ASSUME NEW s \in AllServices, NEW op, NEW u \in Threads, NEW i \in DOMAIN stack'[u],
                    stack'[u][i].who = s, stack'[u][i].op = op
             PROVE  HookAt(s, op) /\ s # Top(t).who
  BY DEF HookAt
<1>6. i \in DOMAIN stack[u] /\ stack[u][i].who = s /\ stack[u][i].op = op /\ (u = t => i # Len(k))
  BY <1>2, <1>3, <1>4, <1>5 DEF k, SameHooks
<1>7. s # Top(t).who
  BY <1>2, <1>6, OneHook DEF k
<1> QED
  BY <1>6, <1>7 DEF HookAt

-----------------------------------------------------------------------------
(* What happens to the lives of services while a phase goes on.            *)

\* A step that logs nothing.
LEMMA OrderSame ==
  ASSUME HooksInOrder, trace \in Seq(Event), trace' = trace, job' = job, failedIn \subseteq failedIn'
  PROVE  HooksInOrder'
<1> DEFINE e == Last(trace)
           x == e[2]
           before == 1..(Len(trace) - 1)
           past == {trace[i] : i \in {i \in before :
                      /\ trace[i][2] = x
                      /\ \A k \in before : k > i /\ trace[k][2] = x => trace[k][1] # "create"}}
           Right(h, y, p, d, failed) == y \in Services =>
             CASE h[1] = "initialize" -> ~ \E r \in BOOLEAN : <<"initialize", y, r>> \in p
               [] h[1] = "start" -> <<"initialize", y, TRUE>> \in p /\ ~ <<"start", y, TRUE>> \in p
               [] h[1] = "stop" -> <<"start", y, TRUE>> \in p /\ ~ <<"stop", y, TRUE>> \in p
               [] h[1] = "finalize" ->
                    /\ ~ \E r \in BOOLEAN : <<"finalize", y, r>> \in p
                    /\ \/ <<"initialize", y, TRUE>> \in p
                       \/ ~ d /\ <<"create", y, "CONFIGURED">> \in p
                    /\ \/ <<"start", y, TRUE>> \in p => <<"stop", y, TRUE>> \in p
                       \/ failed \cap {"start", "startAlgs"} # {}
               [] h[1] = "create" -> TRUE
           d1 == \E i \in DOMAIN job.declared : job.declared[i].svc = x
           d2 == \E i \in DOMAIN job'.declared : job'.declared[i].svc = Last(trace')[2]
           past2 == {trace'[i] : i \in {i \in 1..(Len(trace') - 1) :
                       /\ trace'[i][2] = Last(trace')[2]
                       /\ \A k \in 1..(Len(trace') - 1) :
                            k > i /\ trace'[k][2] = Last(trace')[2] => trace'[k][1] # "create"}}
<1>1. trace = <<>> \/ Right(e, x, past, d1, failedIn)
  BY DEF HooksInOrder
<1>2. Last(trace') = e /\ past2 = past /\ (d2 <=> d1)
  OBVIOUS
<1>3. trace # <<>> => e[1] \in Ops \cup {"create"}
  <2> SUFFICES ASSUME trace # <<>> PROVE e[1] \in Ops \cup {"create"}
    OBVIOUS
  <2>1. e \in Event
    BY DEF Last
  <2> HIDE DEF e
  <2> QED
    BY <2>1 DEF Event
<1> HIDE DEF past, past2, d1, d2
<1>4. trace = <<>> \/ Right(Last(trace'), Last(trace')[2], past2, d2, failedIn')
  <2> DEFINE A(failed) == failed \cap {"start", "startAlgs"} # {}
  <2>1. A(failedIn) => A(failedIn')
    OBVIOUS
  <2> HIDE DEF e
  <2>2. CASE e[1] \in {"initialize", "start", "stop", "create"}
    BY <1>1, <1>2, <2>2
  <2>3. CASE e[1] = "finalize"
    BY <1>1, <1>2, <2>1, <2>3
  <2> QED
    BY <1>3, <2>2, <2>3 DEF Ops
<1>5. CASE trace = <<>>
  BY <1>5 DEF HooksInOrder
<1>6. CASE Right(Last(trace'), Last(trace')[2], past2, d2, failedIn')
  BY <1>6 DEF HooksInOrder, past2, d2
<1> QED
  BY <1>4, <1>5, <1>6

\* The same creations are under way.
LEMMA SameUnderWay ==
  ASSUME NEW s, \A u \in Threads : \A i : Creating(s, u, i)' <=> Creating(s, u, i)
  PROVE  UnderWay(s)' <=> UnderWay(s)
<1>1. UnderWay(s) <=> \E u \in Threads : \E i : Creating(s, u, i)
  BY DEF UnderWay, Creating
<1>2. UnderWay(s)' <=> \E u \in Threads : \E i : Creating(s, u, i)'
  BY DEF UnderWay, Creating
<1> QED
  BY <1>1, <1>2

\* A service that is called is listed.
LEMMA HookListed ==
  ASSUME AppInv, NEW s \in AllServices, NEW op, HookAt(s, op)
  PROVE  Listed(list, s)
<1>1. PICK t \in Threads : \E i \in DOMAIN stack[t] : stack[t][i].who = s /\ stack[t][i].op = op
  BY DEF HookAt
<1>2. PICK i \in DOMAIN stack[t] : stack[t][i].who = s /\ stack[t][i].op = op
  BY <1>1
<1>3. CASE stack[t][i].onDemand
  BY <1>2, <1>3 DEF AppInv, CreatedOnce, Creating
<1>4. CASE ~ stack[t][i].onDemand
  <2>1. t = Main /\ i = 1
    BY <1>4 DEF AppInv, HooksNested, HookInPlace
  <2>2. stack[Main] # <<>>
    <3>1. stack[Main] \in Seq(Hook) /\ 1 \in DOMAIN stack[Main]
      BY <2>1 DEF AppInv, AppType
    <3> QED
      BY <3>1
  <2>3. Loop /\ todo # <<>> /\ s = Head(todo)
    BY <1>2, <2>1, <2>2 DEF AppInv, HooksNested
  <2>4. todo \in Seq(AllServices \cup Algs) /\ (AlgLoop => todo \in Seq(Algs))
    BY DEF AppInv, AppType
  <2>5. s \in Range(todo) /\ ~ AlgLoop
    BY <2>3, <2>4, TailWork, NamesAssumption
  <2>6. ServiceLoop
    BY <2>3, <2>5 DEF ServiceLoop, AlgLoop, Loop, Phases
  <2> QED
    BY <2>5, <2>6 DEF AppInv, ActiveListed
<1> QED
  BY <1>3, <1>4

\* A service that a step within a phase does not touch.
SameService(s) ==
  /\ state'[s] = state[s] /\ (Listed(list', s) <=> Listed(list, s))
  /\ UnderWay(s)' <=> UnderWay(s)
  /\ Past(s)' = Past(s)
  /\ \A op : HookAt(s, op)' => HookAt(s, op)

\* A step of a hook that has nothing to do with the service.
LEMMA SameServiceLife ==
  ASSUME UNCHANGED <<job>>, AppKept, NEW s, LifeKept(s), SameService(s)
  PROVE  LifeKept(s)'
<1>1. UNCHANGED <<phase, failedIn>> /\ TodoKept
  BY DEF AppKept
<1>2. /\ (Fresh(s)' <=> Fresh(s)) /\ (Ready(s)' <=> Ready(s)) /\ (Started(s)' <=> Started(s))
      /\ (Stopped(s)' <=> Stopped(s)) /\ (CanFinalize(s) => CanFinalize(s)')
      /\ \A op : HookDue(s, op) => HookDue(s, op)'
  BY <1>1, SameLife DEF SameService
<1>3. Lived(s) => Lived(s)'
  BY <1>1, <1>2 DEF SameService, Lived, TodoKept
<1>4. (Declares(s)' <=> Declares(s)) /\ (Over' <=> Over)
  BY <1>1 DEF Declares, Over
<1>5. \A op \in Ops : HookAt(s, op)' => HookDue(s, op)'
  BY <1>2 DEF SameService, LifeKept
<1> QED
  BY <1>1, <1>3, <1>4, <1>5 DEF SameService, LifeKept

\* A step of a hook, from the lives of the services it leaves behind.
LEMMA ThreadStepLife ==
  ASSUME LifeInv, phase # "configure", UNCHANGED <<job>>, AppKept,
         HooksInOrder', trace' \in Seq(Event), \A s \in Services : SameService(s) \/ LifeKept(s)'
  PROVE  LifeInv'
<1>1. UNCHANGED <<phase>> /\ TodoKept
  BY DEF AppKept
<1>2. \A s \in Services : LifeKept(s)'
  BY SameServiceLife DEF LifeInv
<1>3. ServiceLoop' => Once(todo')
  BY <1>1 DEF LifeInv, ServiceLoop, TodoKept
<1> QED
  BY <1>1, <1>2, <1>3 DEF LifeInv

\* A request that is answered at once.
LEMMA AnsweredLife ==
  ASSUME AppInv, LifeInv, NEW t \in Threads, NEW x, NEW got, Asking(t), Answer(t, stack[t], x, got),
         UNCHANGED <<job, target, list, state>>, AppKept,
         HooksInOrder', trace' \in Seq(Event), \A s \in Services : Past(s)' = Past(s)
  PROVE  LifeInv'
<1> DEFINE b == got \notin States
<1>1. b \in BOOLEAN /\ stack' = [stack EXCEPT ![t] = Answered(stack[t], b)]
  BY DEF Answer
<1>2. UNCHANGED <<phase, target>> /\ TodoKept
  BY DEF AppKept
<1> HIDE DEF b
<1>3. \A s : \A u \in Threads : \A i : Creating(s, u, i)' <=> Creating(s, u, i)
  BY <1>1, <1>2, StackAnswered
<1>4. \A s : UnderWay(s)' <=> UnderWay(s)
  BY <1>3, SameUnderWay
<1>5. \A s, op : HookAt(s, op)' <=> HookAt(s, op)
  BY <1>1, HooksAnswered
<1>6. \A s \in Services : SameService(s)
  BY <1>4, <1>5 DEF SameService
<1> QED
  BY <1>6, ThreadStepLife, BusyPhase

\* service() for a service that is there, or for one that has no factory.
LEMMA FoundLife ==
  ASSUME AppInv, LifeInv, NEW t \in Threads, NEW x, Asking(t), ServiceFound(t, x) \/ NoFactory(t, x),
         UNCHANGED <<job, target>>, AppKept
  PROVE  LifeInv'
<1>1. UNCHANGED <<list, state, trace>> /\ \E got : Answer(t, stack[t], x, got)
  BY DEF ServiceFound, NoFactory
<1>2. trace' \in Seq(Event) /\ \A s : Past(s)' = Past(s)
  BY <1>1 DEF LifeInv, Past
<1>3. HooksInOrder'
  BY <1>1, OrderSame DEF LifeInv, AppKept
<1> QED
  BY <1>1, <1>2, <1>3, AnsweredLife

\* algorithm().
LEMMA AlgorithmLife ==
  ASSUME AppInv, LifeInv, NEW t \in Threads, NEW x, Asking(t), Algorithm(t, x),
         UNCHANGED <<job, target>>, AppKept
  PROVE  LifeInv'
<1>1. /\ x \in Algs /\ x \notin Services /\ x \in AllServices \cup Algs /\ UNCHANGED <<list, state>>
      /\ trace' = trace \/ trace' = Append(trace, <<"create", x, target>>)
      /\ Answer(t, stack[t], x, state[x]) \/ Call(t, stack[t], x, "initialize", TRUE)
  BY NamesAssumption DEF Algorithm, AllServices
<1>2. trace \in Seq(Event) /\ target \in States /\ UNCHANGED <<phase, target, failedIn>> /\ TodoKept
  BY DEF LifeInv, AppInv, AppType, AppKept
<1>3. trace' \in Seq(Event) /\ HooksInOrder' /\ \A s \in Services : Past(s)' = Past(s)
  <2>1. CASE trace' = trace
    <3>1. HooksInOrder'
      BY <1>2, <2>1, OrderSame DEF LifeInv
    <3> QED
      BY <1>2, <2>1, <3>1 DEF Past
  <2>2. CASE trace' = Append(trace, <<"create", x, target>>)
    <3> DEFINE e == <<"create", x, target>>
    <3>1. /\ trace' \in Seq(Event) /\ e \in Event /\ \A s : s # x => Past(s)' = Past(s)
      BY <1>1, <1>2, <2>2, CreationLogged
    <3>2. e[2] \notin Services /\ trace' = Append(trace, e)
      BY <1>1, <2>2
    <3> HIDE DEF e
    <3>3. HooksInOrder'
      BY <1>2, <3>1, <3>2, OrderKept
    <3> QED
      BY <1>1, <3>1, <3>3
  <2> QED
    BY <1>1, <2>1, <2>2
<1>4. CASE Answer(t, stack[t], x, state[x])
  BY <1>1, <1>3, <1>4, AnsweredLife
<1>5. CASE Call(t, stack[t], x, "initialize", TRUE)
  <2>1. \A s : \A u \in Threads : \A i : Creating(s, u, i)' <=>
          Creating(s, u, i) \/ (s = x /\ u = t /\ i = Len(stack[t]) + 1)
    BY <1>1, <1>2, <1>5, StackCalled
  <2>2. \A s \in Services : \A u \in Threads : \A i : Creating(s, u, i)' <=> Creating(s, u, i)
    BY <1>1, <2>1
  <2>3. \A s \in Services : UnderWay(s)' <=> UnderWay(s)
    BY <2>2, SameUnderWay
  <2>4. \A s \in Services : \A op : HookAt(s, op)' => HookAt(s, op)
    BY <1>1, <1>5, HooksCalled
  <2>5. \A s \in Services : SameService(s)
    BY <1>1, <1>3, <2>3, <2>4 DEF SameService
  <2> QED
    BY <1>3, <2>5, ThreadStepLife, BusyPhase
<1> QED
  BY <1>1, <1>4, <1>5

\* service() for a service that is not there: its life begins.
LEMMA CreatedLife ==
  ASSUME AppInv, LifeInv, NEW t \in Threads, NEW x, Asking(t), ServiceCreated(t, x),
         UNCHANGED <<job, target>>, AppKept
  PROVE  LifeInv'
<1> DEFINE low == ~ (Rank[target] >= Rank["INITIALIZED"])
<1>1. /\ x \in AllServices /\ ~ Listed(list, x)
      /\ trace' = Append(trace, <<"create", x, target>>)
      /\ \E e \in Entry : e.svc = x /\ list' = Append(list, e)
      /\ ~ low => state' = Begun(x, "initialize") /\ Call(t, stack[t], x, "initialize", TRUE)
      /\ low => Answer(t, stack[t], x, state[x]) /\ state' = state
  <2>1. x \in AllServices => \A b \in BOOLEAN : /\ Item(x, DefaultPriority, b) \in Entry
                                                /\ Item(x, DefaultPriority, b).svc = x
    BY DEF Item, Entry, DefaultPriority
  <2> QED
    BY <2>1 DEF ServiceCreated
<1>2. /\ target \in States /\ list \in Seq(Entry) /\ Distinct(list) /\ trace \in Seq(Event)
      /\ UNCHANGED <<phase, target, failedIn>> /\ TodoKept /\ state \in [AllServices \cup Algs -> States]
  BY DEF LifeInv, AppInv, AppType, AppKept
<1>3. \A s : Listed(list', s) <=> Listed(list, s) \/ s = x
  BY <1>1, <1>2, AppendList
<1>4. ~ Over /\ phase # "configure" /\ (Loop \/ phase = "running")
  BY BusyPhase, BusyThread
<1>5. x \in Services /\ x \in AllServices \cup Algs /\ ~ Declares(x) /\ ~ Declares(x)'
  <2>1. x \notin Range(Core)
    BY <1>1, <1>4 DEF AppInv, ActiveListed
  <2>2. x \in Services
    BY <1>1, <2>1 DEF AllServices
  <2>3. ~ Declares(x)
    BY <1>1, <1>4, <2>2 DEF LifeInv, LifeKept
  <2> QED
    BY <2>2, <2>3 DEF Declares, AllServices
<1>6. /\ trace' \in Seq(Event) /\ (\A s : s # x => Past(s)' = Past(s)) /\ Fresh(x)'
      /\ target = "CONFIGURED" => CanFinalize(x)'
      /\ <<"create", x, target>> \in Event
  BY <1>1, <1>2, <1>5, CreationLogged
<1>7. HooksInOrder'
  <2> DEFINE e == <<"create", x, target>>
  <2>1. trace' = Append(trace, e) /\ e \in Event /\ e[1] = "create"
    BY <1>1, <1>6
  <2> HIDE DEF e
  <2> QED
    BY <1>2, <2>1, OrderKept
<1>8. \A op : ~ HookAt(x, op)
  BY <1>1, HookListed
<1>9. \A s \in Services : s # x => state'[s] = state[s]
  <2>1. CASE low
    BY <1>1, <2>1
  <2>2. CASE ~ low
    BY <1>1, <1>2, <2>2 DEF Begun, AllServices
  <2> QED
    BY <2>1, <2>2
<1> HIDE DEF low
<1>10. CASE ~ low
  <2>1. \A s : \A u \in Threads : \A i : Creating(s, u, i)' <=>
          Creating(s, u, i) \/ (s = x /\ u = t /\ i = Len(stack[t]) + 1)
    BY <1>1, <1>2, <1>5, <1>10, StackCalled
  <2>2. \A s : s # x => \A u \in Threads : \A i : Creating(s, u, i)' <=> Creating(s, u, i)
    BY <2>1
  <2>3. \A s : s # x => (UnderWay(s)' <=> UnderWay(s))
    BY <2>2, SameUnderWay
  <2>4. UnderWay(x)'
    <3>1. PICK n : n = Len(stack[t]) + 1
      OBVIOUS
    <3>2. Creating(x, t, n)'
      BY <2>1, <3>1
    <3> QED
      BY <3>2 DEF UnderWay, Creating
  <2>5. \A s, op : HookAt(s, op)' => HookAt(s, op) \/ (s = x /\ op = "initialize")
    BY <1>1, <1>10, HooksCalled
  <2>6. LifeKept(x)'
    BY <1>5, <1>6, <1>8, <2>4, <2>5 DEF LifeKept, HookDue
  <2>7. \A s \in Services : s # x => SameService(s)
    BY <1>3, <1>6, <1>9, <2>3, <2>5 DEF SameService
  <2> QED
    BY <1>4, <1>6, <1>7, <2>6, <2>7, ThreadStepLife
<1>11. CASE low
  <2> DEFINE b == state[x] \notin States
  <2>1. b \in BOOLEAN /\ stack' = [stack EXCEPT ![t] = Answered(stack[t], b)]
    BY <1>1, <1>11 DEF Answer
  <2> HIDE DEF b
  <2>2. \A s : \A u \in Threads : \A i : Creating(s, u, i)' <=> Creating(s, u, i)
    BY <1>2, <2>1, StackAnswered
  <2>3. \A s : UnderWay(s)' <=> UnderWay(s)
    BY <2>2, SameUnderWay
  <2>4. \A s, op : HookAt(s, op)' <=> HookAt(s, op)
    BY <2>1, HooksAnswered
  <2>5. phase \in {"finalizeAlgs", "finalize"} /\ target = "CONFIGURED"
    <3>1. target \in {"OFFLINE", "CONFIGURED"}
      BY <1>2, <1>11 DEF low, Rank, States
    <3>2. TargetOfPhase
      BY DEF AppInv
    <3> QED
      BY <1>4, <3>1, <3>2 DEF TargetOfPhase, Loop, Phases
  <2>6. LifeKept(x)'
    <3>1. CanFinalize(x)' /\ \A op : ~ HookAt(x, op)'
      BY <1>6, <1>8, <2>4, <2>5
    <3>2. Lived(x)'
      BY <1>2, <2>5, <3>1 DEF Lived
    <3> QED
      BY <1>5, <3>1, <3>2 DEF LifeKept
  <2>7. \A s \in Services : s # x => SameService(s)
    BY <1>3, <1>6, <1>9, <2>3, <2>4 DEF SameService
  <2> QED
    BY <1>4, <1>6, <1>7, <2>6, <2>7, ThreadStepLife
<1> QED
  BY <1>10, <1>11

\* The hook on top of a stack was called in time.
LEMMA TopDue ==
  ASSUME AppInv, LifeInv, NEW t \in Threads, stack[t] # <<>>, Top(t).who \in Services
  PROVE  Top(t).op \in Ops /\ HookDue(Top(t).who, Top(t).op)
<1>1. stack[t] \in Seq(Hook)
  BY DEF AppInv, AppType
<1>2. Top(t) \in Hook /\ Top(t) = stack[t][Len(stack[t])] /\ Len(stack[t]) \in DOMAIN stack[t]
  BY <1>1, FrontHooks DEF Top
<1>3. Top(t).op \in Ops /\ HookAt(Top(t).who, Top(t).op)
  BY <1>2 DEF Hook, HookAt
<1> QED
  BY <1>3 DEF LifeInv, LifeKept

\* It returns.
LEMMA ReturnLogged ==
  ASSUME AppInv, LifeInv, NEW t \in Threads, NEW ok \in BOOLEAN, HookReturns(t, ok),
         failedIn \subseteq failedIn', NEW w, w = Top(t).who, NEW o, o = Top(t).op
  PROVE  /\ HooksInOrder' /\ trace' \in Seq(Event)
         /\ \A s : s # w => Past(s)' = Past(s)
         /\ w \in Services => /\ o = "initialize" /\ ok => Ready(w)'
                              /\ o = "start" => (ok => Started(w)') /\ (~ ok => Ready(w)')
                              /\ o = "stop" => (ok => Stopped(w)') /\ (~ ok => Started(w)')
<1> DEFINE e == <<o, w, ok>>
<1>1. stack[t] # <<>> /\ trace' = Append(trace, e) /\ job' = job
  BY DEF HookReturns
<1>2. trace \in Seq(Event) /\ stack[t] \in Seq(Hook)
  BY DEF LifeInv, AppInv, AppType
<1>3. o \in Ops /\ w \in AllServices \cup Algs
  <2>1. Top(t) \in Hook
    BY <1>1, <1>2, FrontHooks DEF Top
  <2> QED
    BY <2>1 DEF Hook
<1>4. w \in Services => HookDue(w, o)
  BY <1>1, TopDue
<1>5. trace' \in Seq(Event) /\ e \in Event /\ \A s : s # w => Past(s)' = Past(s)
  BY <1>1, <1>2, <1>3, HookLogged
<1>6. e[1] = o /\ e[2] = w
  OBVIOUS
<1>7. HooksInOrder'
  <2> HIDE DEF e
  <2> QED
    BY <1>1, <1>2, <1>3, <1>4, <1>5, <1>6, OrderKept
<1>8. ASSUME w \in Services
      PROVE  /\ o = "initialize" /\ ok => Ready(w)'
             /\ o = "start" => (ok => Started(w)') /\ (~ ok => Ready(w)')
             /\ o = "stop" => (ok => Stopped(w)') /\ (~ ok => Started(w)')
  BY <1>1, <1>2, <1>3, <1>4, <1>8, HookLived
<1> QED
  BY <1>5, <1>7, <1>8

\* The hook of a creation returns.
LEMMA ReturnLife ==
  ASSUME AppInv, LifeInv, NEW t \in Threads, OnDemandReturns(t), AppKept
  PROVE  LifeInv'
<1> SUFFICES ASSUME NEW f, f = Top(t), NEW w, w = f.who PROVE LifeInv'
  OBVIOUS
<1>1. PICK ok \in BOOLEAN :
        /\ HookReturns(t, ok) /\ Top(t).onDemand
        /\ IF StartAtOnce(Top(t), ok)
           THEN Call(t, Front(stack[t]), Top(t).who, "start", TRUE) /\ UNCHANGED <<list, handed>>
           ELSE /\ Answer(t, Front(stack[t]), Top(t).who,
                          IF ok THEN Reached(Top(t).who, Top(t).op) ELSE "failed")
                /\ list' = AfterAdd(list, Top(t), ok)
        /\ UNCHANGED <<algs, target>>
  BY DEF OnDemandReturns
<1>2. /\ stack[t] # <<>> /\ state' = Returned(f, ok) /\ UNCHANGED job
      /\ UNCHANGED <<phase, target, failedIn>> /\ TodoKept
  BY <1>1 DEF HookReturns, AppKept
<1>3. /\ f \in Hook /\ f.op \in {"initialize", "start"} /\ Asking(t)
      /\ f.op = "start" => target = "RUNNING"
      /\ Creating(w, t, Len(stack[t]))
      /\ w \in AllServices =>
              /\ Listed(list, w) /\ w \notin Range(Core)
              /\ ~ (ServiceLoop /\ w \in Range(todo))
              /\ \A u \in Threads : \A i : Creating(w, u, i) <=> u = t /\ i = Len(stack[t])
  BY <1>1, <1>2, CreationHook
<1>4. /\ \A s \in AllServices : s # w => state'[s] = state[s]
      /\ w \in AllServices => /\ ok => state'[w] = Reached(w, f.op)
                              /\ ~ ok => state'[w] = "OFFLINE"
  BY <1>1, <1>2, <1>3, ReturnedStates
<1>5. ~ Over /\ phase # "configure" /\ list \in Seq(Entry) /\ Distinct(list)
  BY <1>3, BusyPhase DEF AppInv, AppType
<1>6. /\ HooksInOrder' /\ trace' \in Seq(Event)
      /\ \A s : s # w => Past(s)' = Past(s)
      /\ w \in Services =>
              /\ f.op = "initialize" /\ ok => Ready(w)'
              /\ f.op = "start" /\ ok => Started(w)'
  BY <1>1, <1>2, ReturnLogged
<1>7. w \in Services => w \in AllServices /\ w \notin Algs /\ ~ Declares(w) /\ ~ Declares(w)'
  <2>1. Services \subseteq AllServices /\ AllServices \cap Algs = {}
    BY NamesAssumption DEF AllServices
  <2>2. UnderWay(w)
    BY <1>3 DEF UnderWay, Creating
  <2>3. w \in Services => ~ Declares(w)
    BY <1>5, <2>2 DEF LifeInv, LifeKept
  <2> QED
    BY <1>2, <2>1, <2>3 DEF Declares
<1>8. Services \subseteq AllServices
  BY DEF AllServices
<1>9. \A s \in Services : s # w => (Listed(list', s) <=> Listed(list, s))
  <2>1. CASE list' = list
    BY <2>1
  <2>2. CASE list' = AfterAdd(list, f, ok)
    <3>1. CASE w \in Algs
      BY <2>2, <3>1 DEF AfterAdd
    <3>2. CASE w \notin Algs /\ ok
      <4>1. Listed(list, w) /\ list' = MoveToBack(list, w)
        BY <1>3, <2>2, <3>2 DEF AfterAdd, Hook
      <4> QED
        BY <1>5, <4>1, MoveToBackList
    <3>3. CASE w \notin Algs /\ ~ ok
      <4>1. list' = Without(list, w)
        BY <2>2, <3>3 DEF AfterAdd
      <4> QED
        BY <1>5, <4>1, WithoutList
    <3> QED
      BY <3>1, <3>2, <3>3
  <2> QED
    BY <1>1, <2>1, <2>2
<1>10. CASE StartAtOnce(f, ok)
  <2>1. ok /\ f.op = "initialize" /\ target = "RUNNING" /\ list' = list
        /\ Call(t, Front(stack[t]), w, "start", TRUE)
    BY <1>1, <1>10 DEF StartAtOnce
  <2>2. \A s : \A u \in Threads : \A i : Creating(s, u, i)' <=> Creating(s, u, i)
    BY <1>1, <1>2, <2>1, StackRestarted
  <2>3. \A s : UnderWay(s)' <=> UnderWay(s)
    BY <2>2, SameUnderWay
  <2>4. \A s \in AllServices : \A op : HookAt(s, op)' =>
          (HookAt(s, op) /\ s # w) \/ (s = w /\ op = "start")
    BY <1>2, <2>1, HooksRestarted
  <2>5. w \in Services => LifeKept(w)'
    <3>1. UnderWay(w)'
      <4>1. UnderWay(w)
        BY <1>3 DEF UnderWay, Creating
      <4> QED
        BY <2>3, <4>1
    <3> QED
      BY <1>6, <1>7, <2>1, <2>4, <3>1 DEF LifeKept, HookDue
  <2>6. \A s \in Services : s # w => SameService(s)
    BY <1>4, <1>6, <1>8, <1>9, <2>3, <2>4 DEF SameService
  <2> QED
    BY <1>2, <1>5, <1>6, <2>5, <2>6, ThreadStepLife
<1>11. CASE ~ StartAtOnce(f, ok)
  <2> DEFINE got == IF ok THEN Reached(w, f.op) ELSE "failed"
             b == got \notin States
  <2>1. b \in BOOLEAN /\ stack' = [stack EXCEPT ![t] = Answered(Front(stack[t]), b)]
        /\ list' = AfterAdd(list, f, ok)
    BY <1>1, <1>11 DEF Answer
  <2> HIDE DEF b
  <2>2. \A s : \A u \in Threads : \A i : Creating(s, u, i)' <=>
          Creating(s, u, i) /\ ~ (u = t /\ i = Len(stack[t]))
    BY <1>1, <1>2, <2>1, StackPopped
  <2>3. \A s : s # w => \A u \in Threads : \A i : Creating(s, u, i)' <=> Creating(s, u, i)
    <3>1. \A s : Creating(s, t, Len(stack[t])) => s = w
      BY <1>3 DEF Creating
    <3> QED
      BY <2>2, <3>1
  <2>4. \A s : s # w => (UnderWay(s)' <=> UnderWay(s))
    BY <2>3, SameUnderWay
  <2>5. \A s \in AllServices : \A op : HookAt(s, op)' => HookAt(s, op) /\ s # w
    BY <1>2, <2>1, HooksPopped
  <2>6. \A s \in Services : s # w => SameService(s)
    BY <1>4, <1>6, <1>8, <1>9, <2>4, <2>5 DEF SameService
  <2>7. ASSUME w \in Services PROVE LifeKept(w)'
    <3>1. \A op : ~ HookAt(w, op)'
      BY <1>7, <2>5, <2>7
    <3>2. CASE ~ ok
      <4>1. list' = Without(list, w)
        BY <1>7, <2>1, <2>7, <3>2 DEF AfterAdd
      <4>2. ~ Listed(list', w)
        BY <1>5, <4>1, WithoutList
      <4> QED
        BY <1>7, <2>7, <3>1, <4>2 DEF LifeKept
    <3>3. CASE ok /\ f.op = "initialize"
      <4>1. target # "RUNNING" /\ state'[w] = "INITIALIZED" /\ Ready(w)'
        BY <1>4, <1>6, <1>7, <1>11, <2>7, <3>3 DEF StartAtOnce, Reached
      <4>2. phase \notin {"start", "startAlgs", "running"}
        BY <4>1 DEF AppInv, TargetOfPhase
      <4>3. Stopped(w)' /\ CanFinalize(w)'
        BY <4>1, Zenon DEF Ready, Stopped, CanFinalize
      <4>4. Lived(w)'
        BY <1>2, <1>3, <1>7, <2>7, <4>1, <4>2, <4>3 DEF Lived, ServiceLoop
      <4> QED
        BY <1>7, <2>7, <3>1, <4>4 DEF LifeKept
    <3>4. CASE ok /\ f.op = "start"
      <4>1. target = "RUNNING" /\ state'[w] = "RUNNING" /\ Started(w)'
        BY <1>3, <1>4, <1>6, <1>7, <2>7, <3>4 DEF Reached
      <4>2. phase \notin {"initialize", "initAlgs", "stopAlgs", "stop", "finalizeAlgs", "finalize"}
        BY <4>1 DEF AppInv, TargetOfPhase
      <4>3. Lived(w)'
        BY <1>2, <4>1, <4>2 DEF Lived
      <4> QED
        BY <1>7, <2>7, <3>1, <4>3 DEF LifeKept
    <3> QED
      BY <1>3, <3>2, <3>3, <3>4
  <2> QED
    BY <1>2, <1>5, <1>6, <2>6, <2>7, ThreadStepLife
<1> QED
  BY <1>10, <1>11

\* A step of a thread.
LEMMA ThreadLife ==
  ASSUME AppInv, LifeInv, NEW t \in Threads, ThreadSteps(t)
  PROVE  LifeInv'
<1>1. ASSUME NEW x, Asking(t), Retrieve(t, x), UNCHANGED <<job, target>>, AppKept
      PROVE  LifeInv'
  BY <1>1, FoundLife, CreatedLife, AlgorithmLife DEF Retrieve
<1>2. CASE HookAsks(t)
  <2>1. Asking(t) /\ UNCHANGED <<job, target>> /\ AppKept /\ \E x : Retrieve(t, x)
    BY <1>2, ThreadKeeps DEF HookAsks, Asking
  <2> QED
    BY <1>1, <2>1
<1>3. CASE phase = "running" /\ t # Main /\ WorkerAsks(t)
  <2>1. Asking(t) /\ UNCHANGED <<job, target>> /\ AppKept /\ \E x : Retrieve(t, x)
    BY <1>3, ThreadKeeps DEF WorkerAsks, Asking, Threads
  <2> QED
    BY <1>1, <2>1
<1>4. CASE OnDemandReturns(t)
  BY <1>4, ThreadKeeps, ReturnLife
<1> QED
  BY <1>2, <1>3, <1>4 DEF ThreadSteps

-----------------------------------------------------------------------------
(* No service is twice in the work of a phase.                             *)

\* What is done is not met again.
LEMMA OnceTail ==
  ASSUME NEW T, NEW q \in Seq(T), q # <<>>, Once(q)
  PROVE  Once(Tail(q)) /\ Head(q) \notin Range(Tail(q))
<1> DEFINE p == Tail(q)
           h == Head(q)
<1>1. 1 \in DOMAIN q /\ q[1] = h
  OBVIOUS
<1>2. \A i \in DOMAIN p : i \in Nat /\ i # 0 /\ i + 1 \in DOMAIN q /\ q[i + 1] = p[i]
  OBVIOUS
<1> HIDE DEF p, h
<1>3. Once(p)
  <2> SUFFICES ASSUME NEW i \in DOMAIN p, NEW j \in DOMAIN p, p[i] = p[j] PROVE i = j
    BY DEF Once
  <2>1. i + 1 = j + 1
    BY <1>2 DEF Once
  <2> QED
    BY <1>2, <2>1
<1>4. h \notin Range(p)
  <2> SUFFICES ASSUME NEW i \in DOMAIN p, p[i] = h PROVE FALSE
    BY DEF Range
  <2>1. i + 1 = 1
    BY <1>1, <1>2 DEF Once
  <2> QED
    BY <1>2, <2>1
<1> QED
  BY <1>3, <1>4 DEF p, h

\* The active services of a list without repetition.
LEMMA OnceActive == ASSUME NEW l \in Seq(Entry), Distinct(l) PROVE Once(ActiveSvc(l))
<1> DEFINE S == {i \in DOMAIN l : l[i].active}
           m == Selected(l, S)
<1>0. S \in SUBSET DOMAIN l
  OBVIOUS
<1>1. m \in Seq(Entry) /\ Rearranges(m, l, S)
  BY SelectedList
<1>2. ActiveSvc(l) = [i \in DOMAIN m |-> m[i].svc]
  BY DEF ActiveSvc
<1> HIDE DEF m, S
<1>3. Distinct(m)
  BY <1>0, <1>1, RearrangedList
<1> QED
  BY <1>2, <1>3 DEF Distinct, Once

\* In reverse.
LEMMA OnceReverse == ASSUME NEW T, NEW q \in Seq(T), Once(q) PROVE Once(Reverse(q))
<1> DEFINE r == Reverse(q)
<1>1. Len(q) \in Nat /\ DOMAIN q = 1..Len(q) /\ r = [i \in 1..Len(q) |-> q[Len(q) - i + 1]]
  BY DEF Reverse
<1>2. \A i \in 1..Len(q) : Len(q) - i + 1 \in 1..Len(q)
  BY <1>1
<1> SUFFICES ASSUME NEW i \in 1..Len(q), NEW j \in 1..Len(q),
                    q[Len(q) - i + 1] = q[Len(q) - j + 1]
             PROVE  i = j
  <2> HIDE DEF r
  <2>1. DOMAIN r = 1..Len(q) /\ \A i \in 1..Len(q) : r[i] = q[Len(q) - i + 1]
    BY <1>1
  <2>2. Once(r)
    BY <2>1 DEF Once
  <2> QED
    BY <2>2 DEF r
<1>3. Len(q) - i + 1 = Len(q) - j + 1
  BY <1>1, <1>2 DEF Once
<1> QED
  BY <1>1, <1>3

\* The work of a loop over the services.
LEMMA OnceWork ==
  ASSUME NEW p \in {"initialize", "start", "stop", "finalize"}, NEW l \in Seq(Entry), Distinct(l)
  PROVE  Once(Work(p, l))
<1> DEFINE a == ActiveSvc(l)
<1>1. a \in Seq(AllServices) /\ Once(a)
  BY ActiveList, OnceActive
<1> HIDE DEF a
<1>2. Once(Reverse(a))
  BY <1>1, OnceReverse
<1>3. Work(p, l) \in {a, Reverse(a)}
  BY DEF Work, a
<1> QED
  BY <1>1, <1>2, <1>3

-----------------------------------------------------------------------------
(* Lives from phase to phase.                                              *)

\* Nothing is asked of a service when the job is over.
LEMMA OverLife ==
  ASSUME HooksInOrder', trace' \in Seq(Event), Over', \A t \in Threads : stack'[t] = <<>>
  PROVE  LifeInv'
<1>1. \A s, op : ~ HookAt(s, op)'
  BY DEF HookAt
<1>2. phase' # "configure" /\ ~ ServiceLoop'
  BY DEF Over, ServiceLoop
<1> QED
  BY <1>1, <1>2 DEF LifeInv, LifeKept

\* The life of a listed service with which phase p may begin.
FitLife(p, s) ==
  /\ p \in {"initialize", "initAlgs", "start"} /\ state[s] = "INITIALIZED" => Ready(s)
  /\ p = "initialize" /\ state[s] # "INITIALIZED" => Fresh(s)
  /\ p \in {"start", "startAlgs", "running", "stopAlgs", "stop"} /\ state[s] = "RUNNING" => Started(s)
  /\ p \in {"stopAlgs", "stop"} /\ state[s] = "INITIALIZED" => Stopped(s)
  /\ p \in {"finalizeAlgs", "finalize"} => CanFinalize(s)

\* A phase begins, with no hook under way.
LEMMA BeginLife ==
  ASSUME AppInv', HooksInOrder', trace' \in Seq(Event), \A t \in Threads : stack'[t] = <<>>,
         NEW p \in Phases \ {"configure"}, NEW l \in Seq(Entry), Distinct(l), Begin(p, l),
         \A s \in Services : (Listed(l, s) => FitLife(p, s)') /\ (Declares(s)' => Listed(l, s))
  PROVE  LifeInv'
<1>1. phase' = p /\ list' = Prepared(p, l) /\ todo' = Work(p, list')
  BY DEF Begin
<1>2. /\ list' \in Seq(Entry) /\ Distinct(list')
      /\ \A s : Listed(list', s) <=> Listed(l, s)
  BY <1>1, PreparedList DEF SameEntries
<1>3. \A s : (\A op : ~ HookAt(s, op)') /\ ~ UnderWay(s)'
  BY DEF HookAt, UnderWay, Creating
<1>4. ServiceLoop' => Once(todo')
  <2> SUFFICES ASSUME p \in {"initialize", "start", "stop", "finalize"} PROVE Once(todo')
    BY <1>1 DEF ServiceLoop
  <2> DEFINE m == list'
  <2>1. m \in Seq(Entry) /\ Distinct(m) /\ todo' = Work(p, m)
    BY <1>1, <1>2
  <2> HIDE DEF m
  <2> QED
    BY <2>1, OnceWork
<1>5. ASSUME p = "stop", NEW s \in Services, Listed(list', s) PROVE s \in Range(todo')
  <2>1. PICK i \in DOMAIN list' : list'[i].svc = s
    BY <1>5 DEF Listed
  <2>2. s \in AllServices /\ s \notin Range(Core)
    BY NamesAssumption DEF AllServices
  <2>3. ~ Over' /\ ActiveListed'
    BY <1>1, <1>5 DEF Over, AppInv
  <2>4. list'[i].active
    BY <1>3, <2>1, <2>2, <2>3 DEF ActiveListed
  <2> DEFINE m == list'
  <2>5. m \in Seq(Entry) /\ todo' = Work(p, m) /\ algs' \in Seq(Algs) /\ i \in DOMAIN m
        /\ m[i].svc = s /\ m[i].active
    BY <1>1, <1>2, <2>1, <2>4 DEF AppInv, AppType
  <2> HIDE DEF m
  <2>6. p = "stop" => Work(p, m) = Reverse(ActiveSvc(m))
    BY DEF Work
  <2>7. /\ ActiveSvc(m) \in Seq(AllServices)
        /\ \A x : x \in Range(ActiveSvc(m)) <=> \E k \in DOMAIN m : m[k].active /\ m[k].svc = x
    BY <2>5, ActiveList
  <2>8. Range(Reverse(ActiveSvc(m))) = Range(ActiveSvc(m))
    BY <2>7, ReverseList
  <2> QED
    BY <1>5, <2>5, <2>6, <2>7, <2>8
<1>6. ASSUME NEW s \in Services PROVE LifeKept(s)'
  <2>1. Listed(list', s) => FitLife(p, s)'
    BY <1>2
  <2>2. Listed(list', s) => Lived(s)'
    BY <1>1, <1>5, <2>1 DEF FitLife, Lived
  <2> QED
    BY <1>2, <1>3, <2>2 DEF LifeKept
<1> QED
  BY <1>1, <1>4, <1>6 DEF LifeInv

\* A phase ends early.
LEMMA FailsLife ==
  ASSUME AppInv', HooksInOrder', trace' \in Seq(Event), \A t \in Threads : stack'[t] = <<>>,
         NEW s0 \in States, NEW l \in Seq(Entry), Distinct(l), PhaseFails(s0, l),
         s0 \notin {"OFFLINE", "CONFIGURED"} => \A s \in Services :
           (Listed(l, s) => FitLife(Towards(s0), s)') /\ (Declares(s)' => Listed(l, s))
  PROVE  LifeInv'
<1> DEFINE p == IF closing THEN "done" ELSE Towards(s0)
<1>1. Begin(p, l)
  BY DEF PhaseFails
<1>2. s0 \in {"OFFLINE", "CONFIGURED", "INITIALIZED", "RUNNING"}
  BY DEF States, Rank
<1>3. p \in Phases \ {"configure"}
  BY <1>2 DEF Towards, Phases
<1>4. phase' = p
  BY <1>1 DEF Begin
<1>5. CASE p \in {"terminate", "done"}
  BY <1>4, <1>5, OverLife DEF Over
<1>6. CASE p \notin {"terminate", "done"}
  <2>1. s0 \notin {"OFFLINE", "CONFIGURED"} /\ p = Towards(s0)
    BY <1>2, <1>6 DEF Towards
  <2> HIDE DEF p
  <2> QED
    BY <1>1, <1>3, <2>1, BeginLife
<1> QED
  BY <1>5, <1>6

-----------------------------------------------------------------------------
(* The loops.                                                              *)

\* Between two hooks: the lives of the listed services.
LEMMA LoopLives ==
  ASSUME AppInv, LifeInv, Loop, stack[Main] = <<>> \/ ~ Top(Main).onDemand, NEW s \in Services
  PROVE  /\ s \in AllServices /\ s \notin Algs /\ s \notin Range(Core)
         /\ Listed(list, s) => Lived(s) /\ StateInPhase(s)
         /\ Declares(s) => Listed(list, s)
<1>1. Calm /\ ~ Over /\ phase # "configure"
  BY LoopCalm DEF Loop, Over
<1>2. s \in AllServices /\ s \notin Algs /\ s \notin Range(Core)
  BY NamesAssumption DEF AllServices
<1> QED
  BY <1>1, <1>2 DEF Calm, LifeInv, LifeKept

\* The loop passes over what has got there before.
LEMMA SkipLife ==
  ASSUME AppInv, LifeInv, NEW x, Skip(x)
  PROVE  LifeInv'
<1>1. /\ Loop /\ stack[Main] = <<>> /\ todo # <<>> /\ x = Head(todo) /\ Skips(x)
      /\ todo' = Tail(todo) /\ UNCHANGED <<job, list, state, stack, trace, phase, failedIn>>
  BY DEF Skip, NextInLoop
<1>2. HooksInOrder' /\ trace' \in Seq(Event)
  BY <1>1, OrderSame DEF LifeInv
<1>3. todo \in Seq(AllServices \cup Algs) /\ (ServiceLoop => todo \in Seq(AllServices))
  BY DEF AppInv, AppType
<1>4. Range(todo) = Range(todo') \cup {x}
  BY <1>1, <1>3, TailWork
<1>5. ServiceLoop' => Once(todo')
  BY <1>1, <1>3, OnceTail DEF LifeInv, ServiceLoop
<1>6. ASSUME NEW s \in Services PROVE LifeKept(s)'
  <2>1. /\ Fresh(s)' <=> Fresh(s)
        /\ Ready(s)' <=> Ready(s)
        /\ Started(s)' <=> Started(s)
        /\ Stopped(s)' <=> Stopped(s)
        /\ CanFinalize(s) => CanFinalize(s)'
        /\ \A op : HookDue(s, op) => HookDue(s, op)'
    BY <1>1, SameLife DEF Past
  <2>2. (\A op : HookAt(s, op)' <=> HookAt(s, op)) /\ (UnderWay(s)' <=> UnderWay(s))
    BY <1>1 DEF HookAt, UnderWay, Creating
  <2>3. phase = "stop" /\ s = x => state[s] = "INITIALIZED"
    BY <1>1 DEF Skips
  <2>4. Lived(s) => Lived(s)'
    BY <1>1, <1>4, <2>1, <2>3 DEF Lived
  <2>5. (Declares(s)' <=> Declares(s)) /\ (Over' <=> Over)
    BY <1>1 DEF Declares, Over
  <2> QED
    BY <1>1, <2>1, <2>2, <2>4, <2>5 DEF LifeInv, LifeKept
<1> QED
  BY <1>1, <1>2, <1>5, <1>6 DEF LifeInv

\* The loop calls a hook, which is due.
LEMMA CallHookLife ==
  ASSUME AppInv, LifeInv, NEW x, CallHook(x)
  PROVE  LifeInv'
<1>1. /\ Loop /\ stack[Main] = <<>> /\ todo # <<>> /\ x = Head(todo) /\ ~ Skips(x) /\ Calls(x)
      /\ state' = Begun(x, Op(phase)) /\ Call(Main, <<>>, x, Op(phase), FALSE)
      /\ UNCHANGED <<job, list, trace, phase, todo, failedIn>>
  BY DEF CallHook, NextInLoop, appVars
<1>2. HooksInOrder' /\ trace' \in Seq(Event)
  BY <1>1, OrderSame DEF LifeInv
<1>3. /\ \A t \in Workers : stack[t] = <<>>
      /\ todo \in Seq(AllServices \cup Algs) /\ (AlgLoop => todo \in Seq(Algs))
      /\ state \in [AllServices \cup Algs -> States] /\ Main \in Threads
      /\ stack \in [Threads -> Seq(Hook)]
  BY <1>1, LoopCalm DEF AppInv, AppType, Threads
<1>4. /\ Main \notin Workers /\ \A t \in Threads : t = Main \/ t \in Workers
  BY NamesAssumption DEF Threads
<1>5. PICK f : f = Frame(x, Op(phase), FALSE)
  OBVIOUS
<1>6. stack'[Main] = <<f>> /\ f.who = x /\ f.op = Op(phase) /\ ~ f.onDemand
      /\ \A t \in Workers : stack'[t] = <<>>
  <2>1. stack' = [stack EXCEPT ![Main] = Append(<<>>, f)] /\ Append(<<>>, f) = <<f>>
    BY <1>1, <1>5 DEF Call
  <2>2. f.who = x /\ f.op = Op(phase) /\ ~ f.onDemand
    BY <1>5 DEF Frame
  <2> QED
    BY <1>3, <1>4, <2>1, <2>2
<1>7. DOMAIN stack'[Main] = {1} /\ stack'[Main][1] = f
  BY <1>6
<1>8. /\ \A s, op : HookAt(s, op)' => s = x /\ op = Op(phase)
      /\ \A s : ~ UnderWay(s)'
  BY <1>4, <1>6, <1>7 DEF HookAt, UnderWay, Creating
<1>9. ASSUME NEW s \in Services PROVE LifeKept(s)'
  <2>1. /\ Fresh(s)' <=> Fresh(s)
        /\ Ready(s)' <=> Ready(s)
        /\ Started(s)' <=> Started(s)
        /\ Stopped(s)' <=> Stopped(s)
        /\ CanFinalize(s) => CanFinalize(s)'
        /\ \A op : HookDue(s, op) => HookDue(s, op)'
    BY <1>1, SameLife DEF Past
  <2>2. /\ s \in AllServices /\ s \notin Algs
        /\ Listed(list, s) => Lived(s)
        /\ Declares(s) => Listed(list, s)
    BY <1>1, LoopLives
  <2>3. s = x => ServiceLoop /\ Listed(list, s) /\ s \in Range(todo)
    <3>1. x \in Range(todo) /\ (AlgLoop => x \in Algs)
      BY <1>1, <1>3, TailWork
    <3>2. s = x => ServiceLoop
      BY <1>1, <2>2, <3>1 DEF ServiceLoop, AlgLoop, Loop, Phases
    <3> QED
      BY <3>1, <3>2 DEF AppInv, ActiveListed
  <2>4. s = x => HookDue(s, Op(phase))
    BY <1>1, <2>2, <2>3 DEF ServiceLoop, Lived, Calls, HookDue, Op
  <2>5. \/ state'[s] = state[s]
        \/ s = x /\ phase = "initialize" /\ state[s] # "INITIALIZED" /\ state'[s] = "CONFIGURED"
    <3>1. CASE state' = state
      BY <3>1
    <3>2. CASE state' = [state EXCEPT ![x] = "CONFIGURED"] /\ Op(phase) = "initialize"
      <4>1. s # x => state'[s] = state[s]
        BY <1>3, <2>2, <3>2
      <4>2. s = x => phase = "initialize" /\ state'[s] = "CONFIGURED"
        BY <1>3, <2>2, <2>3, <3>2 DEF ServiceLoop, Op
      <4> QED
        BY <1>1, <4>1, <4>2 DEF Skips
    <3> QED
      BY <1>1, <3>1, <3>2 DEF Begun
  <2>6. Listed(list, s) => Lived(s)'
    BY <1>1, <2>1, <2>2, <2>5 DEF Lived
  <2>7. Declares(s)' <=> Declares(s)
    BY <1>1 DEF Declares
  <2> QED
    BY <1>1, <1>8, <2>1, <2>2, <2>4, <2>6, <2>7 DEF LifeKept
<1> QED
  BY <1>1, <1>2, <1>9 DEF LifeInv, ServiceLoop, Loop

\* The exception that nothing in run() catches.
LEMMA ThrowsLife ==
  ASSUME AppInv, LifeInv, NEW x, ChangeStateThrows(x)
  PROVE  LifeInv'
<1>1. /\ Loop /\ stack[Main] = <<>> /\ phase' = "threw" /\ UNCHANGED <<job, stack, trace>>
      /\ failedIn' = failedIn \cup {phase}
  BY DEF ChangeStateThrows, NextInLoop, svcVars
<1>2. HooksInOrder' /\ trace' \in Seq(Event)
  BY <1>1, OrderSame DEF LifeInv
<1>3. \A t \in Threads : stack'[t] = <<>>
  BY <1>1, LoopCalm DEF Threads
<1> QED
  BY <1>1, <1>2, <1>3, OverLife DEF Over

\* The hook that a loop called returns.
LEMMA LoopHookLife ==
  ASSUME AppInv, LifeInv, AppInv', LoopHookReturns
  PROVE  LifeInv'
<1> SUFFICES ASSUME NEW f, f = Top(Main), NEW x, x = f.who, NEW p, p = phase PROVE LifeInv'
  OBVIOUS
<1>1. PICK ok \in BOOLEAN :
        /\ HookReturns(Main, ok) /\ ~ f.onDemand
        /\ stack' = [stack EXCEPT ![Main] = <<>>]
        /\ IF ok \/ f.op = "finalize"
           THEN /\ todo' = IF ~ ok /\ phase = "finalizeAlgs" THEN <<>> ELSE Tail(todo)
                /\ failedIn' = IF ok THEN failedIn ELSE failedIn \cup {phase}
                /\ UNCHANGED <<list, phase>>
           ELSE PhaseFails(appState, list)
  BY DEF LoopHookReturns
<1>2. stack[Main] # <<>> /\ state' = Returned(f, ok) /\ job' = job
  BY <1>1 DEF HookReturns
<1>3. Loop
  BY <1>2 DEF AppInv, HooksNested
<1>4. /\ \A t \in Workers : stack[t] = <<>>
      /\ f \in Hook /\ x = Head(todo) /\ f.op = Op(p) /\ todo # <<>>
  BY <1>1, <1>2, <1>3, LoopCalm
<1>5. /\ todo \in Seq(AllServices \cup Algs) /\ (AlgLoop => todo \in Seq(Algs))
      /\ (ServiceLoop => todo \in Seq(AllServices)) /\ list \in Seq(Entry) /\ Distinct(list)
      /\ stack \in [Threads -> Seq(Hook)] /\ appState \in States
  BY DEF AppInv, AppType
<1>6. \A t \in Threads : stack'[t] = <<>>
  BY <1>1, <1>4, <1>5 DEF Threads
<1>7. (\A s, op : ~ HookAt(s, op)') /\ (\A s : ~ UnderWay(s)')
  BY <1>6 DEF HookAt, UnderWay, Creating
<1>8. failedIn \subseteq failedIn' /\ (~ (ok \/ f.op = "finalize") => failedIn' = failedIn \cup {p})
  <2>1. PhaseFails(appState, list) => failedIn' = failedIn \cup {phase}
    BY DEF PhaseFails
  <2> QED
    BY <1>1, <2>1
<1>9. /\ HooksInOrder' /\ trace' \in Seq(Event)
      /\ \A s : s # x => Past(s)' = Past(s)
      /\ x \in Services =>
           /\ Op(p) = "initialize" /\ ok => Ready(x)'
           /\ Op(p) = "start" => (ok => Started(x)') /\ (~ ok => Ready(x)')
           /\ Op(p) = "stop" => (ok => Stopped(x)') /\ (~ ok => Started(x)')
  <2>1. PICK o : o = f.op
    OBVIOUS
  <2>2. o = Op(p)
    BY <1>4, <2>1
  <2>3. /\ HooksInOrder' /\ trace' \in Seq(Event)
        /\ \A s : s # x => Past(s)' = Past(s)
        /\ x \in Services =>
             /\ o = "initialize" /\ ok => Ready(x)'
             /\ o = "start" => (ok => Started(x)') /\ (~ ok => Ready(x)')
             /\ o = "stop" => (ok => Stopped(x)') /\ (~ ok => Started(x)')
    <3>1. Main \in Threads
      BY DEF Threads
    <3> QED
      BY <1>1, <1>8, <2>1, <3>1, ReturnLogged
  <2> QED
    BY <2>2, <2>3
<1>10. /\ \A s \in AllServices : s # x => state'[s] = state[s]
       /\ ok => state'[x] = Reached(x, f.op)
       /\ ~ ok /\ f.op # "initialize" => state' = state
  BY <1>1, <1>2, <1>4, LoopReturnedStates
<1>11. ASSUME NEW s \in Services
       PROVE  /\ s \in AllServices /\ s \notin Algs /\ s \notin Range(Core)
              /\ Listed(list, s) => Lived(s) /\ StateInPhase(s)
              /\ Declares(s)' => Listed(list, s)
              /\ s = x => ServiceLoop /\ HookDue(s, Op(p))
              /\ s # x => /\ (Fresh(s)' <=> Fresh(s)) /\ (Ready(s)' <=> Ready(s))
                          /\ (Started(s)' <=> Started(s)) /\ (Stopped(s)' <=> Stopped(s))
                          /\ (CanFinalize(s) => CanFinalize(s)')
  <2>1. /\ s \in AllServices /\ s \notin Algs /\ s \notin Range(Core)
        /\ Listed(list, s) => Lived(s) /\ StateInPhase(s)
        /\ Declares(s)' => Listed(list, s)
    BY <1>1, <1>2, <1>3, LoopLives DEF Declares
  <2>2. s = x => ServiceLoop
    <3>1. AlgLoop => x \in Algs
      BY <1>4, <1>5, TailWork
    <3> QED
      BY <1>3, <2>1, <3>1 DEF ServiceLoop, AlgLoop, Loop, Phases
  <2>3. s = x => HookDue(s, Op(p))
    BY <1>2, <1>4, TopDue DEF Threads
  <2>4. s # x => /\ (Fresh(s)' <=> Fresh(s)) /\ (Ready(s)' <=> Ready(s))
                 /\ (Started(s)' <=> Started(s)) /\ (Stopped(s)' <=> Stopped(s))
                 /\ (CanFinalize(s) => CanFinalize(s)')
    BY <1>2, <1>8, <1>9, SameLife
  <2> QED
    BY <2>1, <2>2, <2>3, <2>4
<1>12. CASE ok \/ f.op = "finalize"
  <2>1. /\ UNCHANGED <<list, phase>>
        /\ todo' = IF ~ ok /\ phase = "finalizeAlgs" THEN <<>> ELSE Tail(todo)
    BY <1>1, <1>12
  <2>2. ServiceLoop => /\ todo' = Tail(todo) /\ Once(todo') /\ x \notin Range(todo')
                       /\ Range(todo) = Range(todo') \cup {x}
    <3> SUFFICES ASSUME ServiceLoop
                 PROVE  /\ todo' = Tail(todo) /\ Once(todo') /\ x \notin Range(todo')
                        /\ Range(todo) = Range(todo') \cup {x}
      OBVIOUS
    <3>1. todo' = Tail(todo) /\ Once(todo) /\ todo \in Seq(AllServices)
      BY <1>5, <2>1 DEF ServiceLoop, LifeInv
    <3>2. Once(todo') /\ x \notin Range(todo')
      BY <1>4, <3>1, OnceTail
    <3>3. Range(todo) = Range(todo') \cup {x}
      BY <1>4, <3>1, TailWork
    <3> QED
      BY <3>1, <3>2, <3>3
  <2>3. ASSUME NEW s \in Services, Listed(list, s) PROVE Lived(s)'
    <3>1. CASE AlgLoop
      <4>1. state'[s] = state[s] /\ s # x
        BY <1>10, <1>11, <3>1 DEF AlgLoop, ServiceLoop
      <4> QED
        BY <1>11, <2>1, <2>3, <3>1, <4>1 DEF AlgLoop, Lived
    <3>2. CASE ServiceLoop /\ s # x
      <4>1. state'[s] = state[s] /\ (s \in Range(todo') <=> s \in Range(todo))
        BY <1>10, <1>11, <2>2, <3>2
      <4> QED
        BY <1>11, <2>1, <2>3, <3>2, <4>1 DEF Lived
    <3>3. CASE ServiceLoop /\ s = x
      <4>1. s \notin Range(todo')
        BY <2>2, <3>3
      <4>2. CASE p = "initialize"
        BY <1>4, <1>9, <1>10, <1>12, <2>1, <3>3, <4>2 DEF Lived, Op, Reached
      <4>3. CASE p = "start"
        BY <1>4, <1>9, <1>10, <1>12, <2>1, <3>3, <4>3 DEF Lived, Op, Reached
      <4>4. CASE p = "stop"
        BY <1>4, <1>9, <1>10, <1>12, <2>1, <3>3, <4>4 DEF Lived, Op, Reached
      <4>5. CASE p = "finalize"
        BY <2>1, <4>1, <4>5 DEF Lived
      <4> QED
        BY <3>3, <4>2, <4>3, <4>4, <4>5 DEF ServiceLoop
    <3> QED
      BY <1>3, <3>1, <3>2, <3>3 DEF ServiceLoop, AlgLoop, Loop, Phases
  <2>4. \A s \in Services : LifeKept(s)'
    BY <1>7, <1>11, <2>1, <2>3 DEF LifeKept
  <2> QED
    BY <1>3, <1>9, <2>1, <2>2, <2>4 DEF LifeInv, ServiceLoop, Loop
<1>13. CASE ~ (ok \/ f.op = "finalize")
  <2>1. PICK s0 : s0 = appState
    OBVIOUS
  <2>2. PhaseFails(s0, list) /\ s0 \in States
    BY <1>1, <1>5, <1>13, <2>1
  <2>3. ASSUME s0 \notin {"OFFLINE", "CONFIGURED"}, NEW s \in Services, Listed(list, s)
        PROVE  FitLife(Towards(s0), s)'
    <3>1. /\ phase \in {"start", "startAlgs", "stop", "stopAlgs"}
          /\ phase \in {"start", "startAlgs"} => Towards(s0) = "finalizeAlgs"
          /\ phase \in {"stop", "stopAlgs"} => Towards(s0) = "stopAlgs"
      <4>1. TargetOfPhase
        BY DEF AppInv
      <4>2. phase \notin {"finalize", "finalizeAlgs"}
        BY <1>4, <1>13 DEF Op
      <4> QED
        BY <1>3, <2>1, <2>3, <4>1, <4>2 DEF TargetOfPhase, Loop, Phases, Towards
    <3>2. state' = state /\ ~ ok
      BY <1>4, <1>10, <1>13, <3>1 DEF Op
    <3>3. Lived(s) /\ StateInPhase(s)
      BY <1>11, <2>3
    <3>4. CASE phase \in {"start", "startAlgs"}
      <4>1. StartFailed'
        BY <1>8, <1>13, <3>4 DEF StartFailed
      <4>2. Ready(s)' \/ Started(s)'
        <5>1. CASE s = x
          BY <1>9, <1>11, <3>2, <3>4, <5>1 DEF ServiceLoop, Op
        <5>2. CASE s # x
          <6>1. Ready(s) \/ Started(s)
            BY <3>3, <3>4 DEF Lived, StateInPhase
          <6> QED
            BY <1>11, <5>2, <6>1
        <5> QED
          BY <5>1, <5>2
      <4>3. CanFinalize(s)'
        BY <4>1, <4>2, Zenon DEF CanFinalize, Ready, Started
      <4> QED
        BY <3>1, <3>4, <4>3 DEF FitLife
    <3>5. CASE phase \in {"stop", "stopAlgs"}
      <4>1. CASE s = x
        <5>1. Started(s) /\ Started(s)'
          BY <1>9, <1>11, <3>2, <3>5, <4>1 DEF ServiceLoop, Op, HookDue
        <5>2. state[s] # "INITIALIZED"
          <6>1. ~ Stopped(s)
            BY <5>1, Zenon DEF Started, Stopped
          <6> QED
            BY <3>3, <3>5, <6>1 DEF Lived
        <5> QED
          BY <3>1, <3>2, <3>5, <5>1, <5>2 DEF FitLife
      <4>2. CASE s # x
        BY <1>11, <3>1, <3>2, <3>3, <3>5, <4>2 DEF Lived, FitLife
      <4> QED
        BY <4>1, <4>2
    <3> QED
      BY <3>1, <3>4, <3>5
  <2> QED
    BY <1>5, <1>6, <1>9, <1>11, <2>2, <2>3, FailsLife
<1> QED
  BY <1>12, <1>13

\* The lives at the end of a loop are those with which the next one begins.
LEMMA NextLives ==
  ASSUME AppInv, LifeInv, Loop, stack[Main] = <<>>, todo = <<>>, UNCHANGED <<job, trace, failedIn>>,
         NEW p \in Phases,
         NEW from \in Phases, phase = from,
         <<from, p>> \in {<<"initialize", "initAlgs">>, <<"initAlgs", "start">>, <<"start", "startAlgs">>,
                          <<"startAlgs", "running">>, <<"stopAlgs", "stop">>, <<"stop", "finalizeAlgs">>,
                          <<"finalizeAlgs", "finalize">>},
         NEW st, state' = state \/ state' = Cores(st),
         NEW s \in Services
  PROVE  /\ Listed(list, s) => FitLife(p, s)'
         /\ Declares(s)' => Listed(list, s)
<1>1. /\ s \in AllServices /\ s \notin Range(Core)
      /\ Listed(list, s) => Lived(s) /\ StateInPhase(s)
      /\ Declares(s)' => Listed(list, s)
  BY LoopLives DEF Declares
<1>2. state'[s] = state[s]
  <2>1. state \in [AllServices \cup Algs -> States]
    BY DEF AppInv, AppType
  <2>2. state' = Cores(st) => state'[s] = state[s]
    BY <1>1, <2>1 DEF Cores
  <2> QED
    BY <2>2
<1>3. s \notin Range(todo) /\ ~ Hooked(s)
  BY DEF Range, Hooked
<1>4. /\ (Fresh(s)' <=> Fresh(s)) /\ (Ready(s)' <=> Ready(s)) /\ (Started(s)' <=> Started(s))
      /\ (Stopped(s)' <=> Stopped(s)) /\ (CanFinalize(s) => CanFinalize(s)')
  BY SameLife DEF Past
<1>5. Stopped(s) => CanFinalize(s)
  BY Zenon DEF Stopped, CanFinalize
<1>6. ASSUME Listed(list, s) PROVE FitLife(p, s)'
  <2>1. Lived(s) /\ StateInPhase(s)
    BY <1>1, <1>6
  <2>2. CASE from = "initialize" /\ p = "initAlgs"
    BY <1>2, <1>3, <1>4, <2>1, <2>2 DEF Lived, StateInPhase, FitLife
  <2>3. CASE from = "initAlgs" /\ p = "start"
    BY <1>2, <1>3, <1>4, <2>1, <2>3 DEF Lived, StateInPhase, FitLife
  <2>4. CASE from = "start" /\ p = "startAlgs"
    BY <1>2, <1>3, <1>4, <2>1, <2>4 DEF Lived, StateInPhase, FitLife
  <2>5. CASE from = "startAlgs" /\ p = "running"
    BY <1>2, <1>3, <1>4, <2>1, <2>5 DEF Lived, StateInPhase, FitLife
  <2>6. CASE from = "stopAlgs" /\ p = "stop"
    BY <1>2, <1>3, <1>4, <2>1, <2>6 DEF Lived, StateInPhase, FitLife
  <2>7. CASE from = "stop" /\ p = "finalizeAlgs"
    BY <1>2, <1>3, <1>4, <1>5, <2>1, <2>7 DEF Lived, StateInPhase, FitLife
  <2>8. CASE from = "finalizeAlgs" /\ p = "finalize"
    BY <1>2, <1>3, <1>4, <2>1, <2>8 DEF Lived, StateInPhase, FitLife
  <2> QED
    BY <2>2, <2>3, <2>4, <2>5, <2>6, <2>7, <2>8
<1> QED
  BY <1>1, <1>6

\* The loop is through.
LEMMA LoopEndsLife ==
  ASSUME AppInv, LifeInv, AppInv', LoopEnds
  PROVE  LifeInv'
<1> DEFINE rest == Selected(list, {i \in DOMAIN list : ~ list[i].active})
<1>1. Loop /\ stack[Main] = <<>> /\ todo = <<>> /\ UNCHANGED <<job, stack, trace>>
  BY DEF LoopEnds
<1>2. \A t \in Threads : stack'[t] = <<>>
  BY <1>1, LoopCalm DEF Threads
<1>3. list \in Seq(Entry) /\ Distinct(list)
  BY DEF AppInv, AppType
<1>4. failedIn \subseteq failedIn'
  BY DEF LoopEnds, FinalizeFails, PhaseFails
<1>5. HooksInOrder' /\ trace' \in Seq(Event)
  BY <1>1, <1>4, OrderSame DEF LifeInv
<1>6. ASSUME NEW from \in Phases, NEW p \in Phases \ {"configure"}, phase = from, Begin(p, list),
             UNCHANGED failedIn,
             <<from, p>> \in {<<"initialize", "initAlgs">>, <<"initAlgs", "start">>, <<"start", "startAlgs">>,
                              <<"startAlgs", "running">>, <<"stopAlgs", "stop">>, <<"stop", "finalizeAlgs">>,
                              <<"finalizeAlgs", "finalize">>},
             NEW st, state' = state \/ state' = Cores(st)
      PROVE  LifeInv'
  <2>1. \A s \in Services : (Listed(list, s) => FitLife(p, s)') /\ (Declares(s)' => Listed(list, s))
    BY <1>1, <1>6, NextLives
  <2> QED
    BY <1>2, <1>3, <1>5, <1>6, <2>1, BeginLife
<1>7. phase' \in {"terminate", "done"} => LifeInv'
  BY <1>2, <1>5, OverLife DEF Over
<1> HIDE DEF rest
<1>8. CASE UNCHANGED failedIn /\ Continues("initialize", "initAlgs")
  BY <1>6, <1>8 DEF Continues, Phases
<1>9. CASE UNCHANGED failedIn /\ InitializeEnds
  BY <1>6, <1>9 DEF InitializeEnds, Phases
<1>10. CASE UNCHANGED failedIn /\ Continues("start", "startAlgs")
  BY <1>6, <1>10 DEF Continues, Phases
<1>11. CASE UNCHANGED failedIn /\ StartEnds
  BY <1>6, <1>11 DEF StartEnds, Phases
<1>12. CASE UNCHANGED failedIn /\ Continues("stopAlgs", "stop")
  BY <1>6, <1>12 DEF Continues, Phases
<1>13. CASE UNCHANGED failedIn /\ StopEnds
  BY <1>6, <1>13 DEF StopEnds, Phases
<1>14. CASE UNCHANGED failedIn /\ Continues("finalizeAlgs", "finalize")
  BY <1>6, <1>14 DEF Continues, Phases
<1>15. CASE FinalizeEnds
  BY <1>7, <1>15 DEF FinalizeEnds, Begin
<1>16. CASE FinalizeFails
  BY <1>7, <1>16 DEF FinalizeFails, PhaseFails, Begin, Towards
<1> QED
  BY <1>8, <1>9, <1>10, <1>11, <1>12, <1>13, <1>14, <1>15, <1>16 DEF LoopEnds

\* The runable returns.
LEMMA RunableLife ==
  ASSUME AppInv, LifeInv, AppInv', RunableReturns
  PROVE  LifeInv'
<1>1. /\ phase = "running" /\ (\A t \in Workers : stack[t] = <<>>)
      /\ UNCHANGED <<job, state, stack, trace>>
  BY DEF RunableReturns
<1>2. stack[Main] = <<>>
  BY <1>1 DEF AppInv, HooksNested, Loop
<1>3. /\ \A t \in Threads : stack[t] = <<>> /\ stack'[t] = <<>>
      /\ list \in Seq(Entry) /\ Distinct(list)
  BY <1>1, <1>2 DEF AppInv, AppType, Threads
<1>4. failedIn \subseteq failedIn'
  BY DEF RunableReturns, PhaseFails
<1>5. HooksInOrder' /\ trace' \in Seq(Event)
  BY <1>1, <1>4, OrderSame DEF LifeInv
<1>6. ASSUME NEW s \in Services
      PROVE  /\ Listed(list, s) => FitLife("stopAlgs", s)'
             /\ Declares(s)' => Listed(list, s)
  <2>1. ~ UnderWay(s) /\ s \in AllServices
    BY <1>3 DEF UnderWay, Creating, AllServices
  <2>2. /\ Listed(list, s) => Lived(s) /\ StateInPhase(s)
        /\ Declares(s)' => Listed(list, s)
    BY <1>1, <2>1 DEF LifeInv, LifeKept, Over, AppInv, ListedInState, Declares
  <2>3. Started(s)' <=> Started(s)
    BY <1>1, <1>4, SameLife DEF Past
  <2> QED
    BY <1>1, <2>2, <2>3 DEF Lived, StateInPhase, FitLife
<1>7. CASE Begin("stopAlgs", list)
  <2>1. "stopAlgs" \in Phases \ {"configure"}
    BY DEF Phases
  <2> QED
    BY <1>3, <1>5, <1>6, <1>7, <2>1, BeginLife
<1>8. CASE PhaseFails("RUNNING", list)
  <2>1. Towards("RUNNING") = "stopAlgs" /\ "RUNNING" \in States
    BY DEF Towards, States, Rank
  <2> QED
    BY <1>3, <1>5, <1>6, <1>8, <2>1, FailsLife
<1> QED
  BY <1>7, <1>8 DEF RunableReturns

\* terminate(): the job is done.
LEMMA TerminateLife ==
  ASSUME AppInv, LifeInv, Terminate
  PROVE  LifeInv'
<1>1. phase = "terminate" /\ phase' = "done" /\ UNCHANGED <<job, stack, trace, failedIn>>
  BY DEF Terminate, Begin
<1>2. HooksInOrder' /\ trace' \in Seq(Event)
  BY <1>1, OrderSame DEF LifeInv
<1>3. \A t \in Threads : stack'[t] = <<>>
  BY <1>1 DEF AppInv, HooksNested, Loop, Threads
<1> QED
  BY <1>1, <1>2, <1>3, OverLife DEF Over

\* A declared service is listed by configure().
LEMMA DeclaredListed ==
  ASSUME job \in Jobs, NEW i \in DOMAIN job.declared
  PROVE  Listed(ConfiguredList(Len(job.declared)), job.declared[i].svc)
<1> DEFINE n == Len(job.declared)
           a == [k \in DOMAIN Core |-> Item(Core[k], 0, FALSE)]
           b == [k \in 1..n |-> Item(job.declared[k].svc, job.declared[k].prio, TRUE)]
<1>1. n \in Nat /\ DOMAIN job.declared = 1..n
  BY JobsAssumption
<1>2. b \in Seq({b[k] : k \in 1..n}) /\ Len(b) = n
  <2>1. b \in [1..n -> {b[k] : k \in 1..n}]
    BY Zenon
  <2>2. DOMAIN b = 1..n
    OBVIOUS
  <2> HIDE DEF b, n
  <2>3. b \in Seq({b[k] : k \in 1..n})
    BY <1>1, <2>1, FunctionIsSeq
  <2> QED
    BY <1>1, <2>2, <2>3
<1>3. a \in Seq({a[k] : k \in 1..2}) /\ Len(a) = 2
  BY DEF Core
<1>4. b[i].svc = job.declared[i].svc
  BY <1>1 DEF Item
<1> HIDE DEF a, b
<1>5. 2 + i \in DOMAIN (a \o b) /\ (a \o b)[2 + i] = b[i]
  <2> DEFINE T == {a[k] : k \in 1..2} \cup {b[k] : k \in 1..n}
  <2>1. a \in Seq(T) /\ b \in Seq(T)
    BY <1>2, <1>3
  <2> HIDE DEF T
  <2>2. /\ a \o b \in Seq(T) /\ Len(a \o b) = 2 + n
        /\ \A k \in 1..(2 + n) : (a \o b)[k] = IF k <= 2 THEN a[k] ELSE b[k - 2]
    <3>1. /\ a \o b \in Seq(T) /\ Len(a \o b) = Len(a) + Len(b)
          /\ \A k \in 1..(Len(a) + Len(b)) : (a \o b)[k] = IF k <= Len(a) THEN a[k] ELSE b[k - Len(a)]
      BY <2>1, ConcatProperties, Zenon
    <3> QED
      BY <1>2, <1>3, <3>1, Zenon
  <2>3. i \in 1..n /\ 2 + i \in 1..(2 + n) /\ ~ (2 + i <= 2) /\ (2 + i) - 2 = i
    BY <1>1
  <2>4. (a \o b)[2 + i] = b[i]
    BY <2>2, <2>3, Zenon
  <2>5. DOMAIN (a \o b) = 1..(2 + n)
    <3>1. PICK q \in Seq(T) : q = a \o b
      BY <2>2
    <3>2. Len(q) = 2 + n
      BY <2>2, <3>1
    <3> QED
      BY <3>1, <3>2
  <2> QED
    BY <2>3, <2>4, <2>5
<1> QED
  BY <1>4, <1>5 DEF Listed, ConfiguredList, a, b

\* configure(): the declared services are created, and nothing else is logged.
LEMMA ConfigureLife ==
  ASSUME AppInv, LifeInv, AppInv', Configure
  PROVE  LifeInv'
<1>1. phase = "configure" /\ UNCHANGED <<job, stack>>
  BY DEF Configure
<1>2. PICK n \in 0..Len(job.declared) :
        /\ state' = [x \in DOMAIN state |-> IF x \in Range(Core) THEN "INITIALIZED" ELSE state[x]]
        /\ trace' = [i \in 1..n |-> <<"create", job.declared[i].svc, "CONFIGURED">>]
        /\ IF n = Len(job.declared)
           THEN Begin("initialize", ConfiguredList(n))
           ELSE PhaseFails("OFFLINE", ConfiguredList(n))
  BY DEF Configure, ConfiguredList
<1> DEFINE l == ConfiguredList(n)
<1>3. \A t \in Threads : stack'[t] = <<>>
  BY <1>1 DEF AppInv, HooksNested, Loop, Threads
<1>4. job \in Jobs /\ state \in [AllServices \cup Algs -> States]
  BY DEF AppInv, AppType
<1>5. l \in Seq(Entry) /\ Distinct(l)
  BY <1>4, Configured
<1>6. \A s \in AllServices : state[s] = "OFFLINE"
  <2>1. list = <<>> /\ ~ Over
    BY <1>1 DEF AppInv, ActiveListed, Over
  <2>2. \A s : ~ Listed(list, s)
    BY <2>1 DEF Listed
  <2> QED
    BY <2>1, <2>2 DEF AppInv, ListedInState
<1>7. PICK tr : tr = trace'
  OBVIOUS
<1>8. n \in Nat /\ tr \in [1..n -> Event] /\ \A i \in 1..n : tr[i][1] = "create"
  <2>1. job.declared \in Seq([svc : Services, prio : Int])
    BY <1>4, JobsAssumption
  <2>2. PICK d : d = job.declared
    OBVIOUS
  <2>3. n \in Nat /\ 1..n \subseteq DOMAIN d
    BY <2>1, <2>2
  <2>4. \A i \in 1..n : d[i].svc \in Services
    <3> DEFINE R == [svc : Services, prio : Int]
    <3>1. d \in Seq(R)
      BY <2>1, <2>2
    <3> HIDE DEF R
    <3>2. \A i \in DOMAIN d : d[i] \in R
      BY <3>1
    <3> QED
      BY <2>3, <3>2 DEF R
  <2>5. "CONFIGURED" \in States
    BY DEF States, Rank
  <2>6. \A i \in 1..n : <<"create", d[i].svc, "CONFIGURED">> \in Event
    BY <2>4, <2>5 DEF Event, AllServices
  <2>7. tr = [i \in 1..n |-> <<"create", d[i].svc, "CONFIGURED">>]
    BY <1>2, <1>7, <2>2
  <2> QED
    BY <2>3, <2>6, <2>7
<1>9. tr \in Seq(Event) /\ DOMAIN tr = 1..n /\ Len(tr) = n
  <2>1. tr \in Seq(Event)
    BY <1>8, FunctionIsSeq
  <2>2. DOMAIN tr = 1..n
    BY <1>8
  <2> QED
    BY <1>8, <2>1, <2>2
<1>10. HooksInOrder'
  <2>1. CASE n = 0
    <3>1. tr = <<>>
      BY <1>9, <2>1
    <3> QED
      BY <1>7, <3>1 DEF HooksInOrder
  <2>2. CASE n # 0
    <3>1. Last(tr)[1] = "create"
      BY <1>8, <1>9, <2>2 DEF Last
    <3> QED
      BY <1>7, <3>1 DEF HooksInOrder
  <2> QED
    BY <2>1, <2>2
<1>11. \A s : Fresh(s)'
  <2>1. \A s : \A e \in LifeOf(tr, s) : e[1] = "create"
    BY <1>8, <1>9 DEF LifeOf
  <2>2. \A s, o : Tried(s, o)' => o = "create"
    BY <1>7, <2>1 DEF Tried, Past
  <2> QED
    BY <2>2 DEF Fresh, Ops
<1>12. CASE n = Len(job.declared)
  <2>1. "initialize" \in Phases \ {"configure"} /\ Begin("initialize", l)
    BY <1>2, <1>12 DEF Phases
  <2>2. ASSUME NEW s \in Services
        PROVE  FitLife("initialize", s)' /\ (Declares(s)' => Listed(l, s))
    <3>1. s \in AllServices /\ s \notin Range(Core)
      BY NamesAssumption DEF AllServices
    <3>2. state'[s] = "OFFLINE"
      BY <1>2, <1>4, <1>6, <3>1
    <3>3. FitLife("initialize", s)'
      BY <1>11, <3>2 DEF FitLife
    <3>4. Declares(s)' => Listed(l, s)
      BY <1>1, <1>4, <1>12, DeclaredListed DEF Declares
    <3> QED
      BY <3>3, <3>4
  <2> HIDE DEF l
  <2> QED
    BY <1>3, <1>5, <1>7, <1>9, <1>10, <2>1, <2>2, BeginLife
<1>13. CASE n # Len(job.declared)
  <2>1. PhaseFails("OFFLINE", l) /\ "OFFLINE" \in States
    BY <1>2, <1>13 DEF States, Rank
  <2> HIDE DEF l
  <2> QED
    BY <1>3, <1>5, <1>7, <1>9, <1>10, <2>1, FailsLife
<1> QED
  BY <1>12, <1>13

-----------------------------------------------------------------------------
(* The life cycle.                                                         *)

\* At the start there is no history.
LEMMA InitLife == Init => LifeInv
<1> SUFFICES ASSUME Init PROVE LifeInv
  OBVIOUS
<1>1. trace = <<>> /\ phase = "configure" /\ \A t \in Threads : stack[t] = <<>>
  BY DEF Init
<1>2. \A s, op : ~ HookAt(s, op)
  BY <1>1 DEF HookAt
<1>3. HooksInOrder /\ trace \in Seq(Event) /\ ~ ServiceLoop
  BY <1>1 DEF HooksInOrder, ServiceLoop
<1> QED
  BY <1>1, <1>2, <1>3 DEF LifeInv, LifeKept

\* Every step keeps the lives in order.
LEMMA NextLife == AppInv /\ LifeInv /\ AppInv' /\ [Next]_vars => LifeInv'
<1> SUFFICES ASSUME AppInv, LifeInv, AppInv', [Next]_vars PROVE LifeInv'
  OBVIOUS
<1>1. ASSUME NEW x \in AllServices \cup Algs, Skip(x) \/ CallHook(x) \/ ChangeStateThrows(x)
      PROVE  LifeInv'
  BY <1>1, SkipLife, CallHookLife, ThrowsLife
<1>2. ASSUME NEW t \in Threads, ThreadSteps(t) PROVE LifeInv'
  BY <1>2, ThreadLife
<1>3. CASE UNCHANGED vars
  <2>1. UNCHANGED <<job, list, state, stack, trace, phase, todo, failedIn, appVars>>
    BY <1>3 DEF vars, svcVars, appVars
  <2>2. HooksInOrder' /\ trace' \in Seq(Event) /\ AppKept
    BY <2>1, OrderSame DEF LifeInv, AppInv, AppType, AppKept, TodoKept, appVars
  <2>3. ASSUME NEW s \in Services PROVE LifeKept(s)'
    <3>1. SameService(s)
      BY <2>1 DEF SameService, UnderWay, Creating, Past, HookAt
    <3> QED
      BY <2>1, <2>2, <3>1, SameServiceLife DEF LifeInv
  <2> QED
    BY <2>1, <2>2, <2>3 DEF LifeInv, ServiceLoop
<1> QED
  BY <1>1, <1>2, <1>3, ConfigureLife, LoopHookLife, LoopEndsLife, RunableLife, TerminateLife DEF Next, Ended

\* The life cycle of every service is that of the state machine, whatever is
\* created on demand, whatever fails and wherever: initialize() once, start()
\* and stop() from the right state, finalize() once and only after what has to
\* precede it; and the loops of ServiceManager never meet a service that is "not
\* in the correct state".
THEOREM LifeCyclesAreSound == Spec => []LifeCycleSound
<1>1. Init => AppInv /\ RequestsAnswered /\ LifeInv
  BY InitInv, InitLife
<1>2. AppInv /\ RequestsAnswered /\ LifeInv /\ [Next]_vars => (AppInv /\ RequestsAnswered /\ LifeInv)'
  BY NextInv, NextLife
<1>3. AppInv /\ RequestsAnswered /\ LifeInv => LifeCycleSound
  BY RightState DEF LifeInv, LifeCycleSound
<1> QED
  BY <1>1, <1>2, <1>3, PTL DEF Spec
=============================================================================
