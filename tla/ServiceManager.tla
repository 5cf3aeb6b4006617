-------------------------- MODULE ServiceManager --------------------------
(* The services of an application: ServiceManager's list, the hooks the     *)
(* Service base class runs, and the managed algorithms of AlgorithmManager. *)
(* Threads run hooks as nested calls: a hook asks for services, and the one *)
(* that does not exist yet is created and initialised inside that call.     *)
(* What the hooks of a service do besides asking is not modelled; whether   *)
(* they succeed is chosen, with at most maxFailures failures of their own   *)
(* in a job.                                                                *)
EXTENDS Integers, SequencesExt, Lists

CONSTANTS
  Services, Algs,       \* names
  Workers,              \* threads that ask for services during the event loop
  Jobs                  \* configurations, see the fields of job below

Main == "main"
Threads == Workers \cup {Main}
Core == <<"MessageSvc", "JobOptionsSvc">>
AllServices == Services \cup Range(Core)
Rank == [OFFLINE |-> 0, CONFIGURED |-> 1, INITIALIZED |-> 2, RUNNING |-> 3]
States == DOMAIN Rank
DefaultPriority == 10

ASSUME NamesAssumption ==
  /\ Main \notin Workers /\ Services \cap Range(Core) = {} /\ AllServices \cap Algs = {}
  /\ (AllServices \cup Algs) \cap Threads = {}
(* No service is declared twice: the second time would only set a priority. *)
ASSUME JobsAssumption ==
  \A j \in Jobs :
    /\ j.declared \in Seq([svc : Services, prio : Int])
    /\ \A i, k \in DOMAIN j.declared : j.declared[i].svc = j.declared[k].svc => i = k

VARIABLES
  job,        \* declared, needs, early, asks and maxFailures: fixed
  target,     \* m_targetState of the ApplicationMgr
  list,       \* m_listsvc
  algs,       \* m_algs, the managed ones
  state,      \* FSMState() of every service and algorithm
  stack,      \* per thread, the hooks under way, innermost last
  asks,       \* per worker, the services it still asks for
  failures,
  trace,      \* history: every hook that returned, in order, and every creation
  handed      \* history: the answers to every request

svcVars == <<job, target, list, algs, state, stack, asks, failures, trace, handed>>

MaxFailures == job.maxFailures

Item(s, prio, active) == [svc |-> s, prio |-> prio, active |-> active]
Listed(l, s) == \E i \in DOMAIN l : l[i].svc = s
Find(l, s) == l[CHOOSE i \in DOMAIN l : l[i].svc = s]

Without(l, s) == Selected(l, {i \in DOMAIN l : l[i].svc # s})

(* std::list::sort: stable, by priority.                                    *)
Sorted(l) ==
  Arranged(l, DOMAIN l,
           [i \in DOMAIN l |-> {j \in DOMAIN l : \/ l[j].prio < l[i].prio
                                                 \/ l[j].prio = l[i].prio /\ j < i}])

ActiveSvc(l) ==
  LET active == Selected(l, {i \in DOMAIN l : l[i].active})
  IN  [i \in DOMAIN active |-> active[i].svc]

\* Mutants: the entry stays where creation put it; it is never made active.
StayInPlace(l, s) ==
  [i \in DOMAIN l |-> IF l[i].svc = s THEN [l[i] EXCEPT !.active = TRUE] ELSE l[i]]
MoveInactive(l, s) == Append(Without(l, s), Find(l, s))

(* addService after a successful initialisation: the entry goes to the back *)
(* of the list and becomes active.                                          *)
MoveToBack(l, s) == Append(Without(l, s), [Find(l, s) EXCEPT !.active = TRUE])

Needs(who, op) == IF <<who, op>> \in DOMAIN job.needs THEN job.needs[<<who, op>>] ELSE <<>>

Frame(who, op, onDemand) ==
  [who |-> who, op |-> op, next |-> 1, refused |-> FALSE, onDemand |-> onDemand]
Top(t) == Last(stack[t])

\* Mutant: no mutex.
NoLock(t, s) == TRUE

(* The mutex of a name is held for the whole creation of that service and   *)
(* is recursive.                                                            *)
LockIsFree(t, s) ==
  \A u \in Threads \ {t} : \A i \in DOMAIN stack[u] :
    ~ (stack[u][i].who = s /\ stack[u][i].onDemand)

(* The answer of service() or algorithm() reaches the hook that asked, or   *)
(* the worker thread itself.                                                *)
Told(f, refused) == [f EXCEPT !.next = @ + 1, !.refused = @ \/ refused]
Answered(stk, refused) ==
  IF stk = <<>> THEN stk ELSE [stk EXCEPT ![Len(stk)] = Told(stk[Len(stk)], refused)]

Answer(t, stk, x, got) ==
  /\ stack' = [stack EXCEPT ![t] = Answered(stk, got \notin States)]
  /\ handed' = handed \cup
       {[to |-> IF stk = <<>> THEN t ELSE Last(stk).who,
         op |-> IF stk = <<>> THEN "execute" ELSE Last(stk).op,
         svc |-> x, got |-> got,
         own |-> \E i \in DOMAIN stack[t] : stack[t][i].who = x]}

(* FSMState() once the hook has begun: Service::initialize of the base      *)
(* class comes first, except in the services of job.early, which ask before *)
(* they call it.                                                            *)
Begun(x, op) ==
  IF x \in AllServices /\ op = "initialize" /\ x \notin job.early
  THEN [state EXCEPT ![x] = "CONFIGURED"] ELSE state

(* The hook of x is called: sysInitialize, sysStart, sysStop, sysFinalize.  *)
Call(t, stk, x, op, onDemand) ==
  stack' = [stack EXCEPT ![t] = Append(stk, Frame(x, op, onDemand))]

(* service(name) for a name in the list: the loop check only looks at the   *)
(* state.                                                                   *)
LoopCheck(x) == state[x] = "CONFIGURED"

ServiceFound(t, x) ==
  /\ x \in AllServices
  /\ LockIsFree(t, x)
  /\ Listed(list, x)
  /\ Answer(t, stack[t], x, IF LoopCheck(x) THEN "loop" ELSE state[x])
  /\ UNCHANGED <<list, algs, state, failures, trace>>

(* createService finds no factory for the type.                             *)
NoFactory(t, x) ==
  /\ x \in AllServices
  /\ LockIsFree(t, x)
  /\ ~ Listed(list, x)
  /\ failures < MaxFailures
  /\ failures' = failures + 1
  /\ Answer(t, stack[t], x, "none")
  /\ UNCHANGED <<list, algs, state, trace>>

(* addService for a name that is not in the list: created, and brought to   *)
(* the target state of the application.                                     *)
ServiceCreated(t, x) ==
  /\ x \in AllServices
  /\ LockIsFree(t, x)
  /\ ~ Listed(list, x)
  /\ trace' = Append(trace, <<"create", x, target>>)
  /\ IF Rank[target] >= Rank["INITIALIZED"]
     THEN /\ list' = Append(list, Item(x, DefaultPriority, FALSE))
          /\ state' = Begun(x, "initialize")
          /\ Call(t, stack[t], x, "initialize", TRUE)
          /\ UNCHANGED handed
     ELSE /\ list' = Append(list, Item(x, DefaultPriority, TRUE))
          /\ Answer(t, stack[t], x, state[x])
          /\ UNCHANGED state
  /\ UNCHANGED <<algs, failures>>

(* AlgorithmManager::algorithm and createAlgorithm, managed.                *)
Algorithm(t, x) ==
  /\ x \in Algs
  /\ IF x \in Range(algs)
     THEN /\ Answer(t, stack[t], x, state[x])
          /\ UNCHANGED <<algs, trace>>
     ELSE /\ algs' = Append(algs, x)
          /\ trace' = Append(trace, <<"create", x, target>>)
          /\ IF Rank[target] >= Rank["INITIALIZED"]
             THEN Call(t, stack[t], x, "initialize", TRUE) /\ UNCHANGED handed
             ELSE Answer(t, stack[t], x, state[x])
  /\ UNCHANGED <<list, state, failures>>

Retrieve(t, x) ==
  \/ ServiceFound(t, x)
  \/ NoFactory(t, x)
  \/ ServiceCreated(t, x)
  \/ Algorithm(t, x)

(* A hook under way asks for the next thing it needs.                       *)
HookAsks(t) ==
  /\ stack[t] # <<>>
  /\ LET f == Top(t) IN
       /\ f.next <= Len(Needs(f.who, f.op))
       /\ Retrieve(t, Needs(f.who, f.op)[f.next])
  /\ UNCHANGED <<job, target, asks>>

(* FSMState() after the hook has returned: Service and Algorithm differ in  *)
(* what finalize leaves.                                                    *)
Reached(x, op) ==
  CASE op = "initialize" -> "INITIALIZED"
    [] op = "start"      -> "RUNNING"
    [] op = "stop"       -> "INITIALIZED"
    [] op = "finalize"   -> IF x \in Algs THEN "CONFIGURED" ELSE "OFFLINE"

(* A service that addService gives up on is deleted: the next request makes *)
(* a new one.                                                               *)
Returned(f, ok) ==
  CASE ok -> [state EXCEPT ![f.who] = Reached(f.who, f.op)]
    [] ~ ok /\ f.onDemand /\ f.who \notin Algs -> [state EXCEPT ![f.who] = "OFFLINE"]
    [] ~ ok /\ ~ f.onDemand /\ f.op = "initialize" -> [state EXCEPT ![f.who] = "CONFIGURED"]
    [] OTHER -> state

(* The hook on top of t's stack has asked for everything and returns.       *)
HookReturns(t, ok) ==
  /\ stack[t] # <<>>
  /\ LET f == Top(t) IN
       /\ f.next > Len(Needs(f.who, f.op))
       /\ failures' = IF ok \/ f.refused THEN failures ELSE failures + 1
       /\ failures' <= MaxFailures
       /\ state' = Returned(f, ok)
       /\ trace' = Append(trace, <<f.op, f.who, ok>>)
  /\ UNCHANGED <<job, asks>>

(* addService and createAlgorithm after sysInitialize: started at once in a *)
(* running application.                                                     *)
StartAtOnce(f, ok) == ok /\ f.op = "initialize" /\ target = "RUNNING"

(* The rest of addService: the failed service leaves the list, the other    *)
(* one goes to its end. A failed algorithm stays in m_algs.                 *)
AfterAdd(l, f, ok) ==
  CASE f.who \in Algs -> l
    [] f.who \notin Algs /\ ok -> MoveToBack(l, f.who)
    [] OTHER -> Without(l, f.who)

OnDemandReturns(t) ==
  \E ok \in BOOLEAN :
    /\ HookReturns(t, ok)
    /\ LET f == Top(t) below == Front(stack[t]) IN
         /\ f.onDemand
         /\ IF StartAtOnce(f, ok)
            THEN Call(t, below, f.who, "start", TRUE) /\ UNCHANGED <<list, handed>>
            ELSE /\ Answer(t, below, f.who, IF ok THEN Reached(f.who, f.op) ELSE "failed")
                 /\ list' = AfterAdd(list, f, ok)
    /\ UNCHANGED <<algs, target>>

(* An algorithm run by a worker thread asks for a service.                  *)
WorkerAsks(t) ==
  /\ stack[t] = <<>>
  /\ asks[t] # <<>>
  /\ Retrieve(t, Head(asks[t]))
  /\ asks' = [asks EXCEPT ![t] = Tail(@)]
  /\ UNCHANGED <<job, target>>
=============================================================================
