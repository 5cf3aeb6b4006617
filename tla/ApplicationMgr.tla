-------------------------- MODULE ApplicationMgr --------------------------
(* ApplicationMgr::run: the application is configured, initialised, started *)
(* and run, then stopped, finalised and terminated; every phase is a loop   *)
(* over the managed services or algorithms. GoToState decides what is still *)
(* done when a phase fails.                                                 *)
EXTENDS ServiceManager

CONSTANTS
  ToolSvc,          \* the name whose priority the late services follow
  LateOffset        \* late service |-> how far its priority goes below ToolSvc's

ASSUME LateAssumption == \A s \in DOMAIN LateOffset : LateOffset[s] \in Nat

VARIABLES
  appState,         \* m_state
  phase,            \* the phase of run() under way
  todo,             \* what is left of the copy or list the phase goes through
  closing,          \* GoToState(OFFLINE, true) is under way
  sc,               \* the status code of run()
  svcFinalize,      \* sc of ServiceManager::finalize
  returnCode,       \* m_returnCode
  failedIn          \* history: the phases that failed

appVars == <<appState, phase, todo, closing, sc, svcFinalize, returnCode, failedIn>>
vars == <<svcVars, appVars>>

Phases ==
  {"configure", "initialize", "initAlgs", "start", "startAlgs", "running",
   "stopAlgs", "stop", "finalizeAlgs", "finalize", "terminate", "done", "threw"}

Init ==
  /\ job \in Jobs
  /\ target = "OFFLINE" /\ appState = "OFFLINE"
  /\ list = <<>> /\ algs = <<>>
  /\ state = [x \in AllServices \cup Algs |-> IF x \in Algs THEN "CONFIGURED" ELSE "OFFLINE"]
  /\ stack = [t \in Threads |-> <<>>]
  /\ asks = [t \in Workers |-> job.asks[t]]
  /\ failures = 0 /\ trace = <<>> /\ handed = {}
  /\ phase = "configure" /\ todo = <<>> /\ closing = FALSE
  /\ sc = "success" /\ svcFinalize = "success" /\ returnCode = "Success" /\ failedIn = {}

-----------------------------------------------------------------------------
(* The priorities that ServiceManager::finalize sets.                       *)
LatePriorities(l) ==
  IF Listed(l, ToolSvc) /\ Find(l, ToolSvc).prio # 0
  THEN [i \in DOMAIN l |->
          IF l[i].svc \in DOMAIN LateOffset
          THEN [l[i] EXCEPT !.prio = Find(l, ToolSvc).prio - LateOffset[l[i].svc]]
          ELSE l[i]]
  ELSE l

(* The list as the phase finds it, and what it goes through.                *)
Prepared(p, l) ==
  CASE p \in {"initialize", "start", "stop"} -> Sorted(l)
    [] p = "finalize" -> Sorted(LatePriorities(l))
    [] OTHER -> l

Work(p, l) ==
  CASE p \in {"initialize", "start"} -> ActiveSvc(l)
    [] p \in {"stop", "finalize"} -> Reverse(ActiveSvc(l))
    [] p \in {"initAlgs", "startAlgs", "stopAlgs", "finalizeAlgs"} -> algs
    [] OTHER -> <<>>

\* Mutant: stop() leaves the target state as it was.
TargetKept(p) ==
  CASE p = "initialize" -> "INITIALIZED"
    [] p = "start" -> "RUNNING"
    [] p = "finalizeAlgs" -> "CONFIGURED"
    [] p = "terminate" -> "OFFLINE"
    [] OTHER -> IF phase = "configure" THEN "CONFIGURED" ELSE target

(* m_targetState is set when a transition begins.                           *)
Target(p) ==
  CASE p = "initialize" -> "INITIALIZED"
    [] p = "start" -> "RUNNING"
    [] p = "stopAlgs" -> "INITIALIZED"
    [] p = "finalizeAlgs" -> "CONFIGURED"
    [] p = "terminate" -> "OFFLINE"
    [] OTHER -> IF phase = "configure" THEN "CONFIGURED" ELSE target

Begin(p, l) ==
  /\ phase' = p
  /\ target' = Target(p)
  /\ list' = Prepared(p, l)
  /\ todo' = Work(p, list')

(* What GoToState(OFFLINE) does first in each state.                        *)
Towards(s) ==
  CASE s = "OFFLINE" -> "done"
    [] s = "CONFIGURED" -> "terminate"
    [] s = "INITIALIZED" -> "finalizeAlgs"
    [] s = "RUNNING" -> "stopAlgs"

\* Mutant: ignoreFailures does not force the state.
PhaseFailsUnforced(s, l) ==
  /\ sc' = "failure"
  /\ failedIn' = failedIn \cup {phase}
  /\ closing' = TRUE
  /\ appState' = s
  /\ Begin(IF closing THEN "done" ELSE Towards(s), l)

(* A phase fails with the application in state s: run() tries to close the  *)
(* application anyway, and when that fails too the state is forced.         *)
PhaseFails(s, l) ==
  /\ sc' = "failure"
  /\ failedIn' = failedIn \cup {phase}
  /\ closing' = TRUE
  /\ appState' = IF closing THEN "OFFLINE" ELSE s
  /\ Begin(IF closing THEN "done" ELSE Towards(s), l)

-----------------------------------------------------------------------------
(* configure(): the two core services are created and initialised, then the *)
(* declared services are created; the first that cannot be created ends it. *)
Configure ==
  /\ phase = "configure"
  /\ \E n \in 0..Len(job.declared) :
       LET l == [i \in DOMAIN Core |-> Item(Core[i], 0, FALSE)]
                 \o [i \in 1..n |-> Item(job.declared[i].svc, job.declared[i].prio, TRUE)]
       IN  /\ state' = [x \in DOMAIN state |->
                          IF x \in Range(Core) THEN "INITIALIZED" ELSE state[x]]
           /\ trace' = [i \in 1..n |-> <<"create", job.declared[i].svc, "CONFIGURED">>]
           /\ IF n = Len(job.declared)
              THEN /\ appState' = "CONFIGURED"
                   /\ Begin("initialize", l)
                   /\ UNCHANGED <<failures, closing, sc, failedIn>>
              ELSE /\ failures < MaxFailures
                   /\ failures' = failures + 1
                   /\ PhaseFails("OFFLINE", l)
  /\ UNCHANGED <<job, algs, stack, asks, handed, svcFinalize, returnCode>>

-----------------------------------------------------------------------------
(* What a phase does with the next service or algorithm, by its state. The  *)
(* default branches of ServiceManager, "not in the correct state", are never *)
(* taken: LoopsFindRightState.                                              *)
Op(p) ==
  CASE p \in {"initialize", "initAlgs"} -> "initialize"
    [] p \in {"start", "startAlgs"} -> "start"
    [] p \in {"stop", "stopAlgs"} -> "stop"
    [] p \in {"finalize", "finalizeAlgs"} -> "finalize"

Loop == phase \in Phases \ {"configure", "running", "terminate", "done", "threw"}
AlgLoop == phase \in {"initAlgs", "startAlgs", "stopAlgs", "finalizeAlgs"}

Skips(x) ==
  CASE phase \in {"initialize", "stop", "stopAlgs"} -> state[x] = "INITIALIZED"
    [] phase \in {"start", "startAlgs"} -> state[x] = "RUNNING"
    [] phase = "initAlgs" -> Rank[state[x]] >= Rank["INITIALIZED"]
    [] phase = "finalizeAlgs" -> state[x] = "CONFIGURED"
    [] phase = "finalize" -> FALSE

Calls(x) ==
  CASE phase = "initialize" -> state[x] = "OFFLINE"
    [] phase = "initAlgs" -> state[x] = "CONFIGURED"
    [] phase \in {"start", "startAlgs", "finalizeAlgs"} -> state[x] = "INITIALIZED"
    [] phase \in {"stop", "stopAlgs"} -> state[x] = "RUNNING"
    [] phase = "finalize" -> TRUE

NextInLoop(x) == Loop /\ stack[Main] = <<>> /\ todo # <<>> /\ x = Head(todo)

Finished(x) == IF phase = "finalizeAlgs" THEN Selected(algs, {i \in DOMAIN algs : algs[i] # x}) ELSE algs

Skip(x) ==
  /\ NextInLoop(x)
  /\ Skips(x)
  /\ todo' = Tail(todo)
  /\ algs' = Finished(x)
  /\ UNCHANGED <<job, target, list, state, stack, asks, failures, trace, handed,
                 appState, phase, closing, sc, svcFinalize, returnCode, failedIn>>

CallHook(x) ==
  /\ NextInLoop(x)
  /\ ~ Skips(x)
  /\ Calls(x)
  /\ state' = Begun(x, Op(phase))
  /\ Call(Main, <<>>, x, Op(phase), FALSE)
  /\ UNCHANGED <<job, target, list, algs, asks, failures, trace, handed, appVars>>

(* Algorithm::sysStop, sysFinalize: ChangeState throws, outside their try   *)
(* blocks, and nothing in run() catches it.                                 *)
ChangeStateThrows(x) ==
  /\ NextInLoop(x)
  /\ AlgLoop
  /\ ~ Skips(x) /\ ~ Calls(x)
  /\ phase' = "threw"
  /\ failedIn' = failedIn \cup {phase}
  /\ UNCHANGED <<svcVars, appState, todo, closing, sc, svcFinalize, returnCode>>

(* A hook called by the loop returns. A failure ends every loop but that of *)
(* ServiceManager::finalize; AlgorithmManager::finalize only leaves a mark  *)
(* in the return code.                                                      *)
LoopHookReturns ==
  \E ok \in BOOLEAN :
    /\ HookReturns(Main, ok)
    /\ LET f == Top(Main) IN
         /\ ~ f.onDemand
         /\ stack' = [stack EXCEPT ![Main] = <<>>]
         /\ algs' = IF ok THEN Finished(f.who) ELSE algs
         /\ IF ok \/ f.op = "finalize"
            THEN /\ todo' = IF ~ ok /\ phase = "finalizeAlgs" THEN <<>> ELSE Tail(todo)
                 /\ returnCode' = IF ok THEN returnCode ELSE "FinalizationFailure"
                 /\ svcFinalize' = IF ~ ok /\ phase = "finalize" THEN "failure" ELSE svcFinalize
                 /\ failedIn' = IF ok THEN failedIn ELSE failedIn \cup {phase}
                 /\ UNCHANGED <<list, target, appState, phase, closing, sc>>
            ELSE /\ PhaseFails(appState, list)
                 /\ UNCHANGED <<svcFinalize, returnCode>>
    /\ UNCHANGED handed

(* The loop is through: the next phase of the transition, or of the job.    *)
Cores(s) == [x \in DOMAIN state |-> IF x \in Range(Core) THEN s ELSE state[x]]

Continues(p, next) ==
  /\ phase = p
  /\ Begin(next, list)
  /\ UNCHANGED <<state, appState>>

InitializeEnds ==
  /\ phase = "initAlgs"
  /\ appState' = "INITIALIZED"
  /\ state' = Cores("RUNNING")
  /\ Begin("start", list)

StartEnds ==
  /\ phase = "startAlgs"
  /\ appState' = "RUNNING"
  /\ Begin("running", list)
  /\ UNCHANGED state

StopEnds ==
  /\ phase = "stop"
  /\ appState' = "INITIALIZED"
  /\ state' = Cores("INITIALIZED")
  /\ Begin("finalizeAlgs", list)

(* The active services leave the list, whatever their hooks returned.       *)
FinalizeEnds ==
  /\ phase = "finalize"
  /\ appState' = "CONFIGURED"
  /\ Begin("terminate", Selected(list, {i \in DOMAIN list : ~ list[i].active}))
  /\ UNCHANGED state

FinalizeFails ==
  /\ phase = "finalize"
  /\ PhaseFails("CONFIGURED", Selected(list, {i \in DOMAIN list : ~ list[i].active}))

LoopEnds ==
  /\ Loop /\ stack[Main] = <<>> /\ todo = <<>>
  /\ \/ /\ phase = "finalize" => svcFinalize = "success"
        /\ \/ Continues("initialize", "initAlgs")
           \/ InitializeEnds
           \/ Continues("start", "startAlgs")
           \/ StartEnds
           \/ Continues("stopAlgs", "stop")
           \/ StopEnds
           \/ Continues("finalizeAlgs", "finalize")
           \/ FinalizeEnds
        /\ UNCHANGED <<closing, sc, failedIn>>
     \/ /\ svcFinalize = "failure"
        /\ FinalizeFails
        /\ UNCHANGED state
  /\ UNCHANGED <<job, algs, stack, asks, failures, trace, handed, svcFinalize, returnCode>>

(* The runable returns once no event is being processed.                    *)
RunableReturns ==
  /\ phase = "running"
  /\ \A t \in Workers : stack[t] = <<>> /\ asks[t] = <<>>
  /\ \/ Begin("stopAlgs", list) /\ UNCHANGED <<failures, closing, sc, appState, failedIn>>
     \/ /\ failures < MaxFailures
        /\ failures' = failures + 1
        /\ PhaseFails("RUNNING", list)
  /\ UNCHANGED <<job, algs, state, stack, asks, trace, handed, svcFinalize, returnCode>>

(* terminate(): the core services are finalised and removed.                *)
Terminate ==
  /\ phase = "terminate"
  /\ state' = Cores("OFFLINE")
  /\ appState' = "OFFLINE"
  /\ Begin("done", Selected(list, {i \in DOMAIN list : list[i].svc \notin Range(Core)}))
  /\ UNCHANGED <<job, algs, stack, asks, failures, trace, handed, closing, sc,
                 svcFinalize, returnCode, failedIn>>

(* The loops over m_algs keep the end they began with; AlgorithmManager::   *)
(* finalize alone asks for it again and comes to an algorithm created       *)
(* meanwhile. (A creation for which the vector moves invalidates their      *)
(* iterators: no job of the runs does that.)                                *)
ThreadSteps(t) ==
  /\ HookAsks(t) \/ OnDemandReturns(t) \/ (phase = "running" /\ t # Main /\ WorkerAsks(t))
  /\ todo' = IF phase = "finalizeAlgs" /\ algs' # algs THEN Append(todo, Last(algs')) ELSE todo
  /\ UNCHANGED <<appState, phase, closing, sc, svcFinalize, returnCode, failedIn>>

Ended == phase \in {"done", "threw"} /\ UNCHANGED vars

Next ==
  \/ Configure
  \/ \E x \in AllServices \cup Algs :
       Skip(x) \/ CallHook(x) \/ ChangeStateThrows(x)
  \/ \E t \in Threads : ThreadSteps(t)
  \/ LoopHookReturns
  \/ LoopEnds
  \/ RunableReturns
  \/ Terminate
  \/ Ended

Spec == Init /\ [][Next]_vars
FairSpec == Spec /\ WF_vars(Next)

-----------------------------------------------------------------------------
(* Type correctness; no service is twice in the list, however creation,     *)
(* sorting and the move to the back interleave.                             *)
TypeOK ==
  /\ appState \in States /\ target \in States /\ phase \in Phases
  /\ \A i \in DOMAIN list : list[i] \in [svc : AllServices, prio : Int, active : BOOLEAN]
  /\ \A i, j \in DOMAIN list : list[i].svc = list[j].svc => i = j
  /\ state \in [AllServices \cup Algs -> States]
  /\ DOMAIN stack = Threads
  /\ sc \in {"success", "failure"} /\ returnCode \in {"Success", "FinalizationFailure"}

(* A service that an event-processing thread gets from service() is         *)
(* initialised and started, however many threads asked for it while it was  *)
(* being created.                                                           *)
ReadyWhenRunning ==
  \A h \in handed :
    h.to \in Workers /\ h.svc \in AllServices /\ h.got \in States => h.got = "RUNNING"

(* "Initialization loop detected" is only said of a loop: the service asked *)
(* for is being initialised by the asking thread itself.                    *)
LoopErrorsReal == \A h \in handed : h.got = "loop" => h.own

(* The hooks of one instance of a service are called in order: initialize   *)
(* once, start and stop from the right state and again only after a         *)
(* failure, finalize once and only after initialize, except for a service   *)
(* that was first asked for when finalisation had begun, and only after     *)
(* stop if it was started, except when the start of the application failed. *)
HooksInOrder ==
  trace = <<>> \/
    LET op == Last(trace)[1]
        x  == Last(trace)[2]
        before == 1..(Len(trace) - 1)
        past == {trace[i] : i \in {i \in before :
                   /\ trace[i][2] = x
                   /\ \A k \in before : k > i /\ trace[k][2] = x => trace[k][1] # "create"}}
        done(o) == <<o, x, TRUE>> \in past
        tried(o) == \E r \in BOOLEAN : <<o, x, r>> \in past
        declared == \E i \in DOMAIN job.declared : job.declared[i].svc = x
    IN  x \in Services =>
          CASE op = "initialize" -> ~ tried("initialize")
            [] op = "start" -> done("initialize") /\ ~ done("start")
            [] op = "stop" -> done("start") /\ ~ done("stop")
            [] op = "finalize" -> /\ ~ tried("finalize")
                                  /\ \/ done("initialize")
                                     \/ ~ declared /\ <<"create", x, "CONFIGURED">> \in past
                                  /\ \/ done("start") => done("stop")
                                     \/ failedIn \cap {"start", "startAlgs"} # {}
            [] op = "create" -> TRUE

(* When x has just been finalised, y has not been.                          *)
FinalizedBefore(x, y) ==
  LET finals == {i \in DOMAIN trace : trace[i][1] = "finalize"}
  IN  (\E i \in finals : i = Len(trace) /\ trace[i][2] = x) =>
        \A i \in finals : trace[i][2] # y

Priority(x) ==
  LET own == {d \in Range(job.declared) : d.svc = x}
  IN  IF own = {} THEN DefaultPriority ELSE (CHOOSE d \in own : TRUE).prio
Late(x) == x \in DOMAIN LateOffset
FinalPriority(x) ==
  IF Late(x) /\ \E i \in DOMAIN trace : trace[i][2] = ToolSvc
  THEN Priority(ToolSvc) - LateOffset[x] ELSE Priority(x)

(* The loops of ServiceManager over its active services never meet one that *)
(* is "not in the correct state", whatever was created on demand meanwhile  *)
(* and whatever failed before.                                              *)
LoopsFindRightState ==
  \A x \in Services : NextInLoop(x) => Skips(x) \/ Calls(x)

(* The order of initialisation is what the list keeps ("we care more about  *)
(* order of initialization than of creation"): a service that was created   *)
(* on demand is finalised before every service it got while it was          *)
(* initialised, unless their priorities say otherwise.                      *)
UsersFinalizedFirst ==
  \A h \in handed :
    /\ h.op = "initialize" /\ h.got \in States /\ ~ h.own
    /\ h.to \in Services /\ h.svc \in Services
    /\ \A d \in Range(job.declared) : d.svc # h.to
    /\ FinalPriority(h.svc) <= FinalPriority(h.to)
    => FinalizedBefore(h.to, h.svc)

(* "make sure that HistogramDataSvc and THistSvc get finalized after the    *)
(* ToolSvc, and the FileMgr after that", whatever created them and when.    *)
LateServicesLast ==
  \A x, y \in DOMAIN LateOffset :
    /\ FinalizedBefore(ToolSvc, x)
    /\ LateOffset[x] < LateOffset[y] => FinalizedBefore(x, y)

(* A job that reports success has closed everything: no service or          *)
(* algorithm is left initialised, no service is left in the list.           *)
SuccessIsClean ==
  phase = "done" /\ sc = "success" /\ returnCode = "Success" =>
    /\ appState = "OFFLINE" /\ list = <<>>
    /\ \A x \in AllServices : state[x] = "OFFLINE"
    /\ \A a \in Algs : state[a] = "CONFIGURED"

(* "try to close anyway": when a job fails after its initialisation and can *)
(* be stopped, every service has still been finalised; one that is left     *)
(* initialised failed in its own finalize.                                  *)
ClosedAnyway ==
  phase = "done" /\ failedIn \cap {"configure", "initialize", "initAlgs", "stop", "stopAlgs"} = {} =>
    \A s \in Services : state[s] # "OFFLINE" =>
      \E i \in DOMAIN trace : trace[i] = <<"finalize", s, FALSE>>

(* An exception only leaves run() because of an algorithm that was not      *)
(* brought to the state of the application: start failed after it had been  *)
(* started, or its initialisation failed.                                   *)
ThrowsOnlyAfterFailure ==
  phase = "threw" =>
    \/ failedIn \cap {"start", "startAlgs"} # {}
    \/ \E i \in DOMAIN trace : trace[i][1] = "initialize" /\ trace[i][2] \in Algs /\ ~ trace[i][3]

(* A request for a service is answered rightly while others ask for the     *)
(* same: by a service that is ready, or an error that is one (service()).   *)
RequestsAnswered == ReadyWhenRunning /\ LoopErrorsReal

(* The life cycle of every service is the state machine's, however creation *)
(* on demand, failures and the phases interleave, and the list the phases   *)
(* work from stays well-formed.                                             *)
LifeCycleSound == TypeOK /\ HooksInOrder /\ LoopsFindRightState

(* Finalisation is in the order of the dependencies: users before what they *)
(* use, the late services after all that may still write to them.           *)
FinalizedInOrder == UsersFinalizedFirst /\ LateServicesLast

(* However run() ends, what it leaves is accounted for: nothing after a     *)
(* success, nothing but what failed itself after a failure that can be      *)
(* closed, and no exception without a failure before it.                    *)
JobClosed == SuccessIsClean /\ ClosedAnyway /\ ThrowsOnlyAfterFailure

(* run() ends: no request for a service waits for ever, no failure keeps    *)
(* the application from reaching OFFLINE.                                   *)
JobEnds == <>(phase = "threw" \/ (phase = "done" /\ appState = "OFFLINE"))
=============================================================================
