------------------------- MODULE MCApplicationMgr -------------------------
(* Jobs for ApplicationMgr: E is the event loop manager, D another declared *)
(* service, T the ToolSvc, H and F follow its priority, a and b are managed *)
(* algorithms.                                                              *)
EXTENDS ApplicationMgr

MCServices == {"E", "T", "H", "F", "D", "X", "Y", "Z"}
MCAlgs == {"a", "b"}
MCWorkers == {"w1", "w2"}
MCLateOffset == [H |-> 10, F |-> 40]

Declared(s, prio) == [svc |-> s, prio |-> prio]
Quiet == [t \in MCWorkers |-> <<>>]

(* A declared service creates others, which create others; late services    *)
(* are created on demand; hooks ask again in stop and finalize.             *)
ChainJob ==
  [declared |-> <<Declared("T", 10), Declared("D", 10), Declared("E", 100)>>,
   maxFailures |-> 1, early |-> {},
   needs |-> (<<"D", "initialize">> :> <<"X", "E">>) @@ (<<"X", "initialize">> :> <<"Y", "F">>)
             @@ (<<"T", "initialize">> :> <<"H">>) @@ (<<"E", "initialize">> :> <<"a", "Y">>)
             @@ (<<"a", "initialize">> :> <<"H">>) @@ (<<"X", "finalize">> :> <<"Y">>)
             @@ (<<"D", "stop">> :> <<"Z">>) @@ (<<"E", "start">> :> <<"a">>),
   asks |-> Quiet]

(* Two threads create services that need each other's.                      *)
ThreadsJob ==
  [declared |-> <<Declared("E", 100)>>,
   maxFailures |-> 1, early |-> {},
   needs |-> (<<"X", "initialize">> :> <<"Y">>) @@ (<<"Z", "initialize">> :> <<"X">>)
             @@ (<<"Y", "start">> :> <<"T">>),
   asks |-> [t \in MCWorkers |-> IF t = "w1" THEN <<"Z", "Y">> ELSE <<"Y", "X">>]]

(* A loop of services, one of which asks before it calls its base class,    *)
(* and algorithms started by a service, the second of which asks for the    *)
(* first again when that is finalised and gone.                             *)
LoopJob ==
  [declared |-> <<Declared("D", 10), Declared("E", 100)>>,
   maxFailures |-> 2, early |-> {"Z"},
   needs |-> (<<"D", "initialize">> :> <<"X">>) @@ (<<"X", "initialize">> :> <<"Y">>)
             @@ (<<"Y", "initialize">> :> <<"X">>) @@ (<<"E", "initialize">> :> <<"Z">>)
             @@ (<<"Z", "initialize">> :> <<"T">>) @@ (<<"T", "initialize">> :> <<"Z">>)
             @@ (<<"E", "start">> :> <<"a", "b">>) @@ (<<"b", "finalize">> :> <<"a">>),
   asks |-> Quiet]

(* Algorithms and services ask for something new while they are finalised;  *)
(* an algorithm is created during the run.                                  *)
LateJob ==
  [declared |-> <<Declared("T", 10), Declared("E", 100)>>,
   maxFailures |-> 2, early |-> {},
   needs |-> (<<"E", "initialize">> :> <<"a">>) @@ (<<"a", "finalize">> :> <<"X">>)
             @@ (<<"T", "finalize">> :> <<"Y", "b">>) @@ (<<"H", "initialize">> :> <<"Z">>),
   asks |-> [t \in MCWorkers |-> IF t = "w1" THEN <<"b", "H", "F">> ELSE <<>>]]

MCJobs == {ChainJob, ThreadsJob, LoopJob, LateJob}
=============================================================================
