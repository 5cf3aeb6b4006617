-------------------------- MODULE AlgResourcePool --------------------------
(***************************************************************************)
(* AlgResourcePool: one queue of instances per algorithm and a bit set of  *)
(* available resources under m_resource_mutex.  The threads that acquire   *)
(* and release algorithms interleave at every access to a queue and every  *)
(* critical section.                                                       *)
(***************************************************************************)
CONSTANTS
  Clients,      \* threads that use the pool
  Algs,         \* algorithms, one queue each (m_algqueue_map)
  InstanceIds,
  Instances,    \* [Algs -> SUBSET InstanceIds], created by decodeTopAlgs
  Reentrant,    \* algorithms with isReEntrant()
  Resources,    \* m_resource_indices
  Requires,     \* m_resource_requirements
  None

ASSUME PoolAssumption ==
  /\ Reentrant \subseteq Algs
  /\ Instances \in [Algs -> SUBSET InstanceIds]
  /\ Requires \in [Algs -> SUBSET Resources]
  /\ None \notin [alg : Algs, inst : InstanceIds]

VARIABLES
  queue,        \* the instances in each algorithm's queue
  available,    \* m_available_resources
  pc,           \* where each client is in acquire or releaseAlgorithm
  work          \* the algorithm and instance a client works with

vars == <<queue, available, pc, work>>

Work == [alg : Algs, inst : InstanceIds]

Init ==
  /\ queue = Instances
  /\ available = Resources
  /\ pc = [c \in Clients |-> "idle"]
  /\ work = [c \in Clients |-> None]

At(c, from, to) == pc[c] = from /\ pc' = [pc EXCEPT ![c] = to]
Push(a, i) == queue' = [queue EXCEPT ![a] = @ \cup {i}]

-----------------------------------------------------------------------------
(* acquireAlgorithm.                                                       *)

\* Mutant: the instance stays in the queue.
PeekInstance(c, a, i) ==
  /\ At(c, "idle", "popped")
  /\ i \in queue[a]
  /\ work' = [work EXCEPT ![c] = [alg |-> a, inst |-> i]]
  /\ UNCHANGED <<queue, available>>

\* try_pop, or pop, takes an instance from the queue.  (try_pop on an empty
\* queue returns FAILURE and changes nothing.)
PopInstance(c, a, i) ==
  /\ At(c, "idle", "popped")
  /\ i \in queue[a]
  /\ queue' = [queue EXCEPT ![a] = @ \ {i}]
  /\ work' = [work EXCEPT ![c] = [alg |-> a, inst |-> i]]
  /\ UNCHANGED available

\* Mutant: the resources are taken whether they are there or not.
TakeResourcesUnchecked(c) ==
  /\ pc[c] = "popped"
  /\ available' = available \ Requires[work[c].alg]
  /\ pc' = [pc EXCEPT ![c] = IF work[c].alg \in Reentrant THEN "granted" ELSE "running"]
  /\ UNCHANGED <<queue, work>>

\* The critical section: the resources are there and are taken.  A reentrant
\* instance is still to be put back.
TakeResources(c) ==
  /\ pc[c] = "popped"
  /\ Requires[work[c].alg] \subseteq available
  /\ available' = available \ Requires[work[c].alg]
  /\ pc' = [pc EXCEPT ![c] = IF work[c].alg \in Reentrant THEN "granted" ELSE "running"]
  /\ UNCHANGED <<queue, work>>

\* Mutant: the instance is not put back.
RefuseAndKeep(c) ==
  /\ At(c, "popped", "idle")
  /\ ~(Requires[work[c].alg] \subseteq available)
  /\ work' = [work EXCEPT ![c] = None]
  /\ UNCHANGED <<queue, available>>

\* The critical section: a resource is missing.  The instance goes back, a
\* reentrant one after the mutex is released, which makes no difference.
RefuseResources(c) ==
  /\ At(c, "popped", "idle")
  /\ ~(Requires[work[c].alg] \subseteq available)
  /\ Push(work[c].alg, work[c].inst)
  /\ work' = [work EXCEPT ![c] = None]
  /\ UNCHANGED available

\* "push back reentrant algorithms immediately as it can be reused"
PushReentrant(c) ==
  /\ At(c, "granted", "running")
  /\ Push(work[c].alg, work[c].inst)
  /\ UNCHANGED <<available, work>>

-----------------------------------------------------------------------------
(* releaseAlgorithm.                                                       *)

ReleaseResources(c) ==
  /\ At(c, "running", "released")
  /\ available' = available \cup Requires[work[c].alg]
  /\ UNCHANGED <<queue, work>>

PushInstance(c) ==
  /\ At(c, "released", "idle")
  /\ IF work[c].alg \in Reentrant THEN UNCHANGED queue ELSE Push(work[c].alg, work[c].inst)
  /\ work' = [work EXCEPT ![c] = None]
  /\ UNCHANGED available

Step(c) ==
  \/ \E a \in Algs : \E i \in Instances[a] : PopInstance(c, a, i)
  \/ TakeResources(c) \/ RefuseResources(c) \/ PushReentrant(c)
  \/ ReleaseResources(c) \/ PushInstance(c)

Next == \E c \in Clients : Step(c)

Spec == Init /\ [][Next]_vars

-----------------------------------------------------------------------------
(* Properties.                                                             *)

TypeOK ==
  /\ queue \in [Algs -> SUBSET InstanceIds]
  /\ available \subseteq Resources
  /\ pc \in [Clients -> {"idle", "popped", "granted", "running", "released"}]
  /\ work \in [Clients -> Work \cup {None}]

\* acquireAlgorithm has succeeded and releaseAlgorithm has not begun.
HasAlgorithm(c) == pc[c] \in {"granted", "running"}

\* "ensures that not two algorithms with the same non-thread-safe resource
\* needs are made available to the framework": clients that hold algorithms
\* at the same time need different resources and have different instances,
\* unless the algorithm is reentrant.
MutualExclusion ==
  \A c, d \in Clients : c # d /\ HasAlgorithm(c) /\ HasAlgorithm(d) =>
    /\ Requires[work[c].alg] \cap Requires[work[d].alg] = {}
    /\ work[c] = work[d] => work[c].alg \in Reentrant

\* The instance is away from its queue.
HasInstance(c) ==
  \/ pc[c] \in {"popped", "granted"}
  \/ pc[c] \in {"running", "released"} /\ work[c].alg \notin Reentrant

\* Nothing leaks: whatever clients do, each resource and each instance is
\* available or with exactly one client; an acquisition that fails half way
\* gives back what it took.
NothingLeaks ==
  /\ available = Resources \ UNION {Requires[work[c].alg] : c \in {d \in Clients : HasAlgorithm(d)}}
  /\ \A a \in Algs :
       queue[a] = Instances[a] \ {work[c].inst : c \in {d \in Clients : HasInstance(d) /\ work[d].alg = a}}

\* The parts of the inductive invariant behind MutualExclusion: a client in
\* the pool has work on one of the instances; resources held are neither
\* available nor held twice; instances held are neither queued nor held twice.
WorkMatchesPC ==
  \A c \in Clients :
    /\ pc[c] = "idle" <=> work[c] = None
    /\ work[c] # None => work[c].inst \in Instances[work[c].alg]
    /\ pc[c] = "granted" => work[c].alg \in Reentrant

ResourcesExclusive ==
  /\ \A c \in Clients : HasAlgorithm(c) => Requires[work[c].alg] \cap available = {}
  /\ \A c, d \in Clients : c # d /\ HasAlgorithm(c) /\ HasAlgorithm(d) =>
       Requires[work[c].alg] \cap Requires[work[d].alg] = {}

InstancesExclusive ==
  /\ \A a \in Algs : queue[a] \subseteq Instances[a]
  /\ \A c \in Clients : HasInstance(c) => work[c].inst \notin queue[work[c].alg]
  /\ \A c, d \in Clients : c # d /\ HasInstance(c) /\ HasInstance(d) => work[c] # work[d]

PoolInv == TypeOK /\ WorkMatchesPC /\ ResourcesExclusive /\ InstancesExclusive
=============================================================================
