----------------------- MODULE AlgResourcePoolProofs -----------------------
(***************************************************************************)
(* PoolInv is inductive, so the pool guarantees MutualExclusion, and with  *)
(* AllPlaced that nothing leaks, for any number of threads, algorithms,    *)
(* instances and resources.                                                *)
(***************************************************************************)
EXTENDS AlgResourcePool, TLAPS

\* A pool with all instances queued and no client satisfies the invariant.
LEMMA InitPoolInv == Init => PoolInv
<1> SUFFICES ASSUME Init PROVE PoolInv
  OBVIOUS
<1> USE PoolAssumption DEF Init
<1>1. TypeOK
  BY DEF TypeOK, Work
<1>2. WorkMatchesPC
  BY DEF WorkMatchesPC
<1>3. ResourcesExclusive
  BY DEF ResourcesExclusive, HasAlgorithm
<1>4. InstancesExclusive
  BY DEF InstancesExclusive, HasInstance
<1> QED
  BY <1>1, <1>2, <1>3, <1>4 DEF PoolInv

\* Every step of acquireAlgorithm and releaseAlgorithm keeps the types.
LEMMA StepTypeOK ==
  ASSUME PoolInv, NEW c \in Clients, Step(c)
  PROVE  TypeOK'
<1> USE PoolAssumption DEF PoolInv, TypeOK, Work
<1>1. ASSUME NEW a \in Algs, NEW i \in Instances[a], PopInstance(c, a, i)
      PROVE  TypeOK'
  BY <1>1 DEF PopInstance, At
<1>2. CASE TakeResources(c)
  BY <1>2 DEF TakeResources
<1>3. CASE RefuseResources(c)
  BY <1>3 DEF RefuseResources, At, Push, WorkMatchesPC
<1>4. CASE PushReentrant(c)
  BY <1>4 DEF PushReentrant, At, Push, WorkMatchesPC
<1>5. CASE ReleaseResources(c)
  BY <1>5 DEF ReleaseResources, At, WorkMatchesPC
<1>6. CASE PushInstance(c)
  BY <1>6 DEF PushInstance, At, Push, WorkMatchesPC
<1> QED
  BY <1>1, <1>2, <1>3, <1>4, <1>5, <1>6 DEF Step

\* ... and keeps a client's work in line with where the client is.
LEMMA StepWork ==
  ASSUME PoolInv, NEW c \in Clients, Step(c)
  PROVE  WorkMatchesPC'
<1> USE PoolAssumption DEF PoolInv, TypeOK, Work, WorkMatchesPC
<1>1. ASSUME NEW a \in Algs, NEW i \in Instances[a], PopInstance(c, a, i)
      PROVE  WorkMatchesPC'
  <2>1. [alg |-> a, inst |-> i] \in Work
    BY <1>1
  <2>2. [alg |-> a, inst |-> i] # None
    BY <2>1
  <2> QED
    BY <1>1, <2>2 DEF PopInstance, At
<1>2. CASE TakeResources(c)
  BY <1>2 DEF TakeResources
<1>3. CASE RefuseResources(c)
  BY <1>3 DEF RefuseResources, At
<1>4. CASE PushReentrant(c)
  BY <1>4 DEF PushReentrant, At
<1>5. CASE ReleaseResources(c)
  BY <1>5 DEF ReleaseResources, At
<1>6. CASE PushInstance(c)
  BY <1>6 DEF PushInstance, At
<1> QED
  BY <1>1, <1>2, <1>3, <1>4, <1>5, <1>6 DEF Step

\* ... and hands a resource out only to one client.
LEMMA StepResources ==
  ASSUME PoolInv, NEW c \in Clients, Step(c)
  PROVE  ResourcesExclusive'
<1> USE PoolAssumption DEF PoolInv, TypeOK, Work, ResourcesExclusive, HasAlgorithm
<1>1. ASSUME NEW a \in Algs, NEW i \in Instances[a], PopInstance(c, a, i)
      PROVE  ResourcesExclusive'
  BY <1>1 DEF PopInstance, At
<1>2. CASE TakeResources(c)
  BY <1>2 DEF TakeResources
<1>3. CASE RefuseResources(c)
  BY <1>3 DEF RefuseResources, At
<1>4. CASE PushReentrant(c)
  BY <1>4 DEF PushReentrant, At
<1>5. CASE ReleaseResources(c)
  BY <1>5 DEF ReleaseResources, At
<1>6. CASE PushInstance(c)
  BY <1>6 DEF PushInstance, At
<1> QED
  BY <1>1, <1>2, <1>3, <1>4, <1>5, <1>6 DEF Step

\* ... and an instance away from its queue only to one client.
LEMMA StepInstances ==
  ASSUME PoolInv, NEW c \in Clients, Step(c)
  PROVE  InstancesExclusive'
<1> USE PoolAssumption DEF PoolInv, TypeOK, Work, InstancesExclusive, HasInstance, WorkMatchesPC
<1>1. ASSUME NEW a \in Algs, NEW i \in Instances[a], PopInstance(c, a, i)
      PROVE  InstancesExclusive'
  BY <1>1 DEF PopInstance, At
<1>2. CASE TakeResources(c)
  BY <1>2 DEF TakeResources
<1>3. CASE RefuseResources(c)
  BY <1>3 DEF RefuseResources, At, Push
<1>4. CASE PushReentrant(c)
  BY <1>4 DEF PushReentrant, At, Push
<1>5. CASE ReleaseResources(c)
  BY <1>5 DEF ReleaseResources, At
<1>6. CASE PushInstance(c)
  BY <1>6 DEF PushInstance, At, Push
<1> QED
  BY <1>1, <1>2, <1>3, <1>4, <1>5, <1>6 DEF Step

\* A step that changes nothing keeps the invariant.
LEMMA StutterPoolInv ==
  ASSUME PoolInv, UNCHANGED vars
  PROVE  PoolInv'
BY DEF PoolInv, vars, TypeOK, WorkMatchesPC, ResourcesExclusive, InstancesExclusive,
       HasAlgorithm, HasInstance

\* The pool's bookkeeping is consistent in every reachable state, whatever
\* threads interleave in acquireAlgorithm and releaseAlgorithm.
THEOREM PoolInvariant == Spec => []PoolInv
<1>1. PoolInv /\ [Next]_vars => PoolInv'
  <2>1. ASSUME PoolInv, NEW c \in Clients, Step(c)
        PROVE  PoolInv'
    BY <2>1, StepTypeOK, StepWork, StepResources, StepInstances DEF PoolInv
  <2> QED
    BY <2>1, StutterPoolInv DEF Next
<1> QED
  BY <1>1, InitPoolInv, PTL DEF Spec

\* Two clients that have algorithms at the same time need different resources
\* and have different instances: the promise of IAlgResourcePool.h.
THEOREM PoolExcludes == Spec => []MutualExclusion
<1>1. PoolInv => MutualExclusion
  BY DEF PoolInv, TypeOK, Work, WorkMatchesPC, ResourcesExclusive, InstancesExclusive,
         HasAlgorithm, HasInstance, MutualExclusion
<1> QED
  BY <1>1, PoolInvariant, PTL

-----------------------------------------------------------------------------
(* Nothing leaks.                                                          *)

\* Every resource and every instance is in the pool or with a client.
AllPlaced ==
  /\ \A r \in Resources : r \in available
       \/ \E c \in Clients : HasAlgorithm(c) /\ r \in Requires[work[c].alg]
  /\ \A a \in Algs : \A i \in Instances[a] : i \in queue[a]
       \/ \E c \in Clients : HasInstance(c) /\ work[c].alg = a /\ work[c].inst = i

\* A client that is in the pool has work.
LEMMA ClientHasWork ==
  ASSUME PoolInv, NEW c \in Clients, pc[c] # "idle"
  PROVE  work[c] \in Work /\ work[c].alg \in Algs /\ work[c].inst \in Instances[work[c].alg]
BY DEF PoolInv, TypeOK, WorkMatchesPC, Work

\* Every step moves what it takes out of one place to another.
LEMMA StepPlacesAll ==
  ASSUME PoolInv, AllPlaced, NEW c \in Clients, Step(c)
  PROVE  AllPlaced'
<1> USE PoolAssumption DEF AllPlaced, HasAlgorithm, HasInstance
<1>0. /\ queue \in [Algs -> SUBSET InstanceIds]
      /\ pc \in [Clients -> {"idle", "popped", "granted", "running", "released"}]
      /\ work \in [Clients -> Work \cup {None}] /\ (pc[c] = "granted" => work[c].alg \in Reentrant)
  BY DEF PoolInv, TypeOK, WorkMatchesPC
<1>1. ASSUME NEW a \in Algs, NEW i \in Instances[a], PopInstance(c, a, i)
      PROVE  AllPlaced'
  BY <1>0, <1>1 DEF PopInstance, At
<1>2. CASE TakeResources(c)
  BY <1>0, <1>2 DEF TakeResources
<1>3. CASE RefuseResources(c)
  BY <1>0, <1>3, ClientHasWork DEF RefuseResources, At, Push
<1>4. CASE PushReentrant(c)
  BY <1>0, <1>4, ClientHasWork DEF PushReentrant, At, Push
<1>5. CASE ReleaseResources(c)
  BY <1>0, <1>5, ClientHasWork DEF ReleaseResources, At
<1>6. CASE PushInstance(c)
  BY <1>0, <1>6, ClientHasWork DEF PushInstance, At, Push
<1> QED
  BY <1>1, <1>2, <1>3, <1>4, <1>5, <1>6 DEF Step

\* With PoolInv, that is NothingLeaks.
LEMMA PlacedMeansNoLeak == ASSUME PoolInv, AllPlaced PROVE NothingLeaks
<1> USE PoolAssumption
<1>1. \A c \in Clients : HasAlgorithm(c) \/ HasInstance(c) =>
        work[c] \in Work /\ work[c].alg \in Algs /\ work[c].inst \in Instances[work[c].alg]
  BY ClientHasWork DEF HasAlgorithm, HasInstance
<1>2. available = Resources \ UNION {Requires[work[c].alg] : c \in {d \in Clients : HasAlgorithm(d)}}
  BY <1>1 DEF PoolInv, TypeOK, ResourcesExclusive, AllPlaced
<1>3. ASSUME NEW a \in Algs
      PROVE  queue[a] = Instances[a]
               \ {work[c].inst : c \in {d \in Clients : HasInstance(d) /\ work[d].alg = a}}
  BY <1>1 DEF PoolInv, InstancesExclusive, AllPlaced
<1> QED
  BY <1>2, <1>3 DEF NothingLeaks

\* No resource and no instance is lost or handed out twice, whatever threads
\* interleave and however many acquisitions fail half way.
THEOREM PoolLeaksNothing == Spec => []NothingLeaks
<1>1. Init => AllPlaced
  BY PoolAssumption DEF Init, AllPlaced
<1>2. PoolInv /\ AllPlaced /\ [Next]_vars => AllPlaced'
  <2>1. UNCHANGED vars /\ AllPlaced => AllPlaced'
    BY DEF vars, AllPlaced, HasAlgorithm, HasInstance
  <2> QED
    BY <2>1, StepPlacesAll DEF Next
<1>3. PoolInv /\ AllPlaced => NothingLeaks
  BY PlacedMeansNoLeak
<1> QED
  BY <1>1, <1>2, <1>3, PoolInvariant, PTL DEF Spec
=============================================================================
