---------------------- MODULE SchedulerContractProofs -----------------------
(***************************************************************************)
(* What the scheduler counts and what it promises its client.  Instances   *)
(* and resources of the algorithm pool, m_freeSlots and                    *)
(* m_blockingAlgosInFlight agree with the tasks, the events and the queue  *)
(* entries that are there.  The scheduler does not fall asleep on work     *)
(* (IdleMeansDone): Awake says, for each place the scheduler thread can be *)
(* at, what is still going to stir it or what it has already settled;      *)
(* proved with a thread pool and without blocking tasks, the default.  And *)
(* every step the client can see is one of EventScheduler, unless          *)
(* iterate() drops an event; proved for every configuration.               *)
(***************************************************************************)
EXTENDS AvalancheSchedulerProofs, FiniteSetTheorems

-----------------------------------------------------------------------------
(* Cardinalities.                                                          *)

\* An element replaced by one that was not there.
LEMMA ReplaceCard ==
  ASSUME NEW S, IsFiniteSet(S), NEW t \in S, NEW u, u \notin S \ {t}
  PROVE  /\ IsFiniteSet((S \ {t}) \cup {u})
         /\ Cardinality((S \ {t}) \cup {u}) = Cardinality(S)
<1>1. IsFiniteSet(S \ {t}) /\ Cardinality(S \ {t}) = Cardinality(S) - 1
  BY FS_RemoveElement
<1>2. /\ IsFiniteSet((S \ {t}) \cup {u})
      /\ Cardinality((S \ {t}) \cup {u}) = Cardinality(S \ {t}) + 1
  BY <1>1, FS_AddElement
<1>3. Cardinality(S) \in Nat
  BY FS_CardinalityType
<1> QED
  BY <1>1, <1>2, <1>3

\* The entries of a queue that are in B.
Places(q, B) == {i \in DOMAIN q : q[i] \in B}

\* They are finitely many.
LEMMA PlacesFinite ==
  ASSUME NEW S, NEW q \in Seq(S), NEW B
  PROVE  IsFiniteSet(Places(q, B)) /\ Cardinality(Places(q, B)) \in Nat
<1>1. DOMAIN q = 1 .. Len(q) /\ Len(q) \in Nat
  OBVIOUS
<1>2. IsFiniteSet(1 .. Len(q))
  BY <1>1, FS_Interval
<1>3. Places(q, B) \in SUBSET (1 .. Len(q))
  BY <1>1 DEF Places
<1>4. IsFiniteSet(Places(q, B))
  BY <1>2, <1>3, FS_Subset
<1> QED
  BY <1>4, FS_CardinalityType

\* Pushing x.
LEMMA PlacesAppend ==
  ASSUME NEW S, NEW q \in Seq(S), NEW x \in S, NEW B
  PROVE  Cardinality(Places(Append(q, x), B)) =
           Cardinality(Places(q, B)) + (IF x \in B THEN 1 ELSE 0)
<1> DEFINE p == Append(q, x)
           n == Len(q) + 1
<1>1. /\ n \in DOMAIN p /\ n \notin DOMAIN q /\ p[n] = x
      /\ \A i \in DOMAIN q : i \in DOMAIN p /\ p[i] = q[i]
      /\ \A i \in DOMAIN p : i \in DOMAIN q \/ i = n
  OBVIOUS
<1> HIDE DEF p, n
<1>2. Places(p, B) = IF x \in B THEN Places(q, B) \cup {n} ELSE Places(q, B)
  BY <1>1 DEF Places
<1>3. n \notin Places(q, B)
  BY <1>1 DEF Places
<1>4. IsFiniteSet(Places(q, B)) /\ Cardinality(Places(q, B)) \in Nat
  BY PlacesFinite
<1>5. Cardinality(Places(q, B) \cup {n}) = Cardinality(Places(q, B)) + 1
  BY <1>3, <1>4, FS_AddElement
<1> QED
  BY <1>2, <1>4, <1>5 DEF p

\* Popping the head.
LEMMA PlacesTail ==
  ASSUME NEW S, NEW q \in Seq(S), q # <<>>, NEW B
  PROVE  Cardinality(Places(Tail(q), B)) =
           Cardinality(Places(q, B)) - (IF Head(q) \in B THEN 1 ELSE 0)
<1> DEFINE p == Tail(q)
           h == Head(q)
           P == Places(p, B)
           Q == Places(q, B)
           f == [i \in P |-> i + 1]
<1>1. /\ 1 \in DOMAIN q /\ q[1] = h
      /\ \A i \in DOMAIN p : i \in Nat /\ i + 1 \in DOMAIN q /\ q[i + 1] = p[i] /\ i + 1 # 1
      /\ \A i \in DOMAIN q : i \in Nat /\ (i = 1 \/ (i - 1 \in DOMAIN p /\ p[i - 1] = q[i]))
  OBVIOUS
<1>2. p \in Seq(S)
  OBVIOUS
<1>3. IsFiniteSet(P) /\ IsFiniteSet(Q) /\ Cardinality(Q) \in Nat
  BY <1>2, PlacesFinite
<1> HIDE DEF p, h
<1>4. f \in Bijection(P, Q \ {1})
  <2>1. \A i \in P : i \in Nat /\ i + 1 \in Q \ {1}
    BY <1>1 DEF Places
  <2>2. f \in Injection(P, Q \ {1})
    BY <2>1 DEF Injection, IsInjective
  <2>3. \A j \in Q \ {1} : \E i \in P : f[i] = j
    <3> SUFFICES ASSUME NEW j \in Q \ {1} PROVE \E i \in P : f[i] = j
      OBVIOUS
    <3>1. j \in Nat /\ j - 1 \in P /\ (j - 1) + 1 = j
      BY <1>1 DEF Places
    <3> QED
      BY <3>1
  <2>4. f \in Surjection(P, Q \ {1})
    BY <2>1, <2>3 DEF Surjection
  <2> QED
    BY <2>2, <2>4 DEF Bijection
<1>5. Cardinality(P) = Cardinality(Q \ {1})
  BY <1>3, <1>4, FS_Bijection DEF ExistsBijection
<1>6. Cardinality(Q \ {1}) = IF 1 \in Q THEN Cardinality(Q) - 1 ELSE Cardinality(Q)
  BY <1>3, FS_RemoveElement
<1>7. 1 \in Q <=> h \in B
  BY <1>1 DEF Places
<1> QED
  BY <1>3, <1>5, <1>6, <1>7 DEF p, h

-----------------------------------------------------------------------------
(* The tasks.                                                              *)

\* Finitely many tasks, told apart by specification and copy number.
TasksDistinct ==
  /\ IsFiniteSet(tasks)
  /\ \A t, u \in tasks : t.ts = u.ts /\ t.copy = u.copy => t = u

\* How a step may change the set of tasks: a task is spawned, goes on to its
\* next stage, or is gone with its sign-off.
Spawned(n, ts) ==
  /\ n \notin tasks /\ tasks' = tasks \cup {n}
  /\ n.ts = ts /\ n.stage = "queued"

Moved(t, u) ==
  /\ t \in tasks /\ u \notin tasks /\ tasks' = (tasks \ {t}) \cup {u}
  /\ u.ts = t.ts /\ u.copy = t.copy

\* schedule() with a thread pool spawns one task when it acquires the
\* algorithm, and none otherwise.
LEMMA ScheduleSpawns ==
  ASSUME TasksDistinct, NEW ts, NEW pending, Schedule(ts, pending)
  PROVE  /\ TasksDistinct'
         /\ \/ tasks' = tasks /\ blockingInFlight' = blockingInFlight
               /\ (DirectExecution \/ UNCHANGED <<instances, available>>)
            \/ /\ ~DirectExecution /\ ~Throttled(ts) /\ CanAcquire(ts.alg)
               /\ AcquireAlgorithm(ts.alg)
               /\ blockingInFlight' = IF ts.alg \in Blocking THEN blockingInFlight + 1
                                      ELSE blockingInFlight
               /\ \E n : Spawned(n, ts)
<1> USE DEF taskVars, poolVars
<1>1. CASE UNCHANGED taskVars
  <2>1. TasksDistinct'
    BY <1>1 DEF TasksDistinct
  <2>2. DirectExecution \/ UNCHANGED <<instances, available>> \/ SpawnTask(ts)
    BY DEF Schedule
  <2>3. ASSUME SpawnTask(ts) PROVE FALSE
    <3>1. PICK k \in 0 .. Cardinality(tasks) : k \notin Copies(ts) /\ tasks' = tasks \cup {NewTask(ts, k)}
      BY <2>3 DEF SpawnTask
    <3>2. NewTask(ts, k) \in tasks /\ NewTask(ts, k).ts = ts /\ NewTask(ts, k).copy = k
      BY <1>1, <3>1 DEF NewTask
    <3> QED
      BY <3>1, <3>2 DEF Copies
  <2> QED
    BY <1>1, <2>1, <2>2, <2>3
<1>2. CASE ~(UNCHANGED taskVars)
  <2>1. /\ ~DirectExecution /\ ~Throttled(ts) /\ CanAcquire(ts.alg) /\ AcquireAlgorithm(ts.alg)
        /\ SpawnTask(ts)
        /\ blockingInFlight' = IF ts.alg \in Blocking THEN blockingInFlight + 1
                               ELSE blockingInFlight
    BY <1>2 DEF Schedule
  <2>2. PICK k \in 0 .. Cardinality(tasks) : k \notin Copies(ts) /\ tasks' = tasks \cup {NewTask(ts, k)}
    BY <2>1 DEF SpawnTask
  <2> DEFINE n == NewTask(ts, k)
  <2>3. n.ts = ts /\ n.copy = k /\ n.stage = "queued"
    BY DEF NewTask
  <2>4. \A t \in tasks : t.ts = ts => t.copy # k
    BY <2>2 DEF Copies
  <2> HIDE DEF n
  <2>5. n \notin tasks /\ tasks' = tasks \cup {n}
    BY <2>2, <2>3, <2>4 DEF n
  <2>6. IsFiniteSet(tasks')
    BY <2>5, FS_AddElement DEF TasksDistinct
  <2>7. TasksDistinct'
    BY <2>3, <2>4, <2>5, <2>6 DEF TasksDistinct
  <2>8. Spawned(n, ts)
    BY <2>3, <2>5 DEF Spawned
  <2> QED
    BY <2>1, <2>7, <2>8
<1> QED
  BY <1>1, <1>2

\* Executing and releasing move a task on.
LEMMA TaskMoves ==
  ASSUME SchedulerInv, TasksDistinct, NEW t \in tasks,
         (\E out \in Outcome : TaskExecute(t, out)) \/ TaskRelease(t)
  PROVE  /\ TasksDistinct'
         /\ \E u : /\ Moved(t, u)
                   /\ \/ t.stage = "queued" /\ u.stage = "executed"
                         /\ UNCHANGED <<instances, available>>
                      \/ t.stage = "executed" /\ u.stage = "released"
                         /\ ReleaseAlgorithm(t.ts.alg)
<1>1. t \in Tasks
  BY TaskType
<1>2. PICK u : /\ tasks' = (tasks \ {t}) \cup {u} /\ u.ts = t.ts /\ u.copy = t.copy
               /\ \/ t.stage = "queued" /\ u.stage = "executed"
                     /\ UNCHANGED <<instances, available>>
                  \/ t.stage = "executed" /\ u.stage = "released"
                     /\ ReleaseAlgorithm(t.ts.alg)
  <2>1. ASSUME NEW out \in Outcome, TaskExecute(t, out)
        PROVE  \E u : /\ tasks' = (tasks \ {t}) \cup {u} /\ u.ts = t.ts /\ u.copy = t.copy
                      /\ t.stage = "queued" /\ u.stage = "executed"
                      /\ UNCHANGED <<instances, available>>
    <3> DEFINE u == [t EXCEPT !.stage = "executed", !.failed = (out = "fail"),
                              !.seen = eventStatus[slotOf[t.ts.evt]]]
    <3>1. u.ts = t.ts /\ u.copy = t.copy /\ u.stage = "executed"
      BY <1>1 DEF Tasks
    <3>2. tasks' = (tasks \ {t}) \cup {u} /\ t.stage = "queued" /\ UNCHANGED <<instances, available>>
      BY <2>1 DEF TaskExecute, MayStart, poolVars
    <3> HIDE DEF u
    <3> QED
      BY <3>1, <3>2
  <2>2. ASSUME TaskRelease(t)
        PROVE  \E u : /\ tasks' = (tasks \ {t}) \cup {u} /\ u.ts = t.ts /\ u.copy = t.copy
                      /\ t.stage = "executed" /\ u.stage = "released"
                      /\ ReleaseAlgorithm(t.ts.alg)
    <3> DEFINE u == [t EXCEPT !.stage = "released"]
    <3>1. u.ts = t.ts /\ u.copy = t.copy /\ u.stage = "released"
      BY <1>1 DEF Tasks
    <3>2. tasks' = (tasks \ {t}) \cup {u} /\ t.stage = "executed" /\ ReleaseAlgorithm(t.ts.alg)
      BY <2>2 DEF TaskRelease
    <3> HIDE DEF u
    <3> QED
      BY <3>1, <3>2
  <2> QED
    BY <2>1, <2>2
<1>3. u # t /\ u \notin tasks
  BY <1>2 DEF TasksDistinct
<1>4. IsFiniteSet(tasks')
  BY <1>2, <1>3, ReplaceCard DEF TasksDistinct
<1>5. \A v, w \in tasks' : v.ts = w.ts /\ v.copy = w.copy => v = w
  BY <1>2, <1>3 DEF TasksDistinct
<1> QED
  BY <1>2, <1>3, <1>4, <1>5 DEF TasksDistinct, Moved

\* Every step is one of these, takes a task that has released its algorithm
\* out with its sign-off, or leaves the tasks and the pool alone.
StepKind ==
  \/ tasks' = tasks /\ UNCHANGED <<instances, available>>
  \/ DirectExecution /\ tasks' = tasks
  \/ \E ts \in TaskSpecs : \E n : Spawned(n, ts) /\ CanAcquire(ts.alg) /\ AcquireAlgorithm(ts.alg)
  \/ \E t, u : /\ Moved(t, u)
               /\ \/ t.stage = "queued" /\ u.stage = "executed" /\ UNCHANGED <<instances, available>>
                  \/ t.stage = "executed" /\ u.stage = "released" /\ ReleaseAlgorithm(t.ts.alg)
  \/ \E t \in tasks : /\ tasks' = tasks \ {t} /\ t.stage = "released"
                      /\ UNCHANGED <<instances, available>>

\* So the tasks stay distinct.
LEMMA StepTasks ==
  ASSUME SchedulerInv, TasksDistinct, [SchedulerNext]_schedulerVars
  PROVE  TasksDistinct' /\ StepKind
<1> USE DEF slotVars, queueVars, taskVars, poolVars, statusVars, ctxVars, activeVars
<1>1. ASSUME NEW ts \in TaskSpecs, NEW pending, Schedule(ts, pending)
      PROVE  TasksDistinct' /\ StepKind
  BY <1>1, ScheduleSpawns DEF StepKind
<1>2. CASE RetrySchedule
  BY <1>1, <1>2, ScheduledSpecs DEF RetrySchedule
<1>3. CASE SlotSchedule
  BY <1>1, <1>3, ScheduledSpecs DEF SlotSchedule
<1>4. ASSUME NEW t \in tasks, (\E out \in Outcome : TaskExecute(t, out)) \/ TaskRelease(t)
      PROVE  TasksDistinct' /\ StepKind
  BY <1>4, TaskMoves DEF StepKind
<1>5. ASSUME NEW t \in tasks, TaskSignoff(t)
      PROVE  TasksDistinct' /\ StepKind
  <2>1. tasks' = tasks \ {t} /\ t.stage = "released" /\ UNCHANGED <<instances, available>>
    BY <1>5 DEF TaskSignoff
  <2>2. IsFiniteSet(tasks')
    BY <2>1, FS_RemoveElement DEF TasksDistinct
  <2> QED
    BY <2>1, <2>2 DEF TasksDistinct, StepKind
<1>6. CASE tasks' = tasks /\ UNCHANGED <<instances, available>>
  BY <1>6 DEF TasksDistinct, StepKind
<1>7. RunNewEvent \/ RunSignoff \/ RunDeactivate \/ CheckUpdate \/ SlotUpdate \/ Exit
        => tasks' = tasks /\ UNCHANGED <<instances, available>>
  BY DEF RunNewEvent, RunSignoff, RunDeactivate, CheckUpdate, SlotUpdate, Exit
<1>8. Client \/ Deactivation \/ UNCHANGED schedulerVars
        => tasks' = tasks /\ UNCHANGED <<instances, available>>
  BY DEF Client, PushNewEvent, ResetOnly, PopFinishedEvent, TryPopFinishedEvent, DeleteContext,
         Deactivate, Deactivation, DrainQueue, PushDeactivate, schedulerVars
<1> QED
  BY <1>2, <1>3, <1>4, <1>5, <1>6, <1>7, <1>8
  DEF SchedulerNext, SchedulerThread, Task, Terminated

-----------------------------------------------------------------------------
(* The pool of algorithm instances and resources.                          *)

\* The tasks that hold an instance of a.
HeldBy(a) == {t \in Holders : t.ts.alg = a}

\* PoolConserved, resource by resource.
ResourceHeld(r) == \E t \in Holders : r \in Requires[t.ts.alg]

\* A set of resources is what the tasks leave when each resource of it is free.
LEMMA AvailableExact ==
  ASSUME NEW avail, NEW held, avail \subseteq Resources,
         \A t \in held : Requires[t.ts.alg] \subseteq Resources
  PROVE  avail = Resources \ UNION {Requires[t.ts.alg] : t \in held} <=>
           \A r \in Resources : r \in avail <=> ~(\E t \in held : r \in Requires[t.ts.alg])
OBVIOUS

\* A task that acquires its algorithm takes an instance and free resources.
LEMMA AcquireConserves ==
  ASSUME SchedulerInv, TasksDistinct, PoolConserved, NEW ts \in TaskSpecs, NEW n,
         Spawned(n, ts), CanAcquire(ts.alg), AcquireAlgorithm(ts.alg)
  PROVE  PoolConserved'
<1> DEFINE a0 == ts.alg
<1>1. a0 \in Algs /\ \A t \in tasks : t.ts.alg \in Algs
  BY TaskType DEF TaskSpecs
<1>2. n \notin Holders /\ Holders' = Holders \cup {n} /\ n.ts.alg = a0 /\ Holders \subseteq tasks
  BY DEF Spawned, Holders
<1>3. \A a \in Algs : Requires[a] \subseteq Resources
  BY AlgorithmsAssumption
<1>4. /\ available \subseteq Resources /\ Requires[a0] \subseteq available
      /\ available' = available \ Requires[a0]
  BY DEF SchedulerInv, TypeOK, CanAcquire, AcquireAlgorithm
<1>5. \A r \in Resources : r \in available <=> ~ResourceHeld(r)
  BY <1>1, <1>2, <1>3, <1>4, AvailableExact DEF PoolConserved, ResourceHeld
<1>6. \A t, u \in Holders' : t # u => Requires[t.ts.alg] \cap Requires[u.ts.alg] = {}
  <2>1. \A t \in Holders : Requires[t.ts.alg] \cap Requires[a0] = {}
    BY <1>1, <1>3, <1>4, <1>5 DEF ResourceHeld
  <2> QED
    BY <1>2, <2>1 DEF PoolConserved
<1>7. available' = Resources \ UNION {Requires[t.ts.alg] : t \in Holders'}
  <2>1. \A r \in Resources : r \in available' <=> ~(\E t \in Holders' : r \in Requires[t.ts.alg])
    BY <1>2, <1>4, <1>5 DEF ResourceHeld
  <2>2. available' \subseteq Resources /\ \A t \in Holders' : Requires[t.ts.alg] \subseteq Resources
    BY <1>1, <1>2, <1>3, <1>4
  <2> QED
    BY <2>1, <2>2, AvailableExact
<1>8. ASSUME NEW a \in Algs \ Reentrant
      PROVE  instances'[a] + Cardinality(HeldBy(a)') = Instances[a]
  <2>1. IsFiniteSet(HeldBy(a)) /\ n \notin HeldBy(a)
    BY <1>2, FS_Subset DEF TasksDistinct, HeldBy
  <2>2. Cardinality(HeldBy(a)) \in Nat
    BY <2>1, FS_CardinalityType
  <2>3. instances \in [Algs -> Int] /\ instances[a] + Cardinality(HeldBy(a)) = Instances[a]
    BY DEF SchedulerInv, TypeOK, PoolConserved, HeldBy
  <2>4. CASE a = a0
    <3>1. HeldBy(a)' = HeldBy(a) \cup {n}
      BY <1>2, <2>4 DEF HeldBy
    <3>2. Cardinality(HeldBy(a) \cup {n}) = Cardinality(HeldBy(a)) + 1
      BY <2>1, FS_AddElement
    <3>3. instances'[a] = instances[a] - 1 /\ instances[a] \in Int
      BY <1>1, <2>3, <2>4 DEF AcquireAlgorithm
    <3> QED
      BY <2>2, <2>3, <3>1, <3>2, <3>3
  <2>5. CASE a # a0
    <3>1. HeldBy(a)' = HeldBy(a)
      BY <1>2, <2>5 DEF HeldBy
    <3>2. instances'[a] = instances[a]
      BY <1>1, <2>3, <2>5 DEF AcquireAlgorithm
    <3> QED
      BY <2>3, <3>1, <3>2
  <2> QED
    BY <2>4, <2>5
<1> QED
  BY <1>6, <1>7, <1>8 DEF PoolConserved, HeldBy

\* A task that releases its algorithm gives back what it took.
LEMMA ReleaseConserves ==
  ASSUME SchedulerInv, TasksDistinct, PoolConserved, NEW t, NEW u, Moved(t, u),
         t.stage = "executed", u.stage = "released", ReleaseAlgorithm(t.ts.alg)
  PROVE  PoolConserved'
<1> DEFINE a0 == t.ts.alg
<1>1. a0 \in Algs /\ \A v \in tasks : v.ts.alg \in Algs
  BY TaskType DEF Moved
<1>2. t \in Holders /\ Holders' = Holders \ {t} /\ Holders \subseteq tasks
  BY DEF Moved, Holders
<1>3. \A a \in Algs : Requires[a] \subseteq Resources
  BY AlgorithmsAssumption
<1>4. available \subseteq Resources /\ available' = available \cup Requires[a0]
  BY DEF SchedulerInv, TypeOK, ReleaseAlgorithm
<1>5. \A r \in Resources : r \in available <=> ~ResourceHeld(r)
  BY <1>1, <1>2, <1>3, <1>4, AvailableExact DEF PoolConserved, ResourceHeld
<1>6. \A v, w \in Holders' : v # w => Requires[v.ts.alg] \cap Requires[w.ts.alg] = {}
  BY <1>2 DEF PoolConserved
<1>7. available' = Resources \ UNION {Requires[v.ts.alg] : v \in Holders'}
  <2>1. \A v \in Holders : v # t => Requires[v.ts.alg] \cap Requires[a0] = {}
    BY <1>2 DEF PoolConserved
  <2>2. \A r \in Resources : r \in available' <=> ~(\E v \in Holders' : r \in Requires[v.ts.alg])
    BY <1>2, <1>4, <1>5, <2>1 DEF ResourceHeld
  <2>3. available' \subseteq Resources /\ \A v \in Holders' : Requires[v.ts.alg] \subseteq Resources
    BY <1>1, <1>2, <1>3, <1>4
  <2> QED
    BY <2>2, <2>3, AvailableExact
<1>8. ASSUME NEW a \in Algs \ Reentrant
      PROVE  instances'[a] + Cardinality(HeldBy(a)') = Instances[a]
  <2>1. IsFiniteSet(HeldBy(a))
    BY <1>2, FS_Subset DEF TasksDistinct, HeldBy
  <2>2. Cardinality(HeldBy(a)) \in Nat
    BY <2>1, FS_CardinalityType
  <2>3. instances \in [Algs -> Int] /\ instances[a] + Cardinality(HeldBy(a)) = Instances[a]
    BY DEF SchedulerInv, TypeOK, PoolConserved, HeldBy
  <2>4. CASE a = a0
    <3>1. HeldBy(a)' = HeldBy(a) \ {t} /\ t \in HeldBy(a)
      BY <1>2, <2>4 DEF HeldBy
    <3>2. Cardinality(HeldBy(a) \ {t}) = Cardinality(HeldBy(a)) - 1
      BY <2>1, <3>1, FS_RemoveElement
    <3>3. instances'[a] = instances[a] + 1 /\ instances[a] \in Int
      BY <1>1, <2>3, <2>4 DEF ReleaseAlgorithm
    <3> QED
      BY <2>2, <2>3, <3>1, <3>2, <3>3
  <2>5. CASE a # a0
    <3>1. HeldBy(a)' = HeldBy(a)
      BY <1>2, <2>5 DEF HeldBy
    <3>2. instances'[a] = instances[a]
      BY <1>1, <2>3, <2>5 DEF ReleaseAlgorithm
    <3> QED
      BY <2>3, <3>1, <3>2
  <2> QED
    BY <2>4, <2>5
<1> QED
  BY <1>6, <1>7, <1>8 DEF PoolConserved, HeldBy

\* A task that goes on with its algorithm keeps it.
LEMMA ExecuteConserves ==
  ASSUME SchedulerInv, TasksDistinct, PoolConserved, NEW t, NEW u, Moved(t, u),
         t.stage = "queued", u.stage = "executed", UNCHANGED <<instances, available>>
  PROVE  PoolConserved'
<1>1. /\ t \in Holders /\ u \notin Holders /\ Holders' = (Holders \ {t}) \cup {u}
      /\ u.ts = t.ts /\ Holders \subseteq tasks
  BY DEF Moved, Holders
<1>2. \A v, w \in Holders' : v # w => Requires[v.ts.alg] \cap Requires[w.ts.alg] = {}
  BY <1>1 DEF PoolConserved
<1>3. {Requires[v.ts.alg] : v \in Holders'} = {Requires[v.ts.alg] : v \in Holders}
  BY <1>1
<1>4. ASSUME NEW a \in Algs \ Reentrant
      PROVE  Cardinality(HeldBy(a)') = Cardinality(HeldBy(a))
  <2>1. IsFiniteSet(HeldBy(a)) /\ u \notin HeldBy(a)
    BY <1>1, FS_Subset DEF TasksDistinct, HeldBy
  <2>2. CASE t.ts.alg = a
    <3>1. HeldBy(a)' = (HeldBy(a) \ {t}) \cup {u} /\ t \in HeldBy(a)
      BY <1>1, <2>2 DEF HeldBy
    <3> QED
      BY <2>1, <3>1, ReplaceCard
  <2>3. CASE t.ts.alg # a
    <3>1. HeldBy(a)' = HeldBy(a)
      BY <1>1, <2>3 DEF HeldBy
    <3> QED
      BY <3>1
  <2> QED
    BY <2>2, <2>3
<1>5. \A a \in Algs \ Reentrant : instances'[a] + Cardinality(HeldBy(a)') = Instances[a]
  BY <1>4 DEF PoolConserved, HeldBy
<1> QED
  BY <1>2, <1>3, <1>5 DEF PoolConserved, HeldBy

\* With a thread pool, no step loses or doubles an instance or a resource.
LEMMA StepPool ==
  ASSUME SchedulerInv, TasksDistinct, PoolConserved, ~DirectExecution,
         [SchedulerNext]_schedulerVars
  PROVE  PoolConserved'
<1>1. StepKind
  BY StepTasks
<1>2. ASSUME Holders' = Holders, UNCHANGED <<instances, available>> PROVE PoolConserved'
  BY <1>2 DEF PoolConserved
<1>3. tasks' = tasks => Holders' = Holders
  BY DEF Holders
<1>4. ASSUME NEW t \in tasks, tasks' = tasks \ {t}, t.stage = "released"
      PROVE  Holders' = Holders
  BY <1>4 DEF Holders
<1> QED
  BY <1>1, <1>2, <1>3, <1>4, AcquireConserves, ReleaseConserves, ExecuteConserves DEF StepKind

-----------------------------------------------------------------------------
(* m_freeSlots.                                                            *)

\* The events that took a slot of m_freeSlots and have not given it back: the
\* ones with the scheduler, and the ones iterate() has dropped.
Charged == {e \in Events : owner[e] \in {"scheduler", "lost"}}

\* Until deactivate() sets it to 0, m_freeSlots is what these events leave.
SlotsCounted == closing = "no" => freeSlots = NumSlots - Cardinality(Charged)

\* They are finitely many.
LEMMA ChargedFinite == IsFiniteSet(Charged) /\ Cardinality(Charged) \in Nat
<1>1. IsFiniteSet(Events)
  BY EventContextsAssumption, FS_Interval DEF Events
<1>2. Charged \in SUBSET Events
  BY DEF Charged
<1>3. IsFiniteSet(Charged)
  BY <1>1, <1>2, FS_Subset
<1> QED
  BY <1>3, FS_CardinalityType

\* At the start no slot is taken.
LEMMA InitCounted == SchedulerInit => SlotsCounted
<1> SUFFICES ASSUME SchedulerInit PROVE SlotsCounted
  OBVIOUS
<1>1. Charged = {}
  BY DEF SchedulerInit, Charged
<1>2. Cardinality({}) = 0
  BY FS_EmptySet
<1> QED
  BY <1>1, <1>2, EventContextsAssumption DEF SlotsCounted, SchedulerInit

\* The client's push and pop count one slot each, and nothing that the
\* scheduler thread does with an event in between changes the balance.
LEMMA StepCounted ==
  ASSUME SchedulerInv, EventsPlaced, SlotsCounted, [SchedulerNext]_schedulerVars
  PROVE  SlotsCounted'
<1> USE DEF slotVars, queueVars, taskVars, poolVars, statusVars, ctxVars, activeVars
<1>1. IsFiniteSet(Charged) /\ Cardinality(Charged) \in Nat
  BY ChargedFinite
<1>2. owner \in [Events -> {"unborn", "scheduler", "client", "deleted", "lost"}] /\ freeSlots \in Int
  BY DEF SchedulerInv, TypeOK
<1>3. ASSUME Charged' = Charged, freeSlots' = freeSlots, closing' = "no" => closing = "no"
      PROVE  SlotsCounted'
  BY <1>3 DEF SlotsCounted
<1>4. ASSUME NEW e \in Events, NEW s \in Slots, PushNewEvent(e, s) PROVE SlotsCounted'
  <2>1. owner[e] = "unborn" /\ owner' = [owner EXCEPT ![e] = "scheduler"]
        /\ freeSlots' = freeSlots - 1 /\ closing' = closing
    BY <1>4 DEF PushNewEvent
  <2>2. Charged' = Charged \cup {e} /\ e \notin Charged
    BY <1>2, <2>1 DEF Charged
  <2>3. Cardinality(Charged \cup {e}) = Cardinality(Charged) + 1
    BY <1>1, <2>2, FS_AddElement
  <2> QED
    BY <1>1, <1>2, <2>1, <2>2, <2>3, EventContextsAssumption DEF SlotsCounted
<1>5. CASE TryPopFinishedEvent
  <2> DEFINE e == Head(finishedEvents)
  <2>1. finishedEvents # <<>> /\ finishedEvents \in Seq(Events)
    BY <1>5 DEF TryPopFinishedEvent, SchedulerInv, TypeOK
  <2>2. e \in Events /\ Occurs(finishedEvents, e)
    BY <2>1, TailOccurs
  <2>3. owner' = [owner EXCEPT ![e] = "client"] /\ freeSlots' = freeSlots + 1 /\ closing' = closing
    BY <1>5 DEF TryPopFinishedEvent
  <2> HIDE DEF e
  <2>4. owner[e] = "scheduler"
    BY <2>2 DEF EventsPlaced, OnePlace, Finished
  <2>5. Charged' = Charged \ {e} /\ e \in Charged
    BY <1>2, <2>2, <2>3, <2>4 DEF Charged
  <2>6. Cardinality(Charged \ {e}) = Cardinality(Charged) - 1
    BY <1>1, <2>5, FS_RemoveElement
  <2> QED
    BY <1>1, <1>2, <2>3, <2>5, <2>6, EventContextsAssumption DEF SlotsCounted
<1>6. ASSUME NEW e \in Events, DeleteContext(e) PROVE SlotsCounted'
  <2>1. Charged' = Charged
    BY <1>2, <1>6 DEF DeleteContext, Charged
  <2> QED
    BY <1>3, <1>6, <2>1 DEF DeleteContext
<1>7. CASE SlotUpdate
  <2>1. sched.slot \in Slots /\ slots[sched.slot].ctx \in Events
        /\ owner[slots[sched.slot].ctx] = "scheduler"
    BY <1>7 DEF SlotUpdate, SchedulerInv, TypeOK, CursorOK, SlotState, EventsPlaced, SlotsOwned
  <2>2. owner' = owner \/ owner' = [owner EXCEPT ![slots[sched.slot].ctx] = "lost"]
    BY <1>7 DEF SlotUpdate
  <2>3. Charged' = Charged
    BY <1>2, <2>1, <2>2 DEF Charged
  <2> QED
    BY <1>3, <1>7, <2>3 DEF SlotUpdate
<1>8. CASE Deactivate \/ Deactivation
  BY <1>8 DEF Deactivate, Deactivation, DrainQueue, PushDeactivate, SlotsCounted
<1>9. ASSUME owner' = owner, freeSlots' = freeSlots, closing' = closing PROVE SlotsCounted'
  BY <1>3, <1>9 DEF Charged
<1>10. RunNewEvent \/ RunSignoff \/ RunDeactivate \/ CheckUpdate \/ RetrySchedule \/ SlotSchedule \/ Exit
         => owner' = owner /\ freeSlots' = freeSlots /\ closing' = closing
  BY DEF RunNewEvent, RunSignoff, RunDeactivate, CheckUpdate, RetrySchedule, SlotSchedule, Exit
<1>11. Task => owner' = owner /\ freeSlots' = freeSlots /\ closing' = closing
  BY DEF Task, TaskExecute, TaskRelease, TaskSignoff
<1>12. (\E s \in Slots \ InUse : ResetOnly(s)) \/ UNCHANGED schedulerVars
         => owner' = owner /\ freeSlots' = freeSlots /\ closing' = closing
  BY DEF ResetOnly, schedulerVars
<1> QED
  BY <1>4, <1>5, <1>6, <1>7, <1>8, <1>9, <1>10, <1>11, <1>12
  DEF SchedulerNext, SchedulerThread, Client, PopFinishedEvent, Terminated

\* The tasks are distinct and m_freeSlots is exact, for every configuration.
LEMMA CountsInvariant == SchedulerSpec => [](TasksDistinct /\ SlotsCounted)
<1>1. SchedulerInit => TasksDistinct
  BY FS_EmptySet DEF SchedulerInit, TasksDistinct
<1>2. SchedulerInv /\ EventsPlaced /\ (TasksDistinct /\ SlotsCounted) /\ [SchedulerNext]_schedulerVars
        => (TasksDistinct /\ SlotsCounted)'
  BY StepTasks, StepCounted
<1> QED
  BY <1>1, <1>2, InitCounted, SchedulerInvariant, EventsInOnePlace, PTL DEF SchedulerSpec

\* The pool of a scheduler that has just been initialized is complete.
LEMMA InitPool == SchedulerInit => PoolConserved
<1> SUFFICES ASSUME SchedulerInit PROVE PoolConserved
  OBVIOUS
<1>1. Holders = {} /\ instances = Instances /\ available = Resources
  BY DEF SchedulerInit, Holders
<1>2. \A a \in Algs : Instances[a] \in Nat
  BY AlgorithmsAssumption
<1>3. Cardinality({}) = 0
  BY FS_EmptySet
<1>4. \A a \in Algs : {t \in Holders : t.ts.alg = a} = {}
  BY <1>1
<1> QED
  BY <1>1, <1>2, <1>3, <1>4 DEF PoolConserved

\* With a thread pool no instance and no resource is lost or held twice.
LEMMA SchedulerPoolKept == ~DirectExecution => (SchedulerSpec => []PoolConserved)
<1> SUFFICES ASSUME ~DirectExecution PROVE SchedulerSpec => []PoolConserved
  OBVIOUS
<1>1. SchedulerInv /\ (TasksDistinct /\ SlotsCounted) /\ PoolConserved /\ [SchedulerNext]_schedulerVars
        => PoolConserved'
  BY StepPool
<1> QED
  BY <1>1, InitPool, SchedulerInvariant, CountsInvariant, PTL DEF SchedulerSpec

\* Nothing is lost on the way, as long as no event is: with a thread pool every
\* instance and resource is free or with a task, and while iterate() has not
\* dropped an event m_freeSlots is exact.  SchedulerLostEvent.cfg shows that
\* iterate() can drop one; SlotsCounted says what m_freeSlots is then.
THEOREM NothingIsLost == ~DirectExecution => (SchedulerSpec => [](NoEventLost => NothingLost))
<1> SUFFICES ASSUME ~DirectExecution PROVE SchedulerSpec => [](NoEventLost => NothingLost)
  OBVIOUS
<1>1. (TasksDistinct /\ SlotsCounted) /\ PoolConserved => (NoEventLost => NothingLost)
  <2>1. NoEventLost => Charged = {e \in Events : owner[e] = "scheduler"}
    BY DEF NoEventLost, Charged
  <2> QED
    BY <2>1 DEF SlotsCounted, SlotsAccounted, NothingLost
<1> QED
  BY <1>1, CountsInvariant, SchedulerPoolKept, PTL

-----------------------------------------------------------------------------
(* m_blockingAlgosInFlight.                                                *)

\* What m_blockingAlgosInFlight counts: the tasks and the sign-offs of blocking
\* algorithms.
BlockingTasks   == {t \in tasks : t.ts.alg \in Blocking}
BlockingActions == {x \in Actions : x.kind = "signoff" /\ x.ts.alg \in Blocking}

\* The two sets are finite.
LEMMA BlockingFinite ==
  ASSUME SchedulerInv, TasksDistinct
  PROVE  /\ IsFiniteSet(BlockingTasks) /\ Cardinality(BlockingTasks) \in Nat
         /\ actionsQueue \in Seq(Actions)
         /\ Cardinality(Places(actionsQueue, BlockingActions)) \in Nat
<1>1. actionsQueue \in Seq(Actions)
  BY DEF SchedulerInv, TypeOK
<1>2. IsFiniteSet(BlockingTasks)
  BY FS_Subset DEF TasksDistinct, BlockingTasks
<1>3. Cardinality(BlockingTasks) \in Nat
  BY <1>2, FS_CardinalityType
<1> QED
  BY <1>1, <1>2, <1>3, PlacesFinite

\* BlockingCounted looks at these entries of the queue.
LEMMA BlockingPlaces ==
  ASSUME NEW q \in Seq(Actions)
  PROVE  {i \in DOMAIN q : q[i].kind = "signoff" /\ q[i].ts.alg \in Blocking}
           = Places(q, BlockingActions)
<1>1. \A i \in DOMAIN q : q[i] \in Actions
  OBVIOUS
<1> QED
  BY <1>1 DEF Places, BlockingActions

\* A step that adds dt blocking tasks and da blocking sign-offs keeps the count
\* if it adds as much to m_blockingAlgosInFlight and stays within the limit.
LEMMA BlockingRecount ==
  ASSUME SchedulerInv, SchedulerInv', TasksDistinct, BlockingCounted,
         closing' = "no" => closing = "no",
         NEW dt \in Int, NEW da \in Int,
         Cardinality(BlockingTasks') = Cardinality(BlockingTasks) + dt,
         Cardinality(Places(actionsQueue', BlockingActions))
           = Cardinality(Places(actionsQueue, BlockingActions)) + da,
         blockingInFlight' = blockingInFlight + dt + da,
         dt + da > 0 => blockingInFlight + dt + da <= MaxBlocking
  PROVE  BlockingCounted'
<1>1. /\ actionsQueue \in Seq(Actions) /\ actionsQueue' \in Seq(Actions)
      /\ blockingInFlight \in Int
  BY DEF SchedulerInv, TypeOK
<1>2. /\ Cardinality(BlockingTasks) \in Nat
      /\ Cardinality(Places(actionsQueue, BlockingActions)) \in Nat
  BY BlockingFinite
<1>3. closing = "no" =>
        /\ blockingInFlight <= MaxBlocking
        /\ blockingInFlight = Cardinality(BlockingTasks)
                              + Cardinality(Places(actionsQueue, BlockingActions))
  BY <1>1, BlockingPlaces DEF BlockingCounted, BlockingTasks
<1>4. closing' = "no" =>
        /\ blockingInFlight' <= MaxBlocking
        /\ blockingInFlight' = Cardinality(BlockingTasks')
                               + Cardinality(Places(actionsQueue', BlockingActions))
  BY <1>1, <1>2, <1>3, SizesAssumption, SMTT(30)
<1> QED
  BY <1>1, <1>4, BlockingPlaces DEF BlockingCounted, BlockingTasks

\* schedule() counts the blocking task it spawns, and spawns none above the
\* limit.
LEMMA ScheduleBlocking ==
  ASSUME SchedulerInv, SchedulerInv', TasksDistinct, BlockingCounted,
         NEW ts, NEW pending, Schedule(ts, pending),
         UNCHANGED <<actionsQueue, closing>>
  PROVE  BlockingCounted'
<1>1. CASE tasks' = tasks /\ blockingInFlight' = blockingInFlight
  BY <1>1 DEF BlockingCounted
<1>2. ASSUME NEW n, Spawned(n, ts), ~Throttled(ts),
             blockingInFlight' = IF ts.alg \in Blocking THEN blockingInFlight + 1
                                 ELSE blockingInFlight
      PROVE  BlockingCounted'
  <2>1. CASE ts.alg \in Blocking
    <3>1. BlockingTasks' = BlockingTasks \cup {n} /\ n \notin BlockingTasks
      BY <1>2, <2>1 DEF Spawned, BlockingTasks
    <3>2. Cardinality(BlockingTasks') = Cardinality(BlockingTasks) + 1
      BY <3>1, FS_AddElement, BlockingFinite
    <3>3. blockingInFlight \in Int /\ blockingInFlight # MaxBlocking
      BY <1>2, <2>1 DEF Throttled, SchedulerInv, TypeOK
    <3>4. CASE closing # "no"
      BY <3>4 DEF BlockingCounted
    <3>5. CASE closing = "no"
      <4>1. blockingInFlight + 1 <= MaxBlocking
        BY <3>3, <3>5, SizesAssumption DEF BlockingCounted
      <4>2. Cardinality(Places(actionsQueue', BlockingActions))
              = Cardinality(Places(actionsQueue, BlockingActions)) + 0
        BY BlockingFinite
      <4>3. blockingInFlight' = blockingInFlight + 1 + 0 /\ blockingInFlight + 1 + 0 <= MaxBlocking
        BY <1>2, <2>1, <3>3, <4>1
      <4> QED
        BY <3>2, <4>2, <4>3, BlockingRecount
    <3> QED
      BY <3>4, <3>5
  <2>2. CASE ts.alg \notin Blocking
    <3>1. BlockingTasks' = BlockingTasks
      BY <1>2, <2>2 DEF Spawned, BlockingTasks
    <3> QED
      BY <1>2, <2>2, <3>1 DEF BlockingCounted, BlockingTasks
  <2> QED
    BY <2>1, <2>2
<1> QED
  BY <1>1, <1>2, ScheduleSpawns

\* A task hands its place in the count to its sign-off.
LEMMA SignoffBlocking ==
  ASSUME SchedulerInv, SchedulerInv', TasksDistinct, BlockingCounted,
         NEW t \in tasks, TaskSignoff(t)
  PROVE  BlockingCounted'
<1> DEFINE d == IF t.ts.alg \in Blocking THEN 1 ELSE 0
<1>1. /\ tasks' = tasks \ {t} /\ actionsQueue' = Append(actionsQueue, SignoffAction(t.ts))
      /\ blockingInFlight' = blockingInFlight /\ closing' = closing
  BY DEF TaskSignoff, activeVars
<1>2. t.ts \in TaskSpecs /\ SignoffAction(t.ts) \in Actions
  BY TaskType DEF SignoffAction, Actions, TaskSpecs
<1>3. SignoffAction(t.ts) \in BlockingActions <=> t.ts.alg \in Blocking
  BY <1>2 DEF BlockingActions, SignoffAction
<1>4. Cardinality(Places(actionsQueue', BlockingActions))
        = Cardinality(Places(actionsQueue, BlockingActions)) + d
  BY <1>1, <1>2, <1>3, PlacesAppend, BlockingFinite
<1>5. Cardinality(BlockingTasks') = Cardinality(BlockingTasks) + (0 - d)
  <2>1. CASE t.ts.alg \in Blocking
    <3>1. BlockingTasks' = BlockingTasks \ {t} /\ t \in BlockingTasks
      BY <1>1, <2>1 DEF BlockingTasks
    <3>2. Cardinality(BlockingTasks \ {t}) = Cardinality(BlockingTasks) - 1
      BY <3>1, FS_RemoveElement, BlockingFinite
    <3>3. d = 1 /\ Cardinality(BlockingTasks) \in Nat
      BY <2>1, BlockingFinite
    <3> QED
      BY <3>1, <3>2, <3>3
  <2>2. CASE t.ts.alg \notin Blocking
    <3>1. BlockingTasks' = BlockingTasks
      BY <1>1, <2>2 DEF BlockingTasks
    <3> QED
      BY <2>2, <3>1, BlockingFinite
  <2> QED
    BY <2>1, <2>2
<1>6. d \in Int /\ 0 - d \in Int /\ (0 - d) + d = 0 /\ blockingInFlight \in Int
      /\ blockingInFlight' = blockingInFlight + (0 - d) + d
  BY <1>1 DEF SchedulerInv, TypeOK
<1> HIDE DEF d
<1> QED
  BY <1>1, <1>4, <1>5, <1>6, BlockingRecount

\* Running a closure of the queue: signoff() of a blocking algorithm gives its
\* place back.
LEMMA ClosureBlocking ==
  ASSUME SchedulerInv, SchedulerInv', TasksDistinct, BlockingCounted,
         RunSignoff \/ RunNewEvent \/ RunDeactivate
  PROVE  BlockingCounted'
<1> DEFINE x == Head(actionsQueue)
           d == IF x \in BlockingActions THEN 1 ELSE 0
<1>1. /\ actionsQueue # <<>> /\ actionsQueue' = Tail(actionsQueue)
      /\ tasks' = tasks /\ closing' = closing
  BY DEF RunSignoff, RunNewEvent, RunDeactivate, PopAction, taskVars, activeVars
<1>2. x \in Actions /\ actionsQueue \in Seq(Actions) /\ blockingInFlight \in Int
  BY <1>1 DEF SchedulerInv, TypeOK
<1>3. blockingInFlight' = blockingInFlight - d
  <2>1. CASE RunSignoff
    <3>1. x.kind = "signoff"
          /\ blockingInFlight' = IF x.ts.alg \in Blocking THEN blockingInFlight - 1 ELSE blockingInFlight
      BY <2>1 DEF RunSignoff, PopAction
    <3>2. x \in BlockingActions <=> x.ts.alg \in Blocking
      BY <1>2, <3>1 DEF BlockingActions
    <3> HIDE DEF x
    <3> QED
      BY <1>2, <3>1, <3>2
  <2>2. CASE RunNewEvent \/ RunDeactivate
    <3>1. x.kind \in {"newEvent", "deactivate"} /\ blockingInFlight' = blockingInFlight
      BY <2>2, Zenon DEF RunNewEvent, RunDeactivate, PopAction, taskVars
    <3>2. x \notin BlockingActions
      BY <3>1, SMT DEF BlockingActions
    <3> HIDE DEF x
    <3> QED
      BY <1>2, <3>1, <3>2, SMT
  <2> QED
    BY <2>1, <2>2
<1>4. Cardinality(Places(actionsQueue', BlockingActions))
        = Cardinality(Places(actionsQueue, BlockingActions)) + (0 - d)
  BY <1>1, <1>2, PlacesTail, BlockingFinite
<1>5. Cardinality(BlockingTasks') = Cardinality(BlockingTasks) + 0
  BY <1>1, BlockingFinite DEF BlockingTasks
<1>6. 0 - d \in Int /\ 0 + (0 - d) <= 0 /\ blockingInFlight' = blockingInFlight + 0 + (0 - d)
  BY <1>2, <1>3
<1> HIDE DEF d, x
<1> QED
  BY <1>1, <1>4, <1>5, <1>6, BlockingRecount

\* Every step keeps the count.
LEMMA StepBlocking ==
  ASSUME SchedulerInv, SchedulerInv', TasksDistinct, BlockingCounted,
         [SchedulerNext]_schedulerVars
  PROVE  BlockingCounted'
<1> USE DEF slotVars, queueVars, taskVars, poolVars, statusVars, ctxVars, activeVars
<1>1. CASE RetrySchedule \/ SlotSchedule
  <2>1. UNCHANGED <<actionsQueue, closing>> /\ \E ts, pending : Schedule(ts, pending)
    BY <1>1 DEF RetrySchedule, SlotSchedule
  <2> QED
    BY <2>1, ScheduleBlocking
<1>2. ASSUME NEW t \in tasks, (\E out \in Outcome : TaskExecute(t, out)) \/ TaskRelease(t)
      PROVE  BlockingCounted'
  <2>1. PICK u : Moved(t, u)
    BY <1>2, TaskMoves
  <2>2. UNCHANGED <<actionsQueue, closing, blockingInFlight>>
    BY <1>2 DEF TaskExecute, TaskRelease
  <2>3. Cardinality(BlockingTasks') = Cardinality(BlockingTasks)
    <3>1. CASE t.ts.alg \in Blocking
      <4>1. /\ BlockingTasks' = (BlockingTasks \ {t}) \cup {u}
            /\ t \in BlockingTasks /\ u \notin BlockingTasks
        BY <2>1, <3>1 DEF Moved, BlockingTasks
      <4> QED
        BY <4>1, ReplaceCard, BlockingFinite
    <3>2. CASE t.ts.alg \notin Blocking
      <4>1. BlockingTasks' = BlockingTasks
        BY <2>1, <3>2 DEF Moved, BlockingTasks
      <4> QED
        BY <4>1
    <3> QED
      BY <3>1, <3>2
  <2> QED
    BY <2>2, <2>3 DEF BlockingCounted, BlockingTasks
<1>3. ASSUME NEW t \in tasks, TaskSignoff(t) PROVE BlockingCounted'
  BY <1>3, SignoffBlocking
<1>4. CASE RunSignoff \/ RunNewEvent \/ RunDeactivate
  BY <1>4, ClosureBlocking
<1>5. ASSUME NEW e \in Events, NEW s \in Slots, PushNewEvent(e, s) PROVE BlockingCounted'
  <2>1. /\ actionsQueue' = Append(actionsQueue, NewEventAction(e))
        /\ UNCHANGED <<tasks, blockingInFlight, closing>>
    BY <1>5 DEF PushNewEvent
  <2>2. NewEventAction(e) \in Actions /\ NewEventAction(e) \notin BlockingActions
    BY DEF NewEventAction, TaskSpec, Actions, BlockingActions
  <2>3. Cardinality(Places(actionsQueue', BlockingActions))
          = Cardinality(Places(actionsQueue, BlockingActions)) + 0
    BY <2>1, <2>2, PlacesAppend, BlockingFinite
  <2>4. Cardinality(BlockingTasks') = Cardinality(BlockingTasks) + 0
    BY <2>1, BlockingFinite DEF BlockingTasks
  <2>5. blockingInFlight' = blockingInFlight + 0 + 0
    BY <2>1 DEF SchedulerInv, TypeOK
  <2> QED
    BY <2>1, <2>3, <2>4, <2>5, BlockingRecount
<1>6. CASE Deactivate \/ Deactivation
  BY <1>6 DEF Deactivate, Deactivation, DrainQueue, PushDeactivate, BlockingCounted
<1>7. CASE UNCHANGED <<tasks, actionsQueue, blockingInFlight, closing>>
  BY <1>7 DEF BlockingCounted
<1>8. CheckUpdate \/ SlotUpdate \/ Exit \/ UNCHANGED schedulerVars
        => UNCHANGED <<tasks, actionsQueue, blockingInFlight, closing>>
  BY DEF CheckUpdate, SlotUpdate, Exit, schedulerVars
<1>9. (\E s \in Slots : ResetOnly(s)) \/ TryPopFinishedEvent \/ (\E e \in Events : DeleteContext(e))
        => UNCHANGED <<tasks, actionsQueue, blockingInFlight, closing>>
  BY DEF ResetOnly, TryPopFinishedEvent, DeleteContext
<1> QED
  BY <1>1, <1>2, <1>3, <1>4, <1>5, <1>6, <1>7, <1>8, <1>9
  DEF SchedulerNext, SchedulerThread, Task, Client, PopFinishedEvent, Terminated

\* Until deactivate(), m_blockingAlgosInFlight is the number of blocking tasks
\* and sign-offs there are and stays within MaxBlockingAlgosInFlight, in every
\* configuration.
THEOREM BlockingIsCounted == SchedulerSpec => []BlockingCounted
<1>1. SchedulerInit => BlockingCounted
  <2> SUFFICES ASSUME SchedulerInit PROVE BlockingCounted
    OBVIOUS
  <2>1. blockingInFlight = 0 /\ tasks = {} /\ actionsQueue = <<>>
    BY DEF SchedulerInit
  <2>2. {t \in tasks : t.ts.alg \in Blocking} = {}
    BY <2>1
  <2>3. {i \in DOMAIN actionsQueue :
           actionsQueue[i].kind = "signoff" /\ actionsQueue[i].ts.alg \in Blocking} = {}
    BY <2>1
  <2>4. Cardinality({}) = 0
    BY FS_EmptySet
  <2> QED
    BY <2>1, <2>2, <2>3, <2>4, SizesAssumption DEF BlockingCounted
<1>2. SchedulerInv /\ SchedulerInv' /\ (TasksDistinct /\ SlotsCounted) /\ BlockingCounted
        /\ [SchedulerNext]_schedulerVars => BlockingCounted'
  BY StepBlocking
<1> QED
  BY <1>1, <1>2, SchedulerInvariant, CountsInvariant, PTL DEF SchedulerSpec

-----------------------------------------------------------------------------
(* The invariant.                                                          *)

\* Something will wake the scheduler thread: an action is queued, or a task is
\* on its way to queue one.
Stir == actionsQueue # <<>> \/ tasks # {}

\* Nothing is left to retry, and no slot below k has an event.
Settled(k) == retryQueue = <<>> /\ \A s \in Slots : s < k => slots[s].ctx = NoEvent

\* The algorithms that the turn for slot s must schedule.
Ready(s) == {a \in Algs : slots[s].algs[a] = "DATAREADY"}

\* Until deactivate(), the thread is alive; it waits for an action only if one
\* is to come or all is settled; after an action it looks at every slot again;
\* and with nothing to stir it, it has settled what it has passed in iterate()
\* and will schedule every DATAREADY algorithm of the slot it is at.
Awake ==
  closing = "no" =>
    /\ isActive /\ sched.at # "exited" /\ ~Occurs(actionsQueue, DeactivateAction)
    /\ sched.at = "pop" => Stir \/ Settled(NumSlots)
    /\ sched.at = "check" => needsUpdate
    /\ sched.at = "slot" => Stir \/ (Settled(sched.slot) /\ Ready(sched.slot) \subseteq sched.todo)

\* The instance of a reentrant algorithm never leaves its queue.
ReentrantQueued == \A a \in Reentrant : instances[a] = Instances[a]

-----------------------------------------------------------------------------
(* With no task under way every algorithm can be acquired.                 *)

\* Reentrant instances stay where they are.
LEMMA StepReentrant ==
  ASSUME SchedulerInv, TasksDistinct, ReentrantQueued, ~DirectExecution,
         [SchedulerNext]_schedulerVars
  PROVE  ReentrantQueued'
<1>1. instances \in [Algs -> Int] /\ Reentrant \subseteq Algs
  BY AlgorithmsAssumption DEF SchedulerInv, TypeOK
<1>2. StepKind
  BY StepTasks
<1>3. \A a \in Algs : AcquireAlgorithm(a) \/ ReleaseAlgorithm(a) \/ instances' = instances
        => \A b \in Reentrant : instances'[b] = instances[b]
  BY <1>1 DEF AcquireAlgorithm, ReleaseAlgorithm
<1>4. \A t \in tasks : t.ts.alg \in Algs
  BY TaskType
<1>5. instances' = instances \/ \E a \in Algs : AcquireAlgorithm(a) \/ ReleaseAlgorithm(a)
  BY <1>2, <1>4 DEF StepKind, TaskSpecs, Moved
<1>6. instances' = instances => \A b \in Reentrant : instances'[b] = instances[b]
  OBVIOUS
<1> QED
  BY <1>3, <1>5, <1>6 DEF ReentrantQueued

\* An idle pool refuses no algorithm: each has an instance, which
\* decodeTopAlgs has put into its queue, and all resources are there.
LEMMA IdlePoolGrants ==
  ASSUME SchedulerInv, PoolConserved, ReentrantQueued, tasks = {}, NEW a \in Algs
  PROVE  CanAcquire(a)
<1>1. Holders = {}
  BY DEF Holders
<1>2. available = Resources /\ Requires[a] \subseteq Resources
  BY <1>1, AlgorithmsAssumption DEF PoolConserved
<1>3. instances[a] > 0
  <2>1. Instances[a] \in Nat /\ Instances[a] > 0
    BY AlgorithmsAssumption
  <2>2. CASE a \in Reentrant
    BY <2>1, <2>2 DEF ReentrantQueued
  <2>3. CASE a \notin Reentrant
    <3>1. {t \in Holders : t.ts.alg = a} = {}
      BY <1>1
    <3>2. Cardinality({t \in Holders : t.ts.alg = a}) = 0
      BY <3>1, FS_EmptySet
    <3>3. instances[a] + Cardinality({t \in Holders : t.ts.alg = a}) = Instances[a]
      BY <2>3 DEF PoolConserved
    <3>4. instances[a] \in Int
      BY DEF SchedulerInv, TypeOK
    <3> QED
      BY <2>1, <3>2, <3>3, <3>4
  <2> QED
    BY <2>2, <2>3
<1> QED
  BY <1>2, <1>3 DEF CanAcquire

\* So a call of schedule() leaves a task under way.
LEMMA ScheduleStirs ==
  ASSUME SchedulerInv, PoolConserved, ReentrantQueued, Blocking = {}, ~DirectExecution,
         NEW ts \in TaskSpecs, NEW pending, Schedule(ts, pending), actionsQueue' = actionsQueue
  PROVE  Stir'
<1>1. ts.alg \in Algs /\ ~Throttled(ts)
  BY DEF TaskSpecs, Throttled
<1>2. CASE Stir
  <2>1. tasks \subseteq tasks'
    BY DEF Schedule, SpawnTask, taskVars
  <2> QED
    BY <1>2, <2>1 DEF Stir
<1>3. CASE ~Stir
  <2>1. CanAcquire(ts.alg)
    BY <1>1, <1>3, IdlePoolGrants DEF Stir
  <2>2. SpawnTask(ts)
    BY <1>1, <2>1 DEF Schedule
  <2>3. tasks' # {}
    BY <2>2 DEF SpawnTask
  <2> QED
    BY <2>3 DEF Stir
<1> QED
  BY <1>2, <1>3

-----------------------------------------------------------------------------
(* The loop over the slots.                                                *)

\* The scheduler thread goes on with the first slot that has an event, and
\* with all its DATAREADY algorithms.
LEMMA FromSlotSettles ==
  ASSUME NEW sl \in [Slots -> SlotState], NEW k \in Nat,
         \A s \in Slots : s < k => sl[s].ctx = NoEvent
  PROVE  LET c == FromSlot(k, sl)
         IN  /\ c.at \in {"pop", "slot"}
             /\ c.at = "pop" => \A s \in Slots : sl[s].ctx = NoEvent
             /\ c.at = "slot" =>
                  /\ \A s \in Slots : s < c.slot => sl[s].ctx = NoEvent
                  /\ {a \in Algs : sl[c.slot].algs[a] = "DATAREADY"} \subseteq c.todo
<1> DEFINE busy == {s \in Slots : s >= k /\ sl[s].ctx # NoEvent}
<1>0. \A s \in Slots : s \in Nat /\ (s < k \/ s >= k)
  BY EventContextsAssumption DEF Slots
<1>1. CASE busy = {}
  BY <1>0, <1>1 DEF FromSlot, AtPop
<1>2. CASE busy # {}
  <2>1. busy \in SUBSET Nat
    BY <1>0
  <2>2. Min(busy) \in Slots /\ \A s \in busy : Min(busy) <= s
    BY <1>2, <2>1, MinInSet
  <2>3. FromSlot(k, sl) = EnterSlot(Min(busy), sl)
    BY <1>2 DEF FromSlot
  <2>4. FromSlot(k, sl).at = "slot" /\ FromSlot(k, sl).slot = Min(busy)
    BY <2>3 DEF EnterSlot
  <2>5. \A s \in Slots : s < Min(busy) => sl[s].ctx = NoEvent
    BY <1>0, <2>2
  <2>6. k \in Int
    OBVIOUS
  <2> QED
    BY <2>4, <2>5, <2>6, FromSlotReady
<1> QED
  BY <1>1, <1>2

\* When iterate() starts, or goes on from a slot below which all is settled,
\* Awake holds.
LEMMA SettledAwake ==
  ASSUME SchedulerInv', isActive', ~Occurs(actionsQueue', DeactivateAction),
         NEW k \in Nat, \A s \in Slots : s < k => slots'[s].ctx = NoEvent,
         retryQueue' = <<>>, sched' = FromSlot(k, slots')
  PROVE  Awake'
<1>1. slots' \in [Slots -> SlotState]
  BY DEF SchedulerInv, TypeOK
<1>2. /\ sched'.at \in {"pop", "slot"}
      /\ sched'.at = "pop" => \A s \in Slots : slots'[s].ctx = NoEvent
      /\ sched'.at = "slot" =>
           /\ \A s \in Slots : s < sched'.slot => slots'[s].ctx = NoEvent
           /\ {a \in Algs : slots'[sched'.slot].algs[a] = "DATAREADY"} \subseteq sched'.todo
  BY <1>1, FromSlotSettles
<1> QED
  BY <1>2 DEF Awake, Settled, Ready

\* A step after which something will stir the thread, unless it waits for
\* m_needsUpdate to be looked at.
LEMMA StirredAwake ==
  ASSUME Stir', closing' = "no" => isActive' /\ sched'.at # "exited"
                                   /\ ~Occurs(actionsQueue', DeactivateAction)
                                   /\ (sched'.at = "check" => needsUpdate')
  PROVE  Awake'
BY DEF Awake

-----------------------------------------------------------------------------
(* Every step keeps Awake.                                                 *)

\* With nothing to stir the thread, the slot it has finished with is empty or
\* stalled: no algorithm of its event is DATAREADY, SCHEDULED or RESOURCELESS.
LEMMA QuietSlotFreed ==
  ASSUME SchedulerInv, EventsPlaced, StatesBacked, closing = "no", ~Stir,
         sched.at = "slot", sched.todo = {}, retryQueue = <<>>,
         Ready(sched.slot) \subseteq sched.todo
  PROVE  IsStalled(slots[sched.slot])
<1> DEFINE s == sched.slot
           e == slots[s].ctx
<1>1. /\ s \in Slots /\ e \in Events /\ e # NoEvent
      /\ DOMAIN slots[s].algs = Algs
  BY DEF SchedulerInv, TypeOK, CursorOK, SlotState
<1>2. owner[e] = "scheduler" /\ slotOf[e] = s
  BY <1>1 DEF EventsPlaced, SlotsOwned
<1> HIDE DEF s, e
<1>3. ASSUME NEW a \in Algs PROVE slots[s].algs[a] \notin Waiting
  <2> DEFINE ts == TaskSpec(a, e)
  <2>1. ts \in TaskSpecs /\ ts.alg = a /\ ts.evt = e
    BY <1>1 DEF TaskSpec, TaskSpecs
  <2> HIDE DEF ts
  <2>2. \A st : slots[s].algs[a] = st => InState(ts, st)
    BY <1>2, <2>1 DEF InState, e
  <2>3. slots[s].algs[a] # "DATAREADY"
    BY DEF Ready, s
  <2>4. slots[s].algs[a] # "SCHEDULED"
    BY <2>1, <2>2 DEF StatesBacked, ScheduledHasTask, SignoffQueued, Stir
  <2>5. slots[s].algs[a] # "RESOURCELESS"
    BY <2>1, <2>2 DEF StatesBacked, RetryQueueExact
  <2> QED
    BY <2>3, <2>4, <2>5 DEF Waiting
<1> QED
  BY <1>1, <1>3 DEF IsStalled, ContainsAny, s

\* The end of the turn for a slot: what is not going to be stirred is freed.
LEMMA SlotUpdateAwake ==
  ASSUME SchedulerInv, SchedulerInv', EventsPlaced, StatesBacked, Awake, SlotUpdate
  PROVE  Awake'
<1> DEFINE s == sched.slot
<1>1. /\ s \in Slots /\ sched.at = "slot" /\ sched.todo = {}
      /\ SlotFreed(s, slots[s].ctx) \/ SlotKept(s)
      /\ sched' = FromSlot(s + 1, slots')
      /\ UNCHANGED <<actionsQueue, retryQueue, tasks, isActive, closing>>
  BY SlotUpdateEffect
<1>2. s \in Nat /\ s + 1 \in Int /\ s + 1 \in Nat
  BY <1>1, EventContextsAssumption DEF Slots
<1>3. slots' \in [Slots -> SlotState]
  BY DEF SchedulerInv, TypeOK
<1>4. sched'.at \in {"pop", "slot"}
  BY <1>1, <1>2, <1>3, FromSlotType
<1>5. CASE closing # "no"
  BY <1>1, <1>5 DEF Awake
<1>6. CASE closing = "no" /\ Stir
  <2>1. Stir'
    BY <1>1, <1>6 DEF Stir
  <2> QED
    BY <1>1, <1>4, <1>6, <2>1, StirredAwake DEF Awake
<1>7. CASE closing = "no" /\ ~Stir
  <2>1. Settled(s) /\ Ready(s) \subseteq sched.todo /\ isActive
        /\ ~Occurs(actionsQueue, DeactivateAction)
    BY <1>1, <1>7 DEF Awake
  <2>2. IsStalled(slots[s])
    BY <1>1, <1>7, <2>1, QuietSlotFreed DEF Settled
  <2>3. SlotFreed(s, slots[s].ctx)
    BY <1>1, <2>2 DEF SlotKept
  <2>4. slots'[s].ctx = NoEvent /\ \A t \in Slots : t # s => slots'[t] = slots[t]
    BY <1>1, <2>3 DEF SlotFreed
  <2>5. ASSUME NEW t \in Slots, t < s + 1 PROVE slots'[t].ctx = NoEvent
    <3>1. t = s \/ t < s
      BY <1>2, <2>5, EventContextsAssumption DEF Slots
    <3> QED
      BY <2>1, <2>4, <3>1 DEF Settled
  <2>6. retryQueue' = <<>> /\ isActive' /\ ~Occurs(actionsQueue', DeactivateAction)
    BY <1>1, <2>1 DEF Settled
  <2> HIDE DEF s
  <2> QED
    BY <1>1, <1>2, <2>5, <2>6, SettledAwake
<1> QED
  BY <1>5, <1>6, <1>7

\* iterate() starts with the retry queue or with the first slot.
LEMMA StartIterateAwake ==
  ASSUME SchedulerInv', isActive', ~Occurs(actionsQueue', DeactivateAction),
         sched' = StartIterate(slots', retryQueue')
  PROVE  Awake'
<1>1. CASE retryQueue' = <<>>
  <2>1. sched' = FromSlot(0, slots')
    BY <1>1 DEF StartIterate
  <2>2. \A s \in Slots : s < 0 => slots'[s].ctx = NoEvent
    BY EventContextsAssumption DEF Slots
  <2> QED
    BY <1>1, <2>1, <2>2, SettledAwake
<1>2. CASE retryQueue' # <<>>
  <2>1. sched'.at = "retry"
    BY <1>2 DEF StartIterate, AtPop
  <2> QED
    BY <2>1 DEF Awake
<1> QED
  BY <1>1, <1>2

\* The closures of the action queue and what follows them.
LEMMA ActionsAwake ==
  ASSUME SchedulerInv, SchedulerInv', EventsPlaced, Awake,
         RunNewEvent \/ RunSignoff \/ RunDeactivate \/ CheckUpdate \/ Exit
  PROVE  Awake'
<1> USE DEF slotVars, queueVars, activeVars
<1>1. closing' = closing
  BY DEF RunNewEvent, RunSignoff, RunDeactivate, CheckUpdate, Exit
<1>2. SUFFICES ASSUME closing = "no" PROVE Awake'
  BY <1>1 DEF Awake
<1>3. isActive /\ ~Occurs(actionsQueue, DeactivateAction) /\ actionsQueue \in Seq(Actions)
  BY <1>2 DEF Awake, SchedulerInv, TypeOK
<1>4. ASSUME actionsQueue # <<>>, actionsQueue' = Tail(actionsQueue)
      PROVE  ~Occurs(actionsQueue', DeactivateAction)
  BY <1>3, <1>4, TailOccurs
<1>5. CASE RunNewEvent
  <2> DEFINE e == Head(actionsQueue).ts.evt
  <2>1. sched' = StartIterate(slots', retryQueue) /\ UNCHANGED <<retryQueue, isActive>>
    BY <1>5, RunNewEventSlots
  <2>2. actionsQueue # <<>> /\ actionsQueue' = Tail(actionsQueue)
    BY <1>5 DEF RunNewEvent, PopAction
  <2> QED
    BY <1>3, <1>4, <2>1, <2>2, StartIterateAwake
<1>6. CASE RunSignoff
  <2>1. actionsQueue # <<>> /\ actionsQueue' = Tail(actionsQueue)
        /\ needsUpdate' = TRUE /\ sched'.at = "check" /\ isActive' = isActive
    BY <1>6 DEF RunSignoff, PopAction, AtCheck, AtPop
  <2> QED
    BY <1>3, <1>4, <2>1 DEF Awake
<1>7. CASE RunDeactivate
  <2>1. actionsQueue # <<>> /\ Head(actionsQueue).kind = "deactivate"
    BY <1>7 DEF RunDeactivate, PopAction
  <2>2. Head(actionsQueue) = DeactivateAction
    BY <1>3, <2>1, ActionShape
  <2> QED
    BY <1>3, <2>1, <2>2, TailOccurs
<1>8. CASE CheckUpdate
  <2>1. /\ sched.at = "check" /\ needsUpdate
        /\ UNCHANGED <<slots, retryQueue, actionsQueue, isActive, tasks>>
        /\ sched' = IF actionsQueue = <<>> THEN StartIterate(slots, retryQueue) ELSE AtPop
    BY <1>2, <1>8 DEF CheckUpdate, Awake, taskVars
  <2>2. CASE actionsQueue = <<>>
    BY <1>3, <2>1, <2>2, StartIterateAwake
  <2>3. CASE actionsQueue # <<>>
    BY <1>3, <2>1, <2>3 DEF Awake, Stir, AtPop
  <2> QED
    BY <2>2, <2>3
<1>9. CASE Exit
  BY <1>3, <1>9 DEF Exit
<1> QED
  BY <1>5, <1>6, <1>7, <1>8, <1>9

\* Scheduling leaves a task under way.
LEMMA SchedulingAwake ==
  ASSUME SchedulerInv, SchedulerInv', PoolConserved, ReentrantQueued, Awake,
         Blocking = {}, ~DirectExecution, RetrySchedule \/ SlotSchedule
  PROVE  Awake'
<1>1. /\ UNCHANGED <<actionsQueue, isActive, closing>>
      /\ \E ts \in TaskSpecs : \E pending : Schedule(ts, pending)
  BY ScheduledSpecs DEF RetrySchedule, SlotSchedule, activeVars
<1>2. Stir'
  BY <1>1, ScheduleStirs
<1>3. sched'.at # "exited" /\ sched'.at # "check"
  <2>1. CASE RetrySchedule
    <3>1. slots' \in [Slots -> SlotState] /\ sched \in SchedType /\ sched.at = "retry"
      BY <2>1 DEF SchedulerInv, TypeOK, SchedType, RetrySchedule
    <3>2. sched'.at = "retry" \/ sched' = FromSlot(0, slots')
      BY <2>1, <3>1 DEF RetrySchedule, SchedType
    <3> QED
      BY <3>1, <3>2, FromSlotType
  <2>2. CASE SlotSchedule
    <3>1. sched \in SchedType /\ sched.at = "slot"
      BY <2>2 DEF SchedulerInv, TypeOK, SchedType, SlotSchedule
    <3> QED
      BY <2>2, <3>1 DEF SlotSchedule, SchedType
  <2> QED
    BY <2>1, <2>2
<1> QED
  BY <1>1, <1>2, <1>3, StirredAwake DEF Awake

\* The tasks and the client do not put the thread to sleep.
LEMMA OthersAwake ==
  ASSUME SchedulerInv, Awake, Task \/ Client \/ Deactivation \/ UNCHANGED schedulerVars
  PROVE  Awake'
<1> USE DEF slotVars, queueVars, taskVars, activeVars
<1>1. actionsQueue \in Seq(Actions)
  BY DEF SchedulerInv, TypeOK
<1>2. ASSUME UNCHANGED <<isActive, closing, sched, needsUpdate>>, Stir',
             Occurs(actionsQueue', DeactivateAction) => Occurs(actionsQueue, DeactivateAction)
      PROVE  Awake'
  BY <1>2, StirredAwake DEF Awake
<1>3. ASSUME NEW x \in Actions, actionsQueue' = Append(actionsQueue, x), x # DeactivateAction
      PROVE  /\ actionsQueue' # <<>>
             /\ Occurs(actionsQueue', DeactivateAction) => Occurs(actionsQueue, DeactivateAction)
  BY <1>1, <1>3, AppendOccurs
<1>4. ASSUME NEW t \in tasks, NEW out \in Outcome, TaskExecute(t, out) PROVE Awake'
  BY <1>2, <1>4 DEF TaskExecute, Stir
<1>5. ASSUME NEW t \in tasks, TaskRelease(t) PROVE Awake'
  BY <1>2, <1>5 DEF TaskRelease, Stir
<1>6. ASSUME NEW t \in tasks, TaskSignoff(t) PROVE Awake'
  <2>1. SignoffAction(t.ts) \in Actions /\ SignoffAction(t.ts) # DeactivateAction
    BY TaskType, ActionsDiffer DEF SignoffAction, Actions
  <2>2. actionsQueue' = Append(actionsQueue, SignoffAction(t.ts))
        /\ UNCHANGED <<isActive, closing, sched, needsUpdate>>
    BY <1>6 DEF TaskSignoff
  <2>3. actionsQueue' # <<>> /\
        (Occurs(actionsQueue', DeactivateAction) => Occurs(actionsQueue, DeactivateAction))
    BY <1>3, <2>1, <2>2
  <2> QED
    BY <1>2, <2>2, <2>3 DEF Stir
<1>7. ASSUME NEW e \in Events, NEW s \in Slots, PushNewEvent(e, s) PROVE Awake'
  <2>1. NewEventAction(e) \in Actions /\ NewEventAction(e) # DeactivateAction
    BY ActionsDiffer DEF NewEventAction, TaskSpec, Actions
  <2>2. actionsQueue' = Append(actionsQueue, NewEventAction(e))
        /\ UNCHANGED <<isActive, closing, sched, needsUpdate>>
    BY <1>7 DEF PushNewEvent
  <2>3. actionsQueue' # <<>> /\
        (Occurs(actionsQueue', DeactivateAction) => Occurs(actionsQueue, DeactivateAction))
    BY <1>3, <2>1, <2>2
  <2> QED
    BY <1>2, <2>2, <2>3 DEF Stir
<1>8. CASE UNCHANGED <<isActive, closing, sched, needsUpdate, actionsQueue, tasks, retryQueue, slots>>
  BY <1>8 DEF Awake, Stir, Settled, Ready
<1>9. (\E s \in Slots : ResetOnly(s)) \/ TryPopFinishedEvent \/ (\E e \in Events : DeleteContext(e))
        \/ UNCHANGED schedulerVars =>
        UNCHANGED <<isActive, closing, sched, needsUpdate, actionsQueue, tasks, retryQueue, slots>>
  BY DEF ResetOnly, TryPopFinishedEvent, DeleteContext, schedulerVars
<1>10. CASE Deactivate \/ Deactivation
  BY <1>10 DEF Deactivate, Deactivation, DrainQueue, PushDeactivate, Awake
<1> QED
  BY <1>4, <1>5, <1>6, <1>7, <1>8, <1>9, <1>10 DEF Task, Client, PopFinishedEvent

\* At the start there is nothing to do.
LEMMA InitAwake == SchedulerInit => Awake /\ ReentrantQueued
<1> SUFFICES ASSUME SchedulerInit PROVE Awake /\ ReentrantQueued
  OBVIOUS
<1>1. \A s \in Slots : slots[s].ctx = NoEvent
  BY DEF SchedulerInit, EmptySlot
<1>2. retryQueue = <<>> /\ actionsQueue = <<>> /\ sched.at = "pop" /\ isActive
  BY DEF SchedulerInit, AtPop
<1>3. ~Occurs(actionsQueue, DeactivateAction)
  BY <1>2 DEF Occurs
<1>4. ReentrantQueued
  BY DEF SchedulerInit, ReentrantQueued
<1> QED
  BY <1>1, <1>2, <1>3, <1>4 DEF Awake, Settled

\* Awake and what it needs of the pool hold throughout.
LEMMA AwakeInvariant ==
  Blocking = {} /\ ~DirectExecution => (SchedulerSpec => [](Awake /\ ReentrantQueued))
<1> SUFFICES ASSUME Blocking = {}, ~DirectExecution
             PROVE  SchedulerSpec => [](Awake /\ ReentrantQueued)
  OBVIOUS
<1>1. SchedulerInv /\ SchedulerInv' /\ EventsPlaced /\ StatesBacked /\ PoolConserved
        /\ (TasksDistinct /\ SlotsCounted) /\ (Awake /\ ReentrantQueued)
        /\ [SchedulerNext]_schedulerVars => (Awake /\ ReentrantQueued)'
  BY StepReentrant, SlotUpdateAwake, ActionsAwake, SchedulingAwake, OthersAwake
  DEF SchedulerNext, SchedulerThread, Terminated
<1> QED
  BY <1>1, InitAwake, SchedulerInvariant, EventsInOnePlace, StatesAreBacked, CountsInvariant,
     SchedulerPoolKept, PTL DEF SchedulerSpec

\* No wake-up is lost: before deactivate(), a scheduler thread that waits on an
\* empty queue with no task under way has finished every event it was given,
\* whatever the precedence graph, the resources and the instances.
THEOREM IdleIsDone == Blocking = {} /\ ~DirectExecution => (SchedulerSpec => []IdleMeansDone)
<1> SUFFICES ASSUME Blocking = {}, ~DirectExecution PROVE SchedulerSpec => []IdleMeansDone
  OBVIOUS
<1>1. EventsPlaced /\ (Awake /\ ReentrantQueued) => IdleMeansDone
  <2> SUFFICES ASSUME EventsPlaced, Awake, closing = "no", sched.at = "pop",
                      actionsQueue = <<>>, tasks = {}
               PROVE  /\ retryQueue = <<>>
                      /\ \A s \in Slots : slots[s].ctx = NoEvent
                      /\ \A e \in Events : owner[e] = "scheduler" =>
                           \E i \in DOMAIN finishedEvents : finishedEvents[i] = e
    BY DEF IdleMeansDone
  <2>1. Settled(NumSlots)
    BY DEF Awake, Stir
  <2>2. retryQueue = <<>> /\ \A s \in Slots : slots[s].ctx = NoEvent
    BY <2>1, EventContextsAssumption DEF Settled, Slots
  <2>3. ASSUME NEW e \in Events, owner[e] = "scheduler" PROVE Finished(e)
    <3>1. ~Queued(e)
      BY DEF Queued, Occurs
    <3>2. ~Resident(e)
      BY <2>2 DEF Resident, Events, NoEvent
    <3> QED
      BY <2>3, <3>1, <3>2 DEF EventsPlaced, OnePlace
  <2> QED
    BY <2>2, <2>3 DEF Finished, Occurs
<1> QED
  BY <1>1, EventsInOnePlace, AwakeInvariant, PTL

-----------------------------------------------------------------------------
(* The steps of EventScheduler.                                            *)

\* The refinement mapping of Contract.
phases == [e \in Events |-> PhaseOf(e)]
contractVars == <<phases, finishedEvents, freeSlots, closing = "no">>

\* What the client sees of an event, case by case.
LEMMA PhaseCases ==
  ASSUME NEW e \in Events
  PROVE  /\ owner[e] = "unborn" => PhaseOf(e) = "new"
         /\ owner[e] = "scheduler" /\ Finished(e) => PhaseOf(e) = "finished"
         /\ owner[e] = "scheduler" /\ ~Finished(e) => PhaseOf(e) = "inFlight"
         /\ owner[e] = "client" \/ owner[e] = "deleted" => PhaseOf(e) = "returned"
BY DEF PhaseOf, Finished, Occurs

\* The same after a step, and what leaves an event's phase alone.
LEMMA PhaseCasesNext ==
  ASSUME NEW e \in Events
  PROVE  /\ owner'[e] = "unborn" => PhaseOf(e)' = "new"
         /\ owner'[e] = "scheduler" /\ Finished(e)' => PhaseOf(e)' = "finished"
         /\ owner'[e] = "scheduler" /\ ~Finished(e)' => PhaseOf(e)' = "inFlight"
         /\ owner'[e] = "client" \/ owner'[e] = "deleted" => PhaseOf(e)' = "returned"
         /\ owner'[e] = owner[e] /\ (Finished(e)' <=> Finished(e)) => PhaseOf(e)' = PhaseOf(e)
BY DEF PhaseOf, Finished, Occurs

\* One event changes its phase.
LEMMA PhaseChange ==
  ASSUME NEW e \in Events, \A d \in Events : d # e => PhaseOf(d)' = PhaseOf(d)
  PROVE  phases' = [phases EXCEPT ![e] = PhaseOf(e)']
BY DEF phases

\* pushNewEvent
LEMMA PushIsPush ==
  ASSUME SchedulerInv, EventsPlaced, closing = "no",
         NEW e \in Events, NEW s \in Slots, PushNewEvent(e, s)
  PROVE  Contract!Push(e)
<1>1. /\ owner[e] = "unborn" /\ freeSlots # 0 /\ owner' = [owner EXCEPT ![e] = "scheduler"]
      /\ freeSlots' = freeSlots - 1 /\ finishedEvents' = finishedEvents /\ closing' = closing
  BY DEF PushNewEvent, slotVars, activeVars
<1>2. freeSlots > 0
  BY <1>1 DEF EventsPlaced, SchedulerInv, TypeOK
<1>3. \A d \in Events : owner'[d] = IF d = e THEN "scheduler" ELSE owner[d]
  BY <1>1 DEF SchedulerInv, TypeOK
<1>4. \A d \in Events : Finished(d)' <=> Finished(d)
  BY <1>1 DEF Finished
<1>5. ~Finished(e)
  BY <1>1 DEF EventsPlaced, OnePlace
<1>6. PhaseOf(e) = "new" /\ PhaseOf(e)' = "inFlight"
  BY <1>1, <1>3, <1>4, <1>5, PhaseCases, PhaseCasesNext
<1>7. \A d \in Events : d # e => PhaseOf(d)' = PhaseOf(d)
  BY <1>3, <1>4, PhaseCasesNext
<1>8. phases' = [phases EXCEPT ![e] = "inFlight"] /\ phases[e] = "new"
  BY <1>6, <1>7, PhaseChange DEF phases
<1> QED
  BY <1>1, <1>2, <1>8 DEF Contract!Push, phases

\* popFinishedEvent and tryPopFinishedEvent
LEMMA TryPopIsPop ==
  ASSUME SchedulerInv, EventsPlaced, closing = "no", TryPopFinishedEvent
  PROVE  Contract!Pop
<1> DEFINE e == Head(finishedEvents)
<1>1. /\ finishedEvents # <<>> /\ finishedEvents \in Seq(Events)
      /\ finishedEvents' = Tail(finishedEvents) /\ owner' = [owner EXCEPT ![e] = "client"]
      /\ freeSlots' = freeSlots + 1 /\ closing' = closing
  BY DEF TryPopFinishedEvent, SchedulerInv, TypeOK, activeVars
<1>2. e \in Events /\ Occurs(finishedEvents, e)
  BY <1>1, TailOccurs
<1>3. \A d \in Events : d # e => (Finished(d)' <=> Finished(d))
  BY <1>1, TailOccurs DEF Finished
<1>4. \A d \in Events : owner'[d] = IF d = e THEN "client" ELSE owner[d]
  BY <1>1, <1>2 DEF SchedulerInv, TypeOK
<1>5. PICK f \in Events : f = e
  BY <1>2
<1>6. PhaseOf(f)' = "returned"
  BY <1>4, <1>5, PhaseCasesNext
<1>7. \A d \in Events : d # f => PhaseOf(d)' = PhaseOf(d)
  BY <1>3, <1>4, <1>5, PhaseCasesNext
<1>8. phases' = [phases EXCEPT ![f] = "returned"]
  BY <1>6, <1>7, PhaseChange
<1> QED
  BY <1>1, <1>5, <1>8 DEF Contract!Pop, phases

\* iterate() finds the event of a slot complete or stalled.
LEMMA FreedIsFinish ==
  ASSUME SchedulerInv, EventsPlaced, NoEventLost', NEW s \in Slots, NEW e \in Events,
         e = slots[s].ctx, SlotFreed(s, e), UNCHANGED <<freeSlots, closing>>
  PROVE  Contract!Finish(e)
<1>1. owner[e] = "scheduler" /\ ~Finished(e)
  BY DEF EventsPlaced, SlotsOwned, OnePlace, Resident, Events, NoEvent
<1>2. owner \in [Events -> {"unborn", "scheduler", "client", "deleted", "lost"}]
      /\ finishedEvents \in Seq(Events)
  BY DEF SchedulerInv, TypeOK
<1>3. owner' = owner /\ finishedEvents' = Append(finishedEvents, e)
  BY <1>2 DEF SlotFreed, NoEventLost
<1>4. \A d \in Events : Finished(d)' <=> Finished(d) \/ d = e
  BY <1>2, <1>3, AppendOccurs DEF Finished
<1>5. PhaseOf(e) = "inFlight" /\ PhaseOf(e)' = "finished"
  BY <1>1, <1>3, <1>4, PhaseCases, PhaseCasesNext
<1>6. \A d \in Events : d # e => PhaseOf(d)' = PhaseOf(d)
  BY <1>3, <1>4, PhaseCasesNext
<1>7. phases' = [phases EXCEPT ![e] = "finished"] /\ phases[e] = "inFlight"
  BY <1>5, <1>6, PhaseChange DEF phases
<1> QED
  BY <1>3, <1>7 DEF Contract!Finish, phases

\* A step of the scheduler is one of EventScheduler or invisible, unless it
\* drops an event.
LEMMA StepIsContract ==
  ASSUME SchedulerInv, EventsPlaced, NoEventLost', [SchedulerNext]_schedulerVars
  PROVE  Contract!Next \/ UNCHANGED contractVars
<1> USE DEF slotVars, queueVars, taskVars, poolVars, statusVars, ctxVars, activeVars
<1>1. ASSUME UNCHANGED <<owner, finishedEvents, freeSlots>>, (closing' = "no") = (closing = "no")
      PROVE  UNCHANGED contractVars
  BY <1>1, PhaseCasesNext DEF contractVars, phases, Finished
<1>2. ASSUME closing = "no", NEW e \in Events, NEW s \in Slots, PushNewEvent(e, s)
      PROVE  Contract!Next
  BY <1>2, PushIsPush DEF Contract!Next, Contract!Events, Events
<1>3. CASE closing = "no" /\ TryPopFinishedEvent
  BY <1>3, TryPopIsPop DEF Contract!Next
<1>4. CASE SlotUpdate
  <2>1. /\ sched.slot \in Slots /\ slots[sched.slot].ctx \in Events
        /\ SlotFreed(sched.slot, slots[sched.slot].ctx) \/ SlotKept(sched.slot)
        /\ UNCHANGED <<freeSlots, closing>>
    BY <1>4, SlotUpdateEffect
  <2>2. CASE SlotFreed(sched.slot, slots[sched.slot].ctx)
    BY <2>1, <2>2, FreedIsFinish DEF Contract!Next, Contract!Events, Events
  <2>3. CASE SlotKept(sched.slot)
    BY <1>1, <2>1, <2>3 DEF SlotKept
  <2> QED
    BY <2>1, <2>2, <2>3
<1>5. ASSUME NEW e \in Events, DeleteContext(e) PROVE UNCHANGED contractVars
  <2>1. owner[e] = "client" /\ owner' = [owner EXCEPT ![e] = "deleted"]
        /\ UNCHANGED <<finishedEvents, freeSlots, closing>>
    BY <1>5 DEF DeleteContext
  <2>2. \A d \in Events : owner'[d] = IF d = e THEN "deleted" ELSE owner[d]
    BY <2>1 DEF SchedulerInv, TypeOK
  <2>3. \A d \in Events : PhaseOf(d)' = PhaseOf(d)
    BY <2>1, <2>2, PhaseCases, PhaseCasesNext DEF Finished
  <2> QED
    BY <2>1, <2>3 DEF contractVars, phases
<1>6. CASE Deactivate
  <2>1. closing = "no" /\ closing' # "no" /\ freeSlots' = 0 /\ UNCHANGED <<owner, finishedEvents>>
    BY <1>6 DEF Deactivate
  <2>2. phases' = phases
    BY <2>1, PhaseCasesNext DEF phases, Finished
  <2> QED
    BY <2>1, <2>2 DEF Contract!Next, Contract!Close, phases
<1>7. CASE Deactivation
  <2>1. UNCHANGED <<owner, finishedEvents, freeSlots>> /\ closing # "no" /\ closing' # "no"
    BY <1>7 DEF Deactivation, DrainQueue, PushDeactivate
  <2> QED
    BY <1>1, <2>1
<1>8. RunNewEvent \/ RunSignoff \/ RunDeactivate \/ CheckUpdate \/ RetrySchedule \/ SlotSchedule \/ Exit
        => UNCHANGED <<owner, finishedEvents, freeSlots, closing>>
  BY DEF RunNewEvent, RunSignoff, RunDeactivate, CheckUpdate, RetrySchedule, SlotSchedule, Exit
<1>9. Task => UNCHANGED <<owner, finishedEvents, freeSlots, closing>>
  BY DEF Task, TaskExecute, TaskRelease, TaskSignoff
<1>10. (\E s \in Slots : ResetOnly(s)) \/ UNCHANGED schedulerVars
         => UNCHANGED <<owner, finishedEvents, freeSlots, closing>>
  BY DEF ResetOnly, schedulerVars
<1> QED
  BY <1>1, <1>2, <1>3, <1>4, <1>5, <1>6, <1>7, <1>8, <1>9, <1>10
  DEF SchedulerNext, SchedulerThread, Client, PopFinishedEvent, Terminated

\* What the client sees of the scheduler is EventScheduler without its
\* liveness, for every configuration, as long as iterate() drops no event: at
\* most NumSlots events are with it, each finishes once, and they are handed
\* back once in the order of finishing.  (That it drops none is refuted by
\* SchedulerLostEvent.cfg, that events finish is checked by TLC.)
THEOREM SchedulerKeepsContract == SchedulerSpec /\ []NoEventLost => Contract!SafetySpec
<1>1. SchedulerInit => Contract!Init
  <2> SUFFICES ASSUME SchedulerInit PROVE Contract!Init
    OBVIOUS
  <2>1. \A e \in Events : owner[e] = "unborn"
    BY DEF SchedulerInit
  <2>2. phases = [e \in Events |-> "new"]
    BY <2>1, PhaseCases DEF phases
  <2> QED
    BY <2>2 DEF SchedulerInit, Contract!Init, phases, Contract!Events, Events
<1>2. SchedulerInv /\ EventsPlaced /\ NoEventLost' /\ [SchedulerNext]_schedulerVars
        => [Contract!Next]_contractVars
  BY StepIsContract
<1> QED
  BY <1>1, <1>2, SchedulerInvariant, EventsInOnePlace, PTL
  DEF SchedulerSpec, Contract!SafetySpec, Contract!vars, contractVars, phases
=============================================================================
