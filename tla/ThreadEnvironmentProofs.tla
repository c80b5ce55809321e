----------------------- MODULE ThreadEnvironmentProofs ----------------------
(***************************************************************************)
(* Proofs about ThreadEnvironment, for any number of handles, any          *)
(* arguments of the pool and any number of registrations.                  *)
(***************************************************************************)
EXTENDS ThreadEnvironment, FiniteSetTheorems, NaturalsInduction, WellFoundedInduction, TLAPS

Busy == {"pick", "run", "wake", "clear"}
Owning == {"run", "wake", "clear"}
RegisteredPCs == {"spawn", "in", "unregister"}

\* The types of TypeOK, without what it says of the iterators.
Types ==
    /\ args \in PoolArgs
    /\ tasks \in TaskMaps /\ signature \in Nat
    /\ registrar \in Handles \cup {NoHandle}
    /\ client \in [Handles -> ClientPCs]
    /\ count \in TaskMaps
    /\ poolSize \in 0..args.numThreads
    /\ flags \subseteq Handles \X Nat
    /\ thread \in [Threads -> ThreadPCs]
    /\ local \in [Threads -> TaskMaps]
    /\ localSig \in [Threads -> Nat]
    /\ iter \in [Threads -> Handles \cup {NoHandle}]
    /\ fails \in [Threads -> Nat]
    /\ toWake \in [Threads -> SUBSET Handles]
    /\ probing \in [Threads -> Handles \cup {NoHandle}]

\* _registrationMutex: only the client that holds it is inside.
OneRegistrar == \A h \in Handles : client[h] \notin {"out", "in"} <=> registrar = h

\* _handleToTask has the last TaskData of each handle, or none.
TasksFollow ==
    \A h \in Handles :
        /\ tasks[h] = IF client[h] \in RegisteredPCs THEN count[h] ELSE 0
        /\ client[h] \in RegisteredPCs => count[h] > 0

\* A copy of the map never has an older TaskData than the last, and has none
\* of a handle whose unregisterTask is over.
CopiesRecent ==
    \A t \in Threads, h \in Handles :
        /\ local[t][h] \in {0, count[h]}
        /\ client[h] \in {"out", "register"} => local[t][h] = 0

\* A thread has seen a configuration before it looks at a task, and its
\* iterator is at the end or at a task of its copy.
Configured(t) ==
    /\ Registered(local[t]) # {}
    /\ iter[t] # NoHandle => local[t][iter[t]] # 0
    /\ Single => iter[t] = t
IteratorsValid ==
    /\ \A t \in Threads :
         /\ thread[t] \in {"none", "done"} => local[t] = NoTasks
         /\ thread[t] = "check" /\ localSig[t] # 0 => Configured(t)
         /\ thread[t] \in Busy => Configured(t)
         /\ thread[t] \in Owning => iter[t] # NoHandle
         /\ Single => thread[t] \notin {"wake", "clear"}
         /\ thread[t] # "none" => signature > 0
    /\ \A h \in Handles : client[h] = "spawn" => signature > 0

\* A thread that runs a task of a pool, or wakes the others, has its flag;
\* so has one in wakeAllBusyTasks the flag of the task that it looks at.
FlagsSet ==
    ~Single => \A t \in Threads :
        /\ thread[t] \in Owning => Data(t, iter[t]) \in flags
        /\ probing[t] # NoHandle => Data(t, probing[t]) \in flags
FlagsApart ==
    ~Single => \A t, u \in Threads : t # u =>
        /\ thread[t] \in Owning /\ thread[u] \in Owning => Data(t, iter[t]) # Data(u, iter[u])
        /\ thread[t] \in Owning /\ probing[u] # NoHandle => Data(t, iter[t]) # Data(u, probing[u])
        /\ probing[t] # NoHandle /\ probing[u] # NoHandle => Data(t, probing[t]) # Data(u, probing[u])
ProbesScoped ==
    \A t \in Threads :
        /\ thread[t] # "wake" => toWake[t] = {} /\ probing[t] = NoHandle
        /\ iter[t] \notin toWake[t]
        /\ probing[t] # NoHandle => probing[t] # iter[t]
FlagsOwned == FlagsSet /\ FlagsApart /\ ProbesScoped

\* The threads there are: those of the tasks, or the first of the pool, whose
\* size follows the number of tasks with the steps "spawn" and "join" behind.
UsefulSize(n) == IF n < args.numThreads THEN n ELSE args.numThreads
ThreadsFollow ==
    /\ Single => poolSize = 0 /\ \A t \in Threads : thread[t] # "none" <=> client[t] \in {"in", "unregister", "join"}
    /\ ~Single =>
         /\ \A t \in Threads : thread[t] # "none" <=> t <= poolSize
         /\ (\A h \in Handles : client[h] \notin {"spawn", "join"}) => poolSize = UsefulSize(Size(tasks))
         /\ \A h \in Handles :
              /\ client[h] = "spawn" => Size(tasks) > 0 /\ poolSize = UsefulSize(Size(tasks) - 1)
              /\ client[h] = "join" => poolSize = UsefulSize(Size(tasks) + 1)

IInv ==
    /\ Types /\ OneRegistrar /\ TasksFollow /\ CopiesRecent
    /\ IteratorsValid /\ FlagsOwned /\ ThreadsFollow

-----------------------------------------------------------------------------
(* Maps of tasks.                                                          *)

\* A set of natural numbers that is not empty has a least element.
LEMMA LeastElement ==
  ASSUME NEW S \in SUBSET Nat, S # {}
  PROVE  \E k \in S : \A j \in S : k <= j
<1>1. PICK k \in S : \A j \in S : ~(<<j, k>> \in OpToRel(<, Nat))
  BY NatLessThanWellFounded, WFMin
<1>2. \A j \in S : ~(j < k)
  BY <1>1 DEF OpToRel
<1> QED BY <1>2

\* The iterator goes on to a task of the map, or to its end; and begin() of a
\* map that is not empty is a task of it.
LEMMA NextInMap ==
  ASSUME NEW map \in TaskMaps, NEW h \in Handles \cup {NoHandle}
  PROVE  /\ NextIn(map, h) \in Registered(map) \cup {NoHandle}
         /\ Registered(map) # {} => NextIn(map, 0) \in Registered(map)
<1> DEFINE after(k) == {j \in Registered(map) : j > k}
<1>1. ASSUME NEW k \in Nat, after(k) # {} PROVE NextIn(map, k) \in after(k)
  <2>1. after(k) \in SUBSET Nat BY EnvironmentAssumption DEF Registered, Handles
  <2>2. \E i \in after(k) : \A j \in after(k) : i <= j BY <1>1, <2>1, LeastElement
  <2> QED BY <1>1, <2>2 DEF NextIn
<1>2. after(0) = Registered(map) BY EnvironmentAssumption DEF Registered, Handles
<1>3. h \in Nat BY EnvironmentAssumption DEF Handles, NoHandle
<1>4. after(h) = {} => NextIn(map, h) = NoHandle BY DEF NextIn
<1>5. NextIn(map, h) \in Registered(map) \cup {NoHandle} BY <1>1, <1>3, <1>4
<1>6. Registered(map) # {} => NextIn(map, 0) \in Registered(map)
  <2>1. SUFFICES ASSUME Registered(map) # {} PROVE NextIn(map, 0) \in Registered(map) OBVIOUS
  <2>2. after(0) # {} BY <2>1, <1>2
  <2>3. NextIn(map, 0) \in after(0) BY <2>2, <1>1
  <2> QED BY <2>3, <1>2
<1> QED BY <1>5, <1>6

\* The number of a map's tasks is zero exactly when there is none.
LEMMA SizeFacts ==
  ASSUME NEW map \in TaskMaps
  PROVE  /\ IsFiniteSet(Registered(map)) /\ Size(map) \in Nat
         /\ Size(map) > 0 => Registered(map) # {}
         /\ Registered(map) = {} => Size(map) = 0
<1>1. IsFiniteSet(Handles) BY EnvironmentAssumption, FS_Interval DEF Handles
<1>2. IsFiniteSet(Registered(map)) BY <1>1, FS_Subset DEF Registered
<1>3. Size(map) \in Nat BY <1>2, FS_CardinalityType DEF Size
<1>4. Registered(map) = {} => Size(map) = 0 BY FS_EmptySet DEF Size
<1> QED BY <1>2, <1>3, <1>4

\* A task more and a task less.
LEMMA SizeAfter ==
  ASSUME NEW map \in TaskMaps, NEW h \in Handles, NEW n \in Nat \ {0}
  PROVE  /\ map[h] = 0 => Size([map EXCEPT ![h] = n]) = Size(map) + 1
         /\ map[h] # 0 => Size([map EXCEPT ![h] = 0]) = Size(map) - 1
<1>1. IsFiniteSet(Registered(map)) /\ Size(map) \in Nat BY SizeFacts
<1>2. CASE map[h] = 0
  <2>1. Registered([map EXCEPT ![h] = n]) = Registered(map) \cup {h} /\ h \notin Registered(map)
    BY <1>2 DEF Registered, TaskMaps
  <2>2. Cardinality(Registered(map) \cup {h}) = Cardinality(Registered(map)) + 1
    BY <1>1, <2>1, FS_AddElement
  <2> QED BY <1>2, <2>1, <2>2 DEF Size
<1>3. CASE map[h] # 0
  <2>1. Registered([map EXCEPT ![h] = 0]) = Registered(map) \ {h} /\ h \in Registered(map)
    BY <1>3 DEF Registered, TaskMaps
  <2>2. Cardinality(Registered(map) \ {h}) = Cardinality(Registered(map)) - 1
    BY <1>1, <2>1, FS_RemoveElement
  <2> QED BY <1>3, <2>1, <2>2 DEF Size
<1> QED BY <1>2, <1>3

\* Handles are positive, and threads are numbered like them.
LEMMA HandleFacts ==
  /\ Threads = Handles /\ Handles \subseteq Nat /\ NoHandle = 0 /\ NoHandle \notin Handles
  /\ \A x \in Handles : x > 0
BY EnvironmentAssumption DEF Threads, Handles, NoHandle

\* The size of a pool is at most the number of handles.
LEMMA PoolFacts ==
  ASSUME Types
  PROVE  args.numThreads \in Nat /\ \A n \in Nat : 0 < n /\ n <= args.numThreads => n \in Threads
BY EnvironmentAssumption DEF Types, Threads, Handles

\* A thread that looks at a task has one: Current is a task of its copy.
LEMMA CurrentTask ==
  ASSUME Types, NEW t \in Threads, Configured(t)
  PROVE  Current(t) \in Handles /\ local[t][Current(t)] # 0 /\ (iter[t] # NoHandle => Current(t) = iter[t])
<1>1. local[t] \in TaskMaps /\ iter[t] \in Handles \cup {NoHandle} BY DEF Types
<1>2. Registered(local[t]) # {} => NextIn(local[t], 0) \in Registered(local[t])
  BY <1>1, NextInMap
<1> QED BY <1>1, <1>2 DEF Configured, Current, Registered

-----------------------------------------------------------------------------
(* Every step preserves the invariant: registerTask, unregisterTask and    *)
(* the loops of the threads.                                               *)

\* registerTask takes the registration mutex.
LEMMA RegisterLockStep ==
  ASSUME IInv, NEW h \in Handles, RegisterLock(h)
  PROVE  IInv'
<1> USE HandleFacts DEF IInv, clientVars, threadVars
<1>1. Types' BY DEF RegisterLock, Lock, Types, ClientPCs, ThreadPCs, TaskMaps
<1>2. OneRegistrar' BY DEF RegisterLock, Lock, OneRegistrar, Types
<1>3. TasksFollow' BY DEF RegisterLock, Lock, TasksFollow, RegisteredPCs, Types
<1>4. CopiesRecent' BY DEF RegisterLock, Lock, CopiesRecent, RegisteredPCs, Types
<1>5. IteratorsValid' BY DEF RegisterLock, Lock, IteratorsValid, Configured, Busy, Owning, Single, Types
<1>6. FlagsOwned'
  BY DEF RegisterLock, Lock, FlagsOwned, FlagsSet, FlagsApart, ProbesScoped, Owning, Single, Data, Types
<1>7. ThreadsFollow' BY DEF RegisterLock, Lock, ThreadsFollow, UsefulSize, Single, Types
<1> QED BY <1>1, <1>2, <1>3, <1>4, <1>5, <1>6, <1>7

\* The task goes into the map; threads see it through the signature.
LEMMA RegisterTaskStep ==
  ASSUME IInv, NEW h \in Handles, RegisterTask(h)
  PROVE  IInv'
<1> USE HandleFacts DEF IInv, clientVars, threadVars
<1>1. Types' BY DEF RegisterTask, Types, ClientPCs, ThreadPCs, TaskMaps
<1>2. OneRegistrar' BY DEF RegisterTask, OneRegistrar, Types
<1>3. TasksFollow' BY DEF RegisterTask, TasksFollow, RegisteredPCs, Types, TaskMaps
<1>4. CopiesRecent' BY DEF RegisterTask, CopiesRecent, RegisteredPCs, Types
<1>5. IteratorsValid' BY DEF RegisterTask, IteratorsValid, Configured, Busy, Owning, Single, Types
<1>6. FlagsOwned'
  BY DEF RegisterTask, FlagsOwned, FlagsSet, FlagsApart, ProbesScoped, Owning, Single, Data, Types
<1>7. ThreadsFollow'
  <2>1. tasks[h] = 0 /\ tasks' = [tasks EXCEPT ![h] = count[h] + 1] /\ count[h] + 1 \in Nat \ {0}
    BY DEF RegisterTask, TasksFollow, RegisteredPCs, Types, TaskMaps
  <2>2. tasks \in TaskMaps BY DEF Types
  <2>5. Size(tasks) \in Nat BY <2>2, SizeFacts
  <2>6. Size(tasks') = Size(tasks) + 1 BY <2>1, <2>2, SizeAfter
  <2>3. \A k \in Handles : client[k] \notin {"spawn", "join"} BY DEF RegisterTask, OneRegistrar
  <2>4. \A k \in Handles : client'[k] # "join" BY <2>3 DEF RegisterTask, Types
  <2>7. CASE Single BY <2>7 DEF RegisterTask, ThreadsFollow, Single, Types
  <2>8. CASE ~Single
    <3>1. poolSize = UsefulSize(Size(tasks)) BY <2>3, <2>8 DEF ThreadsFollow
    <3>2. UNCHANGED <<args, thread, poolSize>> /\ client'[h] = "spawn" BY DEF RegisterTask, Types
    <3>3. Size(tasks') > 0 /\ Size(tasks') - 1 = Size(tasks) BY <2>5, <2>6
    <3>4. (poolSize = UsefulSize(Size(tasks) - 1))' BY <3>1, <3>2, <3>3 DEF UsefulSize
    <3> QED BY <2>4, <2>8, <3>2, <3>3, <3>4 DEF ThreadsFollow, Single
  <2> QED BY <2>7, <2>8
<1> QED BY <1>1, <1>2, <1>3, <1>4, <1>5, <1>6, <1>7

\* A thread is added while there are fewer than the pool's arguments allow.
LEMMA RegisterSpawnStep ==
  ASSUME IInv, NEW h \in Handles, RegisterSpawn(h)
  PROVE  IInv'
<1> USE HandleFacts DEF IInv, clientVars, threadVars
<1>0. ~Single /\ poolSize < args.numThreads => poolSize + 1 \in Threads
  BY PoolFacts DEF Types, Single
<1>9. thread[IF Single THEN h ELSE poolSize + 1] = "none" \/ ~(Single \/ poolSize < args.numThreads)
  BY <1>0 DEF RegisterSpawn, ThreadsFollow, Types
<1>1. Types'
  BY <1>0, PoolFacts DEF RegisterSpawn, Types, ClientPCs, ThreadPCs, TaskMaps, Single
<1>2. OneRegistrar' BY DEF RegisterSpawn, OneRegistrar, Types
<1>3. TasksFollow' BY DEF RegisterSpawn, TasksFollow, RegisteredPCs, Types
<1>4. CopiesRecent' BY DEF RegisterSpawn, CopiesRecent, RegisteredPCs, Types
<1>5. IteratorsValid' BY DEF RegisterSpawn, IteratorsValid, Configured, Busy, Owning, Single, Types
<1>6. FlagsOwned'
  BY <1>0, <1>9 DEF RegisterSpawn, FlagsOwned, FlagsSet, FlagsApart, ProbesScoped, Owning, Single, Data, Types
<1>7. ThreadsFollow'
  <2>1. Size(tasks) \in Nat BY SizeFacts DEF Types
  <2>2. \A k \in Handles \ {h} : client[k] \notin {"spawn", "join"} BY DEF RegisterSpawn, OneRegistrar
  <2>3. \A k \in Handles : client'[k] \notin {"spawn", "join"} BY <2>2 DEF RegisterSpawn, Types
  <2>4. CASE Single BY <2>1, <2>3, <2>4 DEF RegisterSpawn, ThreadsFollow, Single, Types
  <2>5. CASE ~Single
    <3>1. Size(tasks) > 0 /\ poolSize = UsefulSize(Size(tasks) - 1) BY <2>5 DEF RegisterSpawn, ThreadsFollow
    <3>2. poolSize' = UsefulSize(Size(tasks))
  BY <2>1, <2>5, <3>1, PoolFacts DEF RegisterSpawn, UsefulSize, Types
    <3>3. \A t \in Threads : thread'[t] # "none" <=> t <= poolSize'
      BY <1>0, <2>5 DEF RegisterSpawn, ThreadsFollow, Types
    <3> QED BY <2>3, <2>5, <3>2, <3>3 DEF RegisterSpawn, ThreadsFollow, UsefulSize, Single
  <2> QED BY <2>4, <2>5
<1> QED BY <1>1, <1>2, <1>3, <1>4, <1>5, <1>6, <1>7

\* unregisterTask takes the registration mutex.
LEMMA UnregisterLockStep ==
  ASSUME IInv, NEW h \in Handles, UnregisterLock(h)
  PROVE  IInv'
<1> USE HandleFacts DEF IInv, clientVars, threadVars
<1>1. Types' BY DEF UnregisterLock, Lock, Types, ClientPCs, ThreadPCs, TaskMaps
<1>2. OneRegistrar' BY DEF UnregisterLock, Lock, OneRegistrar, Types
<1>3. TasksFollow' BY DEF UnregisterLock, Lock, TasksFollow, RegisteredPCs, Types
<1>4. CopiesRecent' BY DEF UnregisterLock, Lock, CopiesRecent, RegisteredPCs, Types
<1>5. IteratorsValid' BY DEF UnregisterLock, Lock, IteratorsValid, Configured, Busy, Owning, Single, Types
<1>6. FlagsOwned'
  BY DEF UnregisterLock, Lock, FlagsOwned, FlagsSet, FlagsApart, ProbesScoped, Owning, Single, Data, Types
<1>7. ThreadsFollow' BY DEF UnregisterLock, Lock, ThreadsFollow, UsefulSize, Single, Types
<1> QED BY <1>1, <1>2, <1>3, <1>4, <1>5, <1>6, <1>7

\* The task leaves the map, and so a surplus thread its purpose.
LEMMA UnregisterTaskStep ==
  ASSUME IInv, NEW h \in Handles, UnregisterTask(h)
  PROVE  IInv'
<1> USE HandleFacts DEF IInv, clientVars, threadVars
<1>1. Types' BY DEF UnregisterTask, Types, ClientPCs, ThreadPCs, TaskMaps
<1>2. OneRegistrar' BY DEF UnregisterTask, OneRegistrar, Types
<1>3. TasksFollow' BY DEF UnregisterTask, TasksFollow, RegisteredPCs, Types, TaskMaps
<1>4. CopiesRecent' BY DEF UnregisterTask, CopiesRecent, RegisteredPCs, Types
<1>5. IteratorsValid' BY DEF UnregisterTask, IteratorsValid, Configured, Busy, Owning, Single, Types
<1>6. FlagsOwned'
  BY DEF UnregisterTask, FlagsOwned, FlagsSet, FlagsApart, ProbesScoped, Owning, Single, Data, Types
<1>7. ThreadsFollow'
  <2>1. tasks[h] # 0 /\ tasks' = [tasks EXCEPT ![h] = 0]
    BY DEF UnregisterTask, TasksFollow, RegisteredPCs, Types, TaskMaps
  <2>2. Size(tasks') = Size(tasks) - 1 /\ Size(tasks) \in Nat /\ Size(tasks') \in Nat
    BY <2>1, SizeAfter, SizeFacts DEF Types, TaskMaps
  <2>3. \A k \in Handles : client[k] \notin {"spawn", "join"} BY DEF UnregisterTask, OneRegistrar
  <2>4. \A k \in Handles : client'[k] # "spawn" BY <2>3 DEF UnregisterTask, Types
  <2>7. CASE Single BY <2>7 DEF UnregisterTask, ThreadsFollow, Single, Types
  <2>8. CASE ~Single
    <3>1. poolSize = UsefulSize(Size(tasks)) BY <2>3, <2>8 DEF ThreadsFollow
    <3>2. UNCHANGED <<args, thread, poolSize>> /\ client'[h] = "join" BY DEF UnregisterTask, Types
    <3>3. Size(tasks') + 1 = Size(tasks) BY <2>2
    <3>4. (poolSize = UsefulSize(Size(tasks) + 1))' BY <3>1, <3>2, <3>3 DEF UsefulSize
    <3> QED BY <2>4, <2>8, <3>2, <3>4 DEF ThreadsFollow, Single
  <2> QED BY <2>7, <2>8
<1> QED BY <1>1, <1>2, <1>3, <1>4, <1>5, <1>6, <1>7

\* A thread without purpose is joined.
LEMMA UnregisterJoinStep ==
  ASSUME IInv, NEW h \in Handles, UnregisterJoin(h)
  PROVE  IInv'
<1> USE HandleFacts DEF IInv, clientVars, threadVars
<1>0. /\ Size(tasks) \in Nat
      /\ ~Single => poolSize = UsefulSize(Size(tasks) + 1)
  BY SizeFacts DEF UnregisterJoin, ThreadsFollow, Types
<1>9. ~Single /\ poolSize > Size(tasks) => poolSize \in Threads /\ poolSize = Size(tasks) + 1 /\ poolSize <= args.numThreads
  BY <1>0, PoolFacts DEF UsefulSize, Types
<1>1. Types'
  BY <1>0, <1>9, PoolFacts DEF UnregisterJoin, Types, ClientPCs, ThreadPCs, TaskMaps, Single
<1>2. OneRegistrar' BY DEF UnregisterJoin, OneRegistrar, Types
<1>3. TasksFollow' BY DEF UnregisterJoin, TasksFollow, RegisteredPCs, Types
<1>4. CopiesRecent' BY DEF UnregisterJoin, CopiesRecent, RegisteredPCs, Types
<1>5. IteratorsValid' BY DEF UnregisterJoin, IteratorsValid, Configured, Busy, Owning, Single, Types
<1>6. FlagsOwned'
  BY DEF UnregisterJoin, FlagsOwned, FlagsSet, FlagsApart, ProbesScoped, Owning, Single, Data, Types
<1>7. ThreadsFollow'
  <2>2. \A k \in Handles \ {h} : client[k] \notin {"spawn", "join"} BY DEF UnregisterJoin, OneRegistrar
  <2>3. \A k \in Handles : client'[k] \notin {"spawn", "join"} BY <2>2 DEF UnregisterJoin, Types
  <2>4. CASE Single BY <2>3, <2>4 DEF UnregisterJoin, ThreadsFollow, Single, Types
  <2>5. CASE ~Single
    <3>2. poolSize' = UsefulSize(Size(tasks))
  BY <1>0, <1>9, <2>5, PoolFacts DEF UnregisterJoin, UsefulSize, Types
    <3>3. \A t \in Threads : thread'[t] # "none" <=> t <= poolSize'
      BY <1>0, <1>9, <2>5 DEF UnregisterJoin, ThreadsFollow, Types
    <3> QED BY <2>3, <2>5, <3>2, <3>3 DEF UnregisterJoin, ThreadsFollow, UsefulSize, Single
  <2> QED BY <2>4, <2>5
<1> QED BY <1>1, <1>2, <1>3, <1>4, <1>5, <1>6, <1>7

\* unregisterTask returns when no copy of the map holds the task.
LEMMA UnregisterUniqueStep ==
  ASSUME IInv, NEW h \in Handles, UnregisterUnique(h)
  PROVE  IInv'
<1> USE HandleFacts DEF IInv, clientVars, threadVars
<1>1. Types' BY DEF UnregisterUnique, Types, ClientPCs, ThreadPCs, TaskMaps
<1>2. OneRegistrar' BY DEF UnregisterUnique, OneRegistrar, Types
<1>3. TasksFollow' BY DEF UnregisterUnique, TasksFollow, RegisteredPCs, Types
<1>4. CopiesRecent' BY DEF UnregisterUnique, CopiesRecent, RegisteredPCs, Types
<1>5. IteratorsValid' BY DEF UnregisterUnique, IteratorsValid, Configured, Busy, Owning, Single, Types
<1>6. FlagsOwned'
  BY DEF UnregisterUnique, FlagsOwned, FlagsSet, FlagsApart, ProbesScoped, Owning, Single, Data, Types
<1>7. ThreadsFollow' BY DEF UnregisterUnique, ThreadsFollow, UsefulSize, Single, Types
<1> QED BY <1>1, <1>2, <1>3, <1>4, <1>5, <1>6, <1>7

\* A thread copies the task map that changed, and starts over in it.
LEMMA ReconfigureStep ==
  ASSUME IInv, NEW t \in Threads, Reconfigure(t)
  PROVE  IInv'
<1> USE HandleFacts DEF IInv, clientVars, threadVars
<1>0. NoTasks \in TaskMaps BY DEF NoTasks, TaskMaps
<1>9. ~OutOfRange(t) => Registered(tasks) # {} /\ (Single => tasks[t] # 0)
  <2>1. tasks \in TaskMaps BY DEF Types
  <2>2. Size(tasks) \in Nat /\ (Size(tasks) > 0 => Registered(tasks) # {}) BY <2>1, SizeFacts
  <2>3. t \in Nat /\ t > 0 OBVIOUS
  <2>4. CASE Single BY <2>4 DEF OutOfRange, Registered
  <2>5. CASE ~Single BY <2>2, <2>3, <2>5 DEF OutOfRange
  <2> QED BY <2>4, <2>5
<1>1. Types'
  <2>1. ResetIterator(t) \in Handles \cup {NoHandle} BY DEF ResetIterator
  <2> QED BY <1>0, <2>1 DEF Reconfigure, Goto, Types, ThreadPCs
<1>2. OneRegistrar' BY DEF Reconfigure, Goto, OutOfRange, ResetIterator, OneRegistrar, Types
<1>3. TasksFollow' BY DEF Reconfigure, Goto, OutOfRange, ResetIterator, TasksFollow, RegisteredPCs, Types
<1>4. CopiesRecent'
  <2>1. \A h \in Handles : local'[t][h] \in {0, tasks[h]}
    BY DEF Reconfigure, Types, NoTasks
  <2>2. \A u \in Threads \ {t} : local'[u] = local[u] BY DEF Reconfigure, Types
  <2> QED BY <2>1, <2>2 DEF Reconfigure, CopiesRecent, TasksFollow, RegisteredPCs
<1>5. IteratorsValid'
  <2>1. \A u \in Threads \ {t} :
           /\ thread'[u] = thread[u] /\ local'[u] = local[u] /\ localSig'[u] = localSig[u] /\ iter'[u] = iter[u]
    BY DEF Reconfigure, Goto, Types
  <2>2. OutOfRange(t) => thread'[t] = "done" /\ local'[t] = NoTasks BY DEF Reconfigure, Goto, Types
  <2>3. ~OutOfRange(t) => Configured(t)' /\ thread'[t] = "pick"
    BY <1>9 DEF Reconfigure, Goto, ResetIterator, Configured, Types, Single
  <2>4. args' = args /\ signature' = signature /\ client' = client /\ Single' = Single
  BY DEF Reconfigure, Single
  <2>5. signature > 0 BY DEF Reconfigure, IteratorsValid
  <2> QED BY <2>1, <2>2, <2>3, <2>4, <2>5 DEF IteratorsValid, Configured, Busy, Owning
<1>6. FlagsOwned'
  BY DEF Reconfigure, Goto, OutOfRange, ResetIterator, FlagsOwned, FlagsSet, FlagsApart, ProbesScoped, Owning, Single, Data, Types
<1>7. ThreadsFollow'
  BY DEF Reconfigure, Goto, OutOfRange, ResetIterator, ThreadsFollow, UsefulSize, Single, Types
<1> QED BY <1>1, <1>2, <1>3, <1>4, <1>5, <1>6, <1>7

\* A thread goes on with a map that did not change.
LEMMA KeepConfigurationStep ==
  ASSUME IInv, NEW t \in Threads, KeepConfiguration(t)
  PROVE  IInv'
<1> USE HandleFacts DEF IInv, clientVars, threadVars
<1>1. Types' BY DEF KeepConfiguration, Goto, Types, ClientPCs, ThreadPCs, TaskMaps
<1>2. OneRegistrar' BY DEF KeepConfiguration, Goto, OneRegistrar, Types
<1>3. TasksFollow' BY DEF KeepConfiguration, Goto, TasksFollow, RegisteredPCs, Types
<1>4. CopiesRecent' BY DEF KeepConfiguration, Goto, CopiesRecent, RegisteredPCs, Types
<1>5. IteratorsValid' BY DEF KeepConfiguration, Goto, IteratorsValid, Configured, Busy, Owning, Single, Types
<1>6. FlagsOwned'
  BY DEF KeepConfiguration, Goto, FlagsOwned, FlagsSet, FlagsApart, ProbesScoped, Owning, Single, Data, Types
<1>7. ThreadsFollow' BY DEF KeepConfiguration, Goto, ThreadsFollow, UsefulSize, Single, Types
<1> QED BY <1>1, <1>2, <1>3, <1>4, <1>5, <1>6, <1>7

\* A thread sets the flag of a task that nobody runs.
LEMMA TakeTaskStep ==
  ASSUME IInv, NEW t \in Threads, TakeTask(t)
  PROVE  IInv'
<1> USE HandleFacts DEF IInv, clientVars, threadVars
<1>0. Configured(t) /\ Current(t) \in Handles /\ local[t][Current(t)] # 0 /\ (Single => Current(t) = t)
  BY CurrentTask DEF TakeTask, IteratorsValid, Configured, Busy
<1>9. thread[t] = "pick" /\ probing[t] = NoHandle /\ toWake[t] = {} BY DEF TakeTask, FlagsOwned, ProbesScoped
<1>1. Types'
  <2>3. local[t] \in TaskMaps BY DEF Types
  <2>1. local[t][Current(t)] \in Nat BY <1>0, <2>3 DEF TaskMaps
  <2>2. Data(t, Current(t)) \in Handles \X Nat BY <1>0, <2>1 DEF Data
  <2> QED BY <1>0, <2>2 DEF TakeTask, Goto, Types, ThreadPCs
<1>2. OneRegistrar' BY DEF TakeTask, Goto, OneRegistrar, Types
<1>3. TasksFollow' BY DEF TakeTask, Goto, TasksFollow, RegisteredPCs, Types
<1>4. CopiesRecent' BY DEF TakeTask, Goto, CopiesRecent, RegisteredPCs, Types
<1>5. IteratorsValid'
  BY <1>0 DEF TakeTask, Goto, IteratorsValid, Configured, Busy, Owning, Single, Types
<1>6. FlagsOwned'
  <2>1. \A u \in Threads \ {t} : thread'[u] = thread[u] /\ iter'[u] = iter[u] BY DEF TakeTask, Goto, Types
  <2>2. thread'[t] = "run" /\ iter'[t] = Current(t) BY DEF TakeTask, Goto, Types
  <2>3. local' = local /\ toWake' = toWake /\ probing' = probing /\ Single' = Single BY DEF TakeTask, Single
  <2>4. ~Single => flags' = flags \cup {Data(t, Current(t))} /\ Data(t, Current(t)) \notin flags
  BY DEF TakeTask
  <2>5. \A u \in Threads, k \in Handles \cup {NoHandle} : Data(u, k)' = Data(u, k) BY <2>3 DEF Data
  <2>6. \A u \in Threads : ~Single =>
           /\ thread'[u] \in Owning => Data(u, iter[u])' \in flags'
           /\ probing'[u] # NoHandle => Data(u, probing[u])' \in flags'
    BY <1>9, <2>1, <2>2, <2>3, <2>4 DEF FlagsOwned, FlagsSet, FlagsApart, ProbesScoped, Owning, Data
  <2>7. ASSUME NEW u \in Threads \ {t}, ~Single
        PROVE  /\ thread[u] \in Owning => Data(t, Current(t)) # Data(u, iter[u])
               /\ probing[u] # NoHandle => Data(t, Current(t)) # Data(u, probing[u])
    BY <2>4, <2>7 DEF FlagsOwned, FlagsSet
  <2> QED
  BY <1>9, <2>1, <2>2, <2>3, <2>6, <2>7 DEF FlagsOwned, FlagsSet, FlagsApart, ProbesScoped, Owning, Data
<1>7. ThreadsFollow' BY DEF TakeTask, Goto, ThreadsFollow, UsefulSize, Single, Types
<1> QED BY <1>1, <1>2, <1>3, <1>4, <1>5, <1>6, <1>7

\* A thread goes past a task that another one runs.
LEMMA SkipTaskStep ==
  ASSUME IInv, NEW t \in Threads, SkipTask(t)
  PROVE  IInv'
<1> USE HandleFacts DEF IInv, clientVars, threadVars
<1>0. Configured(t) /\ Current(t) \in Handles /\ ~Single
  BY CurrentTask DEF SkipTask, IteratorsValid, Busy
<1>9. NextIn(local[t], Current(t)) \in Registered(local[t]) \cup {NoHandle}
  BY <1>0, NextInMap DEF Types
<1>1. Types'
  <2>1. Fail(t) \in Nat BY SizeFacts DEF Fail, Types
  <2> QED BY <1>9, <2>1 DEF SkipTask, Goto, Types, ThreadPCs, Registered
<1>2. OneRegistrar' BY DEF SkipTask, Goto, OneRegistrar, Types
<1>3. TasksFollow' BY DEF SkipTask, Goto, TasksFollow, RegisteredPCs, Types
<1>4. CopiesRecent' BY DEF SkipTask, Goto, CopiesRecent, RegisteredPCs, Types
<1>5. IteratorsValid'
  BY <1>0, <1>9 DEF SkipTask, Goto, IteratorsValid, Configured, Busy, Owning, Single, Types, Registered
<1>6. FlagsOwned'
  BY DEF SkipTask, Goto, FlagsOwned, FlagsSet, FlagsApart, ProbesScoped, Owning, Single, Data, Types
<1>7. ThreadsFollow' BY DEF SkipTask, Goto, ThreadsFollow, UsefulSize, Single, Types
<1> QED BY <1>1, <1>2, <1>3, <1>4, <1>5, <1>6, <1>7

\* A task has worked, or had nothing to do.
LEMMA TaskReturnsStep ==
  ASSUME IInv, NEW t \in Threads, NEW worked \in BOOLEAN, NEW waitOnce \in BOOLEAN, TaskReturns(t, worked, waitOnce)
  PROVE  IInv'
<1> USE HandleFacts DEF IInv, clientVars, threadVars
<1>1. Types'
  <2>1. Fail(t) \in Nat BY SizeFacts DEF Fail, Types
  <2>2. Registered(local[t]) \ {iter[t]} \in SUBSET Handles BY DEF Registered
  <2> QED BY <2>1, <2>2 DEF TaskReturns, Goto, Types, ThreadPCs
<1>2. OneRegistrar' BY DEF TaskReturns, Goto, OneRegistrar, Types
<1>3. TasksFollow' BY DEF TaskReturns, Goto, TasksFollow, RegisteredPCs, Types
<1>4. CopiesRecent' BY DEF TaskReturns, Goto, CopiesRecent, RegisteredPCs, Types
<1>5. IteratorsValid' BY DEF TaskReturns, Goto, IteratorsValid, Configured, Busy, Owning, Single, Types
<1>6. FlagsOwned'
  BY DEF TaskReturns, Goto, FlagsOwned, FlagsSet, FlagsApart, ProbesScoped, Owning, Single, Data, Types
<1>7. ThreadsFollow' BY DEF TaskReturns, Goto, ThreadsFollow, UsefulSize, Single, Types
<1> QED BY <1>1, <1>2, <1>3, <1>4, <1>5, <1>6, <1>7

\* A thread that wakes the others tests the next flag ...
LEMMA WakeProbeStep ==
  ASSUME IInv, NEW t \in Threads, WakeProbe(t)
  PROVE  IInv'
<1> USE HandleFacts DEF IInv, clientVars, threadVars
<1>0. PICK h \in toWake[t] :
        /\ toWake' = [toWake EXCEPT ![t] = @ \ {h}]
        /\ IF Data(t, h) \in flags
           THEN UNCHANGED <<flags, probing>>
           ELSE /\ flags' = flags \cup {Data(t, h)}
                /\ probing' = [probing EXCEPT ![t] = h]
  BY DEF WakeProbe
<1>9. /\ h \in Handles /\ h # iter[t] /\ thread[t] = "wake" /\ probing[t] = NoHandle
      /\ UNCHANGED <<args, tasks, signature, registrar, client, count, poolSize, thread, local, localSig, iter, fails>>
  BY DEF WakeProbe, Types, FlagsOwned, ProbesScoped
<1>1. Types'
  <2>4. local[t] \in TaskMaps BY DEF Types
  <2>1. Data(t, h) \in Handles \X Nat BY <1>9, <2>4 DEF Data, TaskMaps
  <2>2. flags' \subseteq Handles \X Nat BY <1>0, <2>1 DEF Types
  <2>3. toWake' \in [Threads -> SUBSET Handles] /\ probing' \in [Threads -> Handles \cup {NoHandle}]
    BY <1>0, <1>9 DEF Types
  <2> QED BY <1>9, <2>2, <2>3 DEF Types
<1>2. OneRegistrar' BY <1>9 DEF OneRegistrar
<1>3. TasksFollow' BY <1>9 DEF TasksFollow
<1>4. CopiesRecent'
  BY <1>9 DEF CopiesRecent
<1>5. IteratorsValid' BY <1>9 DEF IteratorsValid, Configured, Single
<1>6. FlagsOwned'
  <2>1. \A u \in Threads \ {t} : toWake'[u] = toWake[u] /\ probing'[u] = probing[u] BY <1>0 DEF Types
  <2>2. toWake'[t] \subseteq toWake[t] BY <1>0 DEF Types
  <2>3. CASE Data(t, h) \in flags
    <3>1. flags' = flags /\ probing' = probing /\ Single' = Single BY <1>0, <1>9, <2>3 DEF Single
    <3>2. \A u \in Threads : toWake'[u] \subseteq toWake[u] BY <2>1, <2>2
    <3>3. \A u \in Threads : /\ thread[u] # "wake" => toWake'[u] = {}
                             /\ iter[u] \notin toWake'[u]
      BY <3>2 DEF FlagsOwned, ProbesScoped
    <3>4. (FlagsSet /\ FlagsApart)' BY <1>9, <3>1 DEF FlagsOwned, FlagsSet, FlagsApart, Data
    <3>5. ProbesScoped' BY <1>9, <3>1, <3>3 DEF FlagsOwned, ProbesScoped
    <3> QED BY <3>4, <3>5 DEF FlagsOwned
  <2>4. CASE Data(t, h) \notin flags
    <3>1. flags' = flags \cup {Data(t, h)} /\ probing'[t] = h BY <1>0, <2>4 DEF Types
    <3>2. Single' = Single BY <1>9 DEF Single
    <3>3. ASSUME NEW u \in Threads \ {t}, ~Single
          PROVE  /\ thread[u] \in Owning => Data(t, h) # Data(u, iter[u])
                 /\ probing[u] # NoHandle => Data(t, h) # Data(u, probing[u])
      BY <2>4, <3>3 DEF FlagsOwned, FlagsSet
    <3>4. \A u \in Threads : ~Single =>
             /\ thread'[u] \in Owning => Data(u, iter[u])' \in flags'
             /\ probing'[u] # NoHandle => Data(u, probing[u])' \in flags'
      BY <1>9, <2>1, <3>1, ZenonT(40) DEF FlagsOwned, FlagsSet, FlagsApart, ProbesScoped, Owning, Data
    <3> QED
  BY <1>9, <2>1, <2>2, <3>1, <3>2, <3>3, <3>4 DEF FlagsOwned, FlagsSet, FlagsApart, ProbesScoped, Owning, Data
  <2> QED BY <2>3, <2>4
<1>7. ThreadsFollow' BY <1>9 DEF ThreadsFollow, UsefulSize, Single
<1> QED BY <1>1, <1>2, <1>3, <1>4, <1>5, <1>6, <1>7

\* ... clears it if it was not set ...
LEMMA WakeUnprobeStep ==
  ASSUME IInv, NEW t \in Threads, WakeUnprobe(t)
  PROVE  IInv'
<1> USE HandleFacts DEF IInv, clientVars, threadVars
<1>1. Types' BY DEF WakeUnprobe, Types, ClientPCs, ThreadPCs, TaskMaps
<1>2. OneRegistrar' BY DEF WakeUnprobe, OneRegistrar, Types
<1>3. TasksFollow' BY DEF WakeUnprobe, TasksFollow, RegisteredPCs, Types
<1>4. CopiesRecent' BY DEF WakeUnprobe, CopiesRecent, RegisteredPCs, Types
<1>5. IteratorsValid' BY DEF WakeUnprobe, IteratorsValid, Configured, Busy, Owning, Single, Types
<1>6. FlagsOwned'
  BY DEF WakeUnprobe, FlagsOwned, FlagsSet, FlagsApart, ProbesScoped, Owning, Single, Data, Types
<1>7. ThreadsFollow' BY DEF WakeUnprobe, ThreadsFollow, UsefulSize, Single, Types
<1> QED BY <1>1, <1>2, <1>3, <1>4, <1>5, <1>6, <1>7

\* ... until it has tested all.
LEMMA WakeEndStep ==
  ASSUME IInv, NEW t \in Threads, WakeEnd(t)
  PROVE  IInv'
<1> USE HandleFacts DEF IInv, clientVars, threadVars
<1>1. Types' BY DEF WakeEnd, Goto, Types, ClientPCs, ThreadPCs, TaskMaps
<1>2. OneRegistrar' BY DEF WakeEnd, Goto, OneRegistrar, Types
<1>3. TasksFollow' BY DEF WakeEnd, Goto, TasksFollow, RegisteredPCs, Types
<1>4. CopiesRecent' BY DEF WakeEnd, Goto, CopiesRecent, RegisteredPCs, Types
<1>5. IteratorsValid' BY DEF WakeEnd, Goto, IteratorsValid, Configured, Busy, Owning, Single, Types
<1>6. FlagsOwned'
  BY DEF WakeEnd, Goto, FlagsOwned, FlagsSet, FlagsApart, ProbesScoped, Owning, Single, Data, Types
<1>7. ThreadsFollow' BY DEF WakeEnd, Goto, ThreadsFollow, UsefulSize, Single, Types
<1> QED BY <1>1, <1>2, <1>3, <1>4, <1>5, <1>6, <1>7

\* The flag of a task that was run is cleared by the thread that set it.
LEMMA ClearFlagStep ==
  ASSUME IInv, NEW t \in Threads, ClearFlag(t)
  PROVE  IInv'
<1> USE HandleFacts DEF IInv, clientVars, threadVars
<1>0. Configured(t) /\ iter[t] \in Handles /\ (Single => FALSE)
  BY DEF ClearFlag, IteratorsValid, Busy, Owning, Types
<1>9. NextIn(local[t], iter[t]) \in Registered(local[t]) \cup {NoHandle}
  BY <1>0, NextInMap DEF Types
<1>1. Types'
  BY <1>9 DEF ClearFlag, Goto, Types, ThreadPCs, Registered
<1>2. OneRegistrar' BY DEF ClearFlag, Goto, OneRegistrar, Types
<1>3. TasksFollow' BY DEF ClearFlag, Goto, TasksFollow, RegisteredPCs, Types
<1>4. CopiesRecent' BY DEF ClearFlag, Goto, CopiesRecent, RegisteredPCs, Types
<1>5. IteratorsValid'
  BY <1>0, <1>9 DEF ClearFlag, Goto, IteratorsValid, Configured, Busy, Owning, Single, Types, Registered
<1>6. FlagsOwned'
  BY DEF ClearFlag, Goto, FlagsOwned, FlagsSet, FlagsApart, ProbesScoped, Owning, Single, Data, Types
<1>7. ThreadsFollow' BY DEF ClearFlag, Goto, ThreadsFollow, UsefulSize, Single, Types
<1> QED BY <1>1, <1>2, <1>3, <1>4, <1>5, <1>6, <1>7

-----------------------------------------------------------------------------
\* An empty pool has the invariant.
LEMMA InitIInv == Init => IInv
<1> SUFFICES ASSUME Init PROVE IInv OBVIOUS
<1> USE HandleFacts DEF Init
<1>1. Types BY EnvironmentAssumption DEF Types, NoTasks, TaskMaps, ClientPCs, ThreadPCs
<1>2. OneRegistrar /\ TasksFollow /\ CopiesRecent
  BY DEF OneRegistrar, TasksFollow, CopiesRecent, RegisteredPCs, NoTasks
<1>3. IteratorsValid /\ FlagsOwned
  BY DEF IteratorsValid, FlagsOwned, FlagsSet, FlagsApart, ProbesScoped, Busy, Owning, Configured, NoTasks
<1>4. ThreadsFollow
  <2>1. NoTasks \in TaskMaps /\ Registered(NoTasks) = {} BY DEF NoTasks, TaskMaps, Registered
  <2>2. Size(tasks) = 0 BY <2>1, SizeFacts
  <2> QED BY <1>1, <2>2, PoolFacts DEF ThreadsFollow, UsefulSize
<1> QED BY <1>1, <1>2, <1>3, <1>4 DEF IInv

\* Every step keeps it.
LEMMA NextIInv == IInv /\ [Next]_vars => IInv'
<1> SUFFICES ASSUME IInv, [Next]_vars PROVE IInv' OBVIOUS
<1>1. ASSUME NEW h \in Handles, Client(h) PROVE IInv'
  BY <1>1, RegisterLockStep, RegisterTaskStep, RegisterSpawnStep, UnregisterLockStep,
     UnregisterTaskStep, UnregisterJoinStep, UnregisterUniqueStep DEF Client
<1>2. ASSUME NEW t \in Threads, Thread(t) PROVE IInv'
  BY <1>2, ReconfigureStep, KeepConfigurationStep, TakeTaskStep, SkipTaskStep, TaskReturnsStep,
     WakeProbeStep, WakeUnprobeStep, WakeEndStep, ClearFlagStep DEF Thread
<1>3. CASE UNCHANGED vars
  BY <1>3 DEF vars, clientVars, threadVars, IInv, Types, OneRegistrar, TasksFollow, CopiesRecent,
     IteratorsValid, Configured, FlagsOwned, FlagsSet, FlagsApart, ProbesScoped, ThreadsFollow, UsefulSize, Single, Data
<1> QED BY <1>1, <1>2, <1>3 DEF Next

\* So it holds always.
LEMMA Invariance == Spec => []IInv
BY InitIInv, NextIInv, PTL DEF Spec

\* It implies the types,
LEMMA IInvTypeOK == IInv => TypeOK
<1> SUFFICES ASSUME IInv PROVE TypeOK OBVIOUS
<1>1. ASSUME NEW t \in Threads, thread[t] \in Busy
      PROVE  Current(t) # NoHandle /\ local[t][Current(t)] # 0
  BY <1>1, CurrentTask, HandleFacts DEF IInv, IteratorsValid
<1> QED BY <1>1 DEF IInv, Types, TypeOK, Busy

\* that two threads are never in one task,
LEMMA IInvOneThread == IInv => OneThreadPerHandle
<1> SUFFICES ASSUME IInv, NEW t \in Threads, NEW u \in Threads, t # u,
                    thread[t] = "run", thread[u] = "run"
             PROVE  iter[t] # iter[u]
  BY DEF OneThreadPerHandle
<1>1. Configured(t) /\ Configured(u) /\ iter[t] \in Handles /\ iter[u] \in Handles
  BY HandleFacts DEF IInv, IteratorsValid, Busy, Owning, Types
<1>2. CASE Single BY <1>1, <1>2 DEF Configured
<1>3. CASE ~Single
  <2>1. Data(t, iter[t]) # Data(u, iter[u]) BY <1>3 DEF IInv, FlagsOwned, FlagsApart, Owning
  <2>2. local[t][iter[t]] = count[iter[t]] /\ local[u][iter[u]] = count[iter[u]]
    BY <1>1, HandleFacts DEF Configured, IInv, CopiesRecent
  <2> QED BY <2>1, <2>2 DEF Data
<1> QED BY <1>2, <1>3

\* and that there are as many threads as the tasks and the arguments call for.
LEMMA IInvThreadsMatch == IInv => ThreadsMatchTasks
<1> SUFFICES ASSUME IInv, registrar = NoHandle
             PROVE  {t \in Threads : thread[t] # "none"} =
                      IF Single THEN Registered(tasks)
                      ELSE {t \in Threads : t <= Size(tasks) /\ t <= args.numThreads}
  BY DEF ThreadsMatchTasks
<1>1. \A h \in Handles : client[h] \in {"out", "in"} BY HandleFacts DEF IInv, OneRegistrar
<1>2. CASE Single
  <2>1. \A h \in Handles : client[h] = "in" <=> tasks[h] # 0
    BY <1>1 DEF IInv, TasksFollow, RegisteredPCs, Types, TaskMaps
  <2> QED BY <1>1, <1>2, <2>1, HandleFacts DEF IInv, ThreadsFollow, Registered
<1>3. CASE ~Single
  <2>1. poolSize = UsefulSize(Size(tasks)) BY <1>1, <1>3 DEF IInv, ThreadsFollow
  <2>2. Size(tasks) \in Nat /\ args.numThreads \in Nat BY SizeFacts, PoolFacts DEF IInv, Types
  <2>3. \A t \in Threads : thread[t] # "none" <=> t <= poolSize BY <1>3 DEF IInv, ThreadsFollow
  <2>4. \A t \in Threads : t <= poolSize <=> t <= Size(tasks) /\ t <= args.numThreads
    BY <2>1, <2>2, HandleFacts DEF UsefulSize
  <2> QED BY <1>3, <2>3, <2>4
<1> QED BY <1>2, <1>3

\* The pool has exactly the threads that its tasks can use, the iterators of
\* the threads are valid, and no two threads are in one block, for any
\* number of handles, any pool and any number of registrations.
THEOREM PoolIsSound == Spec => []PoolSound
<1>1. IInv => PoolSound BY IInvTypeOK, IInvOneThread, IInvThreadsMatch DEF PoolSound
<1> QED BY <1>1, Invariance, PTL

\* When unregisterTask has returned no thread's copy of the map refers to the
\* task, for any number of handles, any pool and any number of registrations.
THEOREM UnregisterIsSafe == Spec => []NoUseAfterUnregister
<1>1. IInv => NoUseAfterUnregister BY DEF IInv, CopiesRecent, NoUseAfterUnregister
<1> QED BY <1>1, Invariance, PTL
=============================================================================
