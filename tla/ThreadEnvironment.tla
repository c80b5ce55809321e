------------------------- MODULE ThreadEnvironment --------------------------
(***************************************************************************)
(* lib/Framework/ThreadEnvironment.cpp: the threads that run the blocks'   *)
(* tasks.  numThreads > 0 is the pool mode, in which every thread of the   *)
(* pool tries every task in turn; numThreads = 0 is the mode with one      *)
(* thread for each task.  Each handle (a block) has a client that          *)
(* registers and unregisters it, concurrently with the other clients and   *)
(* with the threads.                                                       *)
(*                                                                         *)
(* A registration creates a TaskData, identified here by its handle and    *)
(* the number of the registration; a shared_ptr to it is held by           *)
(* _handleToTask, by the map copies of the threads and by the unregistering*)
(* client.  Critical sections of _handleUpdateMutex are single steps.      *)
(* What a task does is left open: it returns true or false.  wake() only   *)
(* shortens a wait that a timeout ends anyhow (module ActorInterface).     *)
(***************************************************************************)
EXTENDS Naturals, FiniteSets

CONSTANTS NumHandles,   \* handles are 1..NumHandles, in the order of the map
          PoolArgs      \* the arguments to choose from: numThreads, wait (yieldMode
                        \* is not "SPIN") and, for each handle, the bound ops on
                        \* its registrations

ASSUME EnvironmentAssumption ==
    /\ NumHandles \in Nat \ {0}
    /\ PoolArgs \subseteq [numThreads : 0..NumHandles, wait : BOOLEAN,
                           ops : [1..NumHandles -> Nat]]

Handles == 1..NumHandles
NoHandle == 0
\* In pool mode thread t has index t - 1; in single mode it is the handle's.
Threads == Handles

VARIABLES
    args,        \* ThreadPoolArgs
    tasks,       \* _handleToTask: registration number, 0 when not registered
    signature,   \* _configurationSignature
    registrar,   \* the client that holds _registrationMutex
    client,      \* where each handle's client is
    count,       \* registrations of each handle so far
    poolSize,    \* _threadPool.size()
    flags,       \* TaskData whose flag is set
    thread,      \* where each thread is
    local,       \* localTasks of each thread, like tasks
    localSig,    \* localSignature of each thread
    iter,        \* it of each thread: a handle, or NoHandle for end()
    fails,       \* failAcquireCount, capped at the number of local tasks
    toWake,      \* handles the loop of wakeAllBusyTasks has not visited yet
    probing      \* handle whose flag that loop holds for a moment

Single == args.numThreads = 0

clientVars == <<args, tasks, signature, registrar, client, count, poolSize>>
threadVars == <<flags, thread, local, localSig, iter, fails, toWake, probing>>
vars == <<clientVars, threadVars>>

NoTasks == [h \in Handles |-> 0]
Registered(map) == {h \in Handles : map[h] # 0}
Size(map) == Cardinality(Registered(map))

\* The handle after h in the order of the map; NoHandle at the end.
NextIn(map, h) ==
    LET after == {k \in Registered(map) : k > h}
    IN  IF after = {} THEN NoHandle ELSE CHOOSE k \in after : \A j \in after : k <= j

\* begin() when the iterator is at the end.
Current(t) == IF iter[t] = NoHandle THEN NextIn(local[t], 0) ELSE iter[t]

\* The TaskData that thread t's copy of the map has for h.
Data(t, h) == <<h, local[t][h]>>

Init ==
    /\ args \in PoolArgs
    /\ tasks = NoTasks /\ signature = 0 /\ registrar = NoHandle
    /\ client = [h \in Handles |-> "out"]
    /\ count = [h \in Handles |-> 0]
    /\ poolSize = 0 /\ flags = {}
    /\ thread = [t \in Threads |-> "none"]
    /\ local = [t \in Threads |-> NoTasks]
    /\ localSig = [t \in Threads |-> 0]
    /\ iter = [t \in Threads |-> NoHandle]
    /\ fails = [t \in Threads |-> 0]
    /\ toWake = [t \in Threads |-> {}]
    /\ probing = [t \in Threads |-> NoHandle]

-----------------------------------------------------------------------------
(* registerTask *)

Lock(h, from, to) ==
    /\ client[h] = from /\ registrar = NoHandle
    /\ registrar' = h
    /\ client' = [client EXCEPT ![h] = to]

RegisterLock(h) ==
    /\ count[h] < args.ops[h]
    /\ Lock(h, "out", "register")
    /\ UNCHANGED <<args, tasks, signature, count, poolSize, threadVars>>

RegisterTask(h) ==
    /\ client[h] = "register"
    /\ count' = [count EXCEPT ![h] = @ + 1]
    /\ tasks' = [tasks EXCEPT ![h] = count'[h]]
    /\ signature' = signature + 1
    /\ client' = [client EXCEPT ![h] = "spawn"]
    /\ UNCHANGED <<args, registrar, poolSize, threadVars>>

\* Start a thread for the task, or one more while the pool is too small.
RegisterSpawn(h) ==
    LET t == IF Single THEN h ELSE poolSize + 1
    IN  /\ client[h] = "spawn"
        /\ IF Single \/ poolSize < args.numThreads
           THEN /\ thread' = [thread EXCEPT ![t] = "check"]
                /\ localSig' = [localSig EXCEPT ![t] = 0]
                /\ iter' = [iter EXCEPT ![t] = NoHandle]
                /\ fails' = [fails EXCEPT ![t] = 0]
                /\ poolSize' = IF Single THEN 0 ELSE poolSize + 1
           ELSE UNCHANGED <<thread, localSig, iter, fails, poolSize>>
        /\ registrar' = NoHandle
        /\ client' = [client EXCEPT ![h] = "in"]
        /\ UNCHANGED <<args, tasks, signature, count, flags, local, toWake, probing>>

(* unregisterTask *)

UnregisterLock(h) ==
    /\ Lock(h, "in", "unregister")
    /\ UNCHANGED <<args, tasks, signature, count, poolSize, threadVars>>

\* Mutant: the threads are not told.
UnregisterTaskSilently(h) ==
    /\ client[h] = "unregister"
    /\ tasks' = [tasks EXCEPT ![h] = 0]
    /\ client' = [client EXCEPT ![h] = "join"]
    /\ UNCHANGED <<args, signature, registrar, count, poolSize, threadVars>>

\* Erase the task, then wake every task.
UnregisterTask(h) ==
    /\ client[h] = "unregister"
    /\ tasks' = [tasks EXCEPT ![h] = 0]
    /\ signature' = signature + 1
    /\ client' = [client EXCEPT ![h] = "join"]
    /\ UNCHANGED <<args, registrar, count, poolSize, threadVars>>

\* Join the task's thread, or the last of the pool if it became too large.
UnregisterJoin(h) ==
    LET t == IF Single THEN h ELSE poolSize
    IN  /\ client[h] = "join"
        /\ IF Single \/ poolSize > Size(tasks)
           THEN /\ thread[t] = "done"
                /\ thread' = [thread EXCEPT ![t] = "none"]
                /\ poolSize' = IF Single THEN 0 ELSE Size(tasks)
           ELSE UNCHANGED <<thread, poolSize>>
        /\ client' = [client EXCEPT ![h] = "unique"]
        /\ UNCHANGED <<args, tasks, signature, registrar, count, flags, local, localSig, iter, fails, toWake, probing>>

\* Mutant: no wait for the threads to relinquish the old configuration.
UnregisterAtOnce(h) ==
    /\ client[h] = "unique"
    /\ registrar' = NoHandle
    /\ client' = [client EXCEPT ![h] = "out"]
    /\ UNCHANGED <<args, tasks, signature, count, poolSize, threadVars>>

\* Wait until no thread's copy of the map refers to the task any more.
UnregisterUnique(h) ==
    /\ client[h] = "unique"
    /\ \A t \in Threads : local[t][h] # count[h]
    /\ registrar' = NoHandle
    /\ client' = [client EXCEPT ![h] = "out"]
    /\ UNCHANGED <<args, tasks, signature, count, poolSize, threadVars>>

Client(h) ==
    \/ RegisterLock(h) \/ RegisterTask(h) \/ RegisterSpawn(h)
    \/ UnregisterLock(h) \/ UnregisterTask(h) \/ UnregisterJoin(h) \/ UnregisterUnique(h)

-----------------------------------------------------------------------------
(* poolProcessLoop and singleProcessLoop *)

Goto(t, label) == thread' = [thread EXCEPT ![t] = label]

\* The loop ends: the thread's index is out of range, or its handle is gone.
OutOfRange(t) == IF Single THEN tasks[t] = 0 ELSE t - 1 >= Size(tasks)

\* The iterator after a change of configuration.
ResetIterator(t) == IF Single /\ ~OutOfRange(t) THEN t ELSE NoHandle

\* The configuration changed: copy the map, drop the old copy.  A thread that
\* is out of range returns and drops the new copy as well.
Reconfigure(t) ==
    /\ thread[t] = "check" /\ signature # localSig[t]
    /\ local' = [local EXCEPT ![t] = IF OutOfRange(t) THEN NoTasks ELSE tasks]
    /\ localSig' = [localSig EXCEPT ![t] = signature]
    /\ iter' = [iter EXCEPT ![t] = ResetIterator(t)]
    /\ fails' = [fails EXCEPT ![t] = 0]
    /\ Goto(t, IF OutOfRange(t) THEN "done" ELSE "pick")
    /\ UNCHANGED <<clientVars, flags, toWake, probing>>

KeepConfiguration(t) ==
    /\ thread[t] = "check" /\ signature = localSig[t]
    /\ Goto(t, "pick")
    /\ UNCHANGED <<clientVars, flags, local, localSig, iter, fails, toWake, probing>>

Fail(t) == IF fails[t] < Size(local[t]) THEN fails[t] + 1 ELSE fails[t]

\* Mutant: the task is run whether or not another thread has it.
TakeBusyTask(t) ==
    /\ thread[t] = "pick"
    /\ iter' = [iter EXCEPT ![t] = Current(t)]
    /\ flags' = IF Single THEN flags ELSE flags \cup {Data(t, Current(t))}
    /\ Goto(t, "run")
    /\ UNCHANGED <<clientVars, local, localSig, fails, toWake, probing>>

\* The test_and_set gets the task: run it.
TakeTask(t) ==
    /\ thread[t] = "pick"
    /\ Single \/ Data(t, Current(t)) \notin flags
    /\ iter' = [iter EXCEPT ![t] = Current(t)]
    /\ flags' = IF Single THEN flags ELSE flags \cup {Data(t, Current(t))}
    /\ Goto(t, "run")
    /\ UNCHANGED <<clientVars, local, localSig, fails, toWake, probing>>

\* Another thread has the task: go on to the next one.
SkipTask(t) ==
    /\ thread[t] = "pick" /\ ~Single
    /\ Data(t, Current(t)) \in flags
    /\ iter' = [iter EXCEPT ![t] = NextIn(local[t], Current(t))]
    /\ fails' = [fails EXCEPT ![t] = Fail(t)]
    /\ Goto(t, "check")
    /\ UNCHANGED <<clientVars, flags, local, localSig, toWake, probing>>

\* The task returns.  _waitModeEnabled is a plain bool that registerTask and
\* unregisterTask switch off and on while the threads read it: when waiting
\* is configured a read may return either value.
TaskReturns(t, worked, waitOnce) ==
    /\ thread[t] = "run"
    /\ waitOnce => args.wait /\ ~Single /\ fails[t] >= Size(local[t])
    /\ fails' = [fails EXCEPT ![t] = IF Single \/ worked \/ waitOnce THEN 0 ELSE Fail(t)]
    /\ \/ /\ worked /\ args.wait /\ ~Single
          /\ toWake' = [toWake EXCEPT ![t] = Registered(local[t]) \ {iter[t]}]
          /\ Goto(t, "wake")
       \/ /\ toWake' = toWake
          /\ Goto(t, IF Single THEN "check" ELSE "clear")
    /\ UNCHANGED <<clientVars, flags, local, localSig, iter, probing>>

\* wakeAllBusyTasks, one task of its loop: a task whose flag is set is woken,
\* the flag of another one is set for a moment.
WakeProbe(t) ==
    /\ thread[t] = "wake" /\ probing[t] = NoHandle
    /\ \E h \in toWake[t] :
         /\ \A k \in toWake[t] : h <= k
         /\ toWake' = [toWake EXCEPT ![t] = @ \ {h}]
         /\ IF Data(t, h) \in flags
            THEN UNCHANGED <<flags, probing>>
            ELSE /\ flags' = flags \cup {Data(t, h)}
                 /\ probing' = [probing EXCEPT ![t] = h]
    /\ UNCHANGED <<clientVars, thread, local, localSig, iter, fails>>

WakeUnprobe(t) ==
    /\ thread[t] = "wake" /\ probing[t] # NoHandle
    /\ flags' = flags \ {Data(t, probing[t])}
    /\ probing' = [probing EXCEPT ![t] = NoHandle]
    /\ UNCHANGED <<clientVars, thread, local, localSig, iter, fails, toWake>>

WakeEnd(t) ==
    /\ thread[t] = "wake" /\ probing[t] = NoHandle /\ toWake[t] = {}
    /\ Goto(t, "clear")
    /\ UNCHANGED <<clientVars, flags, local, localSig, iter, fails, toWake, probing>>

\* Mutant: the thread does not move on to the next task.
ClearFlagAndStay(t) ==
    /\ thread[t] = "clear"
    /\ flags' = flags \ {Data(t, iter[t])}
    /\ Goto(t, "check")
    /\ UNCHANGED <<clientVars, local, localSig, iter, fails, toWake, probing>>

ClearFlag(t) ==
    /\ thread[t] = "clear"
    /\ flags' = flags \ {Data(t, iter[t])}
    /\ iter' = [iter EXCEPT ![t] = NextIn(local[t], iter[t])]
    /\ Goto(t, "check")
    /\ UNCHANGED <<clientVars, local, localSig, fails, toWake, probing>>

Thread(t) ==
    \/ Reconfigure(t) \/ KeepConfiguration(t) \/ TakeTask(t) \/ SkipTask(t)
    \/ \E worked, waitOnce \in BOOLEAN : TaskReturns(t, worked, waitOnce)
    \/ WakeProbe(t) \/ WakeUnprobe(t) \/ WakeEnd(t) \/ ClearFlag(t)

Next ==
    \/ \E h \in Handles : Client(h)
    \/ \E t \in Threads : Thread(t)

Spec == Init /\ [][Next]_vars

\* Threads are scheduled, tasks return (work() does, and waits time out) and
\* a client that started an operation goes on with it.  Clients need not
\* start one.
Fairness ==
    /\ \A t \in Threads : WF_vars(Thread(t))
    /\ \A h \in Handles : WF_vars(Client(h) /\ client[h] \notin {"out", "in"})

FairSpec == Spec /\ Fairness

-----------------------------------------------------------------------------
ClientPCs == {"out", "register", "spawn", "in", "unregister", "join", "unique"}
ThreadPCs == {"none", "check", "pick", "run", "wake", "clear", "done"}
TaskMaps == [Handles -> Nat]

\* Types; the pool never has more threads than configured (its asserts) and
\* the iterator a thread dereferences is one of its own copy of the map.
TypeOK ==
    /\ tasks \in TaskMaps
    /\ signature \in Nat
    /\ registrar \in Handles \cup {NoHandle}
    /\ client \in [Handles -> ClientPCs]
    /\ count \in TaskMaps
    /\ poolSize \in 0..args.numThreads
    /\ flags \subseteq Handles \X Nat
    /\ thread \in [Threads -> ThreadPCs]
    /\ local \in [Threads -> TaskMaps]
    /\ localSig \in [Threads -> Nat]
    /\ iter \in [Threads -> Handles \cup {NoHandle}]
    /\ fails \in [Threads -> Nat]
    /\ toWake \in [Threads -> SUBSET Handles]
    /\ probing \in [Threads -> Handles \cup {NoHandle}]
    /\ \A t \in Threads : thread[t] \in {"pick", "run", "wake", "clear"} =>
         Current(t) # NoHandle /\ local[t][Current(t)] # 0

\* No two threads run a handle's task at the same time, not even the task of
\* an earlier registration beside that of a later one, whose flags differ.
OneThreadPerHandle ==
    \A t, u \in Threads : t # u /\ thread[t] = "run" /\ thread[u] = "run" => iter[t] # iter[u]

\* Once unregisterTask has returned no thread refers to the task: the block
\* may be destroyed.
NoUseAfterUnregister ==
    \A h \in Handles : client[h] = "out" => \A t \in Threads : local[t][h] = 0

\* Between registrations there are exactly as many threads as useful: one for
\* each task, up to the size of the pool, with the lowest indices.
ThreadsMatchTasks ==
    registrar = NoHandle =>
        {t \in Threads : thread[t] # "none"} =
            IF Single THEN Registered(tasks) ELSE {t \in Threads : t <= Size(tasks) /\ t <= args.numThreads}

\* The pool has the threads that its tasks can use, in their states, and never
\* two of them in one block.
PoolSound == TypeOK /\ OneThreadPerHandle /\ ThreadsMatchTasks

\* unregisterTask returns: the thread it joins does exit, and every thread
\* lets go of the old configuration.
UnregisterReturns ==
    \A h \in Handles : client[h] \in {"unregister", "join", "unique"} ~> client[h] = "out"

\* A task that stays registered is run again and again, however many tasks
\* share the pool.  This holds for a pool that does not wait and for threads
\* of their own.  In a pool that waits, the moment for which wakeAllBusyTasks
\* sets the flag of an idle task can make another thread skip that task, and
\* under weak fairness this may happen every time.
TaskKeepsRunning ==
    \A h \in Handles :
        <>[](client[h] = "in" /\ (args.wait => Single)) => []<>(\E t \in Threads : thread[t] = "run" /\ iter[t] = h)

-----------------------------------------------------------------------------
\* The pools of the run: two threads that spin, with two tasks that register
\* again; one thread with three tasks; two threads that wait; a thread per task.
SmallPools ==
    {[numThreads |-> 2, wait |-> FALSE, ops |-> <<2, 2, 0>>],
     [numThreads |-> 1, wait |-> FALSE, ops |-> <<1, 1, 1>>],
     [numThreads |-> 2, wait |-> TRUE, ops |-> <<2, 1, 0>>],
     [numThreads |-> 0, wait |-> TRUE, ops |-> <<2, 2, 0>>]}
=============================================================================
