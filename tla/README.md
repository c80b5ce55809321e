# Formal models of PothosCore

TLA+ models of PothosCore: the dataflow core (`lib/Framework`,
`include/Pothos/Framework`, `include/Pothos/Util`), topologies and their
descriptions, the remote proxy (`lib/Remote`), the plugin registry with the
loading of modules and configurations (`lib/Plugin`, `lib/ConfLoader`,
`lib/Init.cpp`), and the object, call and conversion layer (`lib/Object`,
`lib/Callable`, `lib/Managed`, `Archive`). They are checked with TLC on small
instances, with theorems proved by TLAPS for every instance.

`PROJECT.json` holds the list of components, the runs, the map from every
definition to the source lines it models, the mutants that show that each
property can fail, the findings, the hazards and the theorems.

## The system

A *topology* connects the ports of *blocks*. Each block has a `WorkerActor`;
a thread of a *thread pool* runs `WorkerActor::processTask` on it, which calls
the block's `work()` when there is something to do. Output ports own a *buffer
manager*; `work()` writes into its front buffer, and what was produced is
pushed into the *buffer accumulator* of each subscribed input port. When the
last reference to a buffer is dropped, anywhere downstream, the buffer returns
to its manager. Labels travel with the elements; messages and slot calls travel
beside them, limited by tokens. Around this core are a plugin tree that loadable
modules fill, a proxy layer with remote environments over a socket, and a
dynamic object and call system.

| Component | State | Operations | Interacts through | Hard part | What makes it correct |
|---|---|---|---|---|---|
| ActorInterface | change flag, external call counter, call lock, mutex and condition | externalCallAcquire/Release, workerThreadAcquire/Release, flagExternalChange, wakeNoChange | every port push, buffer return and external call flags a change | lock-free protocol of five shared variables, notifications that may be lost | one thread in the actor, no change forgotten, callers before the worker, everybody gets in |
| ThreadEnvironment | task map, signature, threads, per-task flags | registerTask, unregisterTask, two process loops | runs `processTask`, calls `wake` | threads use copies of the map; joins while holding a mutex | one thread per block, nothing used after unregister, every task runs |
| OrderedQueue | index to acknowledge, stored and ready elements | push, pop | both managers | wrap around, out-of-order returns | ready in index order, nothing stranded |
| Buffer managers | ready buffers or tokens, front chunk or address, popped bytes | init, front, pop, push | producer, buffer returns | remainder reuse; memory mapped twice | no byte handed out twice, contiguous production |
| ManagedBuffer, BufferChunk | reference count, next buffer | incr, decr, cleanup | manager callback | last reference in another thread | return exactly once |
| BufferAccumulator, BufferPool | queue of chunks, byte count, pool flag | push, pop, require, clear | upstream pushes, own worker pops | address arithmetic that merges, moves back and copies | a FIFO of bytes; buffers are released |
| InputPort, OutputPort | accumulator, messages, slots, labels, tokens, posted buffers | push/pop of each | under a spin lock per queue | overflow, index wrap, label offsets taken while the consumer works | labels on their elements, nothing lost |
| WorkerActor | port maps, activity, work info | workTask, pre/postWorkTasks, slots, activation | ActorInterface, ports | order of checks, early returns | a block that sleeps has been served; calls are served |
| Topology | flows, port names, active flows, network block cache, sub-topologies | connect, disconnect, disconnectAll, commit, waitInactive | actors of all blocks, also remote ones | flattening in three passes; sub-commits that run in parallel and fail one by one | the connections are the ones the flows describe |
| Remote proxy | reply cache, reader role; object map of the server | transact, handler actions | socket | many threads on one connection, connection loss | every thread gets its own reply, no object leaks |
| Plugin registry, modules | tree of plugins, active module, module association, handlers' tables | add, remove, get, list, load, unload | handlers called without the lock | events out of order, global active module | tables follow the tree, nothing of an unloaded library stays |
| SpinLock, SpinLockRW, RingDeque | a word; a ring | lock, unlock, shared or not; push, pop, resize | everywhere | load and exchange apart, reader count at the limit of the word; wrap of an index that runs below zero | a writer is alone; a deque |
| SharedBuffer | address, length, alias; mappings of the process | makeCirc, sub-buffers | other users of the address space | a range that is free is not kept; failures between mappings | memory mapped twice, nothing left behind |
| Block ports | maps by name, vectors by index, automatic ports, slots and probes | setup, automatic port, delete, register | topology, calls | three containers that must agree | no dangling port, found by index |
| Topology JSON, expressions, descriptions | variables, blocks, constants, comment blocks | make, dump, eval, splitExpr, feedStream | factories, globals of callers | scopes; nested containers; flattening; line-wise scanning | what is written is what is made |
| Remote clients and servers | look-up futures; connections, handles, processes | make, destroy, connect, listen | processes that die | shared futures, server that ends with its last client | the call returns, the server ends, and not too early |
| Loading, Init, JIT compiler | cache file of all processes, modules, configurations, library on disk | init, deinit, safeLoad, compile on demand | processes and threads | crash while a module is tested; two processes write one file | no destructive load, no half-written library loaded |
| Object, Managed, Callable, conversions, Archive | containers with counters; tables; bound arguments; bytes | copy, assign, call, convert, save, load | plugins | counters of several threads; order of overloads and bases; limits of types | no use after delete, right call, value kept or error |
| Logger | channels, stream buffers, listener | redirect, forward, listen | standard streams | buffers replaced while text is pending | text in order |
| DType, buffer conversion, SIMD | types; kernels; the features of the processor | convert a chunk, dispatch | generated code, build options | four dimensions of types; chunks of odd lengths; features that need others | every element converted once, nothing called that the processor lacks |
| Tables of types | functions by type, filled by plugin events | toString, compare, hash, convert | plugins that come and go, calls inside of calls | a function that is used while its plugin goes | none called after its plugin is gone |
| Packet, System, apps | values | | | | as archived objects; the rest mostly not modelled: see below |

## Modules

**ActorInterface** - `ActorInterface.hpp` and `WorkerActor::processTask`. The
variables are the members of the class (`changeFlagged` is the negation of the
`atomic_flag`: the code clears it to flag a change) plus a program counter per
thread. Every atomic access, lock, unlock, wait and notify is a step; only
taking the free mutex is joined with the increment that follows it. A wait is
"release the mutex and block"; it ends with a notification or at any time (the
1 ms timeout). `flagExternalChange` may read an old value of `_aquireWaiting`,
whose store is relaxed. Two history variables: `unseen`, the clients whose
change no `workTask` has looked at, and `bypass`, how often the worker entered
since a caller registered. **ActorInterfaceProofs** holds the theorems.

**ThreadEnvironment** - `ThreadEnvironment.cpp`, both modes. The arguments of
the pool are chosen in `Init` from `PoolArgs`. A `TaskData` is a handle and the
number of its registration, so that an old and a new registration of a block
differ as they do in the code. Each handle has a client that registers and
unregisters it; `_registrationMutex` serialises the clients,
`_handleUpdateMutex` sections are single steps, the rest interleaves. What a
task does is left open. The racy read of `_waitModeEnabled` is a choice of both
values when waiting is configured.

**BufferManagers** - `OrderedQueue.hpp` as operators on a record, where the loop
that drains stored elements is given by its result, the longest run of stored
indices; and the generic and the circular manager, chosen in `Init`,
with a producer (`postWorkTasks`, `popElements`) and holders that drop chunks in
any order. The two share `pop` but for the address of the next front. The
reference count is the set of chunks that refer to a buffer; dropping the last
one pushes the buffer back in the same step. (Between the decrement and the push
nobody refers to the buffer, so nobody can tell.) **MemoryProofs** holds the
theorems about the managers, BufferChunks, SpinLockRW and RingDeque.
**BufferChunks** - the same references from below: the atomic counters, copies,
moves and amalgamation of chunks by several threads, chunks that span buffers, and the
manager that goes while chunks are out. A pop takes what is in front of the manager,
whether or not the block has a chunk of it; `held` remembers which, until the port is
unlocked.

**BufferStream** - first `push`, `pop`, `require` and the pool of
`BufferAccumulator`, as operators on records with real address arithmetic, because
merging and moving back is about addresses. Loops are given by their result (the
contiguous run, the prefix of copied bytes). Then a generic manager
(`INSTANCE BufferManagers`) with two accumulators: source, forwarder, sink. The
memory holds the number of the byte last written to each address, so that a lost,
repeated or overwritten byte shows. **ByteStream** is the abstract specification, a FIFO of bytes, that
`StreamSpec` shows it implements.

**WorkerActor** - blocks that run `workTask` against each other. An input port
has its count of elements, `_inputInlineMessages` (label indices in bytes,
shared with upstream), `_inlineMessages` (in elements, the block's own),
messages and slot calls; an output its posted labels. Buffers are counts here.
`preWorkTasks` is two steps with `handleSlotCalls` between them. `work()` posts up
to `Burst` messages on each output, one per step, and ends with a message taken
or with elements consumed and produced. `postWorkTasks` is one step for the
inputs, one for each output that has something to send, and the return. Pushes
and posts of other blocks interleave between these steps as they do between the
port locks. Each label carries, as history, the element it was posted on. Tokens
are with their manager unless a queue entry refers to them. Posts to a full queue
clear it (`lost`). Calls of signals from other threads may lose their count of
work events. **WorkerActorProofs** holds the theorems.

**Topology** - a port is an object and a number, a flow a pair of ports; a port
of the hierarchy is one whose object is a topology. `Connect`, `Disconnect` and
`DisconnectAll` include the automatic ports and the exceptions. `commit` is
`CommitStart` (flattening, pass-through, network and domain flows, and the
loading of the sub-topologies) or `CommitFails`, then the sub-commits of the
environments in any interleaving (add, remove, install, activate, each may
fail), then `CommitEnd`. `ResolvePorts`, `SquashFlows`,
`CompletePassThroughFlows`, `CreateNetworkFlows` and `RectifyDomainFlows`
translate the algorithms; `Connections`, reachability in the hierarchy, is the
reference definition they are checked against.

**RemoteProxy** - `transact` step by step: `isMutex`, `isBlocking`, the reply
cache, the wait that releases the mutex, the read outside of it, and the error
path that takes no lock. `osMutex` makes the send one step. Below it the
requests (`findProxy`, `call`, queries, destruction of handles and of the
environment) and the server: one request at a time, new ids, removal, errors. An
argument of another environment is converted, its handle destroyed, and then the call
is sent (`ConvertArgument`, `DropArgument`, `CallWithArgument`); a look-up of what was
removed leaves an empty object (`empties`). A request may not be serializable, a reply
not understood. A request is numbered, which the code does not do, to tell whose reply
is whose. `forsaken` is history: the requests whose reply, or notification, another
thread's failed read has cost them. The network is external: it may break, losing what
is under way.

**PluginRegistry** - the tree as the plugin at each path, the order of names,
the tables of the event handlers (all alike: keys set at "add", nulled at
"remove"), the active module, the association of paths with modules, and the
modules with their use count. A thread's pending work is the sequence `todo`; a
step is what happens between two uses of the registry lock, so that events of
two threads interleave. `Apart` says that modules are loaded and unloaded while
nothing else runs, which is how `Init.cpp` uses them; `Separate` adds that everybody
adds and removes paths of their own, and is what the theorem assumes. **RegistryProofs**
holds it, and that of Logger.

**SpinLockRW** - one action per atomic access: a shared lock is a load and,
later, a weak compare-exchange of what was loaded, which may fail for no reason;
`Word` is the number of values of the word.

**RingDeque** - cells of raw memory, `_frontIndex` as a `size_t` that wraps
(`Modulus`), masked when used; asserted preconditions are guards. **Deque** is the
sequence it is shown to implement, and which all other modules use in its place.

**CircularContainer** - `makeCirc` on Unix, step by step: find a free range,
unmap it, map the file into both halves (the kernel may answer with another
address), verify, retry, clean up. `Others` map memory without the mutex.
**MappedMemory** - memory mapped files on both systems, circular buffers on
Windows, every call of which may fail while the file or the address space
changes, and the constructor of a buffer from a buffer, with `size_t` arithmetic.

**BufferConvert** - DTypes, and the four overloads that convert a chunk; which
numeric kernels there are and how they divide a chunk into vectors and a rest. An
element is the place it came from. **SIMDDispatch** - the header that
`SIMDDispatcherUtils` generates, the features of the processor, and the function
that is chosen. **TypeRegistries** - the tables of functions by type under their
locks, plugin events of several threads, intermediate conversions, and nested calls, as
a stack of frames per reader; an exception, an `ObjectConvertError` or another, ends
frames up to one that catches it (`Caught`). `overlapped` is history: the plugins with
an event that was sent before the one before it was handled.

**BlockPorts** - ports by name, by index and automatic, calls, slots and probes
of one block, and the infos of its ports. A pointer to a port is its name, so that
it can dangle. A number has one name, "1" and not "01" as well (`PortsAssumption`).
**BlockPortsProofs** holds the theorem.

**TopologyJSON** - `Topology::make` from JSON with the two callers that overlay
globals; expressions are numbers or names. And the flat dump of a hierarchy:
`HierConnections`, what can be reached in the hierarchy, is its reference
definition.

**EvalEnvironment** - `splitExpr` character by character over the characters the
code tells apart, and `eval` around the external parser: an expression is what
the split makes of it, containers that are operands become temporary constants,
and objects and values of the parser are turned into each other.
**BlockDescription** - `feedStream`: lines are kinds and
tags; extraction of comment blocks, then the markup parser.

**RemoteClient** - the look-up with its shared futures, the timeout and the wait
of the last owner of a `std::async` future. **RemoteServer** - a handle, its
server process and other clients; threads of the server take connections in any
order; processes die. **Datagram** - `sendDatagram` and `recvDatagram` over a
stream that arrives in pieces and may be cut anywhere.

**Loading** - `init` and `deinit` of several processes: futures per module,
test load in a process, the cache file and its lock, configurations with
loaders of the library or of modules, which may throw half-way, crashes, and files
that are replaced at any time. Modification times stand for
contents. `hasty` and `left` are history: files replaced between a test and the loading,
and configurations whose loader threw after it had registered plugins.
**JITCompiler** - the factories of a unit, the first call that
compiles, reloads and replaces them, with other threads and another process. The
compiler reads the sources in one step and writes the library in another; `built` is
which sources the library is of.

**Managed** - commit and unload of classes with their conversions, the tables
of the event handlers, and the dispatch of a call, of a class or of a block
(`BlockCall`). Its second part, `BuildNext`, is a class while it is registered:
the wrappers, and what each `register` function puts below its name.
**Callable** - make, also of
nothing, bind, unbind and call, of functions that return, return nothing or
throw. **ObjectRefs** - copies, assignments, moves, `unique` and `ref` with
counters at the granularity of atomic operations; **ObjectRefsProofs** holds the
theorems about the objects and about TypeRegistries. **NumericConvert** and **ArchiveNumbers** - conversion and encoding of
numbers, with widths scaled down so that all values of all types are covered; and
objects sent from process to process, types being found by hash. **Logger** - channels,
forwarding, the listener, and the interception of standard streams by several threads
without a mutex: writing, logging a line and clearing the buffer are steps, and the
default channel writes the line to `clog`, which is redirected itself. `disturbed` is
history: the streams that were touched while a thread was between logging and clearing,
or that lost a buffer with text in it.

`MCWorkerActor` gives the instances of its module, `SmallPools` those of
ThreadEnvironment.
`MCMemory`, `MCTopology`, `MCRemoteProxy` and `MCPluginRegistry` put components
that share no state side by side: the variable `part`, chosen at the start, says
which one runs; the others stay in an initial state. Their properties conjoin
those of the parts, named there. Operators with the comment "Mutant" are
variants with a plausible bug; they are part of no specification and serve to
show that the properties can fail.

## Runs

| Run | Instance | Shows |
|---|---|---|
| actor | 1 caller, 1 flagger, 2 calls each | `ExclusiveContext`, `NoLostChange`, `ExternalPriority`; `CallerEnters`, `ChangeLookedAt` |
| managers | lock: 4 threads, word of 4 values; managers: both kinds, 3 buffers of 4 bytes; ring: 2 deques, capacities 1 and 3, 8 values of `size_t`; chunks: 2 threads, 2 buffers, 1 and 3 places, pops of buffers held or not; circular: 2 threads, 8 pages, 4 faults, and 5 pages with another user of memory; files and Windows sections: 6 regions, 2 faults, 2 changes; sub-buffers of sub-buffers, addresses below 32; conversions: 0 and 5 elements, dimensions 1 and 2, 2 instruction sets; dispatch: 6 platforms; tables: 2 readers, 2 threads with events, 3 scenes | `WriterAlone`, `WordExact`; `BytesHandedOutOnce`, `NoBufferStranded`; `RingIsDeque`; `ChunksCounted`: counters are exact and buffers come back or are deleted; `SharedMemorySound`: memory is mapped twice or left as it was, files are unmapped and closed, sub-buffers stay inside; `ConversionsRight`: chunks and dispatch, and the texts, orders and hash codes of objects; `TypeTablesSound` |
| buffer_stream | 2 buffers of 3 bytes, requires of 2 and 3, 6 bytes | `StreamSpec`: implements a FIFO of bytes; `AccumulatorsSound`: exact counts, nothing written to while queued, all buffers back, a front never shrinks but by a pop |
| threads | four pools: 2 spinning threads and tasks that register again; 1 thread, 3 tasks; 2 waiting threads; a thread per task | one thread per task, valid iterators and a pool of the right size (`PoolSound`), no use after unregister; unregister returns, tasks keep running |
| worker | source, forwarder, sink with a probe slot; elements of 2 bytes, 1 token, 4 messages, queues of 3 | `LabelsFollowElements`: labels stay on their elements and leave with them; no message lost; a sleeping block was served |
| worker_calls | the same, with deactivation and calls from outside; the slot is the forwarder's, whose outputs run out of tokens and memory | every slot call is served |
| topology | 3 blocks, a sub-topology, 2 environments, a domain crossing, an automatic port, a failing activate, 6 edits, 2 commits; ports with 3 numbers and a name; descriptions of 2 blocks; 2^15 hierarchies; expressions of 5 characters; nested sums; files of 6 and 5 lines | a successful commit makes the connections described (`CommitMakesConnections`), what stays is not interrupted (`ConnectionsKept`), active blocks and buffer modes (`WiringSound`); `PortsSound`; `JSONDescribes`; `TextsRight`: expressions and descriptions |
| remote | 3 threads, 4 requests, loss of the connection; 2 threads making clients, 3 look-ups; a server with its handle and 2 clients; 3 datagrams | own reply, handles and objects agree (`ProxySound`); a transaction returns unless a read that failed has cost it its reply or notification, and a look-up returns (`CallsReturn`); `ServerEndsWithHandle`; `DatagramsWhole` |
| registry | 2 threads, 7 paths, a module and one that fails to load, 6 operations; 2 processes with 2 modules and a fault, and a process with 2 configurations and 2 faults; JIT with 2 threads, 4 calls, 2 edits, another process; 3 classes; 8 numeric types; 3 arguments; 2 threads with 2 objects each; 5 archived types; 6 objects of 4 types between 2 processes, 2 datagrams; the registration of a class; a log with 2 threads, `clog` and `cout`, 3 writes, 2 redirections; its listener | `RegistrySound`, `LoadingSound` (with the JIT compiler), `CallsSound`, `NumbersKept`, `ObjectsSound`, `TextInOrder` |
| buffer_stream_slice, topology_series, remote_lost | smaller instances | findings 1 to 3: TLC finds the violation |

Bounds. `MaxCalls`, `MaxOps`, `MaxBytes`, `MaxElements`, `MaxMessages`,
`MaxToggles`, `MaxCommits`, `MaxFaults`, `MaxRequests`, `MaxCopies` and `Burst`
limit how often users act; all else is finite by itself. One caller and a
flagger give every race of the actor with the worker, and the theorems remove
the bound: they hold for any number of threads. Three buffers are the fewest for
which returns can be out of order while one is still ready; sizes 3 and 4 give
both branches of the half-buffer test and pieces that cross the wrap. Six bytes
refill both buffers of the stream once, so recycled memory is read again;
requires of 2 and 3 are below and at the buffer size and make the pool grow.
Three tasks on one thread and two on two make the pool smaller than and as large
as the number of tasks. One token and bursts of two messages let a queue
hold three, the capacity, and only just not exceed it: a capacity of two loses
messages within five posts; two elements of two bytes let labels arrive while others are consumed
and tell bytes from elements. Two commits with six edits allow a connection to
be made, changed and committed again over the cache of network blocks, and after
a failed activation. Three threads are needed for one to read, one to be about
to wait and one to wait; four requests include making the environment, and a call with
a converted argument ends with a fifth (the instance was checked once with five
and six). Two redirections are the one
an application makes and the one that undoes it; three writes, text that another thread
adds while a line is being logged. Six
operations load a module, copy it, drop both and still interleave two users.

Four threads and a word of four values let the readers of the lock reach the
limit at which another one must not enter. With eight values of `size_t` the
index of a deque wraps within a few pushes, and below zero. Four faults reach every failure of `makeCirc` in
two attempts. Five characters are two tokens around a separator with a bracket
or a quote in them; five and six lines two comment blocks with code between.
The fault of the two processes that load modules is a crash or a save that fails; the
two of the process with configurations include a loader that throws and a crash after it. A byte of three bits and a mark makes integers of one to four bytes,
with widths that are no multiple of three, as 32 and 64 are none of seven.
`double` holds every `sint` and not every `sllong`, as in the code.

Deadlock is checked for the actor. The other models stop when their users have
used up their calls, which is no fault of the system.

Fairness. Threads are scheduled (weak fairness of each thread's next step) and
timeouts fire. A thread blocked on `_acquireMutex` gets it when it is free
again and again (strong fairness): owners sleep with the mutex released, and
mutexes of the supported platforms do not starve a waiter for ever. In
ThreadEnvironment weak fairness of each thread and of clients inside an
operation: the task of a thread returns because `work()` does and waits time
out; nothing forces a client to start an operation. In WorkerActor weak fairness
of each block's worker, which is what the two models before provide; of user
code only the blocks in `Eager` are assumed to consume what they are given. In
RemoteProxy (`MCFairness`, per part) weak fairness of the threads inside a call,
of the server's handler and of the end of a stream whose handler returned; a
look-up is answered, if only by an error, and a thread blocked on the look-up
mutex gets it when it is free again and again (strong fairness, as above); the
threads of a server process take connections and notice their ends; what is in
transit arrives. Nothing forces a user's call, the destruction of a handle or the
loss of the connection.

`TaskKeepsRunning` is stated for pools without waiting. With waiting,
`wakeAllBusyTasks` sets the flag of an idle task for a moment; a schedule that
places every attempt of the other thread in such a moment never runs that task.
Weak fairness admits it; on a machine it is improbable and not excluded by the
code.

## Proofs

`ActorInterfaceProofs` proves, for any finite set of callers, any set of
flaggers and any number of calls,

- `TypeCorrect`, `ContextExclusive`, `ChangesKept`, `CallersFirst`: `TypeOK`,
  `ExclusiveContext`, `NoLostChange` and `ExternalPriority` are invariants.

The only assumption is `ThreadsAssumption` (the kinds of threads are disjoint,
callers are finitely many). The inductive invariant `Inv` adds two facts.
`CountExact`: `_externalAcquired` is the number of registered callers; without
it the counter could be zero while a caller waits, and it could underflow.
`GivesWay`: a worker that passed a registered caller is not between its check of
the counter and its `try_lock` again; this is what makes "at most once" survive
a step. Exclusion is inductive by itself because it says that the lock is held
*exactly* while there is an owner; `NoLostChange` because it names every place
the worker can be with the change in its hand. There is one lemma per kind of
thread and conjunct, with one case per action.

`MemoryProofs` proves of SpinLockRW, for any finite set of threads, any width of the
word and any number of locks,

- `LockTypes`, `WriterExcludes`, `WordTellsHolders`: the type invariant,
  `WriterAlone` and `WordExact` are invariants.

The assumption is `LockAssumption` (finitely many threads; a word has at least
two values); it does not say that there are fewer threads than values: a
reader does not enter at the limit. The invariant adds `ExpectsReaders`: the
value that a thread is about to exchange was not the writer's. `WordExact` is
needed for `WriterAlone` because only the count of the readers tells that an
exchange of 0 finds no holder. The counting of the readers is done in lemmas on
`Cardinality` of the set of holders with one thread more or less.

`ThreadEnvironmentProofs` proves, for any number of blocks, any pools and any
number of registrations,

- `PoolIsSound`: two threads are never in one block, iterators are valid, and
  there are as many threads as tasks and arguments call for (`PoolSound`);
- `UnregisterIsSafe`: when `unregisterTask` has returned, no thread's copy of the
  task map has the task (`NoUseAfterUnregister`).

The invariant `IInv` says besides the types who is inside of the registration
mutex and how far (`OneRegistrar`, `ThreadsFollow`: the number of threads is off by
one between the change of the map and the spawn or join), that the map holds the
last registration of each block (`TasksFollow`), that a thread whose signature is
the map's has a copy of that map (`CopiesRecent`), and that a flag that is set
belongs to the one thread that runs the task, or that tests it while it wakes the
others, `FlagsOwned`. The last is what exclusion rests on: a thread that wakes
others sets the flags of tasks it does not run, and must not clear a flag that it
found set.

`RemoteProxyProofs` proves, for any number of threads, requests and objects, with
converted arguments, requests that cannot be serialized, replies that are not
understood and a connection that may be lost at any time,

- `ProxyIsSound`: `transact` returns the reply to the thread's own request, one
  thread reads the stream at a time, each handle denotes an object of the server
  that is not empty, and no other object is left when no call is under way and the
  client takes the connection for active (`ProxySound`).

Its hypothesis `HashesDiffer` says that no two threads have the same identifier:
the code truncates `std::hash` of the thread to 32 bits (`RemoteProxy.cpp:23`) and
would mix up the replies of two that collide. The invariant's main part is `Flow`:
of each thread there is at most one message, and it is in one of these places: on
its way to the server, on its way back, read by the thread that has the reader's
role, or filed in the cache. It belongs to the request its thread waits for
(`Pending`, `Current`) or to a thread that has given up (`Dead`): one that is about
to throw, or has thrown, after which `connectionActive` is false and nobody sends
any more, so that an old message meets no new one of its thread. `RequestKeys` and
`ReplyKeys` say which keys messages may have: the key of a removal is no handle's
any more, that of a reply no handle's yet. `Arguments` says the same of the handle
that the conversion of an argument makes, and drops, before the call is sent.
`Owned` are the objects of the handles and of the messages under way; while the
stream is up they are all on the server and not empty (`Connected`). That the server
has nothing else holds only as long as no call has failed (`Healthy`): after that,
handles are dropped without a message. `EnvLife` says what a thread may do before the
environment is made and after it is destroyed.

`MemoryProofs` proves of BufferManagers, for any number and size of buffers, for both
managers, and any order in which chunks are dropped,

- `HandsOutOnce`: no two live chunks share a byte, the queue is in index order and
  the circular producer goes on where it stopped (`BytesHandedOutOnce`);
- `StrandsNoBuffer`: each buffer is ready, stored or held by a chunk, and the one
  the queue waits for is held by a chunk or ready (`NoBufferStranded`).

`QueueOK` says that the ready buffers are a run of indices that ends right before
`ack`. `ChunksOut` says that a buffer that a chunk refers to is in neither part of
the queue, `FrontRight` that the front is what is left of the first ready buffer.
For the generic manager `InSlab` is then enough: chunks of a buffer lie in front of
what is left of it. For the circular one `Circle` relates addresses to the order
of the buffers: a chunk of a buffer that is `Age` places old begins at most
`Age * BufferSize + popped` bytes behind the producer (`Behind`), so that the
producer reaches it only after the buffer has come back; `OutHaveChunks` says that
a buffer that is out has a chunk, by which it will come back. An attempt at this proof
found a mistake in an earlier form of the model: the two cases of the next front
overlapped.

`MemoryProofs` proves of BufferChunks, for any number of buffers, threads and places
for chunks, both ways in which buffers follow each other, and chunks that reach over
any number of buffers,

- `ChunksAreCounted`: counters are exact, no buffer is used after it was deleted or
  given back twice, none is lost, and a thread that has the port's lock waits for it
  only in the pop of a buffer of which it has no chunk (`ChunksCounted`).

`ChunksAssumption` says that threads and places are finitely many, that the slab
indices are `0..n`, and that "no buffer" and "nobody" are none of them. `CountsOK`
counts in the middle of operations: the counter of a buffer and the increments to
come are the references of chunks, one for the manager if it has the buffer, and the
decrements to come. That is not enough: with an increment still to come another
thread's decrement could be taken for the last. `BackedOK` says why it is not: all that
a thread has still to increment is counted by one of its places, and a second of its
places, or the manager, has the buffer already. From this follows that a decrement
that reaches zero is the last one to know of the buffer (`Backing`, `LastOne`), and so
`LifeOK`: the counter is zero if and only if the buffer is deleted or one call of
`cleanup` or `push` is on its way with it. `ManagerOK` is about the weak reference: a
`push` is under way only with a shared pointer that the same thread releases after it,
buffers are deleted only without a manager, and such a manager has none in its queue.
`LockedOK` is why the lock is taken once: a decrement under the lock is of a buffer
that a chunk of the same thread refers to, or the manager is gone and the callback
does not push, or the pop was of a buffer not held (`held` is FALSE), where the code
does wait for its own lock (finding below). Amounts are sizes of
sets of pairs, `Total`, changed at one place at a time (`TotalChanged`) and compared
place by place (`TotalBound`), since sums over a set are recursive.

`MemoryProofs` proves of RingDeque, for any elements, deques and capacities and any
width of `size_t`,

- `RingImplementsDeque`: `RingDeque` implements `Deque` under the refinement mapping
  `View`, and exactly the cells of the window are constructed (`RingIsDeque`).

`RingOK` is the invariant of one deque. The main lemma is `IndexIs`: the index of an
element is masked after a sum that may wrap, and is right all the same because the
length of the ring divides the number of values of `size_t`. `RingAssumption` says
what the proof needs of `Pow2`: 1 is a member, every member is below `Modulus` and
divides it, and every capacity is positive and at most some member.

`ObjectRefsProofs` proves, for any number of threads, objects and containers,

- `ObjectsAreSound`: no container is used after it was deleted, the counters are
  exact between operations, and who writes through `ref` is alone (`ObjectsSound`).

The counters are wrong inside of an operation, so the invariant says what they count
at each step: `RefOf` is the container that counts an object, which for an object that
is copied to is none until the increment, and for one that is given up the old
container until the decrement. With the objects inside of live containers (`Within`)
these are all, `Counts`; `Lives` says that only a container that a thread is about to
delete is live and counts nobody; `CallOK` what a thread knows in the middle of its
operation. The theorem has the hypothesis `~ Aliased`: the right-hand side of an
assignment is neither the object itself nor inside of it. It is needed: the code
decrements first, and reads the right-hand side afterwards (finding below). What
keeps the right-hand side alive then is another object of the same thread, and what
makes the unlocked test of `unique` enough is that only a thread that holds a
reference can add one.

The same module proves of TypeRegistries, for any scenes of plugins and operations,
any callers and any depth of calls,

- `TypeTablesAreSound`: no function is called after its plugin was removed, every way
  out of an operation gives its shared lock back, nobody waits for good, and the
  tables hold what is registered, but for plugins with events that overlapped
  (`TypeTablesSound`).

The hypothesis `RegistriesAssumption` says what an operation, a plugin and the elements
of a type are. The invariant `TablesInv` is about each frame of each stack: a frame
that calls a function holds the lock of the table it has it from (`FrameOK`), and
only the frame on top is not in the middle of a call (`StackOK`). The counts of the
locks are the frames that hold them (`WordsOK`), also when an exception ends several
of them: `CaughtFrame` says that a frame that catches one is as locked as before.
That is what a removal rests on: a handler that stores is alone with its table,
so the function that goes is in no frame that calls it. `NeverStuck` follows because a
caller waits only for a handler that stores, and a handler that stores waits for
nobody; it would not hold if `lock_shared` waited for writers that wait. What is in
the tables is in two parts, because the one about keys of their own must not be lost
when the other plugin of a key comes: `EntriesOK` and `Filled`. For this proof
the arms of two `CASE` expressions that overlapped had to be told apart, and the same
mistake was found in `ParseLine` of BlockDescription.

`BlockPortsProofs` proves, for any names, numbers and bounds and any sequence of calls,

- `PortsAreSound`: the maps, vectors, lists and infos of the ports agree, the work
  info covers every index, and the slot and the signal of a probe are there
  (`PortsSound`).

The invariant is `Agree` of each side: the map, the vector by index and the list of
names tell of the same ports, and a place of the vector that is not null holds the
port of that number; without the latter the deletion of one port could clear
the place of another. `AutomaticData` and `SlotsThere` say that what is
deleted automatically is neither a slot nor a signal, which keeps `ProbeWired`.
`PortsAssumption` says that a number has one name: with "1" and "01" two ports would
share a place (finding below).

`RegistryProofs` proves, for any threads, streams, texts, addresses and numbers of
writes and redirections,

- `TextIsInOrder`: what is written to a redirected stream is logged, once and in
  order, or waits in the buffer, unless the stream is `disturbed` (`TextInOrder`).

The property is about all streams until they are touched by one thread while another
one is between logging their text and clearing it, or until a redirection takes a
buffer with text in it, or one destroyed before; what those lose is a finding below.
The invariant says of each thread in that place that the buffer has what was logged
last and nothing else. `Text`, a recursive function, is handled without induction over
data by its least counterexample: the numbers for which a computation of it exists are
a set (`AllNumbers`), which needs no operator as a parameter.

It also proves of PluginRegistry, for any threads, paths, handlers, keys and modules,
any order of the static blocks and any number of operations and copies,

- `RegistryIsSound`: when nothing is under way the table of a handler has the plugins
  below it, whichever came first; neither a plugin nor an entry of a table of the
  runtime library is left of a module whose library is out; and a module removes only
  what its static blocks added (`RegistrySound`).

Its hypothesis is `Separate`. Modules are loaded and unloaded while nothing else runs:
without it the properties fail (finding below). The runtime library, each module and
each thread have paths of their own: `add` throws for a path that is taken, but anyone
may remove it. No two plugins have one key in a table: the removal of either nulls the
key (below). The run's instance satisfies it, which TLC checks (`PartsAssumption`).
The hypotheses say nothing of how adding, removing and the walks of new
handlers interleave, nor of how many threads destroy copies at once.

The invariant, `RegistryInv`, is about what each thread has yet to do. `PathsOK` gives
every job a path of the thread that has it (`Mine`: its own, those of the module it
loads or unloads, those of the runtime library until it has started), but for the walk
of a handler, which finds paths of others. `HandlersOK` is what `HandlersInSync` needs
between the steps: for a handler and a plugin below it, both registered, the table
has the plugin or some thread still has to tell (`Told`): by an event, a call, or
the walk at a node above the plugin. `TablesOK` is its converse: what a table of the
runtime library has is registered, or on its way out. `ModulesOK` relates
the plugins of a module to its association and to the paths it will remove, `CopiesOK`
the use count to the threads that destroy a copy: fewer than there are copies, or one that
destroys the last, alone. `TurnsOK` says what a thread ends with. There are
two kinds of steps: in the middle of what a thread does (`Middle`) and at its
beginning or end (`Turn`); for each, lemmas say which conjuncts it keeps, and
then there is one lemma per action. The operator `Filter`, a recursive function, is
handled as `Text` is.

`WorkerActorProofs` proves, for any blocks, ports and threads that call into them,

- `NoBlockOversleeps`: a block whose worker is idle with no change flagged is
  inactive, or an output has no token or memory, or it has been shown every slot
  call and label (`SleepsOnlyWhenServed`);
- `NoQueueOverflows`: no queue is cleared by an overflow (`NoMessageLost`).

Both have the hypothesis `SlotsTakeSignals`: an output that is no signal is not
connected to a slot, where `preWorkTasks` would never look for its labels. The
invariant of the first, `Awake`, is about every place of the worker: from its look
at the inputs to its return it has a change flagged or nothing new has arrived.
A starved block is the harder half: `Wakes` says that whoever gets a token or
memory for an output that was not ready is among the flagged. It needs to know
that tokens are only in queues of subscribers (`PlacedIn`).

The second has the hypothesis `Paced`: a queue is filled by one output, from
`work()`, which posts at most `Burst` messages on it in one call, and
`(Tokens + 1) * Burst - 1` messages fit in the queue. In the code, with 16 tokens
and a capacity of 1024, these are 60 messages; pushes from outside, calls of
connected signals from other threads and connected probe signals are not paced by
anything and can overflow a queue. `Posting` says that a call of `work()` starts
with a token left, that its first message has one, and so that of any `Burst`
messages in a row one holds a token (`Spaced`), and that no token is in a queue
twice. `Crowded` counts: a queue of `Tokens * Burst` messages holds every token, so
no call of `work()` starts; the call that filled it adds at most `Burst - 1` more.
The attempt at this proof showed that an earlier run held only because of its
bound on messages: with a capacity of two the queues do overflow.

The type invariants of ActorInterface and SpinLockRW are proved and not part of a run.

Only model-checked are

- liveness (`CallerEnters`, `ChangeLookedAt`, `UnregisterReturns`, `TaskKeepsRunning`,
  `CallsServed`, `CallsReturn`, and the temporal parts of `ServerEndsWithHandle` and
  `DatagramsWhole`), which is out of the prover's reach;
- what is computed by recursion, whose result for every input cannot be stated:
  flattening and dumps of topologies (`CommitMakesConnections`, `JSONDescribes`),
  expressions and descriptions (`TextsRight`), archives (`NumbersKept`), the dispatch over
  base classes (`CallsSound`), the texts of objects (in `ConversionsRight`);
- `LabelsFollowElements`, for which one must know what sorting and flattening lists
  of labels return, and the refinement `StreamSpec`, whose loops are given by their
  results;
- `WiringSound`, `ConnectionsKept`, `LoadingSound`, `SharedMemorySound` and
  `AccumulatorsSound`, for which no inductive invariant
  was written down yet.

## Findings

With a run:

1. `BufferAccumulator::pop` (line 135) takes the distance from the start of
   front+1's *buffer* for the number of bytes that the pool chunk shares with
   it. A chunk that was sliced upstream starts at an offset whose earlier bytes
   were never pushed; the sink then reads those (`buffer_stream_slice`).
2. Data that passes through two topologies in series is dropped by
   `completePassThroughFlows`: commit succeeds and the blocks are not connected
   (`topology_series`).
3. A thread that is about to wait for its reply when the connection is lost
   waits for ever: the error path of `transact` resets `isBlocking` and notifies
   without the mutex (`remote_lost`).

The others are met while modelling and kept in the models. Where a property is
named, it is defined in the module and does not hold of the instance named; no run
checks it.

*Framework.*
A pop of a buffer that the port does not hold, as a second `popElements` in one
`work()`, may drop its last reference under the port's lock, which the callback takes
again (`held`).
`disconnect` looks the ports of the hierarchy up on the wrong side, so that a
flow of the topology's own ports can hardly be disconnected (`Disconnect`).
`postWorkTasks` counts labels anywhere and takes them from the front: when a
block produces less than it consumes, labels get out of order downstream
(`LabelsLeaveWithTheirElement` fails with `Shortfall = 1`).
`_inPoolBuffer` stays set when `push` removes the empty pool chunk in front.
`GenericBufferManager::push` sets the front from a buffer that the ordered queue
may only store. A sub-commit that throws leaves subscriptions that the next
commit makes again, and fails too.
A circular buffer is not mapped twice when another part of the process maps
memory between the check and the `mmap` (`DoubleMapped` with `Others`).
The bounds of a sub-buffer of a sub-buffer of a circular buffer are moved with
its alias (`InBounds`), and the end of a length near the largest `size_t` wraps.
Two port names with one number share a place (`FoundByIndex` with alias names);
two probes may share a slot (`ProbesKept`).

*Descriptions.*
The flat dump drops data that passes through two topologies (`FlatExact` with
pass-through next to pass-through). The factory of a JSON topology without
globals throws (`GlobalsOptional`), `--vars` throws for globals that are an
object (`MadeIfComplete`), a repeated id is not noticed (`IdsUnique`).
A quote after an escaped backslash does not end a string (`QuotesRight`);
temporary constants of nested operands overwrite each other (`EvalRight` with
such expressions). Blank lines do not end a comment block (`DocsCounted` with
blank lines), a one-line `/* */` comment opens one (`CommentsOnly`).

*Remote.*
The handle of a converted argument dies before the call is sent: the call fails, and
leaves an empty object on the server (`empties`). A request that cannot be serialized
ends the use of a connection that is up; objects of handles that go then stay. A reply that is not
understood may be another thread's, which waits for ever (`forsaken`).
A look-up may wait without its timeout for a newer look-up
(`LookupHasTimeout`); one that failed fails for ever (`FailureForgotten`). A
server that never had a connection does not end (`ShutsOff`).

*Plugins and loading.*
`add` reads the active module without the lock that guards it (with
`Apart = FALSE`, `OwnPaths`, `NoDanglingCode` and `HandlersInSync` fail). The
time of the runtime library is one entry for all modules, so that a module
tested under the old library is loaded untested (`NoDestructiveLoad` with a
destructive second module); a module that is replaced after its test is loaded, and
marked, untested (`hasty`). A loader that throws half-way leaves plugins behind
(`left`). A library compiled of sources that were edited meanwhile is never compiled
again (`built`). `init` is no NOP when no module loaded
(`EntriesRemoved`). The JIT compiler removes all factories before it loads the
module (`FactoryThere`), and removes plugins of others when registration fails
(`OthersKept`).

*Objects and calls.*
Events of one plugin from two threads may be handled in the wrong order and leave a
removed plugin in a table (`overlapped`).
Assignment of an object inside of what is assigned to reads it after deletion
(`NoUseAfterDelete` with `Aliased = TRUE`). The last overload that converts
wins over an exact one (`BestMatch`); a base class that is not registered ends
the search (`FoundIfAny` with `BasesFirst = FALSE`); wildcards of base classes
come before methods of the class (`WildcardCatchesAll`). `canConvert` is true
after the converter was removed (`CanConvertRight`). Numbers at the limit of a
64-bit type, complex numbers and NaN pass the check of their range (`ValueKept`
with such pairs); number errors are `RangeException`s. Long signed integers of
several bytes are loaded wrongly (`RoundTrip` with a long signed type). Too many
arguments are ignored (`WrongNumberThrows`).

*Logger.*
A listener that failed to open is reported as open (`ListenerServes`); a second
redirection ends both (`StreamsRedirected`); forwarding does not stop
(`ForwardingStops`). With the default channel a thread that logs after the
redirection waits for itself (`NobodyHangs`); text that another thread writes while
a line is logged is lost (`TextKept` without the exception).

`PROJECT.json` lists those that contradict a line of the repository, and quotes it.
These contradict none, and are met in the models all the same:

*Framework and memory.* `outElems` counts scalars for a dimension above one
(`BufferConvert.cpp:117`). A file whose `mmap` fails stays open
(`MemoryMappedBufferContainer.cpp:67`), one whose `close` fails stays mapped (line 73),
the size is read before the file is opened (line 61), a file to be written only cannot
be mapped, `CreateFileMapping` is compared with the wrong value (line 190), and
`OPEN_ALWAYS` creates a file that the comment says must exist (line 148). When
`VirtualFreeEx` fails the reservation is kept (`SharedBufferWindows.cpp:157`).

*Tables and texts.* A removed function leaves a null plugin in its table, so that the
look-up finds it and the call throws (`ToString.cpp:157`, `Compare.cpp:81`,
`Hash.cpp:75`); of two plugins with one type the removal of either nulls both. Objects
that compare as equal have different hash codes when their types differ
(`Object.hpp:257`). No separator follows an empty text (`ToString.cpp:124`); keys gain
quotes (`ConvertContainers.cpp:133`); the hash of a pair of types is symmetric
(`Proxy/Convert.cpp:55`). `empty`, `exists` and `list` of the plugin registry insert
missing nodes under a shared lock (`Registry.cpp:251`, 266 and 281). A list of odd
length that begins with the text `__map__` becomes a map (`EvalEnvironment.cpp:49`); for
a value of another kind an exception is made and not thrown (line 42). Archives cut the
sizes of containers to `unsigned`, and keep hashes of types and of names in one map
(`ArchiveEntry.cpp:38`).

## Not modelled

Formats (string conversions, dot markup and statistics), what the numeric kernels
compute, host queries, language bindings, the tests and the command line programs
that only print. They are calls of the system or functions of their arguments with
no state that interleaves.

Of the modelled parts these are left out: `BufferAccumulator::clear` and aliases
in `push`; `getBuffer`, `postBuffer`, the read-before-write buffer, `removeLabel`
and pushes of labels or buffers from outside; changes of the reserve; exceptions
of `work()`; `waitInactive`, whose answer depends on durations; port aliases;
moving a block between pools; thread priorities and affinity. Liveness is not
checked for the lock (it is a spin lock, which may starve), makeCirc, Loading and
the JIT compiler.

## Plan

The components of the inventory have their models. What is left is proof:

1. **CircularContainer**: what is mapped twice or given back, for any address space.
2. **BufferStream** implements **ByteStream**, from the theorems about BufferManagers and
   an invariant of the accumulator; the loops given by their result are the hard part.
3. **WorkerActor**: `LabelsFollowElements`, with lemmas on what is known of sorted
   and flattened lists of labels without induction: their members.

`TopologyJSON`, `Managed`, `ArchiveNumbers` and `EvalEnvironment` use recursive
operators and stay with TLC.
