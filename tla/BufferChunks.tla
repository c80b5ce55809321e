---------------------------- MODULE BufferChunks ----------------------------
(***************************************************************************)
(* The reference counts of ManagedBuffer, and the chunks of several        *)
(* threads that refer to the buffers of one manager.  A chunk that is      *)
(* longer than its buffer refers to the buffers behind it too, each with a *)
(* count of its own.  Whoever drops the last reference gives the buffer    *)
(* back to the manager, through the callback of the port and under the     *)
(* lock of the port, or deletes it when the manager is gone.               *)
(*                                                                         *)
(* todo has, for each thread, the operations on atomic counters that the   *)
(* calls it is in have still to do, the next one first.  The references of *)
(* a manager's queue and of its front chunk, which are taken and dropped   *)
(* together under the lock, count as one.                                  *)
(***************************************************************************)
EXTENDS Integers, Sequences, FiniteSets

CONSTANTS
  Producer,    \* the thread that works the block of the port
  Slots,       \* for each thread, the places it has for chunks
  Slab,        \* 0..n: the slab indices of the buffers
  Rings,       \* whether the last buffer is followed by the first
  MaxSpan,     \* bound: buffers behind its own that a chunk reaches into
  Nobody, NoBuffer

ChunksAssumption ==
  /\ Producer \in DOMAIN Slots /\ Nobody \notin DOMAIN Slots /\ NoBuffer \notin Slab
  /\ IsFiniteSet(DOMAIN Slots) /\ \A t \in DOMAIN Slots : IsFiniteSet(Slots[t])
  /\ Slab \subseteq Nat /\ \E n \in Slab : Slab = 0..n
  /\ Rings \subseteq BOOLEAN /\ MaxSpan \in Nat

VARIABLES
  looped,    \* the buffers are those of a circular manager
  counter,   \* Impl::counter
  freed,     \* buffers whose Impl was deleted
  ready,     \* buffers that the manager has
  port,      \* the port has its _bufferManager
  strong,    \* shared_ptrs to the manager: of the port, of calls of cleanup
  portLock,  \* the thread that has _bufferManagerLock
  chunk,     \* chunks: managed buffer, how far it reaches, _nextBuffers
  todo,
  held       \* history: the producer had a chunk of the buffer that it is popping

chunkVars == <<looped, held, counter, freed, ready, port, strong, portLock, chunk, todo>>

Workers == DOMAIN Slots
NoChunk == [impl |-> NoBuffer, span |-> 0, next |-> 0]

ChunksInit ==
  /\ looped \in Rings
  /\ counter = [b \in Slab |-> 1] /\ freed = {} /\ ready = Slab
  /\ port = TRUE /\ strong = 1 /\ portLock = Nobody
  /\ chunk = [t \in Workers |-> [s \in Slots[t] |-> NoChunk]]
  /\ todo = [t \in Workers |-> <<>>] /\ held = TRUE

-----------------------------------------------------------------------------
(* setNextBuffer in init of the managers: the buffers of the slab follow   *)
(* each other, and the first follows the last of a circular manager.       *)
LastIndex == CHOOSE n \in Slab : Slab = 0..n
After(b, k) == IF looped THEN (b + k) % (LastIndex + 1) ELSE b + k

\* The buffers behind b that a chunk with this span reaches into.
Reach(b, span) == IF looped \/ b + span \in Slab THEN span ELSE LastIndex - b
Following(b, span) == [k \in 1..Reach(b, span) |-> After(b, k)]

Do(op, buffers) == [i \in DOMAIN buffers |-> [op |-> op, b |-> buffers[i]]]

\* The ManagedBuffer and _incrNextBuffers; _decrNextBuffers, and the buffer
Taken(c) == IF c.impl = NoBuffer THEN <<>> ELSE Do("incr", <<c.impl>> \o Following(c.impl, c.span))

\* Mutant: the buffers behind are left when a chunk goes.
DropFront(c) == IF c.impl = NoBuffer THEN <<>> ELSE Do("decr", <<c.impl>>)

\* What a chunk counts, in the order in which it is given up
Uses(c) == IF c.impl = NoBuffer THEN <<>> ELSE Append(Following(c.impl, c.next), c.impl)

Drop(c) == Do("decr", Uses(c))

\* The chunk that a copy of c is: _incrNextBuffers counts what it reaches
CopyOf(c) == IF c.impl = NoBuffer THEN NoChunk ELSE [c EXCEPT !.next = Len(Following(c.impl, c.span))]

Idle(t) == todo[t] = <<>>
Starts(t, ops) == Idle(t) /\ todo' = [todo EXCEPT ![t] = ops]

\* The copy constructor, and operator= when there is a chunk at d
CopyChunk(t, s, d) ==
  /\ s # d
  /\ Starts(t, Drop(chunk[t][d]) \o Taken(chunk[t][s]))
  /\ chunk' = [chunk EXCEPT ![t][d] = CopyOf(chunk[t][s])]
  /\ UNCHANGED <<looped, held, counter, freed, ready, port, strong, portLock>>

\* The move constructor and the move operator=
MoveChunk(t, s, d) ==
  /\ s # d /\ chunk[t][s] # NoChunk
  /\ Starts(t, Drop(chunk[t][d]))
  /\ chunk' = [chunk EXCEPT ![t][d] = chunk[t][s], ![t][s] = NoChunk]
  /\ UNCHANGED <<looped, held, counter, freed, ready, port, strong, portLock>>

\* clear and the destructor
ClearChunk(t, s) ==
  /\ chunk[t][s] # NoChunk
  /\ Starts(t, Drop(chunk[t][s]))
  /\ chunk' = [chunk EXCEPT ![t][s] = NoChunk]
  /\ UNCHANGED <<looped, held, counter, freed, ready, port, strong, portLock>>

(* bufferAccumulatorFront of a queue in which the chunk s was amalgamated  *)
(* with the chunk d, of the buffer behind it: the copy reaches into both.  *)
Amalgamated(t, s, d, e) ==
  LET c == chunk[t][s]
      long == [c EXCEPT !.span = @ + 1]
  IN  /\ e \notin {s, d} /\ c.impl # NoBuffer /\ c.next = c.span /\ c.span < MaxSpan
      /\ Len(Following(long.impl, long.span)) = long.span
      /\ chunk[t][d] = [impl |-> Following(long.impl, long.span)[long.span], span |-> 0, next |-> 0]
      /\ Starts(t, Drop(chunk[t][e]) \o Taken(long))
      /\ chunk' = [chunk EXCEPT ![t][e] = CopyOf(long)]
      /\ UNCHANGED <<looped, held, counter, freed, ready, port, strong, portLock>>

\* A chunk is pushed to a port of another block.
Send(t, s, u, d) ==
  /\ t # u /\ Idle(t) /\ chunk[t][s] # NoChunk /\ chunk[u][d] = NoChunk /\ Idle(u)
  /\ chunk' = [chunk EXCEPT ![u][d] = chunk[t][s], ![t][s] = NoChunk]
  /\ UNCHANGED <<looped, held, counter, freed, ready, port, strong, portLock, todo>>

-----------------------------------------------------------------------------
(* The calls of the port, each with its lock until the op "unlock".        *)

Locks(t, ops) ==
  /\ portLock = Nobody /\ portLock' = t
  /\ Starts(t, Append(ops, [op |-> "unlock"]))

\* bufferManagerFront into an empty chunk
BufferManagerFront(t, s, b) ==
  /\ port /\ b \in ready /\ chunk[t][s] = NoChunk
  /\ Locks(t, Do("incr", <<b>>))
  /\ chunk' = [chunk EXCEPT ![t][s] = [NoChunk EXCEPT !.impl = b]]
  /\ UNCHANGED <<looped, held, counter, freed, ready, port, strong>>

(* bufferManagerPop: of the front that work was given, or of one behind it *)
(* (a second popElements, or produce after popElements).  What the chunk   *)
(* of the port still holds is not given back here.                         *)
HasChunkOf(t, b) == \E s \in Slots[t] : chunk[t][s].impl = b

BufferManagerPop(t, b) ==
  /\ port /\ b \in ready
  /\ Locks(t, Do("decr", <<b>>)) /\ held' = HasChunkOf(t, b)
  /\ ready' = ready \ {b}
  /\ UNCHANGED <<looped, counter, freed, port, strong, chunk>>

\* bufferManagerSetup without a manager: the port's is released
BufferManagerSetup(t) ==
  /\ port /\ port' = FALSE
  /\ Locks(t, <<[op |-> "release"]>>)
  /\ UNCHANGED <<looped, held, counter, freed, ready, strong, chunk>>

-----------------------------------------------------------------------------
(* The steps of the calls.                                                 *)

First(t) == Head(todo[t])
Step(t, op) == ~Idle(t) /\ First(t).op = op
Continue(t, ops) == todo' = [todo EXCEPT ![t] = ops \o Tail(@)]

Incr(t) ==
  /\ Step(t, "incr")
  /\ counter' = [counter EXCEPT ![First(t).b] = @ + 1]
  /\ Continue(t, <<>>)
  /\ UNCHANGED <<looped, held, freed, ready, port, strong, portLock, chunk>>

\* fetch_sub returned 1
WasLast(b) == counter[b] = 1

Decr(t) ==
  /\ Step(t, "decr")
  /\ LET b == First(t).b
     IN  /\ counter' = [counter EXCEPT ![b] = @ - 1]
         /\ Continue(t, IF WasLast(b) THEN <<[op |-> "cleanup", b |-> b]>> ELSE <<>>)
  /\ UNCHANGED <<looped, held, freed, ready, port, strong, portLock, chunk>>

\* cleanup: weakManager.lock(), or delete this
Cleanup(t) ==
  /\ Step(t, "cleanup")
  /\ LET b == First(t).b
     IN  IF strong > 0
         THEN /\ strong' = strong + 1
              /\ Continue(t, <<[op |-> "push", b |-> b], [op |-> "release"]>>)
              /\ UNCHANGED freed
         ELSE freed' = freed \cup {b} /\ Continue(t, <<>>) /\ UNCHANGED strong
  /\ UNCHANGED <<looped, held, port, counter, ready, portLock, chunk>>

\* pushExternal, bufferManagerPush, push: the queue takes a reference
Push(t) ==
  /\ Step(t, "push") /\ portLock = Nobody
  /\ LET b == First(t).b
     IN  ready' = ready \cup {b} /\ counter' = [counter EXCEPT ![b] = @ + 1]
  /\ Continue(t, <<>>)
  /\ UNCHANGED <<looped, held, freed, port, strong, portLock, chunk>>

\* The queue of a manager has each buffer once.
Occurs(q, x) == {i \in DOMAIN q : q[i] = x}
Orders(S) == {q \in [1..Cardinality(S) -> S] : \A b \in S : Cardinality(Occurs(q, b)) = 1}

\* A shared_ptr goes; the last one destroys the manager with its queue.
ReleaseManager(t) ==
  /\ Step(t, "release")
  /\ strong' = strong - 1
  /\ IF strong = 1
     THEN ready' = {} /\ (\E order \in Orders(ready) : Continue(t, Do("decr", order)))
     ELSE Continue(t, <<>>) /\ UNCHANGED ready
  /\ UNCHANGED <<looped, held, port, counter, freed, portLock, chunk>>

UnlockPort(t) ==
  /\ Step(t, "unlock")
  /\ portLock' = Nobody /\ held' = TRUE /\ Continue(t, <<>>)
  /\ UNCHANGED <<looped, counter, freed, ready, port, strong, chunk>>

ChunksNext ==
  \E t \in Workers :
    \/ Incr(t) \/ Decr(t) \/ Cleanup(t) \/ Push(t) \/ ReleaseManager(t) \/ UnlockPort(t)
    \/ \E s \in Slots[t] :
         \/ ClearChunk(t, s)
         \/ \E d \in Slots[t] : CopyChunk(t, s, d) \/ MoveChunk(t, s, d)
         \/ \E d, e \in Slots[t] : Amalgamated(t, s, d, e)
         \/ \E u \in Workers : \E d \in Slots[u] : Send(t, s, u, d)
         \/ t = Producer /\ \E b \in Slab : BufferManagerFront(t, s, b)
    \/ t = Producer /\ (BufferManagerSetup(t) \/ \E b \in Slab : BufferManagerPop(t, b))

ChunksSpec == ChunksInit /\ [][ChunksNext]_chunkVars

-----------------------------------------------------------------------------
ChunkTypesOK ==
  /\ looped \in BOOLEAN /\ counter \in [Slab -> Nat] /\ freed \subseteq Slab
  /\ ready \subseteq Slab /\ port \in BOOLEAN /\ strong \in Nat /\ portLock \in Workers \cup {Nobody}
  /\ held \in BOOLEAN

\* How many elements the sets F[k] have
Total(F) == Cardinality(UNION {{k} \X F[k] : k \in DOMAIN F})
AllSlots == UNION {{t} \X Slots[t] : t \in Workers}

\* How often the operation is still to be done, and how often chunks count b
Pending(op, b) == Total([t \in Workers |-> Occurs(todo[t], [op |-> op, b |-> b])])
References(b) == Total([p \in AllSlots |-> Occurs(Uses(chunk[p[1]][p[2]]), b)])

\* Every counter is the number of references, up to the steps that the calls
\* in progress still have to do.
CountExact ==
  \A b \in Slab \ freed :
    counter[b] = References(b) + (IF b \in ready THEN 1 ELSE 0) + Pending("decr", b) - Pending("incr", b)

\* Nothing refers to a buffer that was deleted, or will still touch it.
NoUseAfterFree ==
  \A b \in freed :
    /\ b \notin ready /\ References(b) = 0
    /\ \A op \in {"incr", "decr", "cleanup", "push"} : Pending(op, b) = 0

(* A buffer goes back to its manager, or is deleted, by one thread, once,  *)
(* and only when no chunk reaches into it any more.                        *)
ReturnedOnce ==
  \A b \in Slab :
    LET returns == Pending("cleanup", b) + Pending("push", b)
    IN  returns > 0 => returns = 1 /\ References(b) = 0 /\ b \notin ready

(* A thread waits for the lock of the port that it has itself only in a    *)
(* pop of a buffer of which it has no chunk: nowhere else does a call of   *)
(* the port drop the last reference, whatever the others drop meanwhile.   *)
NoSelfDeadlock == \A t \in Workers : Step(t, "push") /\ portLock = t => ~ held

\* When no chunk is left the manager has all of its buffers, or, when it is
\* gone, none of them is left in memory.
NothingLeaks ==
  (\A t \in Workers : Idle(t) /\ \A s \in Slots[t] : chunk[t][s] = NoChunk) =>
    IF strong > 0 THEN ready = Slab ELSE freed = Slab

(* Chunks and the buffers behind them count exactly, no buffer is used     *)
(* after it was deleted or given back twice, none is lost, and giving one  *)
(* back waits for a lock of the same thread only after a pop of a buffer   *)
(* that the block did not hold.                                            *)
ChunksCounted ==
  ChunkTypesOK /\ CountExact /\ NoUseAfterFree /\ ReturnedOnce /\ NoSelfDeadlock /\ NothingLeaks
=============================================================================
