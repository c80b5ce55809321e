---------------------------- MODULE BufferStream ----------------------------
(***************************************************************************)
(* The memory path of a flow: a source block produces into the buffers of  *)
(* a GenericBufferManager, a forwarding block takes its input buffers and  *)
(* posts them on, a sink consumes.  Both consumers have an input port with *)
(* a BufferAccumulator.  Each step is one call made under a port's lock;   *)
(* preWorkTasks, work() and postWorkTasks of the three blocks interleave.  *)
(* The memory holds the number of the byte last written to each address,   *)
(* so that a buffer recycled too early, a byte lost, repeated or taken     *)
(* from the wrong place all show in what the sink reads.                   *)
(***************************************************************************)
EXTENDS Integers, Sequences, SequencesExt, FiniteSets

CONSTANTS DefaultPoolSize,         \* the initial buffer size of the pools
          NumBuffers, BufferSize,  \* of the source's buffer manager
          Requires,                \* reserve sizes the consumers ask for
          MaxBytes,                \* bound: bytes the source produces
          MaxSkip                  \* bytes the forwarder strips off a buffer

ASSUME StreamAssumption ==
    /\ DefaultPoolSize \in Nat \ {0}
    /\ Requires \subseteq Nat \ {0}
    /\ MaxBytes \in Nat /\ MaxSkip \in Nat

-----------------------------------------------------------------------------
(* BufferAccumulator.cpp, BufferPool.cpp and the parts of BufferChunk they *)
(* use, as operators on values.  A chunk is a record                       *)
(*   buf   - identity of its managed buffer                                *)
(*   start - getBuffer().getAddress()                                      *)
(*   size  - getBuffer().getLength()                                       *)
(*   addr, len - the chunk's address and length                            *)
(* An amalgamated chunk runs past the end of its buffer.  An accumulator   *)
(* is a record                                                             *)
(*   queue - _queue, never empty: an empty accumulator holds NullChunk     *)
(*   avail - _bytesAvailable                                               *)
(*   inPool - _inPoolBuffer                                                *)
(*   poolMin - _pool._minBuffSize                                          *)

\* The default constructed BufferChunk.
NullChunk == [buf |-> -1, start |-> 0, size |-> 0, addr |-> 0, len |-> 0]

\* BufferChunk::getEnd and getBuffer().getEnd()
End(c) == c.addr + c.len
BufferEnd(c) == c.start + c.size

AccInit == [queue |-> <<NullChunk>>, avail |-> 0, inPool |-> FALSE, poolMin |-> DefaultPoolSize]

\* The bytes of chunks 1..i.
PrefixBytes(queue, i) == FoldSeq(LAMBDA c, n : c.len + n, 0, SubSeq(queue, 1, i))

-----------------------------------------------------------------------------
(* push *)

\* First chunk of the contiguous run that ends with the queue's last chunk.
RunHead(queue) ==
    CHOOSE j \in DOMAIN queue :
        /\ \A i \in (j + 1)..Len(queue) : queue[i].addr = End(queue[i - 1])
        /\ j = 1 \/ queue[j].addr # End(queue[j - 1])

\* The bytes of a contiguous run move into its first chunk, the others stay
\* as empty chunks that hold on to their buffers.
Amalgamate(queue) ==
    LET h == RunHead(queue)
        n == Len(queue)
        after(i) == PrefixBytes(queue, n) - PrefixBytes(queue, i - 1)
    IN  [i \in 1..n |->
            IF i < h THEN queue[i]
            ELSE IF i = h THEN [queue[i] EXCEPT !.len = after(i)]
            ELSE [queue[i] EXCEPT !.addr = @ + after(i), !.len = 0]]

\* The last chunk goes when it is empty and in the same buffer as the one
\* before it.
DropEmptyBack(queue) ==
    LET n == Len(queue)
    IN  IF n >= 2 /\ queue[n].len = 0 /\ queue[n].buf = queue[n - 1].buf
        THEN Front(queue)
        ELSE queue

\* nexts are the empty chunks restored for the other buffers of a chunk that
\* was amalgamated upstream.
AccPush(acc, chunk, nexts) ==
    LET q0 == IF Head(acc.queue).len = 0 THEN Tail(acc.queue) ELSE acc.queue
        q1 == Append(q0, chunk)
        q2 == IF Len(q1) < 2 THEN q1 ELSE DropEmptyBack(Amalgamate(q1))
    IN  [acc EXCEPT !.avail = @ + chunk.len,
                    !.queue = q2 \o nexts]

-----------------------------------------------------------------------------
(* pop *)

\* Mutant: the address of chunk 2 does not back up.
MoveWithoutBackup(queue) ==
    <<[queue[2] EXCEPT !.len = @ + queue[1].len]>> \o SubSeq(queue, 3, Len(queue))

\* Give the remainder of chunk 1 to chunk 2, whose address backs up over it.
MoveIntoSecond(queue) ==
    LET n == queue[1].len
    IN  <<[queue[2] EXCEPT !.addr = @ - n, !.len = @ + n]>> \o SubSeq(queue, 3, Len(queue))

\* Where the remainder of the front is given to the next chunk: the front is
\* from the pool and no longer than what precedes front+1 in its buffer, or
\* the front has moved past its own buffer and runs up to front+1.
PoolRemainderInSecond(queue) ==
    Len(queue) > 1 /\ queue[1].len <= queue[2].addr - queue[2].start

PassedIntoSecond(queue) ==
    Len(queue) > 1 /\ queue[1].addr >= BufferEnd(queue[1]) /\ End(queue[1]) = queue[2].addr

\* Mutant: the last chunk stays, and keeps its buffer.
DropConsumedButLast(queue) ==
    LET full == {i \in DOMAIN queue : queue[i].len # 0}
    IN  IF queue = <<>> THEN <<NullChunk>>
        ELSE IF full = {} THEN <<Last(queue)>>
        ELSE SubSeq(queue, CHOOSE i \in full : \A j \in full : i <= j, Len(queue))

DropConsumed(queue) ==
    LET full == {i \in DOMAIN queue : queue[i].len # 0}
    IN  IF full = {} THEN <<NullChunk>>
        ELSE SubSeq(queue, CHOOSE i \in full : \A j \in full : i <= j, Len(queue))

AccPop(acc, numBytes) ==
    LET q0 == [acc.queue EXCEPT ![1].addr = @ + numBytes, ![1].len = @ - numBytes]
        q1 == IF acc.inPool /\ PoolRemainderInSecond(q0) THEN MoveIntoSecond(q0)
              ELSE IF q0[1].len = 0 THEN Tail(q0)
              ELSE IF PassedIntoSecond(q0) THEN MoveIntoSecond(q0)
              ELSE q0
    IN  [acc EXCEPT !.avail = @ - numBytes,
                    !.inPool = @ /\ Len(q1) = Len(q0),
                    !.queue = DropConsumed(q1)]

-----------------------------------------------------------------------------
(* require *)

\* The two early returns: the front is long enough, or it can become so by
\* waiting for more of a single buffer.
RequireSkips(acc, numBytes) ==
    LET f == acc.queue[1] IN
    \/ f.len >= numBytes
    \/ acc.avail < numBytes /\ Len(acc.queue) = 1 /\ numBytes <= f.size

\* BufferPool::get: buffers of the largest size asked for so far.
PoolSize(acc, numBytes) == IF numBytes > acc.poolMin THEN numBytes ELSE acc.poolMin

\* How many bytes require copies into the pool buffer.
CopiedBytes(acc, numBytes) ==
    IF acc.avail < PoolSize(acc, numBytes) THEN acc.avail ELSE PoolSize(acc, numBytes)

\* The queue without its first n bytes: drained chunks are popped, a partly
\* copied one stays with its rest.
WithoutBytes(queue, n) ==
    LET drained == {i \in DOMAIN queue : PrefixBytes(queue, i) <= n}
        k == Cardinality(drained)
        cut == n - PrefixBytes(queue, k)
        rest == SubSeq(queue, k + 1, Len(queue))
    IN  IF rest = <<>> THEN <<>>
        ELSE [rest EXCEPT ![1].addr = @ + cut, ![1].len = @ - cut]

\* pool is the pool's buffer, as a chunk without length.
AccRequire(acc, numBytes, pool) ==
    LET n == CopiedBytes(acc, numBytes)
    IN  [acc EXCEPT !.poolMin = PoolSize(acc, numBytes),
                    !.inPool = TRUE,
                    !.queue = <<[pool EXCEPT !.len = n]>> \o WithoutBytes(acc.queue, n)]

-----------------------------------------------------------------------------
(* The three blocks.                                                       *)

VARIABLES mgr,       \* the source's buffer manager
          mem,       \* contents of the memory
          acc,       \* the two accumulators, by consumer
          sent,      \* bytes produced
          posted     \* history: bytes posted to the sink and not yet consumed

vars == <<mgr, mem, acc, sent, posted>>

\* The manager's operators; what holds its buffers is the queues below.
M == INSTANCE BufferManagers WITH live <- {}, written <- 0

Consumers == {"forward", "sink"}

\* Addresses: the manager's slab, then separately allocated pool buffers.
MaxPool == CHOOSE n \in Requires \cup {DefaultPoolSize} :
               \A r \in Requires \cup {DefaultPoolSize} : r <= n
PoolIds == NumBuffers..(NumBuffers + MaxBytes + 2)   \* enough to always find a free one
PoolStart(p) == NumBuffers * BufferSize + 1 + (p - NumBuffers) * (MaxPool + 1)
Addresses == 0..PoolStart(NumBuffers + MaxBytes + 3)

BufferAt(a) ==
    IF a < NumBuffers * BufferSize THEN a \div BufferSize
    ELSE NumBuffers + (a - NumBuffers * BufferSize - 1) \div (MaxPool + 1)

\* The chunk of managed buffer b at offset off.
SlabChunk(b, off, len) ==
    [buf |-> b, start |-> b * BufferSize, size |-> BufferSize, addr |-> b * BufferSize + off, len |-> len]

Bytes(c) == [i \in 1..c.len |-> mem[c.addr + i - 1]]
Contents(a) == FlattenSeq([i \in DOMAIN a.queue |-> Bytes(a.queue[i])])

\* The buffers that some enqueued chunk refers to.
Refs(a) == {a.queue[i].buf : i \in DOMAIN a.queue}
AllRefs(accs) == UNION {Refs(accs[c]) : c \in Consumers}

\* Reference counting: buffers nobody refers to any more return, in order.
ReturnUnused(m, refs) ==
    FoldSeq(LAMBDA b, r : IF b \in refs \/ ~M!TakenOut(r, b) \/ b \in r.q.stored
                          THEN r ELSE M!MgrPush(r, b),
            m, [i \in 1..NumBuffers |-> i - 1])

\* The memory after bytes are written at address addr.  A buffer that ends the
\* step free is forgotten: who reads it before it is written again reads no
\* byte of the stream.
Written(addr, bytes) ==
    LET used == AllRefs(acc') \cup (IF mgr'.popped > 0 THEN {mgr'.front.buf} ELSE {})
    IN  [a \in Addresses |->
            IF a \in addr..(addr + Len(bytes) - 1) THEN bytes[a - addr + 1]
            ELSE IF BufferAt(a) \in used THEN mem[a]
            ELSE 0]

\* BufferChunk::_incrNextBuffers on a copy of c: an empty chunk for each
\* further buffer that c runs into.
NextBuffers(c) ==
    LET over == End(c) - BufferEnd(c)
        n == IF over <= 0 \/ c.buf \in PoolIds THEN 0 ELSE (over + BufferSize - 1) \div BufferSize
    IN  [i \in 1..n |-> SlabChunk(c.buf + i, 0, 0)]

Init ==
    /\ mgr = M!GenericInit
    /\ mem = [a \in Addresses |-> 0]
    /\ acc = [c \in Consumers |-> AccInit]
    /\ sent = 0 /\ posted = <<>>

\* The source's work() and postWorkTasks: n bytes are written to the front
\* buffer, popped from the manager and pushed into the forwarder's port.
Produce(n) ==
    LET f == mgr.front
        c == SlabChunk(f.buf, f.addr - f.buf * BufferSize, n)
    IN  /\ ~M!MgrEmpty(mgr) /\ n <= f.len /\ sent + n <= MaxBytes
        /\ mgr' = M!MgrPop(mgr, n)
        /\ acc' = [acc EXCEPT !["forward"] = AccPush(@, c, <<>>)]
        /\ mem' = Written(c.addr, [i \in 1..n |-> sent + i])
        /\ sent' = sent + n
        /\ UNCHANGED posted

\* preWorkTasks: bufferAccumulatorRequire, with the pool's first free buffer.
Require(k, numBytes) ==
    LET p == CHOOSE x \in PoolIds \ AllRefs(acc) : \A y \in PoolIds \ AllRefs(acc) : x <= y
        pool == [buf |-> p, start |-> PoolStart(p), size |-> PoolSize(acc[k], numBytes),
                 addr |-> PoolStart(p), len |-> 0]
        copied == SubSeq(Contents(acc[k]), 1, CopiedBytes(acc[k], numBytes))
    IN  /\ ~RequireSkips(acc[k], numBytes)
        /\ acc' = [acc EXCEPT ![k] = AccRequire(@, numBytes, pool)]
        /\ mgr' = ReturnUnused(mgr, AllRefs(acc'))
        /\ mem' = Written(pool.addr, copied)
        /\ UNCHANGED <<sent, posted>>

\* The forwarder takes the front buffer, consumes n bytes of it and posts
\* these but for the first skip ones.
Forward(n, skip) ==
    LET f == acc["forward"].queue[1]
        c == [f EXCEPT !.addr = @ + skip, !.len = n - skip]
    IN  /\ n <= f.len /\ skip < n
        /\ acc' = [acc EXCEPT !["forward"] = AccPop(@, n),
                              !["sink"] = AccPush(@, c, NextBuffers(f))]
        /\ mgr' = ReturnUnused(mgr, AllRefs(acc'))
        /\ mem' = Written(0, <<>>)
        /\ posted' = posted \o Bytes(c)
        /\ UNCHANGED sent

\* The sink reads and consumes n bytes of its front buffer.
Consume(n) ==
    /\ n <= acc["sink"].queue[1].len
    /\ acc' = [acc EXCEPT !["sink"] = AccPop(@, n)]
    /\ mgr' = ReturnUnused(mgr, AllRefs(acc'))
    /\ mem' = Written(0, <<>>)
    /\ posted' = SubSeq(posted, n + 1, Len(posted))
    /\ UNCHANGED sent

Next ==
    \/ \E n \in 1..BufferSize : Produce(n)
    \/ \E k \in Consumers, n \in Requires : Require(k, n)
    \/ \E n \in 1..MaxBytes, skip \in 0..MaxSkip : Forward(n, skip)
    \/ \E n \in 1..MaxBytes : Consume(n)

Spec == Init /\ [][Next]_vars

-----------------------------------------------------------------------------
\* Types; the accumulators' queues are never empty (their asserts), and
\* _bytesAvailable is what the queue holds.
TypeOK ==
    /\ mem \in [Addresses -> 0..MaxBytes]
    /\ \A k \in Consumers :
         /\ acc[k].queue # <<>>
         /\ acc[k].avail = Len(Contents(acc[k]))
         /\ acc[k].inPool \in BOOLEAN
    /\ sent \in 0..MaxBytes

\* The bytes in flight, in the order the sink reads them.
InFlight == Contents(acc["sink"]) \o Contents(acc["forward"])

Stream == INSTANCE ByteStream WITH stream <- InFlight

\* The flow implements a byte stream: whatever is merged, copied, moved back
\* and recycled on the way, the sink reads every byte once and in order.
StreamSpec == Stream!Spec

\* A require for which the port has the bytes puts them in front, in one
\* piece, and nothing but a pop makes the front shorter: a block never sees
\* its input shrink below its reserve while it waits for more.
FrontKeepsItsBytes ==
    [][\A k \in Consumers :
         \/ acc'[k].avail < acc[k].avail
         \/ /\ acc'[k].queue[1].len >= acc[k].queue[1].len
            /\ \A n \in Requires :
                 acc'[k].queue[1].len < n /\ n <= acc[k].avail => ~Require(k, n)]_acc

\* When a flow has been drained every buffer of the source is back.
AllReturnedWhenDrained ==
    (\A k \in Consumers : acc[k].avail = 0) =>
        Cardinality({mgr.q.ready[i] : i \in DOMAIN mgr.q.ready}) = NumBuffers

\* No buffer is lost in the accumulators and none of their fronts shrinks, with
\* the queues as the asserts of BufferAccumulator want them.
AccumulatorsSound == [](TypeOK /\ AllReturnedWhenDrained) /\ FrontKeepsItsBytes

\* The accumulator is a queue of the chunks pushed into it: the sink's holds
\* exactly the bytes that were posted and not yet consumed.  The move of the
\* pool's remainder into front+1 must not change them ("the remainder bytes
\* are in front+1", the comment in pop).
SinkHoldsPosted == Contents(acc["sink"]) = posted

=============================================================================
