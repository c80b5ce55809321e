--------------------------- MODULE BufferManagers ---------------------------
(***************************************************************************)
(* The two buffer managers of an output port with the reference counting   *)
(* of ManagedBuffer: NumBuffers buffers that a producer takes from the     *)
(* front, in whole or in parts, and that come back one by one, in any      *)
(* order, when the last chunk that refers to them is dropped.              *)
(*                                                                         *)
(* The buffers of a GenericBufferManager are fixed parts of one slab.      *)
(* Those of a CircularBufferManager are tokens: one that becomes the front *)
(* is given the BufferSize bytes from _frontAddress, in a memory mapped    *)
(* twice in a row, so that a region may run across its end.                *)
(*                                                                         *)
(* A manager is a record: kind; q, the OrderedQueue _readyBuffs; front,    *)
(* the chunk front() returns, or None; addr, _frontAddress (circular);     *)
(* popped, _bytesPopped or _bytesToPop.  Addresses count from the start of *)
(* the memory.                                                             *)
(***************************************************************************)
EXTENDS Integers, Sequences, FiniteSets

CONSTANTS NumBuffers,   \* BufferManagerArgs::numBuffers
          BufferSize    \* BufferManagerArgs::bufferSize

ManagerAssumption ==
    /\ NumBuffers \in Nat \ {0}
    /\ BufferSize \in Nat \ {0}

Buffers == 0..(NumBuffers - 1)
TotalSize == NumBuffers * BufferSize
Chunk == [buf : Buffers, addr : 0..(TotalSize + BufferSize), len : 0..BufferSize]

(* OrderedQueue (include/Pothos/Util/OrderedQueue.hpp): elements carry an  *)
(* index in 0..capacity-1, are pushed in any order and become ready in     *)
(* index order.  An element is represented by its index; a queue is a      *)
(* record: ack, _indexToAck, the index to become ready next; stored, the   *)
(* indices whose _pushedElems entry is set; ready, _readyElems.            *)

\* The queue after capacity elements were pushed in order: all are ready and
\* the index wrapped.
OQFull(capacity) == [ack |-> 0, stored |-> {}, ready |-> [i \in 1..capacity |-> i - 1]]

\* How many indices from a onwards (modulo the capacity) are in S.
RunLength(S, a, capacity) ==
    CHOOSE k \in 0..capacity :
        /\ \A j \in 0..(k - 1) : (a + j) % capacity \in S
        /\ k = capacity \/ (a + k) % capacity \notin S

\* Mutant: the stored elements that are now next stay stored.
OQPushNoDrain(q, index, capacity) ==
    IF index = q.ack
    THEN [q EXCEPT !.ack = (@ + 1) % capacity, !.ready = Append(@, index)]
    ELSE [q EXCEPT !.stored = @ \cup {index}]

\* push: the next index goes directly to the ready queue, another one is
\* stored; then every stored index that is now next becomes ready too.
OQPush(q, index, capacity) ==
    LET direct == index = q.ack
        ack1 == IF direct THEN (q.ack + 1) % capacity ELSE q.ack
        stored1 == IF direct THEN q.stored ELSE q.stored \cup {index}
        n == RunLength(stored1, ack1, capacity)
        drained == [j \in 1..n |-> (ack1 + j - 1) % capacity]
    IN  [ack    |-> (ack1 + n) % capacity,
         stored |-> stored1 \ {drained[j] : j \in 1..n},
         ready  |-> q.ready \o (IF direct THEN <<index>> ELSE <<>>) \o drained]

\* pop
OQPop(q) == [q EXCEPT !.ready = Tail(@)]

-----------------------------------------------------------------------------
\* BufferChunk::null()
None == [buf |-> -1, addr |-> 0, len |-> 0]

VARIABLES mgr,      \* the manager
          live,     \* chunks posted by the producer and not yet dropped
          written   \* history: where the producer stopped taking bytes

mgrVars == <<mgr, live, written>>

\* BufferChunk(ManagedBuffer): the whole buffer of the slab.
Whole(b) == [buf |-> b, addr |-> b * BufferSize, len |-> BufferSize]

\* setCircFrontBuffer: the token is reset to the region at address a.
CircFront(b, a) == [buf |-> b, addr |-> a, len |-> BufferSize]

MgrEmpty(m) == m.q.ready = <<>>

GenericInit ==
    [kind |-> "generic", q |-> OQFull(NumBuffers), front |-> Whole(0), addr |-> 0, popped |-> 0]
CircularInit == [GenericInit EXCEPT !.kind = "circular"]

\* push of the generic manager: the front is set from the returned buffer
\* whenever nothing is ready, even if the ordered queue then only stores it.
GenericPush(m, b) ==
    [m EXCEPT !.front = IF MgrEmpty(m) THEN Whole(b) ELSE @,
              !.q = OQPush(@, b, NumBuffers)]

\* push of the circular manager: a token that ends an empty spell is the front.
CircularPush(m, b) ==
    LET q == OQPush(m.q, b, NumBuffers)
    IN  [m EXCEPT !.q = q,
                  !.front = IF MgrEmpty(m) /\ q.ready # <<>> THEN CircFront(Head(q.ready), m.addr) ELSE @]

MgrPush(m, b) == IF m.kind = "generic" THEN GenericPush(m, b) ELSE CircularPush(m, b)

\* Mutant: the remainder of a buffer starts where the buffer does.
RemainderAtStart(chunk, numBytes) == [chunk EXCEPT !.len = @ - numBytes]

\* What small consumes leave in front.
Remainder(chunk, numBytes) == [chunk EXCEPT !.addr = @ + numBytes, !.len = @ - numBytes]

\* The front address moves past what was popped and wraps.
Wrapped(a) == IF a >= TotalSize THEN a - TotalSize ELSE a

\* The manager when its next buffer is placed in front.
NextFront(m, popped) ==
    LET q == OQPop(m.q)
        a == IF m.kind = "generic" THEN 0 ELSE Wrapped(m.addr + popped)
    IN  [kind |-> m.kind, q |-> q, addr |-> a, popped |-> 0,
         front |-> IF q.ready = <<>> THEN None
                   ELSE IF m.kind = "generic" THEN Whole(Head(q.ready)) ELSE CircFront(Head(q.ready), a)]

\* pop: small consumes leave the remainder of the buffer in front.
MgrPop(m, numBytes) ==
    LET popped == m.popped + numBytes
    IN  IF popped * 2 < BufferSize
        THEN [m EXCEPT !.popped = popped, !.front = Remainder(@, numBytes)]
        ELSE NextFront(m, popped)

\* A buffer the manager holds no reference to.
TakenOut(m, b) == \A i \in DOMAIN m.q.ready : m.q.ready[i] # b

\* ManagedBuffer::Impl::decr and cleanup: when chunks is what remains, the
\* last reference to b is gone and b is pushed back.
MgrRelease(m, b, chunks) ==
    IF TakenOut(m, b) /\ \A c \in chunks : c.buf # b THEN MgrPush(m, b) ELSE m

MgrInit ==
    /\ mgr \in {GenericInit, CircularInit}
    /\ live = {} /\ written = 0

Takes(n) ==
    /\ ~MgrEmpty(mgr) /\ n <= mgr.front.len
    /\ written' = IF mgr.kind = "generic" THEN 0 ELSE (written + n) % TotalSize

\* A work() call produced n bytes: the chunk is posted, n bytes are popped.
Produce(n) ==
    /\ Takes(n)
    /\ mgr' = MgrPop(mgr, n)
    /\ live' = live \cup {[mgr.front EXCEPT !.len = n]}

\* The same when the remainder does not meet the port's reserve: the whole
\* buffer is popped.  Circular buffers are exempt.
ProduceReserve(n) ==
    /\ mgr.kind = "generic"
    /\ Takes(n)
    /\ mgr' = MgrPop(mgr, BufferSize)
    /\ live' = live \cup {[mgr.front EXCEPT !.len = n]}

\* popElements removes n bytes and posts nothing: the port's own reference
\* goes when work() is over.
PopElements(n) ==
    /\ Takes(n)
    /\ mgr' = MgrRelease(MgrPop(mgr, n), mgr.front.buf, live)
    /\ UNCHANGED live

\* The last holder of a chunk drops it.
Release(c) ==
    /\ live' = live \ {c}
    /\ mgr' = MgrRelease(mgr, c.buf, live')
    /\ UNCHANGED written

MgrNext ==
    \/ \E n \in 1..BufferSize : Produce(n) \/ ProduceReserve(n) \/ PopElements(n)
    \/ \E c \in live : Release(c)

MgrSpec == MgrInit /\ [][MgrNext]_mgrVars

-----------------------------------------------------------------------------
\* The indices and counts of the manager are in range: what was popped of the
\* front buffer never exceeds a buffer, and the front address stays in the
\* first mapping of the circular memory; buffers become ready in slab order,
\* which makes the memory of consecutive chunks contiguous.
MgrTypeOK ==
    /\ mgr.q.ack \in Buffers
    /\ mgr.q.stored \subseteq Buffers
    /\ mgr.q.ready \in Seq(Buffers)
    /\ LET r == mgr.q.ready
       IN  \A i \in DOMAIN r : r[i] = (mgr.q.ack + i - 1 - Len(r) + NumBuffers) % NumBuffers
    /\ mgr.front \in Chunk \cup {None}
    /\ mgr.addr \in 0..(TotalSize - 1)
    /\ mgr.popped \in 0..BufferSize
    /\ live \subseteq Chunk

\* The bytes of a chunk: the second mapping of an address is the same byte.
Cells(c) == {i % TotalSize : i \in c.addr..(c.addr + c.len - 1)}

\* What the producer is about to write is no part of a chunk downstream still
\* reads, and no two such chunks overlap: neither the reuse of a remainder, a
\* buffer's return nor a wrap of the circular memory hands out memory twice.
NoSharedBytes ==
    /\ \A c, d \in live : c # d => Cells(c) \cap Cells(d) = {}
    /\ ~MgrEmpty(mgr) => \A c \in live : Cells(c) \cap Cells(mgr.front) = {}

\* In the circular memory the producer continues exactly where it stopped,
\* also when the manager ran empty in between: this is what lets downstream
\* merge consecutive chunks.
ProducesContiguously ==
    mgr.kind = "circular" /\ ~MgrEmpty(mgr) => mgr.front.addr % TotalSize = written

\* Every byte of the memory is handed out once at a time: the manager's
\* bookkeeping is in range, no two holders share bytes, and the producer goes
\* on where it stopped.
BytesHandedOutOnce == MgrTypeOK /\ NoSharedBytes /\ ProducesContiguously

\* No buffer is stranded: one that is neither ready nor stored is referenced
\* by a live chunk; and unless all are ready, the one to acknowledge next is
\* among these, so dropping the chunks makes every buffer ready again.
NoBufferStranded ==
    /\ \A b \in Buffers : TakenOut(mgr, b) /\ b \notin mgr.q.stored => \E c \in live : c.buf = b
    /\ Len(mgr.q.ready) < NumBuffers => \E c \in live : c.buf = mgr.q.ack

=============================================================================
