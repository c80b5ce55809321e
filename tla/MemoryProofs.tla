---------------------------- MODULE MemoryProofs ----------------------------
(***************************************************************************)
(* Proofs about SpinLockRW, for any finite set of threads and any width of *)
(* the word; about the buffer managers, for any number and size of         *)
(* buffers; that RingDeque implements Deque, for any elements, capacities  *)
(* and width of size_t; and about the chunks that refer to the buffers of  *)
(* a manager, for any buffers, threads and chunks.                         *)
(***************************************************************************)
EXTENDS SpinLockRW, BufferManagers, RingDeque, BufferChunks, Integers,
        FiniteSetTheorems, SequenceTheorems, NaturalsInduction, WellFoundedInduction, TLAPS

-----------------------------------------------------------------------------
(* The proofs, for any finite set of threads, any width of the word and    *)
(* any number of locks.                                                    *)

\* What a thread is about to exchange was not the value of a writer.
ExpectsReaders ==
  \A t \in Threads : pc[t] = "exchange" => expected[t] # WRITER_LOCK

LockInv == TypeOK /\ WriterAlone /\ WordExact /\ ExpectsReaders

\* The readers are finitely many, and counted by a natural number.
LEMMA ReadersFinite ==
  /\ IsFiniteSet(Readers) /\ Cardinality(Readers) \in Nat
  /\ Cardinality(Readers) = 0 <=> Readers = {}
<1>1. Readers \subseteq Threads BY DEF Readers
<1>2. IsFiniteSet(Readers) BY <1>1, FS_Subset, LockAssumption DEF LockAssumption
<1> QED BY <1>2, FS_CardinalityType, FS_EmptySet

\* One more reader, one more counted.
LEMMA ReaderAdded ==
  ASSUME NEW t \in Threads, pc \in [Threads -> Places], pc[t] # "reading",
         pc' = [pc EXCEPT ![t] = "reading"]
  PROVE  Cardinality(Readers') = Cardinality(Readers) + 1
<1>1. Readers' = Readers \union {t} /\ t \notin Readers BY DEF Readers
<1> QED BY <1>1, FS_AddElement, ReadersFinite

\* One reader less, one less counted.
LEMMA ReaderRemoved ==
  ASSUME NEW t \in Threads, pc \in [Threads -> Places], pc[t] = "reading",
         pc' = [pc EXCEPT ![t] = "out"]
  PROVE  Cardinality(Readers') = Cardinality(Readers) - 1
<1>1. Readers' = Readers \ {t} /\ t \in Readers BY DEF Readers
<1> QED BY <1>1, FS_RemoveElement, ReadersFinite

\* A step between places that are neither changes neither set.
LEMMA SameHolders ==
  ASSUME NEW t \in Threads, pc \in [Threads -> Places], NEW to,
         pc[t] \notin {"reading", "writing"}, to \notin {"reading", "writing"},
         pc' = [pc EXCEPT ![t] = to]
  PROVE  Readers' = Readers /\ Writers' = Writers
BY DEF Readers, Writers

\* A new lock has the invariant.
LEMMA LockInitInv == Init => LockInv
<1> SUFFICES ASSUME Init PROVE LockInv OBVIOUS
<1>1. TypeOK BY LockAssumption DEF Init, TypeOK, Places, UNLOCKED, LockAssumption
<1>2. Readers = {} /\ Writers = {} BY DEF Init, Readers, Writers
<1>3. WriterAlone /\ WordExact
  BY <1>2, FS_EmptySet DEF WriterAlone, WordExact, Init, UNLOCKED
<1> QED BY <1>1, <1>3 DEF LockInv, ExpectsReaders, Init

(* Each step keeps the invariant.  A reader that enters and one that       *)
(* leaves move the word and the count together; a writer enters only when  *)
(* the word is zero, that is, when nobody is inside.                       *)
LEMMA LockNextInv == LockInv /\ [Next]_vars => LockInv'
<1> SUFFICES ASSUME LockInv, [Next]_vars PROVE LockInv' OBVIOUS
<1> USE LockAssumption DEF LockAssumption
<1>0. TypeOK /\ WriterAlone /\ WordExact /\ ExpectsReaders BY DEF LockInv
<1>1. ASSUME NEW t \in Threads, BeginShared(t) \/ BeginExclusive(t) PROVE LockInv'
  <2>1. PICK to \in {"load", "lock"} : Begin(t, to)
    BY <1>1 DEF BeginShared, BeginExclusive
  <2>2. Readers' = Readers /\ Writers' = Writers
    BY <2>1, <1>0, SameHolders DEF Begin, Goto, TypeOK
  <2>3. TypeOK' BY <2>1, <1>0 DEF Begin, Goto, TypeOK, Places
  <2>4. WriterAlone' /\ WordExact'
    BY <2>1, <2>2, <1>0 DEF Begin, WriterAlone, WordExact
  <2>5. ExpectsReaders' BY <2>1, <1>0 DEF Begin, Goto, TypeOK, ExpectsReaders
  <2> QED BY <2>3, <2>4, <2>5 DEF LockInv
<1>2. ASSUME NEW t \in Threads, LoadShared(t) PROVE LockInv'
  <2>1. Readers' = Readers /\ Writers' = Writers
    BY <1>2, <1>0, SameHolders DEF LoadShared, Goto, TypeOK
  <2>2. TypeOK' BY <1>2, <1>0 DEF LoadShared, Goto, TypeOK, Places
  <2>3. WriterAlone' /\ WordExact'
    BY <1>2, <2>1, <1>0 DEF LoadShared, WriterAlone, WordExact
  <2>4. ExpectsReaders'
    BY <1>2, <1>0 DEF LoadShared, Goto, TypeOK, ExpectsReaders, NotWriting, WRITER_LOCK
  <2> QED BY <2>2, <2>3, <2>4 DEF LockInv
<1>3. ASSUME NEW t \in Threads, ExchangeShared(t) PROVE LockInv'
  <2>1. pc' = [pc EXCEPT ![t] = "reading"] /\ pc[t] = "exchange"
    BY <1>3 DEF ExchangeShared, Goto
  <2>2. word # WRITER_LOCK /\ word' = word + 1
    BY <1>3, <1>0 DEF ExchangeShared, Goto, ExpectsReaders, TypeOK, WRITER_LOCK
  <2>3. Writers = {} /\ word = Cardinality(Readers)
    BY <2>2, <1>0 DEF WordExact
  <2>4. Writers' = {} BY <2>1, <2>3, <1>0 DEF Writers, TypeOK
  <2>5. Cardinality(Readers') = Cardinality(Readers) + 1
    BY <2>1, <1>0, ReaderAdded DEF TypeOK
  <2>6. TypeOK'
    BY <1>3, <2>1, <2>2, <1>0 DEF ExchangeShared, TypeOK, Places, WRITER_LOCK
  <2>7. WriterAlone' BY <2>4 DEF WriterAlone
  <2>8. WordExact' BY <2>2, <2>3, <2>4, <2>5 DEF WordExact
  <2>9. ExpectsReaders' BY <1>3, <2>1, <1>0 DEF ExchangeShared, TypeOK, ExpectsReaders
  <2> QED BY <2>6, <2>7, <2>8, <2>9 DEF LockInv
<1>4. ASSUME NEW t \in Threads, ExchangeFails(t) PROVE LockInv'
  <2>1. Readers' = Readers /\ Writers' = Writers
    BY <1>4, <1>0, SameHolders DEF ExchangeFails, Goto, TypeOK
  <2>2. TypeOK' BY <1>4, <1>0 DEF ExchangeFails, Goto, TypeOK, Places
  <2>3. WriterAlone' /\ WordExact'
    BY <1>4, <2>1, <1>0 DEF ExchangeFails, WriterAlone, WordExact
  <2>4. ExpectsReaders'
    BY <1>4, <1>0 DEF ExchangeFails, Goto, TypeOK, ExpectsReaders
  <2> QED BY <2>2, <2>3, <2>4 DEF LockInv
<1>5. ASSUME NEW t \in Threads, ExchangeExclusive(t) PROVE LockInv'
  <2>1. pc' = [pc EXCEPT ![t] = "writing"] /\ pc[t] = "lock" /\ word = 0
    BY <1>5 DEF ExchangeExclusive, Goto, Free, UNLOCKED
  <2>2. Writers = {} /\ Readers = {}
    BY <2>1, <1>0, ReadersFinite DEF WordExact, WRITER_LOCK
  <2>3. Writers' = {t} /\ Readers' = {}
    BY <2>1, <2>2, <1>0 DEF Writers, Readers, TypeOK
  <2>4. TypeOK'
    BY <1>5, <2>1, <1>0 DEF ExchangeExclusive, TypeOK, Places, WRITER_LOCK
  <2>5. WriterAlone' BY <2>3 DEF WriterAlone
  <2>6. WordExact' BY <1>5, <2>3 DEF ExchangeExclusive, WordExact, WRITER_LOCK
  <2>7. ExpectsReaders' BY <1>5, <2>1, <1>0 DEF ExchangeExclusive, TypeOK, ExpectsReaders
  <2> QED BY <2>4, <2>5, <2>6, <2>7 DEF LockInv
<1>6. ASSUME NEW t \in Threads, UnlockShared(t) PROVE LockInv'
  <2>1. pc' = [pc EXCEPT ![t] = "out"] /\ pc[t] = "reading"
    BY <1>6 DEF UnlockShared, Goto
  <2>2. t \in Readers BY <2>1 DEF Readers
  <2>3. Writers = {} /\ word = Cardinality(Readers)
    BY <2>2, <1>0 DEF WriterAlone, WordExact
  <2>4. word # 0 BY <2>2, <2>3, ReadersFinite
  <2>5. word' = word - 1
    BY <1>6, <2>4, <1>0 DEF UnlockShared, OneReaderLess, TypeOK
  <2>6. Writers' = {} BY <2>1, <2>3, <1>0 DEF Writers, TypeOK
  <2>7. Cardinality(Readers') = Cardinality(Readers) - 1
    BY <2>1, <1>0, ReaderRemoved DEF TypeOK
  <2>8. TypeOK' BY <1>6, <2>1, <2>4, <2>5, <1>0 DEF UnlockShared, TypeOK, Places
  <2>9. WriterAlone' BY <2>6 DEF WriterAlone
  <2>10. WordExact' BY <2>3, <2>5, <2>6, <2>7 DEF WordExact
  <2>11. ExpectsReaders' BY <1>6, <2>1, <1>0 DEF UnlockShared, TypeOK, ExpectsReaders
  <2> QED BY <2>8, <2>9, <2>10, <2>11 DEF LockInv
<1>7. ASSUME NEW t \in Threads, Unlock(t) PROVE LockInv'
  <2>1. pc' = [pc EXCEPT ![t] = "out"] /\ pc[t] = "writing" /\ word' = 0
    BY <1>7 DEF Unlock, Goto, UNLOCKED
  <2>2. Writers = {t} /\ Readers = {} BY <2>1, <1>0 DEF Writers, WriterAlone
  <2>3. Writers' = {} /\ Readers' = {} BY <2>1, <2>2, <1>0 DEF Writers, Readers, TypeOK
  <2>4. TypeOK' BY <1>7, <2>1, <1>0 DEF Unlock, TypeOK, Places
  <2>5. WriterAlone' /\ WordExact'
    BY <2>1, <2>3, FS_EmptySet DEF WriterAlone, WordExact
  <2>6. ExpectsReaders' BY <1>7, <2>1, <1>0 DEF Unlock, TypeOK, ExpectsReaders
  <2> QED BY <2>4, <2>5, <2>6 DEF LockInv
<1>8. CASE UNCHANGED vars
  <2>1. Readers' = Readers /\ Writers' = Writers BY <1>8 DEF vars, Readers, Writers
  <2> QED
    BY <1>8, <2>1, <1>0 DEF vars, LockInv, TypeOK, WriterAlone, WordExact, ExpectsReaders
<1> QED
  BY <1>1, <1>2, <1>3, <1>4, <1>5, <1>6, <1>7, <1>8 DEF Next, Inside

\* The invariant holds in every state of every behaviour of the lock.
THEOREM LockInvHolds == Spec => []LockInv
BY LockInitInv, LockNextInv, PTL DEF Spec

\* The variables keep their types: neither the count nor the word leaves its range.
THEOREM LockTypes == Spec => []TypeOK
<1>1. LockInv => TypeOK BY DEF LockInv
<1> QED BY <1>1, LockInvHolds, PTL

\* A writer that holds the lock is alone, with any number of threads.
THEOREM WriterExcludes == Spec => []WriterAlone
<1>1. LockInv => WriterAlone BY DEF LockInv
<1> QED BY <1>1, LockInvHolds, PTL

\* The word says who holds the lock, at the limit of its width too.
THEOREM WordTellsHolders == Spec => []WordExact
<1>1. LockInv => WordExact BY DEF LockInv
<1> QED BY <1>1, LockInvHolds, PTL

-----------------------------------------------------------------------------
(* The ring of the indices.                                                *)

Mod(x) == x % NumBuffers

\* The index j after a, and the i-th of the L indices before a.
Ahead(a, j) == IF a + j < NumBuffers THEN a + j ELSE a + j - NumBuffers
Place(a, L, i) == IF a + i - 1 >= L THEN a + i - 1 - L ELSE a + i - 1 - L + NumBuffers

\* One subtraction is enough below twice the modulus.
LEMMA ModStep ==
  ASSUME NEW M \in Nat \ {0}, NEW x \in Nat, x < 2 * M
  PROVE  x % M = IF x < M THEN x ELSE x - M
OBVIOUS

\* The same for indices of buffers.
LEMMA ModValue ==
  ASSUME ManagerAssumption, NEW x \in Nat, x < 2 * NumBuffers
  PROVE  Mod(x) = IF x < NumBuffers THEN x ELSE x - NumBuffers
BY ModStep DEF ManagerAssumption, Mod

\* The index j buffers after a.
LEMMA AfterMod ==
  ASSUME ManagerAssumption, NEW a \in Buffers, NEW j \in 0..NumBuffers
  PROVE  Mod(a + j) = Ahead(a, j) /\ Ahead(a, j) \in Buffers
<1>1. NumBuffers \in Nat \ {0} /\ a \in Nat /\ a < NumBuffers BY DEF ManagerAssumption, Buffers
<1> DEFINE x == a + j
<1>2. x \in Nat /\ x < 2 * NumBuffers BY <1>1
<1>3. Mod(x) = IF x < NumBuffers THEN x ELSE x - NumBuffers
  <2> HIDE DEF x
  <2> QED BY <1>2, ModValue
<1>4. Ahead(a, j) \in Buffers BY <1>1 DEF Ahead, Buffers
<1> QED BY <1>1, <1>3, <1>4 DEF Ahead

\* The index of the i-th of L ready buffers, counted back from the next one.
LEMMA PlaceMod ==
  ASSUME ManagerAssumption, NEW a \in Buffers, NEW L \in 0..NumBuffers, NEW i \in 1..L
  PROVE  Mod(a + i - 1 - L + NumBuffers) = Place(a, L, i) /\ Place(a, L, i) \in Buffers
<1> DEFINE x == a + i - 1 - L + NumBuffers
<1>1. NumBuffers \in Nat \ {0} /\ a \in Nat /\ a < NumBuffers BY DEF ManagerAssumption, Buffers
<1>2. x \in Nat /\ x < 2 * NumBuffers BY <1>1
<1>3. Mod(x) = IF x < NumBuffers THEN x ELSE x - NumBuffers
  <2> HIDE DEF x
  <2> QED BY <1>2, ModValue
<1>4. (IF x < NumBuffers THEN x ELSE x - NumBuffers) = Place(a, L, i) BY <1>1 DEF Place
<1>5. Place(a, L, i) \in Buffers BY <1>1 DEF Place, Buffers
<1> QED BY <1>3, <1>4, <1>5

\* The places are different, and a is not one of them unless all are.
LEMMA PlaceApart ==
  ASSUME ManagerAssumption, NEW a \in Buffers, NEW L \in 0..NumBuffers, NEW i \in 1..L
  PROVE  /\ \A j \in 1..L : Place(a, L, i) = Place(a, L, j) => i = j
         /\ L < NumBuffers => Place(a, L, i) # a
         /\ L = NumBuffers => Place(a, L, 1) = a
BY DEF Place, ManagerAssumption, Buffers

\* Without the first, and the first of the rest.
LEMMA PlaceTail ==
  ASSUME ManagerAssumption, NEW a \in Buffers, NEW L \in 1..NumBuffers
  PROVE  /\ \A i \in 1..(L - 1) : Place(a, L - 1, i) = Place(a, L, i + 1)
         /\ L > 1 => Place(a, L, 2) = Ahead(Place(a, L, 1), 1)
         /\ L = 1 => a = Ahead(Place(a, L, 1), 1)
BY DEF Place, Ahead, ManagerAssumption, Buffers

\* With a and the n indices after it.
LEMMA PlaceGrow ==
  ASSUME ManagerAssumption, NEW a \in Buffers, NEW L \in 0..NumBuffers,
         NEW n \in Nat, L + 1 + n <= NumBuffers
  PROVE  /\ Ahead(a, n + 1) \in Buffers
         /\ Ahead(Ahead(a, 1), n) = Ahead(a, n + 1)
         /\ \A j \in 1..n : Ahead(Ahead(a, 1), j - 1) = Ahead(a, j)
         /\ \A i \in 1..L : Place(Ahead(a, n + 1), L + 1 + n, i) = Place(a, L, i)
         /\ \A j \in 0..n : Place(Ahead(a, n + 1), L + 1 + n, L + 1 + j) = Ahead(a, j)
BY DEF Place, Ahead, ManagerAssumption, Buffers

\* After L indices before a and a itself, the ring comes round to the first of them.
LEMMA ComesRound ==
  ASSUME ManagerAssumption, NEW a \in Buffers, NEW L \in 0..(NumBuffers - 1)
  PROVE  /\ L > 0 => Ahead(Ahead(a, 1), NumBuffers - 1 - L) = Place(a, L, 1)
         /\ L = 0 => Ahead(Ahead(a, 1), NumBuffers - 1 - L) = a
BY DEF Place, Ahead, ManagerAssumption, Buffers

\* Multiples of the buffer size keep their distance.
LEMMA Times ==
  ASSUME NEW M \in Nat \ {0}, NEW a \in Nat
  PROVE  /\ a * M \in Nat
         /\ (a + 1) * M = a * M + M
         /\ \A b \in Nat : a < b => a * M + M <= b * M
OBVIOUS

\* What is where in two sequences put together.
LEMMA Concatenation ==
  ASSUME NEW S, NEW s \in Seq(S), NEW t \in Seq(S)
  PROVE  /\ s \o t \in Seq(S) /\ Len(s \o t) = Len(s) + Len(t)
         /\ \A i \in 1..Len(s) : (s \o t)[i] = s[i]
         /\ \A j \in 1..Len(t) : (s \o t)[Len(s) + j] = t[j]
OBVIOUS

\* The buffers that were ready, the one that is acknowledged, those that were stored.
LEMMA Between ==
  ASSUME NEW L \in Nat, NEW n \in Nat
  PROVE  /\ \A i \in 1..(L + 1 + n) :
              \/ i \in 1..L
              \/ i = L + 1
              \/ \E j \in 1..n : i = L + 1 + j
         /\ \A i \in 1..L : i \in 1..(L + 1 + n)
         /\ \A j \in 1..n : L + 1 + j \in 1..(L + 1 + n)
         /\ L + 1 \in 1..(L + 1 + n)
<1>1. ASSUME NEW i \in 1..(L + 1 + n), i \notin 1..L, i # L + 1
      PROVE  \E j \in 1..n : i = L + 1 + j
  <2>1. i - L - 1 \in 1..n /\ i = L + 1 + (i - L - 1) BY <1>1
  <2> QED BY <2>1
<1> QED BY <1>1

\* A set of natural numbers that is not empty has a least element.
LEMMA LeastElement ==
  ASSUME NEW S \in SUBSET Nat, S # {}
  PROVE  \E k \in S : \A j \in S : k <= j
<1>1. PICK k \in S : \A j \in S : ~(<<j, k>> \in OpToRel(<, Nat))
  BY NatLessThanWellFounded, WFMin
<1>2. \A j \in S : ~(j < k)
  BY <1>1 DEF OpToRel
<1> QED BY <1>2

\* The buffers fill the memory and no more.
LEMMA Sizes ==
  ASSUME ManagerAssumption
  PROVE  /\ NumBuffers \in Nat \ {0} /\ BufferSize \in Nat \ {0}
         /\ TotalSize \in Nat /\ BufferSize <= TotalSize
         /\ \A a \in Nat : a < NumBuffers => a * BufferSize + BufferSize <= TotalSize
         /\ NumBuffers * BufferSize = TotalSize
BY Times DEF ManagerAssumption, TotalSize

-----------------------------------------------------------------------------
(* The ordered queue.                                                      *)

Ready(q) == {q.ready[i] : i \in 1..Len(q.ready)}

\* The buffer that is in front, or will be when it comes back.
HeadIndex(q) == IF q.ready = <<>> THEN q.ack ELSE q.ready[1]

QueueType(q) ==
  /\ q \in [ack : Buffers, stored : SUBSET Buffers, ready : Seq(Buffers)]
  /\ Len(q.ready) <= NumBuffers

(* The ready buffers are the ones just before the next to acknowledge;     *)
(* none is ready and stored, and the next one is never stored.             *)
QueueOK(q) ==
  /\ QueueType(q)
  /\ \A i \in 1..Len(q.ready) :
       /\ q.ready[i] = Place(q.ack, Len(q.ready), i)
       /\ q.ready[i] \notin q.stored
  /\ q.ack \notin q.stored

\* The types of an OrderedQueue.
LEMMA QueueFacts ==
  ASSUME ManagerAssumption, NEW q, QueueOK(q)
  PROVE  /\ q.ack \in Buffers /\ q.stored \subseteq Buffers /\ q.ready \in Seq(Buffers)
         /\ Len(q.ready) \in 0..NumBuffers /\ DOMAIN q.ready = 1..Len(q.ready)
         /\ q = [ack |-> q.ack, stored |-> q.stored, ready |-> q.ready]
         /\ q.ready # <<>> => Len(q.ready) \in 1..NumBuffers
         /\ q.ready = <<>> => Len(q.ready) = 0
BY DEF QueueOK, QueueType, ManagerAssumption

\* No buffer is ready twice, and the next to acknowledge only when all are ready.
LEMMA ReadyApart ==
  ASSUME ManagerAssumption, NEW q, QueueOK(q)
  PROVE  /\ \A i, j \in 1..Len(q.ready) : q.ready[i] = q.ready[j] => i = j
         /\ Len(q.ready) < NumBuffers => q.ack \notin Ready(q)
         /\ Len(q.ready) = NumBuffers => q.ack \in Ready(q)
<1>1. q.ack \in Buffers /\ Len(q.ready) \in 0..NumBuffers BY QueueFacts
<1>2. \A i \in 1..Len(q.ready) : q.ready[i] = Place(q.ack, Len(q.ready), i) BY DEF QueueOK
<1>3. ASSUME NEW i \in 1..Len(q.ready), NEW j \in 1..Len(q.ready), q.ready[i] = q.ready[j]
      PROVE  i = j
  BY <1>1, <1>2, <1>3, PlaceApart
<1>4. ASSUME Len(q.ready) < NumBuffers, NEW i \in 1..Len(q.ready) PROVE q.ready[i] # q.ack
  BY <1>1, <1>2, <1>4, PlaceApart
<1>5. ASSUME Len(q.ready) = NumBuffers PROVE q.ack \in Ready(q)
  <2>1. 1 \in 1..Len(q.ready) BY <1>5 DEF ManagerAssumption
  <2>2. q.ready[1] = q.ack BY <2>1, <1>1, <1>2, <1>5, PlaceApart
  <2> QED BY <2>1, <2>2 DEF Ready
<1> QED BY <1>3, <1>4, <1>5 DEF Ready

\* RunLength is there: the first k at which the run ends.
LEMMA RunEnds ==
  ASSUME ManagerAssumption, NEW S, NEW a \in Buffers
  PROVE  /\ RunLength(S, a, NumBuffers) \in 0..NumBuffers
         /\ \A j \in 0..(RunLength(S, a, NumBuffers) - 1) : Ahead(a, j) \in S
         /\ \/ RunLength(S, a, NumBuffers) = NumBuffers
            \/ Ahead(a, RunLength(S, a, NumBuffers)) \notin S
<1> DEFINE C == NumBuffers
           E == {k \in 0..C : k = C \/ Mod(a + k) \notin S}
           P(k) == /\ \A j \in 0..(k - 1) : Mod(a + j) \in S
                   /\ k = C \/ Mod(a + k) \notin S
           R == RunLength(S, a, C)
<1>0. C \in Nat BY DEF ManagerAssumption
<1>1. C \in E /\ E \in SUBSET Nat BY <1>0
<1>2. PICK k \in E : \A j \in E : k <= j BY <1>1, LeastElement
<1>3. k \in 0..C /\ P(k) BY <1>0, <1>2
<1>4. R = CHOOSE l \in 0..C : P(l) BY DEF RunLength, Mod
<1>5. R \in 0..C /\ P(R)
  <2> HIDE DEF P, R
  <2> QED BY <1>3, <1>4
<1>6. \A j \in 0..C : Mod(a + j) = Ahead(a, j) BY AfterMod
<1> HIDE DEF R
<1>7. \A j \in 0..(R - 1) : Ahead(a, j) \in S BY <1>0, <1>5, <1>6
<1>8. R = C \/ Ahead(a, R) \notin S BY <1>5, <1>6
<1> QED BY <1>5, <1>7, <1>8 DEF R

(* push of a buffer that is neither ready nor stored: what is ready stays  *)
(* so, the buffer is ready or stored, and an empty queue gets its head     *)
(* from the buffer to acknowledge.                                         *)
LEMMA PushQueue ==
  ASSUME ManagerAssumption, NEW q, QueueOK(q),
         NEW b \in Buffers, b \notin q.stored, b \notin Ready(q)
  PROVE  /\ QueueOK(OQPush(q, b, NumBuffers))
         /\ Len(q.ready) <= Len(OQPush(q, b, NumBuffers).ready)
         /\ \A i \in 1..Len(q.ready) : OQPush(q, b, NumBuffers).ready[i] = q.ready[i]
         /\ OQPush(q, b, NumBuffers).stored \union Ready(OQPush(q, b, NumBuffers))
              = q.stored \union Ready(q) \union {b}
         /\ HeadIndex(OQPush(q, b, NumBuffers)) = HeadIndex(q)
         /\ q.ready = <<>> /\ OQPush(q, b, NumBuffers).ready # <<>> => b = q.ack
<1> DEFINE C == NumBuffers
           p == OQPush(q, b, C)
           direct == b = q.ack
           ack1 == IF direct THEN (q.ack + 1) % C ELSE q.ack
           stored1 == IF direct THEN q.stored ELSE q.stored \union {b}
           n == RunLength(stored1, ack1, C)
           drained == [j \in 1..n |-> (ack1 + j - 1) % C]
           first == q.ready \o (IF direct THEN <<b>> ELSE <<>>)
           L == Len(q.ready)
<1>1. C \in Nat \ {0} BY DEF ManagerAssumption
<1>2. L \in 0..C /\ q.ack \in Buffers /\ q.stored \subseteq Buffers /\ q.ready \in Seq(Buffers)
      /\ q = [ack |-> q.ack, stored |-> q.stored, ready |-> q.ready]
  BY QueueFacts
<1>3. p = [ack |-> (ack1 + n) % C, stored |-> stored1 \ {drained[j] : j \in 1..n},
           ready |-> first \o drained]
  BY DEF OQPush
<1>4. ack1 \in Buffers /\ (direct => ack1 = Ahead(q.ack, 1))
  <2>1. Mod(q.ack + 1) = Ahead(q.ack, 1) /\ Ahead(q.ack, 1) \in Buffers
    BY <1>1, <1>2, AfterMod
  <2> QED BY <2>1, <1>2 DEF Mod
<1>5. /\ n \in 0..C
      /\ \A j \in 0..(n - 1) : Ahead(ack1, j) \in stored1
      /\ n = C \/ Ahead(ack1, n) \notin stored1
  <2> HIDE DEF stored1, ack1
  <2> QED BY <1>4, RunEnds
<1>6. n \in Nat BY <1>1, <1>5
<1>7. (ack1 + n) % C = Ahead(ack1, n) /\ \A j \in 1..n : drained[j] = Ahead(ack1, j - 1)
  <2>1. (ack1 + n) % C = Ahead(ack1, n)
    <3> HIDE DEF n, ack1
    <3> QED BY <1>4, <1>5, AfterMod DEF Mod
  <2>2. ASSUME NEW j \in 1..n PROVE drained[j] = Ahead(ack1, j - 1)
    <3>1. drained[j] = Mod(ack1 + j - 1) BY DEF Mod
    <3> HIDE DEF n, ack1, drained
    <3>2. j - 1 \in 0..C /\ ack1 + j - 1 = ack1 + (j - 1)
      BY <1>1, <1>4, <1>5 DEF Buffers
    <3> QED BY <3>1, <3>2, <1>4, AfterMod
  <2> QED BY <2>1, <2>2
<1>10. drained \in Seq(Buffers) /\ Len(drained) = n
  <2>1. \A j \in 1..n : j - 1 \in 0..C
    <3> HIDE DEF n
    <3> QED BY <1>1, <1>5
  <2>2. \A j \in 1..n : Ahead(ack1, j - 1) \in Buffers
    <3> HIDE DEF n, ack1
    <3> QED BY <2>1, <1>4, AfterMod
  <2>3. \A j \in 1..n : (ack1 + j - 1) % C \in Buffers
    <3> SUFFICES ASSUME NEW j \in 1..n PROVE drained[j] \in Buffers OBVIOUS
    <3> HIDE DEF drained, n, ack1
    <3> QED BY <2>2, <1>7
  <2> HIDE DEF n, ack1
  <2> QED BY <2>3, <1>6
<1>8. CASE ~ direct
  <2>1. ack1 = q.ack /\ stored1 = q.stored \union {b} /\ first = q.ready \o <<>> BY <1>8
  <2>2. Ahead(ack1, 0) = ack1 BY <1>1, <1>4 DEF Ahead, Buffers
  <2>3. ack1 \notin stored1 BY <1>8, <2>1 DEF QueueOK
  <2>4. n = 0
    <3> HIDE DEF n, ack1, stored1
    <3> QED BY <1>1, <1>5, <2>2, <2>3
  <2> HIDE DEF p, n, drained, first, stored1, ack1
  <2>5. drained = <<>> /\ {drained[j] : j \in 1..n} = {} BY <2>4, <1>10
  <2>6. first \o drained = q.ready BY <2>1, <2>5, <1>2
  <2>7. p = [ack |-> q.ack, stored |-> q.stored \union {b}, ready |-> q.ready]
    BY <1>3, <1>7, <2>1, <2>2, <2>4, <2>5, <2>6
  <2>8. p.ack = q.ack /\ p.stored = q.stored \union {b} /\ p.ready = q.ready BY <2>7
  <2>9. QueueType(p) BY <2>7, <1>2 DEF QueueOK, QueueType
  <2>10. \A i \in 1..L : q.ready[i] # b BY DEF Ready
  <2>11. QueueOK(p) BY <2>8, <2>9, <2>10, <1>8 DEF QueueOK
  <2>12. p.stored \union Ready(p) = q.stored \union Ready(q) \union {b} BY <2>8 DEF Ready
  <2>13. HeadIndex(p) = HeadIndex(q) BY <2>8 DEF HeadIndex
  <2>14. L <= Len(p.ready) BY <2>8, <1>2
  <2> QED BY <2>8, <2>11, <2>12, <2>13, <2>14 DEF p
<1>9. CASE direct
  <2>1. stored1 = q.stored /\ b = q.ack /\ first = Append(q.ready, b) /\ ack1 = Ahead(q.ack, 1)
    BY <1>2, <1>4, <1>9
  <2> HIDE DEF n, ack1, stored1
  \* The run stops before it comes round to what is ready.
  <2>2. L + 1 + n <= C
    <3> SUFFICES ASSUME L + 1 + n > C PROVE FALSE
      BY <1>1, <1>2, <1>6
    <3> DEFINE j == C - 1 - L
    <3>1. L # C
      BY <2>1, ReadyApart
    <3>2. L \in 0..(C - 1) /\ j \in 0..(n - 1) BY <1>1, <1>2, <1>5, <3>1
    <3>3. Ahead(ack1, j) \in q.stored BY <3>2, <2>1, <1>5
    <3>4. CASE L = 0
      <4>1. Ahead(ack1, j) = q.ack BY <3>4, <3>2, <2>1, <1>2, ComesRound
      <4> QED BY <4>1, <3>3 DEF QueueOK
    <3>5. CASE L # 0
      <4>1. Ahead(ack1, j) = Place(q.ack, L, 1) BY <3>5, <3>2, <2>1, <1>2, ComesRound
      <4>2. 1 \in 1..L BY <3>5, <3>2
      <4> QED BY <4>1, <4>2, <3>3 DEF QueueOK
    <3> QED BY <3>4, <3>5
  <2> DEFINE M == L + 1 + n
             a == q.ack
  <2>3. /\ Ahead(a, n + 1) \in Buffers
        /\ Ahead(ack1, n) = Ahead(a, n + 1)
        /\ \A j \in 1..n : Ahead(ack1, j - 1) = Ahead(a, j)
        /\ \A i \in 1..L : Place(Ahead(a, n + 1), M, i) = Place(a, L, i)
        /\ \A j \in 0..n : Place(Ahead(a, n + 1), M, L + 1 + j) = Ahead(a, j)
    BY <2>1, <2>2, <1>2, <1>6, PlaceGrow
  <2>4. \A j \in 1..n : drained[j] = Ahead(a, j) /\ drained[j] \in q.stored
    <3> SUFFICES ASSUME NEW j \in 1..n PROVE drained[j] = Ahead(a, j) /\ drained[j] \in q.stored
      OBVIOUS
    <3>1. drained[j] = Ahead(ack1, j - 1) BY <1>7
    <3>2. j - 1 \in 0..(n - 1) BY <1>6
    <3> HIDE DEF drained
    <3> QED BY <3>1, <3>2, <2>1, <2>3, <1>5
  <2> HIDE DEF drained, first, p
  <2>6. first \in Seq(Buffers) /\ Len(first) = L + 1
        /\ (\A i \in 1..L : first[i] = q.ready[i]) /\ first[L + 1] = b
    BY <2>1, <1>2
  <2>7. p.ack = Ahead(a, n + 1) /\ p.stored = q.stored \ {drained[j] : j \in 1..n}
        /\ p.ready = first \o drained
        /\ p = [ack |-> p.ack, stored |-> p.stored, ready |-> p.ready]
    BY <1>3, <1>7, <2>1, <2>3
  <2>8. M \in Nat /\ M <= C /\ L < M /\ L \in Nat BY <1>1, <1>2, <1>6, <2>2
  <2>9. /\ p.ready \in Seq(Buffers) /\ Len(p.ready) = M
        /\ \A i \in 1..(L + 1) : p.ready[i] = first[i]
        /\ \A j \in 1..n : p.ready[L + 1 + j] = drained[j]
    <3>1. /\ p.ready \in Seq(Buffers) /\ Len(p.ready) = Len(first) + Len(drained)
          /\ \A i \in 1..Len(first) : p.ready[i] = first[i]
          /\ \A j \in 1..Len(drained) : p.ready[Len(first) + j] = drained[j]
      <4>1. first \in Seq(Buffers) /\ drained \in Seq(Buffers) BY <2>6, <1>10
      <4>2. p.ready = first \o drained BY <2>7
      <4> QED BY <4>1, <4>2, Concatenation
    <3>2. Len(first) = L + 1 /\ Len(drained) = n BY <2>6, <1>10
    <3> QED BY <3>1, <3>2, Zenon
  <2>12. ASSUME NEW i \in 1..M
         PROVE  \/ i \in 1..L
                \/ i = L + 1
                \/ \E j \in 1..n : i = L + 1 + j
    BY <2>8, <1>6, Between, ZenonT(40)
  <2>13. \A i \in 1..L : p.ready[i] = q.ready[i] BY <2>6, <2>8, <2>9
  <2>14. p.ready[L + 1] = b BY <2>6, <2>8, <2>9
  <2>15. ASSUME NEW i \in 1..M
         PROVE  p.ready[i] = Place(p.ack, M, i) /\ p.ready[i] \notin p.stored
    <3>1. CASE i \in 1..L
      BY <3>1, <2>3, <2>7, <2>13 DEF QueueOK
    <3>2. CASE i = L + 1
      <4>1. Place(p.ack, M, L + 1 + 0) = Ahead(a, 0) BY <2>3, <2>7, <1>6
      <4>2. Ahead(a, 0) = a /\ L + 1 + 0 = L + 1 BY <1>1, <1>2, <2>8 DEF Ahead, Buffers
      <4> QED BY <3>2, <4>1, <4>2, <2>1, <2>7, <2>14 DEF QueueOK
    <3>3. CASE \E j \in 1..n : i = L + 1 + j
      <4>1. PICK j \in 1..n : i = L + 1 + j BY <3>3
      <4>2. j \in 0..n BY <1>6
      <4> QED BY <4>1, <4>2, <2>3, <2>4, <2>7, <2>9
    <3> QED BY <3>1, <3>2, <3>3, <2>12
  <2>16. p.ack \notin p.stored
    <3>1. n # C BY <2>2, <1>2, <1>1, <1>6
    <3> QED BY <3>1, <1>5, <2>1, <2>3, <2>7
  <2>17. QueueOK(p)
    <3>1. p \in [ack : Buffers, stored : SUBSET Buffers, ready : Seq(Buffers)]
      BY <2>3, <2>7, <2>9, <1>2
    <3> QED BY <3>1, <2>8, <2>9, <2>15, <2>16 DEF QueueOK, QueueType
  <2>18. Ready(p) = Ready(q) \union {b} \union {drained[j] : j \in 1..n}
    <3>1. Ready(p) = {p.ready[i] : i \in 1..M} BY <2>9 DEF Ready
    <3>2. ASSUME NEW i \in 1..M
          PROVE  p.ready[i] \in Ready(q) \union {b} \union {drained[j] : j \in 1..n}
      <4>1. CASE i \in 1..L BY <4>1, <2>13 DEF Ready
      <4>2. CASE i = L + 1 BY <4>2, <2>14
      <4>3. CASE \E j \in 1..n : i = L + 1 + j BY <4>3, <2>9
      <4> QED BY <4>1, <4>2, <4>3, <2>12
    <3>3. \A i \in 1..L : i \in 1..M BY <2>8, <1>6, Between
    <3>4. L + 1 \in 1..M BY <2>8, <1>6, Between
    <3>5. \A j \in 1..n : L + 1 + j \in 1..M BY <2>8, <1>6, Between
    <3>6. \A i \in 1..L : q.ready[i] \in {p.ready[k] : k \in 1..M} BY <3>3, <2>13
    <3>7. b \in {p.ready[k] : k \in 1..M} BY <3>4, <2>14
    <3>8. \A j \in 1..n : drained[j] \in {p.ready[k] : k \in 1..M} BY <3>5, <2>9
    <3>9. Ready(q) = {q.ready[i] : i \in 1..L} BY DEF Ready
    <3>10. Ready(p) \subseteq Ready(q) \union {b} \union {drained[j] : j \in 1..n}
      <4> HIDE DEF M
      <4> QED BY <3>1, <3>2
    <3>11. Ready(q) \subseteq Ready(p) /\ b \in Ready(p)
      <4> HIDE DEF M, L
      <4> QED BY <3>1, <3>6, <3>7, <3>9
    <3>12. {drained[j] : j \in 1..n} \subseteq Ready(p)
      <4> HIDE DEF M
      <4> QED BY <3>1, <3>8
    <3> QED BY <3>10, <3>11, <3>12
  <2>19. p.stored \union Ready(p) = q.stored \union Ready(q) \union {b}
    <3>1. {drained[j] : j \in 1..n} \subseteq q.stored BY <2>4
    <3> QED BY <3>1, <2>7, <2>18
  <2>20. HeadIndex(p) = HeadIndex(q)
    <3>1. p.ready # <<>> BY <2>8, <2>9
    <3>2. CASE q.ready = <<>>
      <4>1. L + 1 = 1 BY <3>2, QueueFacts
      <4> QED BY <4>1, <3>1, <3>2, <2>1, <2>14 DEF HeadIndex
    <3>3. CASE q.ready # <<>>
      <4>1. 1 \in 1..L BY <3>3, QueueFacts
      <4> QED BY <4>1, <3>1, <3>3, <2>13 DEF HeadIndex
    <3> QED BY <3>2, <3>3
  <2>21. L <= Len(p.ready) BY <2>8, <2>9
  <2> QED BY <2>1, <2>13, <2>17, <2>19, <2>20, <2>21 DEF p
<1> QED BY <1>8, <1>9

\* pop: the head goes, and the next index is in front.
LEMMA PopQueue ==
  ASSUME ManagerAssumption, NEW q, QueueOK(q), q.ready # <<>>
  PROVE  /\ QueueOK(OQPop(q))
         /\ OQPop(q).stored = q.stored
         /\ Len(OQPop(q).ready) = Len(q.ready) - 1
         /\ \A i \in 1..(Len(q.ready) - 1) : OQPop(q).ready[i] = q.ready[i + 1]
         /\ Ready(OQPop(q)) = Ready(q) \ {q.ready[1]}
         /\ q.ready[1] \in Ready(q)
         /\ HeadIndex(OQPop(q)) = Ahead(HeadIndex(q), 1)
<1> DEFINE p == OQPop(q)
           L == Len(q.ready)
<1>1. NumBuffers \in Nat \ {0} BY DEF ManagerAssumption
<1>2. q.ready \in Seq(Buffers) /\ L \in 1..NumBuffers /\ L \in Nat /\ q.ack \in Buffers
      /\ q.stored \subseteq Buffers /\ q = [ack |-> q.ack, stored |-> q.stored, ready |-> q.ready]
  BY QueueFacts
<1>3. p = [ack |-> q.ack, stored |-> q.stored, ready |-> Tail(q.ready)]
  BY <1>2, SMTT(40) DEF OQPop
<1> HIDE DEF p
<1>4. p.stored = q.stored /\ p.ack = q.ack /\ p.ready = Tail(q.ready) BY <1>3
<1>5. p.ready \in Seq(Buffers) /\ Len(p.ready) = L - 1 BY <1>2, <1>4
<1>6. \A i \in 1..(L - 1) : p.ready[i] = q.ready[i + 1] BY <1>2, <1>4
<1>7. \A i \in 1..(L - 1) : i + 1 \in 1..L BY <1>2
<1>8. \A i \in 1..(L - 1) : Place(q.ack, L - 1, i) = Place(q.ack, L, i + 1) BY <1>2, PlaceTail
<1>9. ASSUME NEW i \in 1..(L - 1)
      PROVE  p.ready[i] = Place(p.ack, L - 1, i) /\ p.ready[i] \notin p.stored
  BY <1>4, <1>6, <1>7, <1>8 DEF QueueOK
<1>10. QueueOK(p)
  <2>1. p \in [ack : Buffers, stored : SUBSET Buffers, ready : Seq(Buffers)]
    BY <1>2, <1>3, <1>5
  <2>2. p.ack \notin p.stored BY <1>4 DEF QueueOK
  <2>3. L - 1 <= NumBuffers BY <1>1, <1>2
  <2> QED BY <2>1, <2>2, <2>3, <1>5, <1>9 DEF QueueOK, QueueType
<1>11. 1 \in 1..L BY <1>2
<1>12. Ready(p) = Ready(q) \ {q.ready[1]}
  <2>1. Ready(p) = {q.ready[i + 1] : i \in 1..(L - 1)} BY <1>5, <1>6 DEF Ready
  <2>2. \A i \in 1..(L - 1) : i + 1 # 1 BY <1>2
  <2>3. \A i \in 1..(L - 1) : q.ready[i + 1] # q.ready[1] BY <1>7, <1>11, <2>2, ReadyApart
  <2>4. ASSUME NEW i \in 1..L, q.ready[i] # q.ready[1]
        PROVE  q.ready[i] \in {q.ready[k + 1] : k \in 1..(L - 1)}
    <3>1. i # 1 BY <2>4
    <3>2. i - 1 \in 1..(L - 1) /\ (i - 1) + 1 = i BY <1>2, <3>1
    <3> QED BY <3>2
  <2> QED BY <2>1, <2>3, <2>4, <1>7 DEF Ready
<1>13. HeadIndex(p) = Ahead(HeadIndex(q), 1)
  <2>1. HeadIndex(q) = Place(q.ack, L, 1) BY <1>11 DEF HeadIndex, QueueOK
  <2>2. CASE L = 1
    <3>1. p.ready = <<>> BY <2>2, <1>5
    <3>2. q.ack = Ahead(Place(q.ack, L, 1), 1) BY <2>2, <1>2, PlaceTail
    <3> QED BY <3>1, <3>2, <2>1, <1>4 DEF HeadIndex
  <2>3. CASE L # 1
    <3>1. L > 1 /\ 1 \in 1..(L - 1) /\ 1 + 1 \in 1..L /\ 1 + 1 = 2
      <4> HIDE DEF L
      <4> QED BY <2>3, <1>2
    <3>2. p.ready # <<>> BY <3>1, <1>5
    <3>3. p.ready[1] = Place(q.ack, L, 2) BY <3>1, <1>6 DEF QueueOK
    <3>4. Place(q.ack, L, 2) = Ahead(Place(q.ack, L, 1), 1) BY <3>1, <1>2, PlaceTail
    <3> QED BY <3>2, <3>3, <3>4, <2>1 DEF HeadIndex
  <2> QED BY <2>2, <2>3
<1>14. q.ready[1] \in Ready(q) BY <1>11 DEF Ready
<1> QED BY <1>4, <1>5, <1>6, <1>10, <1>12, <1>13, <1>14 DEF p

-----------------------------------------------------------------------------
(* The inductive invariant.  It is a formula of a manager, chunks and the  *)
(* place where the producer stopped, so that it can be said of the manager *)
(* between its pop and the return of a buffer too.                         *)

ManagerType(m) ==
  /\ m \in [kind : {"generic", "circular"}, q : [ack : Buffers, stored : SUBSET Buffers, ready : Seq(Buffers)],
            front : Chunk \union {None}, addr : 0..(TotalSize - 1), popped : 0..BufferSize]
  /\ QueueOK(m.q)

\* What is in front: the rest of the head's memory.
FrontRight(m, w) ==
  /\ m.q.ready = <<>> => m.popped = 0
  /\ m.q.ready # <<>> =>
       m.front = [buf |-> m.q.ready[1],
                  addr |-> (IF m.kind = "generic" THEN m.q.ready[1] * BufferSize ELSE m.addr) + m.popped,
                  len |-> BufferSize - m.popped]
  /\ m.kind = "generic" => m.addr = 0 /\ w = 0
  /\ m.kind = "circular" => w = Wrapped(m.addr + m.popped)

\* A buffer with chunks is out, or is the head of which a part was taken.
ChunksOut(m, chunks) ==
  \A c \in chunks :
    /\ c.buf \notin m.q.stored
    /\ c.buf \in Ready(m.q) => c.buf = m.q.ready[1]

\* In the slab: a chunk lies in its buffer, below the rest if that is in front.
InSlab(m, chunks) ==
  /\ \A c \in chunks :
       /\ c.len >= 1 /\ c.buf * BufferSize <= c.addr
       /\ c.addr + c.len <= c.buf * BufferSize + BufferSize
       /\ c.buf \in Ready(m.q) => c.addr + c.len <= c.buf * BufferSize + m.popped
  /\ \A c, d \in chunks : c # d => c.addr + c.len <= d.addr \/ d.addr + d.len <= c.addr

\* In the circular memory: how far the start of a chunk is behind the producer,
Behind(c, w) ==
  IF Wrapped(c.addr) < w THEN w - Wrapped(c.addr) ELSE w - Wrapped(c.addr) + TotalSize

\* and how many buffers were taken since the one it is in.
Age(q, b) ==
  IF b < HeadIndex(q) THEN HeadIndex(q) - b
  ELSE IF b > HeadIndex(q) THEN HeadIndex(q) - b + NumBuffers
  ELSE IF q.ready = <<>> THEN NumBuffers ELSE 0

(* A chunk is behind the producer, and no further than the buffers taken   *)
(* since are long; of two chunks one is behind the other.                  *)
Circle(m, chunks, w) ==
  /\ \A c \in chunks :
       /\ c.len >= 1 /\ c.addr + c.len < TotalSize + BufferSize
       /\ c.len <= Behind(c, w) /\ Behind(c, w) <= Age(m.q, c.buf) * BufferSize + m.popped
  /\ \A c, d \in chunks : c # d =>
       Behind(d, w) <= Behind(c, w) - c.len \/ Behind(c, w) <= Behind(d, w) - d.len

Sound(m, chunks, w) ==
  /\ ManagerType(m) /\ chunks \subseteq Chunk /\ w \in 0..(TotalSize - 1)
  /\ FrontRight(m, w) /\ ChunksOut(m, chunks)
  /\ m.kind = "generic" => InSlab(m, chunks)
  /\ m.kind = "circular" => Circle(m, chunks, w)

\* The buffers that are out, but for those in B, have chunks.
OutHaveChunks(m, chunks, B) ==
  \A x \in Buffers \ B : x \notin m.q.stored /\ x \notin Ready(m.q) => \E c \in chunks : c.buf = x

ManagerInv == Sound(mgr, live, written) /\ OutHaveChunks(mgr, live, {})

-----------------------------------------------------------------------------
(* Distances in the circular memory.                                       *)

Back(x, w) == IF Wrapped(x) < w THEN w - Wrapped(x) ELSE w - Wrapped(x) + TotalSize

\* How far an address lies behind the producer's.
LEMMA BehindIsBack == ASSUME NEW c, NEW w PROVE Behind(c, w) = Back(c.addr, w)
BY DEF Behind, Back

\* The circular memory: one subtraction wraps an address.
LEMMA WrapMod ==
  ASSUME ManagerAssumption, NEW x \in Nat, x < 2 * TotalSize
  PROVE  x % TotalSize = Wrapped(x) /\ Wrapped(x) \in 0..(TotalSize - 1)
<1>1. TotalSize \in Nat \ {0} BY Sizes
<1>2. x % TotalSize = IF x < TotalSize THEN x ELSE x - TotalSize BY <1>1, ModStep
<1>3. Wrapped(x) = IF x < TotalSize THEN x ELSE x - TotalSize BY <1>1 DEF Wrapped
<1> QED BY <1>1, <1>2, <1>3

\* An address is at least one byte and at most the memory behind.
LEMMA BackRange ==
  ASSUME ManagerAssumption, NEW x \in Nat, x < 2 * TotalSize, NEW w \in 0..(TotalSize - 1)
  PROVE  Back(x, w) \in 1..TotalSize
<1>1. TotalSize \in Nat \ {0} BY Sizes
<1> QED BY <1>1 DEF Back, Wrapped

\* The producer goes on by n bytes.
LEMMA BackMoves ==
  ASSUME ManagerAssumption, NEW x \in Nat, x < 2 * TotalSize, NEW w \in 0..(TotalSize - 1),
         NEW n \in 1..TotalSize
  PROVE  /\ Wrapped(w + n) \in 0..(TotalSize - 1)
         /\ Back(x, w) + n <= TotalSize => Back(x, Wrapped(w + n)) = Back(x, w) + n
         /\ Wrapped(x) = w => Back(x, Wrapped(w + n)) = n
<1>1. TotalSize \in Nat \ {0} BY Sizes
<1> QED BY <1>1 DEF Back, Wrapped

\* The byte u after x, below the producer and from the producer on.
LEMMA BackOfByte ==
  ASSUME ManagerAssumption, NEW x \in Nat, NEW u \in Nat, x + u < 2 * TotalSize,
         NEW w \in 0..(TotalSize - 1)
  PROVE  /\ u < Back(x, w) => Back((x + u) % TotalSize, w) = Back(x, w) - u
         /\ Wrapped(x) = w /\ u < TotalSize => Back((x + u) % TotalSize, w) = TotalSize - u
<1>1. TotalSize \in Nat \ {0} BY Sizes
<1>2. x + u \in Nat /\ x < 2 * TotalSize BY <1>1
<1>3. (x + u) % TotalSize = Wrapped(x + u) BY <1>2, WrapMod
<1>4. u < Back(x, w) => Back(Wrapped(x + u), w) = Back(x, w) - u
  BY <1>1, <1>2 DEF Back, Wrapped
<1>5. Wrapped(x) = w /\ u < TotalSize => Back(Wrapped(x + u), w) = TotalSize - u
  BY <1>1, <1>2 DEF Back, Wrapped
<1> QED BY <1>3, <1>4, <1>5

-----------------------------------------------------------------------------
(* Ages.                                                                   *)

\* The front of the queue is ready unless the queue is empty.
LEMMA HeadFacts ==
  ASSUME ManagerAssumption, NEW q, QueueOK(q)
  PROVE  /\ HeadIndex(q) \in Buffers
         /\ q.ready # <<>> => HeadIndex(q) = q.ready[1] /\ q.ready[1] \in Ready(q)
         /\ Ready(q) \subseteq Buffers
         /\ q.ready = <<>> <=> Ready(q) = {}
<1>1. q.ready \in Seq(Buffers) /\ q.ack \in Buffers BY QueueFacts
<1>2. q.ready # <<>> => 1 \in 1..Len(q.ready) BY QueueFacts
<1>3. q.ready = <<>> => Len(q.ready) = 0 BY QueueFacts
<1>4. HeadIndex(q) \in Buffers /\ (q.ready # <<>> => HeadIndex(q) = q.ready[1])
  BY <1>1, <1>2 DEF HeadIndex
<1>5. q.ready # <<>> => q.ready[1] \in Ready(q) BY <1>2 DEF Ready
<1>6. Ready(q) \subseteq Buffers BY <1>1 DEF Ready
<1>7. q.ready = <<>> => Ready(q) = {} BY <1>3 DEF Ready
<1> QED BY <1>4, <1>5, <1>6, <1>7

\* A buffer is at most all buffers old.
LEMMA AgeType ==
  ASSUME ManagerAssumption, NEW q, QueueOK(q), NEW b \in Buffers
  PROVE  /\ Age(q, b) \in 0..NumBuffers
         /\ q.ready # <<>> => Age(q, b) \in 0..(NumBuffers - 1)
<1>1. HeadIndex(q) \in Buffers BY HeadFacts
<1>2. NumBuffers \in Nat \ {0} BY DEF ManagerAssumption
<1> QED BY <1>1, <1>2 DEF Age, Buffers

\* A pop makes every buffer that is out one older, and so the head.
LEMMA AgePop ==
  ASSUME ManagerAssumption, NEW q, QueueOK(q), q.ready # <<>>,
         NEW b \in Buffers, b \in Ready(q) => b = q.ready[1]
  PROVE  Age(OQPop(q), b) = Age(q, b) + 1
<1> DEFINE p == OQPop(q)
           h == HeadIndex(q)
<1>1. h \in Buffers /\ h = q.ready[1] BY HeadFacts
<1>2. NumBuffers \in Nat \ {0} BY DEF ManagerAssumption
<1>3. QueueOK(p) /\ HeadIndex(p) = Ahead(h, 1) /\ Ready(p) = Ready(q) \ {q.ready[1]} BY PopQueue
<1>4. b \notin Ready(p) BY <1>3
<1>5. HeadIndex(p) = b => p.ready = <<>> BY <1>3, <1>4, HeadFacts
<1>6. Age(p, b) = IF b < Ahead(h, 1) THEN Ahead(h, 1) - b
                  ELSE IF b > Ahead(h, 1) THEN Ahead(h, 1) - b + NumBuffers
                  ELSE NumBuffers
  <2>1. HeadIndex(p) \in Buffers BY <1>3, HeadFacts
  <2>2. b = Ahead(h, 1) \/ b < Ahead(h, 1) \/ b > Ahead(h, 1) BY <1>2, <1>3, <2>1 DEF Buffers
  <2> HIDE DEF p, h
  <2> QED BY <1>2, <1>3, <1>5, <2>1, <2>2 DEF Age, Buffers
<1>7. Age(q, b) = IF b < h THEN h - b ELSE IF b > h THEN h - b + NumBuffers ELSE 0
  BY DEF Age
<1> HIDE DEF p, h
<1>8. Age(p, b) = Age(q, b) + 1
  <2> DEFINE n == NumBuffers
             g == Ahead(h, 1)
  <2>1. h \in Nat /\ b \in Nat /\ n \in Nat /\ h < n /\ b < n BY <1>1, <1>2 DEF Buffers
  <2>2. g = IF h + 1 < n THEN h + 1 ELSE 0 BY <2>1 DEF Ahead
  <2> HIDE DEF g
  <2>3. (IF b < g THEN g - b ELSE IF b > g THEN g - b + n ELSE n)
          = (IF b < h THEN h - b ELSE IF b > h THEN h - b + n ELSE 0) + 1
    BY <2>1, <2>2
  <2> QED BY <2>3, <1>6, <1>7 DEF g
<1> QED BY <1>8 DEF p

-----------------------------------------------------------------------------
(* Bytes are taken from the front.                                         *)

\* The types of a manager.
LEMMA SoundFacts ==
  ASSUME ManagerAssumption, NEW m, NEW chunks, NEW w, Sound(m, chunks, w)
  PROVE  /\ m = [kind |-> m.kind, q |-> m.q, front |-> m.front, addr |-> m.addr, popped |-> m.popped]
         /\ m.kind \in {"generic", "circular"} /\ QueueOK(m.q) /\ m.front \in Chunk \union {None}
         /\ m.addr \in 0..(TotalSize - 1) /\ m.popped \in 0..BufferSize
         /\ w \in 0..(TotalSize - 1)
         /\ \A c \in chunks : c.buf \in Buffers /\ c.addr \in Nat /\ c.len \in Nat
<1>1. TotalSize \in Nat /\ BufferSize \in Nat BY Sizes
<1> QED BY <1>1 DEF Sound, ManagerType, Chunk

\* The start of the head's memory.
Base(m) == IF m.kind = "generic" THEN m.q.ready[1] * BufferSize ELSE m.addr

\* The front chunk is what is left of the front buffer.
LEMMA FrontFacts ==
  ASSUME ManagerAssumption, NEW m, NEW chunks, NEW w, Sound(m, chunks, w), m.q.ready # <<>>
  PROVE  /\ m.q.ready[1] \in Buffers /\ m.q.ready[1] \in Ready(m.q) /\ HeadIndex(m.q) = m.q.ready[1]
         /\ m.front = [buf |-> m.q.ready[1], addr |-> Base(m) + m.popped, len |-> BufferSize - m.popped]
         /\ m.front.buf = m.q.ready[1] /\ m.front.addr = Base(m) + m.popped
         /\ m.front.len = BufferSize - m.popped
         /\ Base(m) \in Nat /\ Base(m) + BufferSize < TotalSize + BufferSize
         /\ m.kind = "generic" => Base(m) = m.q.ready[1] * BufferSize /\ Base(m) + BufferSize <= TotalSize
         /\ m.kind = "circular" => Wrapped(Base(m) + m.popped) = w
<1>1. QueueOK(m.q) /\ m.kind \in {"generic", "circular"} /\ m.addr \in 0..(TotalSize - 1)
  BY SoundFacts
<1>2. m.q.ready[1] \in Buffers /\ m.q.ready[1] \in Ready(m.q) /\ HeadIndex(m.q) = m.q.ready[1]
  BY <1>1, HeadFacts
<1>3. m.front = [buf |-> m.q.ready[1], addr |-> Base(m) + m.popped, len |-> BufferSize - m.popped]
  BY DEF Sound, FrontRight, Base
<1>4. NumBuffers \in Nat /\ BufferSize \in Nat \ {0} /\ TotalSize \in Nat BY Sizes
<1>5. CASE m.kind = "generic"
  <2>1. Base(m) = m.q.ready[1] * BufferSize BY <1>5 DEF Base
  <2>2. m.q.ready[1] \in Nat /\ m.q.ready[1] < NumBuffers BY <1>2, <1>4 DEF Buffers
  <2>3. Base(m) \in Nat /\ Base(m) + BufferSize <= TotalSize BY <2>1, <2>2, Sizes, Times
  <2>4. Base(m) + BufferSize < TotalSize + BufferSize BY <2>3, <1>4
  <2> QED BY <1>2, <1>3, <1>5, <2>1, <2>3, <2>4
<1>6. CASE m.kind = "circular"
  <2>1. Base(m) = m.addr BY <1>6 DEF Base
  <2>2. Wrapped(Base(m) + m.popped) = w BY <2>1, <1>6 DEF Sound, FrontRight
  <2>3. Base(m) \in Nat /\ Base(m) + BufferSize < TotalSize + BufferSize BY <2>1, <1>1, <1>4
  <2> QED BY <1>2, <1>3, <1>6, <2>2, <2>3
<1> QED BY <1>1, <1>5, <1>6

\* n bytes of the front are used: the rest stays in front, or the next buffer follows.
Took(m, p, n) ==
  /\ p.kind = m.kind
  /\ \/ p.q = m.q /\ p.popped = m.popped + n
     \/ p.q = OQPop(m.q) /\ p.popped = 0

\* A chunk's buffer that is still ready after n bytes were taken is the head of before.
LEMMA TookHead ==
  ASSUME ManagerAssumption, NEW m, NEW chunks, NEW w, Sound(m, chunks, w), m.q.ready # <<>>,
         NEW p, NEW n \in Nat, Took(m, p, n),
         NEW b \in Buffers, b \in Ready(m.q) => b = m.q.ready[1], b \in Ready(p.q)
  PROVE  p.q = m.q /\ p.popped = m.popped + n /\ b = m.q.ready[1]
<1>1. QueueOK(m.q) BY SoundFacts
<1>2. CASE p.q = m.q /\ p.popped = m.popped + n BY <1>2
<1>3. CASE p.q = OQPop(m.q) /\ p.popped = 0 BY <1>1, <1>3, PopQueue
<1> QED BY <1>2, <1>3 DEF Took

\* The buffer of which a chunk was taken is out.
LEMMA ChunksOutTake ==
  ASSUME ManagerAssumption, NEW m, NEW chunks, NEW w, Sound(m, chunks, w), m.q.ready # <<>>,
         NEW p, NEW n \in Nat, Took(m, p, n), NEW new, new.buf = m.q.ready[1]
  PROVE  ChunksOut(p, chunks \union {new}) /\ new.buf \notin p.q.stored
<1>1. QueueOK(m.q) BY SoundFacts
<1>2. new.buf \in Ready(m.q) /\ new.buf \in Buffers BY FrontFacts
<1>3. new.buf \notin m.q.stored BY <1>1, <1>2 DEF QueueOK, Ready
<1>4. p.q.stored = m.q.stored BY <1>1, PopQueue DEF Took
<1>5. ASSUME NEW c \in chunks \union {new}
      PROVE  c.buf \notin p.q.stored /\ (c.buf \in Ready(p.q) => c.buf = p.q.ready[1])
  <2>1. c.buf \in Buffers /\ c.buf \notin m.q.stored /\ (c.buf \in Ready(m.q) => c.buf = m.q.ready[1])
    BY <1>2, <1>3, SoundFacts DEF Sound, ChunksOut
  <2>2. c.buf \in Ready(p.q) => p.q = m.q /\ c.buf = m.q.ready[1] BY <2>1, TookHead
  <2> QED BY <2>1, <2>2, <1>4
<1> QED BY <1>3, <1>4, <1>5 DEF ChunksOut

\* Buffers of the slab do not overlap.
LEMMA SlabApart ==
  ASSUME ManagerAssumption, NEW a \in Buffers, NEW b \in Buffers, a # b
  PROVE  /\ a * BufferSize \in Nat /\ b * BufferSize \in Nat
         /\ \/ a * BufferSize + BufferSize <= b * BufferSize
            \/ b * BufferSize + BufferSize <= a * BufferSize
<1>1. BufferSize \in Nat \ {0} /\ a \in Nat /\ b \in Nat BY Sizes DEF Buffers
<1>2. a < b \/ b < a BY <1>1
<1> QED BY <1>1, <1>2, Times

\* GenericBufferManager: a chunk that is taken shares nothing with those before.
LEMMA SlabTake ==
  ASSUME ManagerAssumption, NEW m, NEW chunks, NEW w, Sound(m, chunks, w), m.q.ready # <<>>,
         m.kind = "generic", NEW p, NEW n \in Nat, n >= 1, n <= m.front.len, Took(m, p, n),
         NEW new, new = [m.front EXCEPT !.len = n]
  PROVE  InSlab(p, chunks \union {new})
<1> DEFINE h == m.q.ready[1]
           s == h * BufferSize
<1>1. BufferSize \in Nat /\ m.popped \in 0..BufferSize BY SoundFacts, Sizes
<1>2. h \in Buffers /\ h \in Ready(m.q) /\ s \in Nat
      /\ m.front = [buf |-> h, addr |-> s + m.popped, len |-> BufferSize - m.popped]
  BY FrontFacts
<1>3. new.buf = h /\ new.addr = s + m.popped /\ new.len = n /\ n <= BufferSize - m.popped BY <1>2
<1>4. InSlab(m, chunks) /\ ChunksOut(m, chunks) BY DEF Sound
<1> HIDE DEF s, h
<1>5. ASSUME NEW c \in chunks
      PROVE  /\ c.len >= 1 /\ c.buf * BufferSize <= c.addr
             /\ c.addr + c.len <= c.buf * BufferSize + BufferSize
             /\ c.buf \in Ready(p.q) => c.addr + c.len <= c.buf * BufferSize + p.popped
             /\ c.addr + c.len <= new.addr \/ new.addr + new.len <= c.addr
  <2>1. c.buf \in Buffers /\ c.addr \in Nat /\ c.len \in Nat BY SoundFacts
  <2>2. /\ c.len >= 1 /\ c.buf * BufferSize <= c.addr
        /\ c.addr + c.len <= c.buf * BufferSize + BufferSize
        /\ c.buf \in Ready(m.q) => c.addr + c.len <= c.buf * BufferSize + m.popped
    BY <1>4 DEF InSlab
  <2>3. c.buf \in Ready(m.q) => c.buf = h BY <1>4 DEF ChunksOut, h
  <2>4. c.buf \in Ready(p.q) => c.buf = h /\ p.popped = m.popped + n BY <2>1, <2>3, TookHead DEF h
  <2>5. CASE c.buf = h
    <3>1. c.addr + c.len <= s + m.popped BY <2>2, <2>5, <1>2 DEF s
    <3>2. c.addr + c.len <= s + (m.popped + n) BY <3>1, <2>1, <1>1, <1>2
    <3> QED BY <3>1, <3>2, <2>2, <2>4, <2>5, <1>3 DEF s
  <2>6. CASE c.buf # h
    <3> DEFINE t == c.buf * BufferSize
    <3>1. t \in Nat /\ (t + BufferSize <= s \/ s + BufferSize <= t)
      BY <2>1, <2>6, <1>2, SlabApart DEF s
    <3>2. t <= c.addr /\ c.addr + c.len <= t + BufferSize BY <2>2
    <3> HIDE DEF t
    <3>3. c.addr + c.len <= new.addr \/ new.addr + new.len <= c.addr
      BY <3>1, <3>2, <2>1, <1>1, <1>2, <1>3, SMTT(40)
    <3> QED BY <3>3, <2>2, <2>4, <2>6
  <2> QED BY <2>5, <2>6
<1>6. /\ new.len >= 1 /\ new.buf * BufferSize <= new.addr
      /\ new.addr + new.len <= new.buf * BufferSize + BufferSize
  BY <1>1, <1>2, <1>3 DEF s
<1>7. new.buf \in Ready(p.q) => new.addr + new.len <= new.buf * BufferSize + p.popped
  <2>1. new.buf \in Ready(p.q) => p.popped = m.popped + n BY <1>2, <1>3, TookHead DEF h
  <2>2. new.addr + new.len <= s + (m.popped + n) BY <1>1, <1>2, <1>3
  <2> QED BY <2>1, <2>2, <1>3 DEF s
<1>8. \A c, d \in chunks : c # d => c.addr + c.len <= d.addr \/ d.addr + d.len <= c.addr
  BY <1>4 DEF InSlab
<1>9. ASSUME NEW c \in chunks \union {new}, NEW d \in chunks \union {new}, c # d
      PROVE  c.addr + c.len <= d.addr \/ d.addr + d.len <= c.addr
  BY <1>5, <1>8, <1>9
<1>10. ASSUME NEW c \in chunks \union {new}
       PROVE  /\ c.len >= 1 /\ c.buf * BufferSize <= c.addr
              /\ c.addr + c.len <= c.buf * BufferSize + BufferSize
              /\ c.buf \in Ready(p.q) => c.addr + c.len <= c.buf * BufferSize + p.popped
  BY <1>5, <1>6, <1>7
<1> QED BY <1>9, <1>10 DEF InSlab

\* CircularBufferManager: neither does one of the circular memory.
LEMMA CircleTake ==
  ASSUME ManagerAssumption, NEW m, NEW chunks, NEW w, Sound(m, chunks, w), m.q.ready # <<>>,
         m.kind = "circular", NEW p, NEW n \in Nat, n >= 1, n <= m.front.len, Took(m, p, n),
         NEW new, new = [m.front EXCEPT !.len = n]
  PROVE  Circle(p, chunks \union {new}, Wrapped(w + n)) /\ Wrapped(w + n) \in 0..(TotalSize - 1)
<1> DEFINE h == m.q.ready[1]
           v == Wrapped(w + n)
           S == BufferSize
           T == TotalSize
<1>1. S \in Nat \ {0} /\ T \in Nat /\ S <= T /\ m.popped \in 0..S /\ w \in 0..(T - 1) /\ QueueOK(m.q)
  BY SoundFacts, Sizes
<1>2. h \in Buffers /\ h \in Ready(m.q) /\ HeadIndex(m.q) = h /\ Base(m) \in Nat
      /\ Base(m) + S < T + S /\ Wrapped(Base(m) + m.popped) = w
      /\ m.front = [buf |-> h, addr |-> Base(m) + m.popped, len |-> S - m.popped]
  BY FrontFacts
<1>3. new.buf = h /\ new.addr = Base(m) + m.popped /\ new.len = n /\ n <= S - m.popped BY <1>2
<1>4. Circle(m, chunks, w) /\ ChunksOut(m, chunks) BY DEF Sound
<1>5. n \in 1..T BY <1>1, <1>3
<1>6. v \in 0..(T - 1) BY <1>1, <1>5, BackMoves
\* What the buffers taken since a chunk's are long, before and after.
<1>7. ASSUME NEW b \in Buffers, b \in Ready(m.q) => b = h
      PROVE  /\ Age(m.q, b) * S \in Nat /\ Age(m.q, b) * S + S <= T
             /\ Age(m.q, b) * S + m.popped + n <= Age(p.q, b) * S + p.popped
             /\ Age(p.q, b) * S + p.popped \in Nat
  <2>1. Age(m.q, b) \in Nat /\ Age(m.q, b) < NumBuffers BY <1>1, AgeType, Sizes
  <2>2. Age(m.q, b) * S \in Nat /\ Age(m.q, b) * S + S <= T BY <1>1, <2>1, Sizes, Times
  <2>3. CASE p.q = m.q /\ p.popped = m.popped + n
    <3>1. Age(p.q, b) * S + p.popped = Age(m.q, b) * S + (m.popped + n) BY <2>3
    <3> QED BY <3>1, <2>2, <1>1
  <2>4. CASE p.q = OQPop(m.q) /\ p.popped = 0
    <3>1. Age(p.q, b) = Age(m.q, b) + 1 BY <2>4, <1>1, <1>7, AgePop
    <3>2. Age(p.q, b) * S = Age(m.q, b) * S + S BY <3>1, <2>1, <1>1, Times
    <3> QED BY <3>2, <2>2, <2>4, <1>1, <1>3
  <2> QED BY <2>2, <2>3, <2>4 DEF Took
<1> HIDE DEF v
\* A chunk is n bytes further behind.
<1>8. ASSUME NEW c \in chunks
      PROVE  /\ c.len \in Nat /\ c.len >= 1 /\ c.addr + c.len < T + S
             /\ Behind(c, w) \in Nat /\ Behind(c, v) = Behind(c, w) + n /\ c.len <= Behind(c, w)
             /\ Behind(c, v) <= Age(p.q, c.buf) * S + p.popped
  <2>1. c.buf \in Buffers /\ c.addr \in Nat /\ c.len \in Nat BY SoundFacts
  <2>2. /\ c.len >= 1 /\ c.addr + c.len < T + S
        /\ c.len <= Behind(c, w) /\ Behind(c, w) <= Age(m.q, c.buf) * S + m.popped
    BY <1>4 DEF Circle
  <2>3. c.buf \in Ready(m.q) => c.buf = h BY <1>4 DEF ChunksOut
  <2> DEFINE A == Age(m.q, c.buf) * S
             B == Age(p.q, c.buf) * S + p.popped
  <2>4. A \in Nat /\ A + S <= T /\ A + m.popped + n <= B /\ B \in Nat BY <2>1, <2>3, <1>7
  <2>5. c.addr < 2 * T BY <2>1, <2>2, <1>1
  <2>6. Behind(c, w) = Back(c.addr, w) /\ Behind(c, v) = Back(c.addr, v) BY BehindIsBack
  <2>7. Back(c.addr, w) \in 1..T BY <2>1, <2>5, <1>1, BackRange
  <2> HIDE DEF A, B
  <2>8. Back(c.addr, w) <= A + m.popped BY <2>2, <2>6 DEF A
  <2>9. Back(c.addr, w) + n <= T BY <2>4, <2>7, <2>8, <1>1, <1>3
  <2>10. Back(c.addr, v) = Back(c.addr, w) + n BY <2>1, <2>5, <2>9, <1>1, <1>5, BackMoves DEF v
  <2>11. Back(c.addr, v) <= B BY <2>4, <2>7, <2>8, <2>10, <1>1
  <2> QED BY <2>1, <2>2, <2>6, <2>7, <2>10, <2>11 DEF B
<1>9. Behind(new, v) = n
  <2>1. new.addr \in Nat /\ new.addr < 2 * T BY <1>1, <1>2, <1>3
  <2>2. Wrapped(new.addr) = w BY <1>2, <1>3
  <2>3. Back(new.addr, v) = n BY <2>1, <2>2, <1>1, <1>5, BackMoves DEF v
  <2> QED BY <2>3, BehindIsBack
<1>10. Behind(new, v) <= Age(p.q, new.buf) * S + p.popped /\ new.addr + new.len < T + S
       /\ new.len >= 1 /\ new.len <= Behind(new, v)
  <2> DEFINE A == Age(m.q, h) * S
             B == Age(p.q, h) * S + p.popped
  <2>1. A \in Nat /\ A + m.popped + n <= B /\ B \in Nat BY <1>2, <1>7
  <2> HIDE DEF A, B
  <2>2. n <= B BY <2>1, <1>1
  <2>3. new.addr + new.len < T + S BY <1>1, <1>2, <1>3
  <2> QED BY <2>2, <2>3, <1>3, <1>9 DEF B
<1>11. \A c, d \in chunks : c # d =>
         Behind(d, w) <= Behind(c, w) - c.len \/ Behind(c, w) <= Behind(d, w) - d.len
  BY <1>4 DEF Circle
<1>12. ASSUME NEW c \in chunks \union {new}, NEW d \in chunks \union {new}, c # d
       PROVE  Behind(d, v) <= Behind(c, v) - c.len \/ Behind(c, v) <= Behind(d, v) - d.len
  <2>1. CASE c \in chunks /\ d \in chunks
    <3>1. Behind(d, w) <= Behind(c, w) - c.len \/ Behind(c, w) <= Behind(d, w) - d.len
      BY <2>1, <1>11, <1>12
    <3>2. Behind(c, v) = Behind(c, w) + n /\ Behind(d, v) = Behind(d, w) + n
          /\ Behind(c, w) \in Nat /\ Behind(d, w) \in Nat /\ c.len \in Nat /\ d.len \in Nat
      BY <2>1, <1>8
    <3> QED BY <3>1, <3>2
  <2>2. ASSUME NEW e \in chunks PROVE Behind(new, v) <= Behind(e, v) - e.len
    <3>1. Behind(e, v) = Behind(e, w) + n /\ Behind(e, w) \in Nat /\ e.len \in Nat
          /\ e.len <= Behind(e, w)
      BY <1>8
    <3> QED BY <3>1, <1>9
  <2> QED BY <2>1, <2>2, <1>12
<1>13. ASSUME NEW c \in chunks \union {new}
       PROVE  /\ c.len >= 1 /\ c.addr + c.len < T + S
              /\ c.len <= Behind(c, v) /\ Behind(c, v) <= Age(p.q, c.buf) * S + p.popped
  <2>1. CASE c \in chunks
    <3>1. c.len <= Behind(c, v) BY <2>1, <1>8
    <3> QED BY <2>1, <3>1, <1>8
  <2>2. CASE c = new BY <2>2, <1>10
  <2> QED BY <2>1, <2>2
<1> QED BY <1>6, <1>12, <1>13 DEF Circle, v

\* The invariant says nothing of chunks that are not there.
LEMMA FewerChunks ==
  ASSUME NEW m, NEW chunks, NEW w, Sound(m, chunks, w), NEW fewer \in SUBSET chunks
  PROVE  Sound(m, fewer, w)
<1>1. ChunksOut(m, fewer) BY DEF Sound, ChunksOut
<1>2. m.kind = "generic" => InSlab(m, fewer) BY DEF Sound, InSlab
<1>3. m.kind = "circular" => Circle(m, fewer, w) BY DEF Sound, Circle
<1> QED BY <1>1, <1>2, <1>3 DEF Sound

\* A generic manager's buffers are popped whole where the code says so.
Pops(m, n, k) == k = n \/ (m.kind = "generic" /\ k = BufferSize)

WrittenNext(m, w, n) == IF m.kind = "generic" THEN 0 ELSE (w + n) % TotalSize

\* What is left of a chunk of which n bytes are taken.
LEMMA RemainderOf ==
  ASSUME NEW b, NEW x, NEW l, NEW n
  PROVE  Remainder([buf |-> b, addr |-> x, len |-> l], n) = [buf |-> b, addr |-> x + n, len |-> l - n]
<1> DEFINE c == [buf |-> b, addr |-> x, len |-> l]
           d == [c EXCEPT !.addr = x + n, !.len = l - n]
<1>1. Remainder(c, n) = d BY DEF Remainder
<1>2. d = [i \in DOMAIN d |-> d[i]] /\ DOMAIN d = {"buf", "addr", "len"} OBVIOUS
<1>3. d.buf = b /\ d.addr = x + n /\ d.len = l - n OBVIOUS
<1> HIDE DEF d
<1>4. d = [buf |-> b, addr |-> x + n, len |-> l - n] BY <1>2, <1>3
<1> QED BY <1>1, <1>4

\* pop of the manager, with the chunk that was taken.
LEMMA Take ==
  ASSUME ManagerAssumption, NEW m, NEW chunks, NEW w, Sound(m, chunks, w), m.q.ready # <<>>,
         NEW n \in 1..BufferSize, n <= m.front.len, NEW k, Pops(m, n, k)
  PROVE  /\ Sound(MgrPop(m, k), chunks \union {[m.front EXCEPT !.len = n]}, WrittenNext(m, w, n))
         /\ m.front.buf \in Buffers /\ m.front.buf \notin MgrPop(m, k).q.stored
         /\ OutHaveChunks(m, chunks, {}) => OutHaveChunks(MgrPop(m, k), chunks, {m.front.buf})
<1> DEFINE p == MgrPop(m, k)
           new == [m.front EXCEPT !.len = n]
           more == chunks \union {new}
           h == m.q.ready[1]
           S == BufferSize
           T == TotalSize
           a == IF m.kind = "generic" THEN 0 ELSE Wrapped(m.addr + (m.popped + k))
           v == WrittenNext(m, w, n)
<1>1. S \in Nat \ {0} /\ T \in Nat /\ S <= T BY Sizes
<1>2. m = [kind |-> m.kind, q |-> m.q, front |-> m.front, addr |-> m.addr, popped |-> m.popped]
      /\ m.kind \in {"generic", "circular"} /\ QueueOK(m.q)
      /\ m.addr \in 0..(T - 1) /\ m.popped \in 0..S /\ w \in 0..(T - 1)
  BY SoundFacts
<1>3. h \in Buffers /\ h \in Ready(m.q)
      /\ m.front = [buf |-> h, addr |-> Base(m) + m.popped, len |-> S - m.popped]
      /\ Base(m) \in Nat /\ Base(m) + S < T + S
  BY FrontFacts
<1>4. new = [buf |-> h, addr |-> Base(m) + m.popped, len |-> n] /\ n <= S - m.popped
      /\ new.buf = h /\ m.front.buf = h
  BY <1>3
<1>5. k \in Nat /\ n \in Nat /\ n >= 1 /\ m.popped + k \in Nat BY <1>1, <1>2 DEF Pops
<1>6. m.kind = "circular" => v = Wrapped(m.addr + (m.popped + n)) /\ v = Wrapped(w + n)
  <2> SUFFICES ASSUME m.kind = "circular"
               PROVE  v = Wrapped(m.addr + (m.popped + n)) /\ v = Wrapped(w + n)
    OBVIOUS
  <2>1. w = Wrapped(m.addr + m.popped) BY DEF Sound, FrontRight
  <2>2. w + n \in Nat /\ w + n < 2 * T BY <1>1, <1>2, <1>4, <1>5, SMTT(40)
  <2>3. v = Wrapped(w + n) BY <2>2, WrapMod DEF WrittenNext
  <2>4. Wrapped(w + n) = Wrapped(m.addr + (m.popped + n))
    BY <2>1, <1>1, <1>2, <1>4, <1>5, SMTT(40) DEF Wrapped
  <2> QED BY <2>3, <2>4
<1> DEFINE Popped ==
             /\ Took(m, p, n) /\ ManagerType(p) /\ FrontRight(p, v)
             /\ \A x : x # h /\ x \notin p.q.stored /\ x \notin Ready(p.q)
                       => x \notin m.q.stored /\ x \notin Ready(m.q)
\* The rest stays in front.
<1>7. ASSUME (m.popped + k) * 2 < S PROVE Popped
  <2>1. k = n BY <1>1, <1>2, <1>5, <1>7 DEF Pops
  <2>2. p = [m EXCEPT !.popped = m.popped + k, !.front = Remainder(@, k)] BY <1>7 DEF MgrPop
  <2>3. p = [kind |-> m.kind, q |-> m.q, addr |-> m.addr, popped |-> m.popped + n,
             front |-> [buf |-> h, addr |-> Base(m) + m.popped + n, len |-> S - m.popped - n]]
    <3> DEFINE R == [buf |-> h, addr |-> Base(m) + m.popped + n, len |-> S - m.popped - n]
    <3>1. Remainder(m.front, n) = R BY <1>3, RemainderOf
    <3>2. p = [m EXCEPT !.popped = m.popped + n, !.front = Remainder(m.front, n)] BY <2>1, <2>2
    <3> HIDE DEF R, p
    <3>3. p = [m EXCEPT !.popped = m.popped + n, !.front = R] BY <3>1, <3>2
    <3>4. p = [kind |-> m.kind, q |-> m.q, addr |-> m.addr, popped |-> m.popped + n, front |-> R]
      BY <3>3, <1>2
    <3> QED BY <3>4 DEF R
  <2> HIDE DEF p, new
  <2>4. p.kind = m.kind /\ p.q = m.q /\ p.addr = m.addr /\ p.popped = m.popped + n
        /\ p.front = [buf |-> h, addr |-> Base(m) + m.popped + n, len |-> S - m.popped - n]
    BY <2>3
  <2>5. Took(m, p, n) BY <2>4 DEF Took
  <2>6. p.front \in Chunk
    <3>1. Base(m) + m.popped + n \in 0..(T + S) /\ S - m.popped - n \in 0..S
      BY <1>1, <1>2, <1>3, <1>4, <1>5, SMTT(40)
    <3> QED BY <3>1, <2>4, <1>3 DEF Chunk
  <2>7. ManagerType(p)
    <3>1. m.popped + n \in 0..S BY <1>1, <1>2, <1>4, <1>5
    <3>2. m.q \in [ack : Buffers, stored : SUBSET Buffers, ready : Seq(Buffers)]
      BY <1>2 DEF QueueOK, QueueType
    <3> QED BY <3>1, <3>2, <2>3, <2>4, <2>6, <1>2 DEF ManagerType
  <2>9. FrontRight(p, v)
    <3>1. p.q.ready # <<>> /\ Base(p) = Base(m) BY <2>4 DEF Base
    <3>2. Base(m) + m.popped + n = Base(p) + p.popped /\ S - m.popped - n = S - p.popped
      BY <3>1, <2>4, <1>1, <1>2, <1>3, <1>5, SMTT(40)
    <3>3. p.front = [buf |-> p.q.ready[1], addr |-> Base(p) + p.popped, len |-> S - p.popped]
      BY <3>2, <2>4
    <3>4. p.kind = "generic" => p.addr = 0 /\ v = 0
      BY <2>4 DEF Sound, FrontRight, WrittenNext
    <3>5. p.kind = "circular" => v = Wrapped(p.addr + p.popped) BY <2>4, <1>6, <1>2, <1>5
    <3> QED BY <3>1, <3>3, <3>4, <3>5 DEF FrontRight, Base
  <2>10. \A x : x \notin p.q.stored /\ x \notin Ready(p.q) => x \notin m.q.stored /\ x \notin Ready(m.q)
    BY <2>4
  <2> QED BY <2>5, <2>7, <2>9, <2>10 DEF p
\* The next buffer follows.
<1>8. ASSUME ~ ((m.popped + k) * 2 < S) PROVE Popped
  <2> DEFINE r == OQPop(m.q)
             f == IF r.ready = <<>> THEN None
                  ELSE IF m.kind = "generic" THEN Whole(Head(r.ready)) ELSE CircFront(Head(r.ready), a)
  <2>1. p = [kind |-> m.kind, q |-> r, addr |-> a, popped |-> 0, front |-> f]
    BY <1>8 DEF MgrPop, NextFront
  <2>2. QueueOK(r) /\ r.stored = m.q.stored /\ Ready(r) = Ready(m.q) \ {h} BY <1>2, PopQueue
  <2>3. a \in 0..(T - 1) /\ (m.kind = "circular" => a = v) /\ (m.kind = "generic" => a = 0)
    <3>1. CASE m.kind = "generic" BY <3>1, <1>1
    <3>2. CASE m.kind = "circular"
      <4>1. k = n BY <3>2 DEF Pops
      <4>2. a = v /\ v = Wrapped(w + n) BY <3>2, <4>1, <1>6
      <4>3. w + n \in Nat /\ w + n < 2 * T BY <1>1, <1>2, <1>4, <1>5, SMTT(40)
      <4> HIDE DEF a, v
      <4> QED BY <3>2, <4>2, <4>3, WrapMod
    <3> QED BY <3>1, <3>2, <1>2
  <2> HIDE DEF p, new, a, r, v
  <2>4. p.kind = m.kind /\ p.q = r /\ p.addr = a /\ p.popped = 0 /\ p.front = f BY <2>1
  <2>5. Took(m, p, n) BY <2>4 DEF Took, r
  <2>6. r.ready # <<>> => Head(r.ready) = r.ready[1] /\ r.ready[1] \in Buffers /\ r.ready[1] * S \in Nat
                          /\ r.ready[1] * S + S <= T
    <3> SUFFICES ASSUME r.ready # <<>>
                 PROVE  Head(r.ready) = r.ready[1] /\ r.ready[1] \in Buffers /\ r.ready[1] * S \in Nat
                        /\ r.ready[1] * S + S <= T
      OBVIOUS
    <3>1. r.ready[1] \in Buffers BY <2>2, HeadFacts
    <3>2. r.ready[1] \in Nat /\ r.ready[1] < NumBuffers BY <3>1, Sizes DEF Buffers
    <3> QED BY <3>1, <3>2, <1>1, Sizes, Times
  <2>7. r.ready # <<>> =>
          f = [buf |-> r.ready[1], addr |-> IF m.kind = "generic" THEN r.ready[1] * S ELSE a, len |-> S]
    BY <2>6 DEF Whole, CircFront
  <2>8. ASSUME r.ready = <<>> PROVE f = None BY <2>8
  <2> HIDE DEF f
  <2>9. f \in Chunk \union {None}
    <3>1. r.ready # <<>> => (IF m.kind = "generic" THEN r.ready[1] * S ELSE a) \in 0..(T + S) /\ S \in 0..S
      BY <2>3, <2>6, <1>1
    <3> QED BY <3>1, <2>6, <2>7, <2>8 DEF Chunk
  <2>10. ManagerType(p)
    <3>1. 0 \in 0..S BY <1>1
    <3>2. r \in [ack : Buffers, stored : SUBSET Buffers, ready : Seq(Buffers)]
      BY <2>2 DEF QueueOK, QueueType
    <3> QED BY <3>1, <3>2, <2>1, <2>2, <2>3, <2>4, <2>9, <1>2 DEF ManagerType
  <2>11. FrontRight(p, v)
    <3>1. r.ready # <<>> =>
            (IF m.kind = "generic" THEN r.ready[1] * S ELSE a)
              = (IF m.kind = "generic" THEN r.ready[1] * S ELSE a) + 0
      BY <2>3, <2>6, <1>1
    <3>2. S = S - 0 BY <1>1
    <3>3. r.ready # <<>> =>
            p.front = [buf |-> p.q.ready[1],
                       addr |-> (IF p.kind = "generic" THEN p.q.ready[1] * S ELSE p.addr) + p.popped,
                       len |-> S - p.popped]
      BY <3>1, <3>2, <2>4, <2>7
    <3>4. p.kind = "generic" => p.addr = 0 /\ v = 0 BY <2>3, <2>4 DEF WrittenNext, v
    <3>5. p.kind = "circular" => v = Wrapped(p.addr + p.popped)
      BY <2>3, <2>4, <1>1 DEF Wrapped
    <3> QED BY <3>3, <3>4, <3>5, <2>4 DEF FrontRight
  <2>12. \A x : x # h /\ x \notin p.q.stored /\ x \notin Ready(p.q)
               => x \notin m.q.stored /\ x \notin Ready(m.q)
    BY <2>2, <2>4
  <2> QED BY <2>5, <2>10, <2>11, <2>12 DEF p, v
<1>9. Popped BY <1>7, <1>8
<1>10. more \subseteq Chunk
  <2>1. Base(m) + m.popped \in 0..(T + S) /\ n \in 0..S BY <1>1, <1>2, <1>3, <1>4, <1>5
  <2>2. new \in Chunk BY <2>1, <1>3, <1>4 DEF Chunk
  <2> QED BY <2>2 DEF Sound
<1> HIDE DEF p
<1>11. ChunksOut(p, more) /\ h \notin p.q.stored
  <2>1. Took(m, p, n) BY <1>9
  <2>2. new.buf = m.q.ready[1] BY <1>4
  <2> HIDE DEF new
  <2> QED BY <2>1, <2>2, <1>4, <1>5, ChunksOutTake
<1>12. p.kind = m.kind BY <1>9 DEF Took
<1>13. p.kind = "generic" => InSlab(p, more) BY <1>5, <1>9, <1>12, SlabTake
<1>14. p.kind = "circular" => Circle(p, more, v) /\ v \in 0..(T - 1)
  <2>1. ASSUME p.kind = "circular"
        PROVE  Circle(p, more, Wrapped(w + n)) /\ Wrapped(w + n) \in 0..(T - 1)
    BY <2>1, <1>5, <1>9, <1>12, CircleTake
  <2> HIDE DEF v, more
  <2> QED BY <2>1, <1>6, <1>12
<1>15. v \in 0..(T - 1)
  <2>1. m.kind = "generic" => v \in 0..(T - 1) BY <1>1 DEF WrittenNext
  <2> HIDE DEF v
  <2> QED BY <2>1, <1>2, <1>12, <1>14
<1>16. Sound(p, more, v) BY <1>9, <1>10, <1>11, <1>13, <1>14, <1>15 DEF Sound
<1>17. OutHaveChunks(m, chunks, {}) => OutHaveChunks(p, chunks, {m.front.buf})
  BY <1>4, <1>9 DEF OutHaveChunks
<1> QED BY <1>3, <1>4, <1>11, <1>16, <1>17 DEF p

-----------------------------------------------------------------------------
(* A buffer comes back.                                                    *)

\* A buffer that comes back leaves the front where it is, or becomes it.
LEMMA PushedQueue ==
  ASSUME ManagerAssumption, NEW q, QueueOK(q),
         NEW b \in Buffers, b \notin q.stored, b \notin Ready(q)
  PROVE  /\ q.ready # <<>> => OQPush(q, b, NumBuffers).ready # <<>>
                              /\ OQPush(q, b, NumBuffers).ready[1] = q.ready[1]
         /\ q.ready = <<>> /\ OQPush(q, b, NumBuffers).ready # <<>>
              => OQPush(q, b, NumBuffers).ready[1] = b /\ HeadIndex(q) = b
         /\ \A x : x # b => (x \in OQPush(q, b, NumBuffers).stored => x \in q.stored)
                            /\ (x \in Ready(OQPush(q, b, NumBuffers)) => x \in q.stored \union Ready(q))
         /\ \A x : x \notin OQPush(q, b, NumBuffers).stored /\ x \notin Ready(OQPush(q, b, NumBuffers))
                     => x \notin q.stored /\ x \notin Ready(q) /\ x # b
<1> DEFINE p == OQPush(q, b, NumBuffers)
<1>1. /\ QueueOK(p) /\ Len(q.ready) <= Len(p.ready)
      /\ \A i \in 1..Len(q.ready) : p.ready[i] = q.ready[i]
      /\ p.stored \union Ready(p) = q.stored \union Ready(q) \union {b}
      /\ HeadIndex(p) = HeadIndex(q)
      /\ q.ready = <<>> /\ p.ready # <<>> => b = q.ack
  BY PushQueue
<1> HIDE DEF p
<1>2. /\ Len(q.ready) \in Nat /\ Len(p.ready) \in Nat
      /\ (q.ready # <<>> => Len(q.ready) >= 1) /\ (p.ready = <<>> => Len(p.ready) = 0)
      /\ DOMAIN q.ready = 1..Len(q.ready) /\ DOMAIN p.ready = 1..Len(p.ready)
  BY <1>1, QueueFacts
<1>3. q.ready # <<>> => p.ready # <<>> /\ p.ready[1] = q.ready[1] BY <1>1, <1>2
<1>4. q.ready = <<>> /\ p.ready # <<>> => p.ready[1] = b /\ HeadIndex(q) = b
  <2>1. q.ready = <<>> => HeadIndex(q) = q.ack BY DEF HeadIndex
  <2>2. p.ready # <<>> => HeadIndex(p) = p.ready[1] BY DEF HeadIndex
  <2> QED BY <2>1, <2>2, <1>1
<1>5. Ready(q) \subseteq Ready(p)
  <2>1. \A i \in 1..Len(q.ready) : i \in 1..Len(p.ready) BY <1>1, <1>2
  <2> QED BY <2>1, <1>1, <1>2 DEF Ready
<1>6. p.stored \intersect Ready(p) = {} BY <1>1 DEF QueueOK, Ready
<1> QED BY <1>1, <1>3, <1>4, <1>5, <1>6 DEF p

\* The last reference to b is gone, or it is not the last.
LEMMA Returned ==
  ASSUME ManagerAssumption, NEW m, NEW chunks, NEW w, Sound(m, chunks, w),
         NEW b \in Buffers, b \notin m.q.stored, OutHaveChunks(m, chunks, {b})
  PROVE  Sound(MgrRelease(m, b, chunks), chunks, w)
         /\ OutHaveChunks(MgrRelease(m, b, chunks), chunks, {})
<1> DEFINE q == m.q
           r == OQPush(m.q, b, NumBuffers)
           p == MgrPush(m, b)
           S == BufferSize
           T == TotalSize
<1>1. m = [kind |-> m.kind, q |-> m.q, front |-> m.front, addr |-> m.addr, popped |-> m.popped]
      /\ m.kind \in {"generic", "circular"} /\ QueueOK(m.q) /\ m.front \in Chunk \union {None}
      /\ m.addr \in 0..(T - 1) /\ m.popped \in 0..S /\ w \in 0..(T - 1)
      /\ \A c \in chunks : c.buf \in Buffers
  BY SoundFacts
<1>2. TakenOut(m, b) <=> b \notin Ready(q)
  <2>1. DOMAIN q.ready = 1..Len(q.ready) BY <1>1, QueueFacts
  <2> QED BY <2>1 DEF TakenOut, Ready
<1>3. ASSUME ~(TakenOut(m, b) /\ \A c \in chunks : c.buf # b)
      PROVE  Sound(MgrRelease(m, b, chunks), chunks, w)
             /\ OutHaveChunks(MgrRelease(m, b, chunks), chunks, {})
  <2>1. MgrRelease(m, b, chunks) = m BY <1>3 DEF MgrRelease
  <2>2. OutHaveChunks(m, chunks, {}) BY <1>2, <1>3 DEF OutHaveChunks
  <2> QED BY <2>1, <2>2
<1>4. ASSUME b \notin Ready(q), \A c \in chunks : c.buf # b
      PROVE  Sound(MgrRelease(m, b, chunks), chunks, w)
             /\ OutHaveChunks(MgrRelease(m, b, chunks), chunks, {})
  <2>1. MgrRelease(m, b, chunks) = p BY <1>2, <1>4 DEF MgrRelease
  <2>2. p.kind = m.kind /\ p.q = r /\ p.addr = m.addr /\ p.popped = m.popped
        /\ p = [kind |-> p.kind, q |-> p.q, front |-> p.front, addr |-> p.addr, popped |-> p.popped]
        /\ (q.ready # <<>> => p.front = m.front)
        /\ (q.ready = <<>> /\ m.kind = "generic" => p.front = Whole(b))
        /\ (q.ready = <<>> /\ m.kind = "circular" =>
              p.front = IF r.ready # <<>> THEN CircFront(Head(r.ready), m.addr) ELSE m.front)
    <3> DEFINE Put(f) == [kind |-> m.kind, q |-> r, front |-> f, addr |-> m.addr, popped |-> m.popped]
    <3>1. ASSUME NEW f PROVE [m EXCEPT !.front = f, !.q = r] = Put(f) /\ [m EXCEPT !.q = r, !.front = f] = Put(f)
      <4> HIDE DEF r
      <4> DEFINE u == [m EXCEPT !.front = f, !.q = r]
                 v == [m EXCEPT !.q = r, !.front = f]
      <4>1. DOMAIN m = {"kind", "q", "front", "addr", "popped"} BY <1>1
      <4>2. u = [i \in DOMAIN u |-> u[i]] /\ DOMAIN u = DOMAIN m OBVIOUS
      <4>3. v = [i \in DOMAIN v |-> v[i]] /\ DOMAIN v = DOMAIN m OBVIOUS
      <4>4. u.kind = m.kind /\ u.q = r /\ u.front = f /\ u.addr = m.addr /\ u.popped = m.popped BY <4>1
      <4>5. v.kind = m.kind /\ v.q = r /\ v.front = f /\ v.addr = m.addr /\ v.popped = m.popped BY <4>1
      <4> HIDE DEF u, v
      <4>6. u = Put(f) /\ v = Put(f) BY <4>1, <4>2, <4>3, <4>4, <4>5
      <4> QED BY <4>6 DEF u, v
    <3>2. CASE m.kind = "generic"
      <4>1. p = Put(IF q.ready = <<>> THEN Whole(b) ELSE m.front)
        BY <3>1, <3>2 DEF MgrPush, GenericPush, MgrEmpty
      <4> HIDE DEF r, p
      <4> QED BY <4>1, <3>2
    <3>3. CASE m.kind = "circular"
      <4>1. p = Put(IF q.ready = <<>> /\ r.ready # <<>> THEN CircFront(Head(r.ready), m.addr) ELSE m.front)
        BY <3>1, <3>3 DEF MgrPush, CircularPush, MgrEmpty
      <4> HIDE DEF r, p
      <4> QED BY <4>1, <3>3
    <3> QED BY <3>2, <3>3, <1>1
  <2>3. /\ QueueOK(r) /\ HeadIndex(r) = HeadIndex(q)
        /\ q.ready # <<>> => r.ready # <<>> /\ r.ready[1] = q.ready[1]
        /\ q.ready = <<>> /\ r.ready # <<>> => r.ready[1] = b /\ HeadIndex(q) = b
        /\ \A x : x # b => (x \in r.stored => x \in q.stored)
                           /\ (x \in Ready(r) => x \in q.stored \union Ready(q))
        /\ \A x : x \notin r.stored /\ x \notin Ready(r) => x \notin q.stored /\ x \notin Ready(q) /\ x # b
    BY <1>1, <1>4, PushQueue, PushedQueue
  <2> HIDE DEF r, p
  <2>4. S \in Nat \ {0} /\ T \in Nat /\ S <= T /\ b * S \in Nat /\ b * S + S <= T
    <3>1. b \in Nat /\ b < NumBuffers BY Sizes DEF Buffers
    <3> QED BY <3>1, Sizes, Times
  \* A buffer with chunks is ready now only if it was.
  <2>5. ASSUME NEW c \in chunks
        PROVE  /\ c.buf \notin r.stored
               /\ c.buf \in Ready(r) => c.buf \in Ready(q) /\ c.buf = q.ready[1] /\ c.buf = r.ready[1]
               /\ Age(r, c.buf) = Age(q, c.buf)
    <3>1. c.buf # b /\ c.buf \notin q.stored /\ (c.buf \in Ready(q) => c.buf = q.ready[1])
      BY <1>4 DEF Sound, ChunksOut
    <3>2. c.buf \in Ready(q) => q.ready # <<>> BY <1>1, HeadFacts
    <3>3. q.ready = <<>> /\ r.ready # <<>> => c.buf # HeadIndex(q) BY <3>1, <2>3
    <3>4. Age(r, c.buf) = Age(q, c.buf)
      <4>1. CASE c.buf = HeadIndex(q)
        <5>1. q.ready = <<>> <=> r.ready = <<>> BY <4>1, <3>3, <2>3
        <5> QED BY <4>1, <5>1, <2>3 DEF Age
      <4>2. CASE c.buf # HeadIndex(q)
        <5>1. HeadIndex(q) \in Nat /\ c.buf \in Nat BY <1>1, HeadFacts, Sizes DEF Buffers
        <5>2. c.buf < HeadIndex(q) \/ c.buf > HeadIndex(q) BY <4>2, <5>1
        <5> QED BY <5>2, <2>3 DEF Age
      <4> QED BY <4>1, <4>2
    <3> QED BY <3>1, <3>2, <3>4, <2>3
  <2>6. p.front \in Chunk \union {None}
    <3>1. Whole(b) \in Chunk BY <2>4 DEF Whole, Chunk
    <3>2. r.ready # <<>> => Head(r.ready) = r.ready[1] /\ r.ready[1] \in Buffers BY <2>3, HeadFacts
    <3>3. r.ready # <<>> => CircFront(Head(r.ready), m.addr) \in Chunk
      BY <3>2, <2>4, <1>1 DEF CircFront, Chunk
    <3> QED BY <3>1, <3>3, <2>2, <1>1
  <2>7. ManagerType(p)
    <3>1. r \in [ack : Buffers, stored : SUBSET Buffers, ready : Seq(Buffers)]
      BY <2>3 DEF QueueOK, QueueType
    <3> QED BY <3>1, <2>2, <2>3, <2>6, <1>1 DEF ManagerType
  <2>8. FrontRight(p, w)
    <3>1. FrontRight(m, w) BY DEF Sound
    <3>2. r.ready = <<>> => m.popped = 0 BY <3>1, <2>3 DEF FrontRight
    <3>3. CASE q.ready # <<>> BY <3>1, <3>3, <2>2, <2>3 DEF FrontRight
    <3>4. CASE q.ready = <<>> /\ r.ready # <<>>
      <4>1. m.popped = 0 /\ r.ready[1] = b /\ Head(r.ready) = b BY <3>1, <3>4, <2>3 DEF FrontRight
      <4>2. m.kind = "generic" => p.front = [buf |-> b, addr |-> b * S, len |-> S]
        BY <3>4, <2>2 DEF Whole
      <4>3. m.kind = "circular" => p.front = [buf |-> b, addr |-> m.addr, len |-> S]
        BY <3>4, <4>1, <2>2 DEF CircFront
      <4>4. b * S + 0 = b * S /\ m.addr + 0 = m.addr /\ S - 0 = S BY <2>4, <1>1
      <4>5. p.front = [buf |-> r.ready[1],
                       addr |-> (IF p.kind = "generic" THEN r.ready[1] * S ELSE p.addr) + p.popped,
                       len |-> S - p.popped]
        BY <4>1, <4>2, <4>3, <4>4, <2>2, <1>1
      <4> QED BY <3>1, <3>4, <4>5, <2>2 DEF FrontRight
    <3>5. CASE q.ready = <<>> /\ r.ready = <<>> BY <3>1, <3>2, <3>5, <2>2 DEF FrontRight
    <3> QED BY <3>3, <3>4, <3>5
  <2>9. ChunksOut(p, chunks) BY <2>2, <2>5 DEF ChunksOut
  <2>10. p.kind = "generic" => InSlab(p, chunks)
    <3>1. m.kind = "generic" => InSlab(m, chunks) BY DEF Sound
    <3> QED BY <3>1, <2>2, <2>5 DEF InSlab
  <2>11. p.kind = "circular" => Circle(p, chunks, w)
    <3>1. m.kind = "circular" => Circle(m, chunks, w) BY DEF Sound
    <3> QED BY <3>1, <2>2, <2>5 DEF Circle
  <2>12. Sound(p, chunks, w) BY <2>7, <2>8, <2>9, <2>10, <2>11 DEF Sound
  <2>13. OutHaveChunks(p, chunks, {}) BY <2>2, <2>3 DEF OutHaveChunks
  <2> QED BY <2>1, <2>12, <2>13
<1> QED BY <1>2, <1>3, <1>4

-----------------------------------------------------------------------------
(* The steps.                                                              *)

\* A manager that was just initialized has the invariant.
LEMMA InitSound == ASSUME ManagerAssumption, MgrInit PROVE ManagerInv
<1> DEFINE q == OQFull(NumBuffers)
           N == NumBuffers
           S == BufferSize
<1>1. N \in Nat \ {0} /\ S \in Nat \ {0} /\ TotalSize \in Nat /\ S <= TotalSize BY Sizes
<1>2. q.ack = 0 /\ q.stored = {} /\ q.ready = [i \in 1..N |-> i - 1] /\ DOMAIN q = {"ack", "stored", "ready"}
      /\ q = [ack |-> 0, stored |-> {}, ready |-> [i \in 1..N |-> i - 1]]
  BY DEF OQFull
<1> HIDE DEF q
<1>3. q.ready \in Seq(Buffers) /\ Len(q.ready) = N /\ q.ready # <<>> /\ \A i \in 1..N : q.ready[i] = i - 1
  <2>1. \A i \in 1..N : i - 1 \in Buffers BY <1>1 DEF Buffers
  <2>2. [i \in 1..N |-> i - 1] \in Seq(Buffers) /\ Len([i \in 1..N |-> i - 1]) = N BY <2>1, <1>1
  <2> QED BY <2>2, <1>1, <1>2
<1>4. q.ready[1] = 0 /\ 0 \in Buffers BY <1>1, <1>3 DEF Buffers
<1>5. QueueOK(q)
  <2>1. \A i \in 1..N : i - 1 = Place(0, N, i) BY <1>1 DEF Place
  <2>2. q \in [ack : Buffers, stored : SUBSET Buffers, ready : Seq(Buffers)] BY <1>2, <1>3, <1>4
  <2> QED BY <2>1, <2>2, <1>1, <1>2, <1>3 DEF QueueOK, QueueType
<1>6. PICK kind \in {"generic", "circular"} :
        mgr = [kind |-> kind, q |-> q, front |-> Whole(0), addr |-> 0, popped |-> 0]
  BY DEF MgrInit, GenericInit, CircularInit, q
<1>7. mgr.kind = kind /\ mgr.q = q /\ mgr.front = Whole(0) /\ mgr.addr = 0 /\ mgr.popped = 0 BY <1>6
<1>8. Whole(0) = [buf |-> 0, addr |-> 0, len |-> S] /\ Whole(0) \in Chunk
  <2>1. 0 * S = 0 BY <1>1
  <2> QED BY <2>1, <1>1, <1>4 DEF Whole, Chunk
<1>9. ManagerType(mgr)
  <2>1. q \in [ack : Buffers, stored : SUBSET Buffers, ready : Seq(Buffers)] BY <1>5 DEF QueueOK, QueueType
  <2>2. 0 \in 0..(TotalSize - 1) /\ 0 \in 0..S BY <1>1
  <2> QED BY <2>1, <2>2, <1>5, <1>6, <1>7, <1>8 DEF ManagerType
<1>10. live = {} /\ written = 0 /\ written \in 0..(TotalSize - 1) BY <1>1 DEF MgrInit
<1>11. FrontRight(mgr, written)
  <2>1. 0 * S + 0 = 0 /\ 0 + 0 = 0 /\ S - 0 = S BY <1>1
  <2>2. Wrapped(0) = 0 BY <1>1 DEF Wrapped
  <2> QED BY <2>1, <2>2, <1>3, <1>4, <1>7, <1>8, <1>10 DEF FrontRight
<1>12. Sound(mgr, live, written) BY <1>9, <1>10, <1>11 DEF Sound, ChunksOut, InSlab, Circle
<1>13. Ready(q) = Buffers
  <2>1. \A x \in Buffers : x + 1 \in 1..N /\ (x + 1) - 1 = x BY <1>1 DEF Buffers
  <2>2. \A x \in Buffers : q.ready[x + 1] = x BY <2>1, <1>3
  <2>3. Ready(q) \subseteq Buffers BY <1>5, HeadFacts
  <2>4. ASSUME NEW x \in Buffers PROVE x \in Ready(q)
    <3>1. x + 1 \in 1..Len(q.ready) BY <2>1, <1>3
    <3>2. q.ready[x + 1] = x BY <2>2
    <3>3. x = q.ready[x + 1] BY <3>2
    <3> QED BY <3>1, <3>3, Zenon DEF Ready
  <2> QED BY <2>3, <2>4
<1> QED BY <1>7, <1>12, <1>13 DEF ManagerInv, OutHaveChunks

\* Every step of ports and chunks keeps it.
LEMMA NextSound == ASSUME ManagerAssumption, ManagerInv, MgrNext PROVE ManagerInv'
<1>1. Sound(mgr, live, written) /\ OutHaveChunks(mgr, live, {}) BY DEF ManagerInv
<1>2. ASSUME NEW n \in 1..BufferSize, Takes(n)
      PROVE  mgr.q.ready # <<>> /\ n <= mgr.front.len /\ written' = WrittenNext(mgr, written, n)
  BY <1>2 DEF Takes, MgrEmpty, WrittenNext
\* The chunk that is taken is of the buffer in front.
<1>3. ASSUME NEW n \in 1..BufferSize, Takes(n), NEW k, Pops(mgr, n, k),
             mgr' = MgrPop(mgr, k), live' = live \union {[mgr.front EXCEPT !.len = n]}
      PROVE  ManagerInv'
  <2> DEFINE new == [mgr.front EXCEPT !.len = n]
             p == MgrPop(mgr, k)
  <2>1. Sound(p, live \union {new}, WrittenNext(mgr, written, n))
        /\ OutHaveChunks(p, live, {mgr.front.buf})
    BY <1>1, <1>2, <1>3, Take
  <2>2. new.buf = mgr.front.buf
    <3>1. mgr.front \in Chunk BY <1>1, <1>2, <1>3, FrontFacts, SoundFacts DEF None, Chunk
    <3> QED BY <3>1 DEF Chunk
  <2>3. OutHaveChunks(p, live \union {new}, {}) BY <2>1, <2>2 DEF OutHaveChunks
  <2> HIDE DEF p, new
  <2>4. mgr' = p /\ live' = live \union {new} /\ written' = WrittenNext(mgr, written, n)
    BY <1>2, <1>3 DEF p, new
  <2>5. Sound(mgr', live', written') /\ OutHaveChunks(mgr', live', {}) BY <2>1, <2>3, <2>4
  <2> QED BY <2>5 DEF ManagerInv
<1>4. ASSUME NEW n \in 1..BufferSize, Produce(n) PROVE ManagerInv'
  BY <1>3, <1>4 DEF Produce, Pops
<1>5. ASSUME NEW n \in 1..BufferSize, ProduceReserve(n) PROVE ManagerInv'
  BY <1>3, <1>5 DEF ProduceReserve, Pops
<1>6. ASSUME NEW n \in 1..BufferSize, PopElements(n) PROVE ManagerInv'
  <2> DEFINE new == [mgr.front EXCEPT !.len = n]
             p == MgrPop(mgr, n)
             b == mgr.front.buf
  <2>1. Takes(n) /\ mgr' = MgrRelease(p, b, live) /\ live' = live BY <1>6 DEF PopElements
  <2>2. Sound(p, live \union {new}, WrittenNext(mgr, written, n))
        /\ b \in Buffers /\ b \notin p.q.stored /\ OutHaveChunks(p, live, {b})
    BY <2>1, <1>1, <1>2, Take DEF Pops
  <2>3. Sound(p, live, WrittenNext(mgr, written, n)) BY <2>2, FewerChunks
  <2> HIDE DEF p, b
  <2>4. Sound(MgrRelease(p, b, live), live, WrittenNext(mgr, written, n))
        /\ OutHaveChunks(MgrRelease(p, b, live), live, {})
    BY <2>2, <2>3, Returned
  <2>5. Sound(mgr', live', written') /\ OutHaveChunks(mgr', live', {}) BY <2>1, <2>4, <1>2
  <2> QED BY <2>5 DEF ManagerInv
<1>7. ASSUME NEW c \in live, Release(c) PROVE ManagerInv'
  <2> DEFINE rest == live \ {c}
  <2>1. live' = rest /\ mgr' = MgrRelease(mgr, c.buf, rest) /\ written' = written BY <1>7 DEF Release
  <2>2. Sound(mgr, rest, written) BY <1>1, FewerChunks
  <2>3. c.buf \in Buffers /\ c.buf \notin mgr.q.stored BY <1>1, SoundFacts DEF Sound, ChunksOut
  <2>4. OutHaveChunks(mgr, rest, {c.buf}) BY <1>1 DEF OutHaveChunks
  <2> HIDE DEF rest
  <2>5. Sound(MgrRelease(mgr, c.buf, rest), rest, written)
        /\ OutHaveChunks(MgrRelease(mgr, c.buf, rest), rest, {})
    BY <2>2, <2>3, <2>4, Returned
  <2>6. Sound(mgr', live', written') /\ OutHaveChunks(mgr', live', {}) BY <2>1, <2>5
  <2> QED BY <2>6 DEF ManagerInv
<1> QED BY <1>4, <1>5, <1>6, <1>7 DEF MgrNext

\* So does a step of something else.
LEMMA StutterSound == ASSUME ManagerInv, UNCHANGED mgrVars PROVE ManagerInv'
<1>1. mgr' = mgr /\ live' = live /\ written' = written BY DEF mgrVars
<1>2. Sound(mgr', live', written') /\ OutHaveChunks(mgr', live', {}) BY <1>1 DEF ManagerInv
<1> QED BY <1>2 DEF ManagerInv

-----------------------------------------------------------------------------
(* What the invariant implies.                                             *)

\* It implies the types,
LEMMA TypesFollow == ASSUME ManagerAssumption, ManagerInv PROVE MgrTypeOK
<1> DEFINE q == mgr.q
           r == mgr.q.ready
<1>1. /\ mgr.front \in Chunk \union {None} /\ mgr.addr \in 0..(TotalSize - 1)
      /\ mgr.popped \in 0..BufferSize /\ QueueOK(q) /\ live \subseteq Chunk
  BY SoundFacts DEF ManagerInv, Sound
<1>2. q.ack \in Buffers /\ q.stored \subseteq Buffers /\ r \in Seq(Buffers)
      /\ Len(r) \in 0..NumBuffers /\ DOMAIN r = 1..Len(r)
  BY <1>1, QueueFacts
<1>3. \A i \in 1..Len(r) : r[i] = Place(q.ack, Len(r), i) BY <1>1 DEF QueueOK
<1> HIDE DEF q, r
<1>4. \A i \in 1..Len(r) : Place(q.ack, Len(r), i) = Mod(q.ack + i - 1 - Len(r) + NumBuffers)
  BY <1>2, PlaceMod
<1>5. \A i \in DOMAIN r : r[i] = (q.ack + i - 1 - Len(r) + NumBuffers) % NumBuffers
  BY <1>2, <1>3, <1>4 DEF Mod
<1> QED BY <1>1, <1>2, <1>5 DEF MgrTypeOK, q, r

\* The cells of a chunk are its bytes, wrapped.
LEMMA CellOf ==
  ASSUME NEW c, NEW x \in Cells(c), c.addr \in Nat, c.len \in Nat
  PROVE  \E u \in Nat : u < c.len /\ x = (c.addr + u) % TotalSize
<1>1. PICK i \in c.addr..(c.addr + c.len - 1) : x = i % TotalSize BY DEF Cells
<1>2. i - c.addr \in Nat /\ i - c.addr < c.len /\ c.addr + (i - c.addr) = i BY <1>1
<1> QED BY <1>1, <1>2

\* The bytes of the circular memory, by how far they are behind the producer.
LEMMA CellBehind ==
  ASSUME ManagerAssumption, NEW w \in 0..(TotalSize - 1), NEW c, c.addr \in Nat, c.len \in Nat,
         c.len >= 1, c.addr + c.len < TotalSize + BufferSize, c.len <= Behind(c, w), NEW x \in Cells(c)
  PROVE  Back(x, w) > Behind(c, w) - c.len /\ Back(x, w) <= Behind(c, w) /\ Behind(c, w) \in 1..TotalSize
<1>1. PICK u \in Nat : u < c.len /\ x = (c.addr + u) % TotalSize BY CellOf
<1>2. TotalSize \in Nat /\ BufferSize \in Nat /\ BufferSize <= TotalSize BY Sizes
<1>3. c.addr < 2 * TotalSize /\ c.addr + u < 2 * TotalSize BY <1>1, <1>2
<1>4. Behind(c, w) = Back(c.addr, w) BY BehindIsBack
<1>5. Back(c.addr, w) \in 1..TotalSize BY <1>3, BackRange
<1>6. u < Back(c.addr, w) BY <1>1, <1>4, <1>5
<1>7. Back(x, w) = Back(c.addr, w) - u BY <1>1, <1>3, <1>6, BackOfByte
<1> QED BY <1>1, <1>4, <1>5, <1>7

\* The bytes of the slab are where they are.
LEMMA CellSlab ==
  ASSUME ManagerAssumption, NEW c, c.addr \in Nat, c.len \in Nat, c.addr + c.len <= TotalSize, NEW x \in Cells(c)
  PROVE  x \in Nat /\ c.addr <= x /\ x < c.addr + c.len
<1>1. PICK u \in Nat : u < c.len /\ x = (c.addr + u) % TotalSize BY CellOf
<1>2. TotalSize \in Nat \ {0} BY Sizes
<1> DEFINE y == c.addr + u
<1>3. y \in Nat /\ y < TotalSize /\ c.addr <= y /\ y < c.addr + c.len /\ y < 2 * TotalSize BY <1>1, <1>2
<1> HIDE DEF y
<1>4. y % TotalSize = y BY <1>2, <1>3, ModStep
<1> QED BY <1>1, <1>3, <1>4 DEF y

\* that no two live chunks share a byte,
LEMMA SharesNothing == ASSUME ManagerAssumption, ManagerInv PROVE NoSharedBytes
<1> DEFINE m == mgr
           S == BufferSize
           T == TotalSize
           w == written
<1>1. Sound(m, live, w) BY DEF ManagerInv
<1>2. S \in Nat \ {0} /\ T \in Nat /\ S <= T /\ m.popped \in 0..S /\ w \in 0..(T - 1)
      /\ m.kind \in {"generic", "circular"}
      /\ \A c \in live : c.buf \in Buffers /\ c.addr \in Nat /\ c.len \in Nat
  BY <1>1, SoundFacts, Sizes
<1> DEFINE f == m.front
<1>3. ASSUME m.q.ready # <<>>
      PROVE  /\ m.q.ready[1] \in Buffers /\ m.q.ready[1] \in Ready(m.q) /\ f.buf = m.q.ready[1]
             /\ f.addr = Base(m) + m.popped /\ f.len = S - m.popped /\ Base(m) \in Nat
             /\ f.addr \in Nat /\ f.len \in Nat /\ Base(m) + S < T + S
             /\ HeadIndex(m.q) = m.q.ready[1]
             /\ m.kind = "generic" => Base(m) = m.q.ready[1] * S /\ Base(m) + S <= T
             /\ m.kind = "circular" => Wrapped(Base(m) + m.popped) = w
  <2>1. /\ m.q.ready[1] \in Buffers /\ m.q.ready[1] \in Ready(m.q) /\ f.buf = m.q.ready[1]
        /\ f.addr = Base(m) + m.popped /\ f.len = S - m.popped /\ Base(m) \in Nat
        /\ Base(m) + S < T + S /\ HeadIndex(m.q) = m.q.ready[1]
        /\ m.kind = "generic" => Base(m) = m.q.ready[1] * S /\ Base(m) + S <= T
        /\ m.kind = "circular" => Wrapped(Base(m) + m.popped) = w
    BY <1>1, <1>3, FrontFacts
  <2>2. f.addr \in Nat /\ f.len \in Nat BY <2>1, <1>2
  <2> QED BY <2>1, <2>2
<1>4. CASE m.kind = "generic"
  <2>1. InSlab(m, live) BY <1>1, <1>4 DEF Sound
  <2>2. ASSUME NEW c \in live PROVE c.addr + c.len <= T
    <3>1. c.addr + c.len <= c.buf * S + S BY <2>1 DEF InSlab
    <3>2. c.buf \in Nat /\ c.buf < NumBuffers BY <1>2, Sizes DEF Buffers
    <3>3. c.buf * S \in Nat /\ c.buf * S + S <= T BY <3>2, Sizes, Times
    <3> QED BY <3>1, <3>3, <1>2
  <2>3. ASSUME NEW c \in live, NEW d \in live, c # d PROVE Cells(c) \intersect Cells(d) = {}
    <3>1. c.addr + c.len <= d.addr \/ d.addr + d.len <= c.addr BY <2>1, <2>3 DEF InSlab
    <3>2. ASSUME NEW x \in Cells(c), x \in Cells(d) PROVE FALSE
      <4>1. x \in Nat /\ c.addr <= x /\ x < c.addr + c.len BY <1>2, <2>2, <3>2, CellSlab
      <4>2. d.addr <= x /\ x < d.addr + d.len BY <1>2, <2>2, <3>2, CellSlab
      <4> QED BY <3>1, <4>1, <4>2, <1>2
    <3> QED BY <3>2
  <2>4. ASSUME m.q.ready # <<>>, NEW c \in live PROVE Cells(c) \intersect Cells(f) = {}
    <3> DEFINE s == m.q.ready[1] * S
               t == c.buf * S
    <3>1. f.addr = s + m.popped /\ s \in Nat /\ s + S <= T /\ f.len = S - m.popped
      BY <1>3, <1>4, <2>4
    <3>2. t <= c.addr /\ c.addr + c.len <= t + S
          /\ (c.buf \in Ready(m.q) => c.addr + c.len <= t + m.popped)
      BY <2>1 DEF InSlab
    <3>3. CASE c.buf = m.q.ready[1]
      <4>1. c.addr + c.len <= s + m.popped BY <3>2, <3>3, <1>3, <2>4
      <4> HIDE DEF s, t
      <4>2. c.addr + c.len <= f.addr BY <4>1, <3>1
      <4>3. f.addr + f.len <= T /\ f.addr \in Nat /\ f.len \in Nat BY <3>1, <1>2
      <4> QED BY <4>2, <4>3, <1>2, <2>2, CellSlab
    <3>4. CASE c.buf # m.q.ready[1]
      <4>1. t \in Nat /\ (t + S <= s \/ s + S <= t) BY <3>4, <1>2, <1>3, <2>4, SlabApart
      <4> HIDE DEF s, t
      <4>2. c.addr + c.len <= f.addr \/ f.addr + f.len <= c.addr BY <4>1, <3>1, <3>2, <1>2
      <4>3. f.addr + f.len <= T /\ f.addr \in Nat /\ f.len \in Nat BY <3>1, <1>2
      <4> QED BY <4>2, <4>3, <1>2, <2>2, CellSlab
    <3> QED BY <3>3, <3>4
  <2> QED BY <2>3, <2>4 DEF NoSharedBytes, MgrEmpty
<1>5. CASE m.kind = "circular"
  <2>1. Circle(m, live, w) BY <1>1, <1>5 DEF Sound
  <2>2. ASSUME NEW c \in live, NEW x \in Cells(c)
        PROVE  Back(x, w) > Behind(c, w) - c.len /\ Back(x, w) <= Behind(c, w) /\ Behind(c, w) \in 1..T
    <3>1. c.len >= 1 /\ c.addr + c.len < T + S /\ c.len <= Behind(c, w) BY <2>1 DEF Circle
    <3> QED BY <3>1, <1>2, CellBehind
  <2>3. ASSUME NEW c \in live, NEW d \in live, c # d PROVE Cells(c) \intersect Cells(d) = {}
    <3>1. Behind(d, w) <= Behind(c, w) - c.len \/ Behind(c, w) <= Behind(d, w) - d.len
      BY <2>1, <2>3 DEF Circle
    <3>2. ASSUME NEW x \in Cells(c), x \in Cells(d) PROVE FALSE
      <4>1. Back(x, w) > Behind(c, w) - c.len /\ Back(x, w) <= Behind(c, w) /\ Behind(c, w) \in 1..T
        BY <2>2
      <4>2. Back(x, w) > Behind(d, w) - d.len /\ Back(x, w) <= Behind(d, w) /\ Behind(d, w) \in 1..T
        BY <2>2, <3>2
      <4>3. Back(x, w) \in Int
        <5>1. PICK u \in Nat : u < c.len /\ x = (c.addr + u) % T BY <1>2, CellOf
        <5>2. x \in Int BY <5>1, <1>2, Sizes
        <5> QED BY <5>2, <1>2 DEF Back, Wrapped
      <4> QED BY <3>1, <4>1, <4>2, <4>3, <1>2
    <3> QED BY <3>2
  <2>4. ASSUME m.q.ready # <<>>, NEW c \in live PROVE Cells(c) \intersect Cells(f) = {}
    <3>1. ASSUME NEW x \in Cells(c), x \in Cells(f) PROVE FALSE
      <4>1. Back(x, w) <= Behind(c, w) /\ Behind(c, w) \in 1..T BY <2>2
      <4> DEFINE A == Age(m.q, c.buf) * S
      <4>2. Behind(c, w) <= A + m.popped BY <2>1 DEF Circle
      <4>3. A \in Nat /\ A + S <= T
        <5>1. Age(m.q, c.buf) \in Nat /\ Age(m.q, c.buf) < NumBuffers
          BY <1>1, <1>2, <2>4, SoundFacts, AgeType, Sizes
        <5> QED BY <5>1, Sizes, Times
      <4> HIDE DEF A
      <4>4. PICK u \in Nat : u < f.len /\ x = (f.addr + u) % T BY <1>3, <2>4, <3>1, CellOf
      <4>5. Wrapped(f.addr) = w /\ f.addr + u < 2 * T /\ u < T /\ f.addr \in Nat
        <5>1. f.addr = Base(m) + m.popped /\ f.len = S - m.popped /\ Base(m) \in Nat
              /\ Base(m) + S < T + S /\ Wrapped(Base(m) + m.popped) = w
          BY <1>3, <1>5, <2>4
        <5>2. f.addr + u < 2 * T /\ u < T /\ f.addr \in Nat BY <5>1, <4>4, <1>2
        <5> QED BY <5>1, <5>2
      <4>6. Back(x, w) = T - u BY <4>4, <4>5, <1>2, BackOfByte
      <4>7. u < S - m.popped BY <4>4, <1>3, <2>4
      <4> QED BY <4>1, <4>2, <4>3, <4>6, <4>7, <1>2
    <3> QED BY <3>1
  <2> QED BY <2>3, <2>4 DEF NoSharedBytes, MgrEmpty
<1> QED BY <1>2, <1>4, <1>5

\* that the circular producer goes on where it stopped,
LEMMA GoesOn == ASSUME ManagerAssumption, ManagerInv PROVE ProducesContiguously
<1> SUFFICES ASSUME mgr.kind = "circular", mgr.q.ready # <<>>
             PROVE  mgr.front.addr % TotalSize = written
  BY DEF ProducesContiguously, MgrEmpty
<1> DEFINE x == mgr.front.addr
<1>1. Sound(mgr, live, written) BY DEF ManagerInv
<1>2. x = Base(mgr) + mgr.popped /\ Wrapped(x) = written /\ Base(mgr) \in Nat
      /\ Base(mgr) + BufferSize < TotalSize + BufferSize
  BY <1>1, FrontFacts
<1>3. mgr.popped \in 0..BufferSize /\ TotalSize \in Nat /\ BufferSize \in Nat /\ BufferSize <= TotalSize
  BY <1>1, SoundFacts, Sizes
<1> HIDE DEF x
<1>4. x \in Nat /\ x < 2 * TotalSize BY <1>2, <1>3
<1>5. x % TotalSize = written BY <1>2, <1>4, WrapMod
<1> QED BY <1>5 DEF x

\* and that every buffer will be ready again.
LEMMA StrandsNothing == ASSUME ManagerAssumption, ManagerInv PROVE NoBufferStranded
<1> DEFINE q == mgr.q
<1>1. QueueOK(q) /\ OutHaveChunks(mgr, live, {}) BY SoundFacts DEF ManagerInv
<1>2. DOMAIN q.ready = 1..Len(q.ready) /\ q.ack \in Buffers BY <1>1, QueueFacts
<1>3. \A b : TakenOut(mgr, b) <=> b \notin Ready(q) BY <1>2 DEF TakenOut, Ready
<1>4. Len(q.ready) < NumBuffers => q.ack \notin Ready(q) /\ q.ack \notin q.stored
  BY <1>1, ReadyApart DEF QueueOK
<1> QED BY <1>1, <1>2, <1>3, <1>4 DEF NoBufferStranded, OutHaveChunks

(* The inductive invariant, for any number and size of buffers.            *)
THEOREM ManagerInvariant == ASSUME ManagerAssumption PROVE MgrSpec => []ManagerInv
<1>1. MgrInit => ManagerInv BY InitSound
<1>2. ManagerInv /\ [MgrNext]_mgrVars => ManagerInv' BY NextSound, StutterSound
<1> QED BY <1>1, <1>2, PTL DEF MgrSpec

(* Whatever order the chunks are dropped in, however much of the front is  *)
(* taken and wherever the circular memory wraps, no byte is handed out     *)
(* while a chunk that holds it is alive, the queue's indices stay in order *)
(* and the producer goes on where it stopped (GenericBufferManager and     *)
(* CircularBufferManager push, pop and front).                             *)
THEOREM HandsOutOnce == ASSUME ManagerAssumption PROVE MgrSpec => []BytesHandedOutOnce
<1>1. ManagerInv => BytesHandedOutOnce BY TypesFollow, SharesNothing, GoesOn DEF BytesHandedOutOnce
<1> QED BY <1>1, ManagerInvariant, PTL

(* A buffer that is neither ready nor stored is referenced by a chunk, and *)
(* so is the one OrderedQueue waits for: dropping chunks always frees it.  *)
THEOREM StrandsNoBuffer == ASSUME ManagerAssumption PROVE MgrSpec => []NoBufferStranded
<1>1. ManagerInv => NoBufferStranded BY StrandsNothing
<1> QED BY <1>1, ManagerInvariant, PTL

-----------------------------------------------------------------------------
(* Remainders.                                                             *)

\* Multiples of the ring length keep their distance.
LEMMA Mono ==
  ASSUME NEW L \in Nat \ {0}, NEW x \in Int, NEW y \in Int, x < y
  PROVE  x * L + L <= y * L
<1>1. PICK e \in Nat : y = x + 1 + e
  <2>1. y - x - 1 \in Nat /\ y = x + 1 + (y - x - 1) OBVIOUS
  <2> QED BY <2>1
<1>2. y * L = x * L + L + e * L BY <1>1
<1>3. e * L \in Nat /\ x * L \in Int OBVIOUS
<1> QED BY <1>2, <1>3

\* Quotient and rest of a division.
LEMMA Euclid ==
  ASSUME NEW L \in Nat \ {0}, NEW z \in Nat
  PROVE  z % L \in 0..(L - 1) /\ z \div L \in Nat /\ z = (z \div L) * L + (z % L)
OBVIOUS

\* The rest is the only one.
LEMMA Rest ==
  ASSUME NEW L \in Nat \ {0}, NEW z \in Nat, NEW a \in Int, NEW r \in 0..(L - 1), z = a * L + r
  PROVE  z % L = r
<1> DEFINE b == z \div L
           s == z % L
<1>1. s \in 0..(L - 1) /\ b \in Nat /\ z = b * L + s BY Euclid
<1> HIDE DEF b, s
<1>2. a * L + r = b * L + s /\ a * L \in Int /\ b * L \in Int BY <1>1
<1>4. ~(a < b)
  <2>1. a < b => a * L + L <= b * L BY <1>1, Mono
  <2> QED BY <2>1, <1>1, <1>2
<1>5. ~(b < a)
  <2>1. b < a => b * L + L <= a * L BY <1>1, Mono
  <2> QED BY <2>1, <1>1, <1>2
<1>3. r = s
  <2>1. a = b BY <1>1, <1>4, <1>5
  <2> QED BY <2>1, <1>1, <1>2
<1> QED BY <1>3 DEF s

\* Whole turns of the ring change no index.
LEMMA Shift ==
  ASSUME NEW L \in Nat \ {0}, NEW z \in Nat, NEW t \in Nat
  PROVE  (z + t * L) % L = z % L
<1> DEFINE r == z % L
           a == z \div L
           y == z + t * L
<1>1. r \in 0..(L - 1) /\ a \in Nat /\ z = a * L + r BY Euclid
<1> HIDE DEF r, a
<1>2. y = (a + t) * L + r BY <1>1
<1>3. y \in Nat /\ a + t \in Int BY <1>1
<1> HIDE DEF y
<1>4. y % L = r BY <1>1, <1>2, <1>3, Rest
<1> QED BY <1>4 DEF y, r

\* L indices in a row are in different cells of a ring of length L.
LEMMA Apart ==
  ASSUME NEW L \in Nat \ {0}, NEW z \in Nat, NEW j \in 0..(L - 1), NEW k \in 0..(L - 1),
         (z + j) % L = (z + k) % L
  PROVE  j = k
<1> DEFINE u == z + j
           v == z + k
           a == u \div L
           b == v \div L
           r == u % L
<1>1. u \in Nat /\ v \in Nat OBVIOUS
<1>2. u = a * L + r /\ v = b * L + r /\ a \in Nat /\ b \in Nat /\ r \in 0..(L - 1) BY <1>1, Euclid
<1>3. u = z + j /\ v = z + k OBVIOUS
<1> HIDE DEF u, v, a, b, r
<1>4. a * L \in Nat /\ b * L \in Nat BY <1>2
<1>5. ~(a < b)
  <2>1. a < b => a * L + L <= b * L BY <1>2, Mono
  <2> QED BY <2>1, <1>2, <1>3, <1>4
<1>6. ~(b < a)
  <2>1. b < a => b * L + L <= a * L BY <1>2, Mono
  <2> QED BY <2>1, <1>2, <1>3, <1>4
<1>7. a = b BY <1>2, <1>5, <1>6
<1> QED BY <1>2, <1>3, <1>7

-----------------------------------------------------------------------------
(* The index of a cell, without the wrap of size_t.                        *)

\* The length of a ring divides the number of size_t values.
LEMMA Lengths ==
  ASSUME RingAssumption, NEW L \in Pow2
  PROVE  L \in Nat \ {0} /\ L < Modulus /\ Modulus \in Nat \ {0} /\ \E t \in Nat : Modulus = t * L
<1>1. L \in 1..(Modulus - 1) /\ Modulus \in Nat BY DEF RingAssumption
<1>2. PICK t \in 1..Modulus : Modulus = t * L BY DEF RingAssumption
<1> QED BY <1>1, <1>2

\* So an index that wrapped has the same place in the ring.
LEMMA Wraps ==
  ASSUME RingAssumption, NEW L \in Pow2, NEW x \in Nat, x < 2 * Modulus, NEW k \in Nat
  PROVE  x % Modulus \in 0..(Modulus - 1) /\ ((x % Modulus) + k) % L = (x + k) % L
<1>1. L \in Nat \ {0} /\ Modulus \in Nat \ {0} BY Lengths
<1>2. PICK t \in Nat : Modulus = t * L BY Lengths
<1>3. CASE x < Modulus
  <2>1. x % Modulus = x BY <1>1, <1>3, ModStep
  <2> QED BY <2>1, <1>1, <1>3
<1>4. CASE ~(x < Modulus)
  <2> DEFINE y == x - Modulus
             z == y + k
  <2>1. x % Modulus = y BY <1>1, <1>4, ModStep
  <2>2. y \in 0..(Modulus - 1) /\ z \in Nat /\ x + k = z + Modulus BY <1>1, <1>4
  <2>3. z = y + k OBVIOUS
  <2> HIDE DEF y, z
  <2>4. (z + t * L) % L = z % L BY <1>1, <2>2, Shift
  <2> QED BY <2>1, <2>2, <2>3, <2>4, <1>2
<1> QED BY <1>3, <1>4

\* Masking an index finds its place.
LEMMA IndexIs ==
  ASSUME RingAssumption, NEW r, r.mask + 1 \in Pow2, r.frontIndex \in 0..(Modulus - 1),
         NEW k \in Nat, k <= r.mask + 1
  PROVE  Index(r, k) = (r.frontIndex + k) % (r.mask + 1)
<1> DEFINE f == r.frontIndex
           L == r.mask + 1
           x == f + k
<1>1. L \in Nat /\ L < Modulus /\ Modulus \in Nat BY Lengths
<1>2. x \in Nat /\ x < 2 * Modulus BY <1>1
<1> HIDE DEF x, L
<1>6. L \in Pow2 /\ 0 \in Nat BY DEF L
<1>7. ((x % Modulus) + 0) % L = (x + 0) % L /\ x % Modulus \in 0..(Modulus - 1) BY <1>2, <1>6, Wraps
<1>3. ((x % Modulus) + 0) % L = (x + 0) % L /\ x % Modulus \in Nat BY <1>1, <1>7
<1>4. (x % Modulus) + 0 = x % Modulus /\ x + 0 = x BY <1>2, <1>3
<1>5. (x % Modulus) % L = x % L BY <1>3, <1>4
<1> QED BY <1>5 DEF Index, Add, x, L

-----------------------------------------------------------------------------
(* Sequences that agree are equal.                                         *)

\* Sequences are equal that have the same elements.
LEMMA SameSequence ==
  ASSUME NEW V, NEW s \in Seq(V), NEW t \in Seq(V), Len(s) = Len(t), \A i \in 1..Len(s) : s[i] = t[i]
  PROVE  s = t
OBVIOUS

\* One element more, last,
LEMMA Appended ==
  ASSUME NEW V, NEW s \in Seq(V), NEW v \in V, NEW t \in Seq(V), Len(t) = Len(s) + 1,
         \A i \in 1..Len(s) : t[i] = s[i], t[Len(s) + 1] = v
  PROVE  t = Append(s, v)
<1>1. Append(s, v) \in Seq(V) /\ Len(Append(s, v)) = Len(s) + 1 OBVIOUS
<1>2. \A i \in 1..Len(t) : t[i] = Append(s, v)[i] OBVIOUS
<1> QED BY <1>1, <1>2, SameSequence

\* or first;
LEMMA Prepended ==
  ASSUME NEW V, NEW s \in Seq(V), NEW v \in V, NEW t \in Seq(V), Len(t) = Len(s) + 1,
         \A i \in 1..Len(s) : t[i + 1] = s[i], t[1] = v
  PROVE  t = <<v>> \o s
<1>1. <<v>> \o s \in Seq(V) /\ Len(<<v>> \o s) = Len(s) + 1 /\ (<<v>> \o s)[1] = v
      /\ \A i \in 1..Len(s) : (<<v>> \o s)[i + 1] = s[i]
  OBVIOUS
<1>2. ASSUME NEW i \in 1..Len(t) PROVE t[i] = (<<v>> \o s)[i]
  <2>1. CASE i = 1 BY <2>1, <1>1
  <2>2. CASE i # 1
    <3>1. i - 1 \in 1..Len(s) /\ (i - 1) + 1 = i BY <2>2
    <3> QED BY <3>1, <1>1
  <2> QED BY <2>1, <2>2
<1> QED BY <1>1, <1>2, SameSequence

\* the first one less,
LEMMA WithoutFirst ==
  ASSUME NEW V, NEW s \in Seq(V), NEW t \in Seq(V), Len(s) >= 1, Len(t) = Len(s) - 1,
         \A i \in 1..Len(t) : t[i] = s[i + 1]
  PROVE  t = Tail(s) /\ s # <<>>
<1>1. Tail(s) \in Seq(V) /\ Len(Tail(s)) = Len(s) - 1 /\ \A i \in 1..(Len(s) - 1) : Tail(s)[i] = s[i + 1]
  OBVIOUS
<1> QED BY <1>1, SameSequence

\* or the last.
LEMMA WithoutLast ==
  ASSUME NEW V, NEW s \in Seq(V), NEW t \in Seq(V), Len(s) >= 1, Len(t) = Len(s) - 1,
         \A i \in 1..Len(t) : t[i] = s[i]
  PROVE  t = SubSeq(s, 1, Len(s) - 1) /\ s # <<>>
<1> DEFINE u == SubSeq(s, 1, Len(s) - 1)
<1>1. u \in Seq(V) /\ Len(u) = Len(s) - 1 /\ \A i \in 1..(Len(s) - 1) : u[i] = s[i] OBVIOUS
<1> QED BY <1>1, SameSequence

-----------------------------------------------------------------------------
(* The invariant of a deque: its members have their types, and exactly the *)
(* cells of the window hold an element.                                    *)

\* Where the element at offset k is.
Cell(r, k) == (r.frontIndex + k) % (r.mask + 1)

Held(cells, r) == \A i \in DOMAIN cells : cells[i] # Raw <=> \E k \in 0..(r.numElements - 1) : i = Cell(r, k)

RingOK(r) ==
  /\ DOMAIN r = {"mask", "capacity", "frontIndex", "numElements", "cells"}
  /\ r.mask \in Nat /\ r.mask + 1 \in Pow2 /\ r.frontIndex \in 0..(Modulus - 1)
  /\ r.capacity \in 0..(r.mask + 1) /\ r.numElements \in 0..(r.capacity)
  /\ \/ r.cells = <<>> /\ r.capacity = 0
     \/ r.capacity >= 1 /\ r.cells \in [0..(r.mask) -> Values \union {Raw}]
  /\ Held(r.cells, r)

\* The sequence that a deque stands for.
View(r) == [k \in 1..(r.numElements) |-> At(r, k - 1)]

\* Different elements are in different cells.
LEMMA CellFacts ==
  ASSUME RingAssumption, NEW r, r.mask \in Nat, r.mask + 1 \in Pow2, r.frontIndex \in 0..(Modulus - 1)
  PROVE  /\ \A k \in Nat : Cell(r, k) \in 0..(r.mask)
         /\ \A j, k \in 0..(r.mask) : Cell(r, j) = Cell(r, k) => j = k
         /\ \A k \in Nat : k <= r.mask + 1 => Index(r, k) = Cell(r, k)
<1> DEFINE L == r.mask + 1
           f == r.frontIndex
<1>1. L \in Nat \ {0} /\ Modulus \in Nat /\ f \in Nat BY Lengths
<1>2. ASSUME NEW k \in Nat PROVE Cell(r, k) \in 0..(r.mask)
  <2> DEFINE x == f + k
  <2>1. x \in Nat BY <1>1
  <2> HIDE DEF x, L
  <2>2. x % L \in 0..(L - 1) BY <1>1, <2>1, Euclid
  <2>3. L - 1 = r.mask BY DEF L
  <2> QED BY <2>2, <2>3 DEF Cell, L, x
<1>3. ASSUME NEW j \in 0..(r.mask), NEW k \in 0..(r.mask), Cell(r, j) = Cell(r, k) PROVE j = k
  <2>1. (f + j) % L = (f + k) % L BY <1>3 DEF Cell
  <2>2. j \in 0..(L - 1) /\ k \in 0..(L - 1) OBVIOUS
  <2> HIDE DEF L, f
  <2> QED BY <1>1, <2>1, <2>2, Apart
<1>4. \A k \in Nat : k <= r.mask + 1 => Index(r, k) = Cell(r, k) BY IndexIs DEF Cell
<1> QED BY <1>2, <1>3, <1>4

\* The facts of a deque that is not moved from.
LEMMA RingFacts ==
  ASSUME RingAssumption, NEW r, RingOK(r), r.capacity # 0
  PROVE  /\ r.numElements \in Nat /\ r.numElements <= r.capacity /\ r.capacity \in Nat
         /\ r.capacity <= r.mask + 1 /\ r.mask \in Nat
         /\ r.cells \in [0..(r.mask) -> Values \union {Raw}]
BY Lengths DEF RingOK

\* The contents of a deque, front to back.
LEMMA ViewIs ==
  ASSUME RingAssumption, NEW r, RingOK(r)
  PROVE  /\ View(r) \in Seq(Values) /\ Len(View(r)) = r.numElements
         /\ \A k \in 1..(r.numElements) : View(r)[k] = r.cells[Cell(r, k - 1)]
<1> DEFINE n == r.numElements
<1>1. n \in Nat /\ n <= r.capacity /\ r.capacity \in Nat /\ r.capacity <= r.mask + 1 /\ r.mask \in Nat
  BY Lengths DEF RingOK
<1>2. ASSUME NEW k \in 1..n PROVE At(r, k - 1) = r.cells[Cell(r, k - 1)] /\ At(r, k - 1) \in Values
  <2>1. k - 1 \in Nat /\ k - 1 <= r.mask + 1 /\ k - 1 \in 0..(n - 1) /\ r.capacity # 0 BY <1>1
  <2>2. Index(r, k - 1) = Cell(r, k - 1) /\ Cell(r, k - 1) \in 0..(r.mask) BY <2>1, CellFacts DEF RingOK
  <2>3. r.cells \in [0..(r.mask) -> Values \union {Raw}] BY <2>1, RingFacts
  <2>4. r.cells[Cell(r, k - 1)] # Raw BY <2>1, <2>2, <2>3 DEF RingOK, Held
  <2> QED BY <2>2, <2>3, <2>4 DEF At
<1> HIDE DEF n
<1>3. View(r) \in [1..n -> Values] BY <1>2 DEF View, n
<1>4. View(r) \in Seq(Values) /\ Len(View(r)) = n BY <1>1, <1>3
<1> QED BY <1>2, <1>4 DEF View, n

-----------------------------------------------------------------------------
(* The operations.                                                         *)

\* emplace_back
LEMMA PushBackOK ==
  ASSUME RingAssumption, NEW r, RingOK(r), ~ Full(r), NEW v \in Values
  PROVE  /\ RingOK(EmplaceBack(r, v)) /\ View(EmplaceBack(r, v)) = Append(View(r), v)
         /\ EmplaceBack(r, v).capacity = r.capacity
<1> DEFINE p == EmplaceBack(r, v)
           n == r.numElements
           i == Cell(r, n)
<1>1. n \in Nat /\ n < r.capacity /\ r.capacity \in Nat /\ r.capacity <= r.mask + 1 /\ r.mask \in Nat
  BY Lengths DEF RingOK, Full
<1>2. r.cells \in [0..(r.mask) -> Values \union {Raw}] BY <1>1, RingFacts
<1>3. \A k \in Nat : Cell(r, k) \in 0..(r.mask) BY CellFacts DEF RingOK
<1>4. \A k \in 0..(n - 1) : Cell(r, k) # i
  <2>1. n \in 0..(r.mask) /\ \A k \in 0..(n - 1) : k \in 0..(r.mask) /\ k # n BY <1>1
  <2> QED BY <2>1, CellFacts DEF RingOK
<1>5. DOMAIN p = DOMAIN r /\ p.mask = r.mask /\ p.capacity = r.capacity /\ p.frontIndex = r.frontIndex
      /\ p.numElements = n + 1 /\ p.cells = [r.cells EXCEPT ![i] = v]
  <2> DEFINE q == [r EXCEPT !.numElements = @ + 1]
  <2>1. DOMAIN q = DOMAIN r /\ q.mask = r.mask /\ q.capacity = r.capacity /\ q.frontIndex = r.frontIndex
        /\ q.numElements = n + 1 /\ q.cells = r.cells
    BY DEF RingOK
  <2>2. p = [q EXCEPT !.cells[Index(q, n)] = v] BY DEF EmplaceBack, Construct
  <2>3. Index(q, n) = i
    <3>1. Index(r, n) = i BY <1>1, CellFacts DEF RingOK
    <3>2. Index(q, n) = Index(r, n) BY <2>1 DEF Index
    <3> QED BY <3>1, <3>2
  <2>4. DOMAIN q = {"mask", "capacity", "frontIndex", "numElements", "cells"} BY <2>1 DEF RingOK
  <2> HIDE DEF q, i, p
  <2>5. p = [q EXCEPT !.cells[i] = v] BY <2>2, <2>3
  <2> QED BY <2>1, <2>4, <2>5
<1>6. \A k \in Nat : Cell(p, k) = Cell(r, k) BY <1>5 DEF Cell
<1> HIDE DEF p, i
<1>7. i \in 0..(r.mask) /\ i = Cell(r, n) BY <1>1, <1>3 DEF i
<1>8. p.cells \in [0..(p.mask) -> Values \union {Raw}] BY <1>2, <1>5
<1>9. Held(p.cells, p)
  <2>0. p.numElements - 1 = n /\ \A k \in 0..n : k \in Nat BY <1>1, <1>5
  <2> SUFFICES ASSUME NEW x \in 0..(r.mask)
               PROVE  p.cells[x] # Raw <=> \E k \in 0..n : x = Cell(r, k)
    <3>1. DOMAIN p.cells = 0..(r.mask) BY <1>5, <1>8
    <3>2. \A k \in 0..n : Cell(p, k) = Cell(r, k) BY <2>0, <1>6
    <3> QED BY <3>1, <3>2, <2>0 DEF Held
  <2>1. CASE x = i
    <3>1. p.cells[x] = v /\ v # Raw BY <2>1, <1>2, <1>5 DEF RingAssumption
    <3> QED BY <2>1, <3>1, <1>1, <1>7
  <2>2. CASE x # i
    <3>1. p.cells[x] = r.cells[x] BY <2>2, <1>2, <1>5
    <3>2. r.cells[x] # Raw <=> \E k \in 0..(n - 1) : x = Cell(r, k) BY <1>2 DEF RingOK, Held
    <3>3. \A k \in 0..n : k \in 0..(n - 1) \/ k = n BY <1>1
    <3>4. \A k \in 0..(n - 1) : k \in 0..n BY <1>1
    <3> QED BY <2>2, <3>1, <3>2, <3>3, <3>4, <1>7
  <2> QED BY <2>1, <2>2
<1>10. RingOK(p)
  <2>1. p.numElements \in 0..(p.capacity) /\ p.capacity >= 1 BY <1>1, <1>5
  <2> QED BY <2>1, <1>5, <1>8, <1>9 DEF RingOK
<1>11. View(p) = Append(View(r), v)
  <2> DEFINE s == View(r)
             t == View(p)
  <2>1. s \in Seq(Values) /\ Len(s) = n /\ \A k \in 1..n : s[k] = r.cells[Cell(r, k - 1)] BY ViewIs
  <2>2. t \in Seq(Values) /\ Len(t) = n + 1 /\ \A k \in 1..(n + 1) : t[k] = p.cells[Cell(r, k - 1)]
    <3>1. t \in Seq(Values) /\ Len(t) = p.numElements
          /\ \A k \in 1..(p.numElements) : t[k] = p.cells[Cell(p, k - 1)]
      BY <1>10, ViewIs
    <3>2. \A k \in 1..(n + 1) : k - 1 \in Nat BY <1>1
    <3>3. \A k \in 1..(n + 1) : Cell(p, k - 1) = Cell(r, k - 1) BY <3>2, <1>6
    <3> QED BY <3>1, <3>3, <1>5
  <2> HIDE DEF s, t
  <2>3. ASSUME NEW k \in 1..n PROVE t[k] = s[k]
    <3>1. k \in 1..(n + 1) /\ k - 1 \in 0..(n - 1) /\ k - 1 \in Nat BY <1>1
    <3>2. p.cells[Cell(r, k - 1)] = r.cells[Cell(r, k - 1)] BY <3>1, <1>2, <1>3, <1>4, <1>5
    <3> QED BY <3>1, <3>2, <2>1, <2>2
  <2>4. t[n + 1] = v
    <3>1. n + 1 \in 1..(n + 1) /\ (n + 1) - 1 = n BY <1>1
    <3> QED BY <3>1, <2>2, <1>2, <1>5, <1>7
  <2>5. t = Append(s, v) BY <2>1, <2>2, <2>3, <2>4, Appended
  <2> QED BY <2>5 DEF s, t
<1> QED BY <1>5, <1>10, <1>11 DEF p

\* pop_back
LEMMA PopBackOK ==
  ASSUME RingAssumption, NEW r, RingOK(r), ~ Empty(r)
  PROVE  /\ RingOK(PoppedBack(r)) /\ View(r) # <<>>
         /\ View(PoppedBack(r)) = SubSeq(View(r), 1, Len(View(r)) - 1)
         /\ PoppedBack(r).capacity = r.capacity
<1> DEFINE p == PoppedBack(r)
           n == r.numElements
           i == Cell(r, n - 1)
<1>1. n \in Nat /\ n >= 1 /\ n <= r.capacity /\ r.capacity \in Nat /\ r.capacity <= r.mask + 1 /\ r.mask \in Nat
  BY Lengths DEF RingOK, Empty
<1>2. r.cells \in [0..(r.mask) -> Values \union {Raw}] BY <1>1, RingFacts
<1>3. \A k \in Nat : Cell(r, k) \in 0..(r.mask) BY CellFacts DEF RingOK
<1>4. \A k \in 0..(n - 2) : Cell(r, k) # i
  <2>1. n - 1 \in 0..(r.mask) /\ \A k \in 0..(n - 2) : k \in 0..(r.mask) /\ k # n - 1 BY <1>1
  <2> QED BY <2>1, CellFacts DEF RingOK
<1>5. DOMAIN p = DOMAIN r /\ p.mask = r.mask /\ p.capacity = r.capacity /\ p.frontIndex = r.frontIndex
      /\ p.numElements = n - 1 /\ p.cells = [r.cells EXCEPT ![i] = Raw]
  <2> DEFINE q == [r EXCEPT !.cells[i] = Raw]
  <2>1. Index(r, n - 1) = i BY <1>1, CellFacts DEF RingOK
  <2>2. p = [q EXCEPT !.numElements = @ - 1] BY <2>1 DEF PoppedBack, Destroy, Construct
  <2>3. DOMAIN q = DOMAIN r /\ q.mask = r.mask /\ q.capacity = r.capacity /\ q.frontIndex = r.frontIndex
        /\ q.numElements = n /\ q.cells = [r.cells EXCEPT ![i] = Raw]
    BY DEF RingOK
  <2>4. DOMAIN q = {"mask", "capacity", "frontIndex", "numElements", "cells"} BY <2>3 DEF RingOK
  <2> HIDE DEF q, i, p
  <2> QED BY <2>2, <2>3, <2>4
<1>6. \A k \in Nat : Cell(p, k) = Cell(r, k) BY <1>5 DEF Cell
<1> HIDE DEF p, i
<1>7. i \in 0..(r.mask) /\ i = Cell(r, n - 1) BY <1>1, <1>3 DEF i
<1>8. p.cells \in [0..(p.mask) -> Values \union {Raw}] BY <1>2, <1>5
<1>9. Held(p.cells, p)
  <2>0. p.numElements - 1 = n - 2 /\ \A k \in 0..(n - 2) : k \in Nat BY <1>1, <1>5
  <2> SUFFICES ASSUME NEW x \in 0..(r.mask)
               PROVE  p.cells[x] # Raw <=> \E k \in 0..(n - 2) : x = Cell(r, k)
    <3>1. DOMAIN p.cells = 0..(r.mask) BY <1>5, <1>8
    <3>2. \A k \in 0..(n - 2) : Cell(p, k) = Cell(r, k) BY <2>0, <1>6
    <3> QED BY <3>1, <3>2, <2>0 DEF Held
  <2>1. CASE x = i
    <3>1. p.cells[x] = Raw BY <2>1, <1>2, <1>5
    <3> QED BY <2>1, <3>1, <1>4
  <2>2. CASE x # i
    <3>1. p.cells[x] = r.cells[x] BY <2>2, <1>2, <1>5
    <3>2. r.cells[x] # Raw <=> \E k \in 0..(n - 1) : x = Cell(r, k) BY <1>2 DEF RingOK, Held
    <3>3. \A k \in 0..(n - 1) : k \in 0..(n - 2) \/ k = n - 1 BY <1>1
    <3>4. \A k \in 0..(n - 2) : k \in 0..(n - 1) BY <1>1
    <3> QED BY <2>2, <3>1, <3>2, <3>3, <3>4, <1>7
  <2> QED BY <2>1, <2>2
<1>10. RingOK(p)
  <2>1. p.numElements \in 0..(p.capacity) /\ p.capacity >= 1 BY <1>1, <1>5
  <2> QED BY <2>1, <1>5, <1>8, <1>9 DEF RingOK
<1>11. View(p) = SubSeq(View(r), 1, Len(View(r)) - 1) /\ View(r) # <<>>
  <2> DEFINE s == View(r)
             t == View(p)
  <2>1. s \in Seq(Values) /\ Len(s) = n /\ \A k \in 1..n : s[k] = r.cells[Cell(r, k - 1)] BY ViewIs
  <2>2. t \in Seq(Values) /\ Len(t) = n - 1 /\ \A k \in 1..(n - 1) : t[k] = p.cells[Cell(r, k - 1)]
    <3>1. t \in Seq(Values) /\ Len(t) = p.numElements
          /\ \A k \in 1..(p.numElements) : t[k] = p.cells[Cell(p, k - 1)]
      BY <1>10, ViewIs
    <3>2. \A k \in 1..(n - 1) : k - 1 \in Nat BY <1>1
    <3>3. \A k \in 1..(n - 1) : Cell(p, k - 1) = Cell(r, k - 1) BY <3>2, <1>6
    <3> QED BY <3>1, <3>3, <1>5
  <2> HIDE DEF s, t
  <2>3. ASSUME NEW k \in 1..(n - 1) PROVE t[k] = s[k]
    <3>1. k \in 1..n /\ k - 1 \in 0..(n - 2) /\ k - 1 \in Nat BY <1>1
    <3>2. p.cells[Cell(r, k - 1)] = r.cells[Cell(r, k - 1)] BY <3>1, <1>2, <1>3, <1>4, <1>5
    <3> QED BY <3>1, <3>2, <2>1, <2>2
  <2>4. t = SubSeq(s, 1, Len(s) - 1) /\ s # <<>> BY <2>1, <2>2, <2>3, <1>1, WithoutLast
  <2> QED BY <2>4 DEF s, t
<1> QED BY <1>5, <1>10, <1>11 DEF p

\* The window moves by one, whether or not size_t wraps.
LEMMA Moves ==
  ASSUME RingAssumption, NEW L \in Pow2, NEW f \in 0..(Modulus - 1), NEW k \in Nat
  PROVE  /\ Add(f, 1) \in 0..(Modulus - 1) /\ (Add(f, 1) + k) % L = (f + (k + 1)) % L
         /\ Minus(f, 1) \in 0..(Modulus - 1) /\ (Minus(f, 1) + (k + 1)) % L = (f + k) % L
<1>1. L \in Nat \ {0} /\ L < Modulus /\ Modulus \in Nat \ {0} BY Lengths
<1>2. PICK t \in Nat : Modulus = t * L BY Lengths
<1>3. Add(f, 1) \in 0..(Modulus - 1) /\ (Add(f, 1) + k) % L = (f + (k + 1)) % L
  <2> DEFINE x == f + 1
  <2>1. x \in Nat /\ x < 2 * Modulus /\ x + k = f + (k + 1) BY <1>1
  <2>2. Add(f, 1) = x % Modulus BY DEF Add
  <2> HIDE DEF x
  <2> QED BY <2>1, <2>2, Wraps
<1>4. Minus(f, 1) \in 0..(Modulus - 1) /\ (Minus(f, 1) + (k + 1)) % L = (f + k) % L
  <2> DEFINE x == f + (Modulus - 1)
             y == f + k
             j == k + 1
  <2>1. x \in Nat /\ x < 2 * Modulus /\ j \in Nat /\ y \in Nat /\ x + j = y + Modulus BY <1>1
  <2>2. Minus(f, 1) = x % Modulus BY DEF Minus
  <2> HIDE DEF x, y, j
  <2>3. x % Modulus \in 0..(Modulus - 1) /\ ((x % Modulus) + j) % L = (x + j) % L BY <2>1, Wraps
  <2>4. (y + t * L) % L = y % L BY <2>1, <1>1, Shift
  <2>5. ((x % Modulus) + j) % L = y % L BY <2>1, <2>3, <2>4, <1>2
  <2> QED BY <2>2, <2>3, <2>5 DEF y, j
<1> QED BY <1>3, <1>4

\* emplace_front
LEMMA PushFrontOK ==
  ASSUME RingAssumption, NEW r, RingOK(r), ~ Full(r), NEW v \in Values
  PROVE  /\ RingOK(EmplaceFront(r, v)) /\ View(EmplaceFront(r, v)) = <<v>> \o View(r)
         /\ EmplaceFront(r, v).capacity = r.capacity
<1> DEFINE p == EmplaceFront(r, v)
           n == r.numElements
           i == Cell(p, 0)
<1>1. n \in Nat /\ n < r.capacity /\ r.capacity \in Nat /\ r.capacity <= r.mask + 1 /\ r.mask \in Nat
  BY Lengths DEF RingOK, Full
<1>2. r.cells \in [0..(r.mask) -> Values \union {Raw}] BY <1>1, RingFacts
<1>3. DOMAIN p = DOMAIN r /\ p.mask = r.mask /\ p.capacity = r.capacity
      /\ p.frontIndex = Minus(r.frontIndex, 1) /\ p.frontIndex \in 0..(Modulus - 1)
      /\ p.numElements = n + 1 /\ p.cells = [r.cells EXCEPT ![i] = v]
  <2> DEFINE q == [r EXCEPT !.frontIndex = Minus(@, 1), !.numElements = @ + 1]
             g == Minus(r.frontIndex, 1)
  <2>1. DOMAIN q = DOMAIN r /\ q.mask = r.mask /\ q.capacity = r.capacity /\ q.frontIndex = g
        /\ q.numElements = n + 1 /\ q.cells = r.cells
    BY DEF RingOK
  <2>2. p = [q EXCEPT !.cells[Index(q, 0)] = v] BY DEF EmplaceFront, Construct
  <2>3. g \in 0..(Modulus - 1)
    <3>1. r.mask + 1 \in Pow2 /\ r.frontIndex \in 0..(Modulus - 1) /\ 0 \in Nat BY DEF RingOK
    <3> QED BY <3>1, Moves
  <2>4. DOMAIN q = {"mask", "capacity", "frontIndex", "numElements", "cells"}
        /\ q.mask + 1 \in Pow2 /\ q.mask \in Nat
    BY <2>1 DEF RingOK
  <2> HIDE DEF q, p, g
  <2>5. Index(q, 0) = Cell(q, 0)
    <3>1. 0 <= q.mask + 1 /\ 0 \in Nat BY <2>4
    <3> QED BY <3>1, <2>1, <2>3, <2>4, CellFacts
  <2>6. p = [q EXCEPT !.cells[Cell(q, 0)] = v] BY <2>2, <2>5
  <2>7. p.mask = q.mask /\ p.frontIndex = q.frontIndex BY <2>4, <2>6
  <2>8. Cell(p, 0) = Cell(q, 0) BY <2>7 DEF Cell
  <2> DEFINE j == Cell(q, 0)
  <2>9. p = [q EXCEPT !.cells[j] = v] /\ j = i BY <2>6, <2>8
  <2> HIDE DEF j, i
  <2>10. DOMAIN p = DOMAIN q /\ p.capacity = q.capacity /\ p.numElements = q.numElements
         /\ p.cells = [q.cells EXCEPT ![j] = v]
    BY <2>4, <2>9
  <2>11. p.cells = [r.cells EXCEPT ![i] = v] BY <2>1, <2>9, <2>10
  <2> QED BY <2>1, <2>3, <2>7, <2>10, <2>11 DEF g
<1>4. \A k \in Nat : Cell(p, k + 1) = Cell(r, k)
  <2> HIDE DEF p
  <2>1. r.mask + 1 \in Pow2 /\ r.frontIndex \in 0..(Modulus - 1) BY DEF RingOK
  <2>2. \A k \in Nat : (Minus(r.frontIndex, 1) + (k + 1)) % (r.mask + 1) = (r.frontIndex + k) % (r.mask + 1)
    BY <2>1, Moves
  <2> QED BY <2>2, <1>3 DEF Cell
<1> HIDE DEF p
<1>5. p.mask \in Nat /\ p.mask + 1 \in Pow2 /\ (\A k \in Nat : Cell(p, k) \in 0..(r.mask))
  BY <1>1, <1>3, CellFacts DEF RingOK
<1>6. ASSUME NEW k \in 0..(n - 1) PROVE Cell(r, k) # i /\ Cell(r, k) \in 0..(r.mask)
  <2>1. k \in Nat /\ k + 1 \in 0..(p.mask) /\ 0 \in 0..(p.mask) /\ k + 1 # 0 BY <1>1, <1>3
  <2>2. Cell(p, k + 1) # Cell(p, 0) BY <2>1, <1>3, <1>5, CellFacts
  <2> QED BY <2>1, <2>2, <1>4, <1>5
<1>7. i \in 0..(r.mask) BY <1>5
<1>8. p.cells \in [0..(p.mask) -> Values \union {Raw}] BY <1>2, <1>3, <1>7
<1>9. Held(p.cells, p)
  <2>1. p.numElements - 1 = n /\ \A k \in 0..n : k = 0 \/ \E j \in 0..(n - 1) : k = j + 1
    <3>1. \A k \in 0..n : k = 0 \/ (k - 1 \in 0..(n - 1) /\ k = (k - 1) + 1) BY <1>1
    <3> QED BY <3>1, <1>1, <1>3
  <2>2. \A j \in 0..(n - 1) : j \in Nat /\ j + 1 \in 0..n BY <1>1
  <2>3. 0 \in 0..n BY <1>1
  <2> SUFFICES ASSUME NEW x \in 0..(r.mask)
               PROVE  p.cells[x] # Raw <=> \E k \in 0..n : x = Cell(p, k)
    <3>1. DOMAIN p.cells = 0..(r.mask) BY <1>3, <1>8
    <3> QED BY <3>1, <2>1 DEF Held
  <2>4. CASE x = i
    <3>1. p.cells[x] = v /\ v # Raw BY <2>4, <1>2, <1>3 DEF RingAssumption
    <3> QED BY <2>3, <2>4, <3>1
  <2>5. CASE x # i
    <3>1. p.cells[x] = r.cells[x] BY <2>5, <1>2, <1>3
    <3>2. r.cells[x] # Raw <=> \E j \in 0..(n - 1) : x = Cell(r, j) BY <1>2 DEF RingOK, Held
    <3>3. \A j \in 0..(n - 1) : Cell(p, j + 1) = Cell(r, j) BY <2>2, <1>4
    <3>4. ASSUME NEW j \in 0..(n - 1), x = Cell(r, j) PROVE \E k \in 0..n : x = Cell(p, k)
      BY <3>3, <3>4, <2>2
    <3>5. ASSUME NEW k \in 0..n, x = Cell(p, k) PROVE \E j \in 0..(n - 1) : x = Cell(r, j)
      BY <3>3, <3>5, <2>1, <2>5
    <3> QED BY <3>1, <3>2, <3>4, <3>5
  <2> QED BY <2>4, <2>5
<1>10. RingOK(p)
  <2>1. p.numElements \in 0..(p.capacity) /\ p.capacity >= 1 BY <1>1, <1>3
  <2> QED BY <2>1, <1>3, <1>8, <1>9 DEF RingOK
<1>11. View(p) = <<v>> \o View(r)
  <2> DEFINE s == View(r)
             t == View(p)
  <2>1. s \in Seq(Values) /\ Len(s) = n /\ \A k \in 1..n : s[k] = r.cells[Cell(r, k - 1)] BY ViewIs
  <2>2. t \in Seq(Values) /\ Len(t) = n + 1 /\ \A k \in 1..(n + 1) : t[k] = p.cells[Cell(p, k - 1)]
    BY <1>3, <1>10, ViewIs
  <2> HIDE DEF s, t
  <2>3. ASSUME NEW k \in 1..n PROVE t[k + 1] = s[k]
    <3>1. k + 1 \in 1..(n + 1) /\ (k + 1) - 1 = (k - 1) + 1 /\ k - 1 \in 0..(n - 1) /\ k - 1 \in Nat BY <1>1
    <3>2. Cell(p, (k + 1) - 1) = Cell(r, k - 1) BY <3>1, <1>4
    <3>3. p.cells[Cell(r, k - 1)] = r.cells[Cell(r, k - 1)] BY <3>1, <1>2, <1>3, <1>6
    <3> QED BY <3>1, <3>2, <3>3, <2>1, <2>2
  <2>4. t[1] = v
    <3>1. 1 \in 1..(n + 1) /\ 1 - 1 = 0 BY <1>1
    <3> QED BY <3>1, <2>2, <1>2, <1>3, <1>7
  <2>5. t = <<v>> \o s BY <2>1, <2>2, <2>3, <2>4, Prepended
  <2> QED BY <2>5 DEF s, t
<1> QED BY <1>3, <1>10, <1>11 DEF p

\* pop_front
LEMMA PopFrontOK ==
  ASSUME RingAssumption, NEW r, RingOK(r), ~ Empty(r)
  PROVE  /\ RingOK(PoppedFront(r)) /\ View(r) # <<>> /\ View(PoppedFront(r)) = Tail(View(r))
         /\ PoppedFront(r).capacity = r.capacity
<1> DEFINE p == PoppedFront(r)
           n == r.numElements
           i == Cell(r, 0)
<1>1. n \in Nat /\ n >= 1 /\ n <= r.capacity /\ r.capacity \in Nat /\ r.capacity <= r.mask + 1 /\ r.mask \in Nat
  BY Lengths DEF RingOK, Empty
<1>2. r.cells \in [0..(r.mask) -> Values \union {Raw}] BY <1>1, RingFacts
<1>3. DOMAIN p = DOMAIN r /\ p.mask = r.mask /\ p.capacity = r.capacity
      /\ p.frontIndex = Add(r.frontIndex, 1) /\ p.frontIndex \in 0..(Modulus - 1)
      /\ p.numElements = n - 1 /\ p.cells = [r.cells EXCEPT ![i] = Raw]
  <2> DEFINE q == [r EXCEPT !.cells[i] = Raw]
             g == Add(r.frontIndex, 1)
  <2>1. Index(r, 0) = i BY <1>1, CellFacts DEF RingOK
  <2>2. p = [q EXCEPT !.frontIndex = Add(@, 1), !.numElements = @ - 1]
    BY <2>1 DEF PoppedFront, Destroy, Construct
  <2>3. DOMAIN q = DOMAIN r /\ q.mask = r.mask /\ q.capacity = r.capacity /\ q.frontIndex = r.frontIndex
        /\ q.numElements = n /\ q.cells = [r.cells EXCEPT ![i] = Raw]
    BY DEF RingOK
  <2>4. DOMAIN q = {"mask", "capacity", "frontIndex", "numElements", "cells"} BY <2>3 DEF RingOK
  <2>5. g \in 0..(Modulus - 1)
    <3>1. r.mask + 1 \in Pow2 /\ r.frontIndex \in 0..(Modulus - 1) /\ 0 \in Nat BY DEF RingOK
    <3> QED BY <3>1, Moves
  <2>6. p = [q EXCEPT !.frontIndex = g, !.numElements = n - 1] BY <2>2, <2>3
  <2> HIDE DEF q, p, i, g
  <2> QED BY <2>3, <2>4, <2>5, <2>6 DEF g
<1> HIDE DEF p
<1>4. \A k \in Nat : Cell(p, k) = Cell(r, k + 1)
  <2>1. r.mask + 1 \in Pow2 /\ r.frontIndex \in 0..(Modulus - 1) BY DEF RingOK
  <2>2. \A k \in Nat : (Add(r.frontIndex, 1) + k) % (r.mask + 1) = (r.frontIndex + (k + 1)) % (r.mask + 1)
    BY <2>1, Moves
  <2> QED BY <2>2, <1>3 DEF Cell
<1>5. \A k \in Nat : Cell(r, k) \in 0..(r.mask) BY CellFacts DEF RingOK
<1>6. ASSUME NEW k \in 0..(n - 2) PROVE Cell(r, k + 1) # i /\ Cell(r, k + 1) \in 0..(r.mask)
  <2>1. k + 1 \in Nat /\ k + 1 \in 0..(r.mask) /\ 0 \in 0..(r.mask) /\ k + 1 # 0 BY <1>1
  <2>2. Cell(r, k + 1) # Cell(r, 0) BY <2>1, CellFacts DEF RingOK
  <2> QED BY <2>1, <2>2, <1>5
<1>7. i \in 0..(r.mask) BY <1>5
<1>8. p.cells \in [0..(p.mask) -> Values \union {Raw}] BY <1>2, <1>3, <1>7
<1>9. Held(p.cells, p)
  <2>1. p.numElements - 1 = n - 2 /\ \A k \in 0..(n - 1) : k = 0 \/ \E j \in 0..(n - 2) : k = j + 1
    <3>1. \A k \in 0..(n - 1) : k = 0 \/ (k - 1 \in 0..(n - 2) /\ k = (k - 1) + 1) BY <1>1
    <3> QED BY <3>1, <1>1, <1>3
  <2>2. \A j \in 0..(n - 2) : j \in Nat /\ j + 1 \in 0..(n - 1) BY <1>1
  <2> SUFFICES ASSUME NEW x \in 0..(r.mask)
               PROVE  p.cells[x] # Raw <=> \E k \in 0..(n - 2) : x = Cell(p, k)
    <3>1. DOMAIN p.cells = 0..(r.mask) BY <1>3, <1>8
    <3> QED BY <3>1, <2>1 DEF Held
  <2>3. \A j \in 0..(n - 2) : Cell(p, j) = Cell(r, j + 1) BY <2>2, <1>4
  <2>4. CASE x = i
    <3>1. p.cells[x] = Raw BY <2>4, <1>2, <1>3
    <3>2. \A j \in 0..(n - 2) : Cell(r, j + 1) # i BY <1>6
    <3> QED BY <2>3, <2>4, <3>1, <3>2
  <2>5. CASE x # i
    <3>1. p.cells[x] = r.cells[x] BY <2>5, <1>2, <1>3
    <3>2. r.cells[x] # Raw <=> \E k \in 0..(n - 1) : x = Cell(r, k) BY <1>2 DEF RingOK, Held
    <3>3. ASSUME NEW k \in 0..(n - 1), x = Cell(r, k) PROVE \E j \in 0..(n - 2) : x = Cell(p, j)
      BY <3>3, <2>1, <2>3, <2>5
    <3>4. ASSUME NEW j \in 0..(n - 2), x = Cell(p, j) PROVE \E k \in 0..(n - 1) : x = Cell(r, k)
      BY <3>4, <2>2, <2>3
    <3> QED BY <3>1, <3>2, <3>3, <3>4
  <2> QED BY <2>4, <2>5
<1>10. RingOK(p)
  <2>1. p.numElements \in 0..(p.capacity) /\ p.capacity >= 1 BY <1>1, <1>3
  <2> QED BY <2>1, <1>3, <1>8, <1>9 DEF RingOK
<1>11. View(p) = Tail(View(r)) /\ View(r) # <<>>
  <2> DEFINE s == View(r)
             t == View(p)
  <2>1. s \in Seq(Values) /\ Len(s) = n /\ \A k \in 1..n : s[k] = r.cells[Cell(r, k - 1)] BY ViewIs
  <2>2. t \in Seq(Values) /\ Len(t) = n - 1 /\ \A k \in 1..(n - 1) : t[k] = p.cells[Cell(p, k - 1)]
    BY <1>3, <1>10, ViewIs
  <2> HIDE DEF s, t
  <2>3. ASSUME NEW k \in 1..(n - 1) PROVE t[k] = s[k + 1]
    <3>1. k + 1 \in 1..n /\ (k + 1) - 1 = (k - 1) + 1 /\ k - 1 \in 0..(n - 2) /\ k - 1 \in Nat BY <1>1
    <3>2. Cell(p, k - 1) = Cell(r, (k - 1) + 1) BY <3>1, <1>4
    <3>3. p.cells[Cell(r, (k - 1) + 1)] = r.cells[Cell(r, (k - 1) + 1)] BY <3>1, <1>2, <1>3, <1>6
    <3> QED BY <3>1, <3>2, <3>3, <2>1, <2>2
  <2>4. t = Tail(s) /\ s # <<>> BY <2>1, <2>2, <2>3, <1>1, WithoutFirst
  <2> QED BY <2>4 DEF s, t
<1> QED BY <1>3, <1>10, <1>11 DEF p

\* nextPow2 finds a length that is large enough.
LEMMA NextPow2Is ==
  ASSUME RingAssumption, NEW c \in Nat, NEW P \in Pow2, c <= P
  PROVE  nextPow2(c) \in Pow2 /\ c <= nextPow2(c)
<1> DEFINE E == {p \in Pow2 : p >= c}
<1>1. Pow2 \subseteq Nat
  <2>1. \A p \in Pow2 : p \in Nat BY Lengths
  <2> QED BY <2>1
<1>2. E \in SUBSET Nat /\ E # {} BY <1>1
<1>3. PICK k \in E : \A j \in E : k <= j
  <2> HIDE DEF E
  <2> QED BY <1>2, LeastElement
<1>4. \E p \in Pow2 : p >= c /\ \A q \in Pow2 : q >= c => p <= q BY <1>3
<1>5. nextPow2(c) \in Pow2 /\ nextPow2(c) >= c BY <1>4 DEF nextPow2
<1> QED BY <1>1, <1>5

\* What the deque becomes with nothing in it.
LEMMA ClearOK ==
  ASSUME RingAssumption, NEW r, RingOK(r)
  PROVE  RingOK(Cleared(r)) /\ View(Cleared(r)) = <<>> /\ Cleared(r).capacity = r.capacity
<1> DEFINE p == Cleared(r)
           n == r.numElements
           g == Add(r.frontIndex, n)
<1>1. n \in Nat /\ n <= r.capacity /\ r.capacity \in Nat /\ r.capacity <= r.mask + 1 /\ r.mask \in Nat
      /\ r.mask + 1 < Modulus /\ Modulus \in Nat /\ r.frontIndex \in 0..(Modulus - 1)
  BY Lengths DEF RingOK
<1>2. g \in 0..(Modulus - 1)
  <2> DEFINE x == r.frontIndex + n
  <2>1. x \in Nat /\ x < 2 * Modulus BY <1>1
  <2>2. r.mask + 1 \in Pow2 /\ 0 \in Nat BY DEF RingOK
  <2>3. g = x % Modulus BY DEF Add
  <2> HIDE DEF x, g
  <2> QED BY <2>1, <2>2, <2>3, Wraps
<1>3. DOMAIN p = DOMAIN r /\ p.mask = r.mask /\ p.capacity = r.capacity /\ p.frontIndex = g
      /\ p.numElements = 0 /\ p.cells = [i \in DOMAIN r.cells |-> Raw]
  <2>1. DOMAIN r = {"mask", "capacity", "frontIndex", "numElements", "cells"} BY DEF RingOK
  <2>2. p = [r EXCEPT !.frontIndex = g, !.numElements = 0, !.cells = [i \in DOMAIN r.cells |-> Raw]]
    BY DEF Cleared
  <2> HIDE DEF p, g
  <2> QED BY <2>1, <2>2
<1> HIDE DEF p, g
<1>4. r.cells = <<>> => p.cells = <<>> BY <1>3
<1>5. r.cells \in [0..(r.mask) -> Values \union {Raw}] => p.cells \in [0..(p.mask) -> Values \union {Raw}]
  BY <1>3
<1>6. Held(p.cells, p)
  <2>1. 0..(p.numElements - 1) = {} BY <1>3
  <2> QED BY <2>1, <1>3 DEF Held
<1>7. RingOK(p)
  <2>1. p.numElements \in 0..(p.capacity) BY <1>1, <1>3
  <2> QED BY <2>1, <1>2, <1>3, <1>4, <1>5, <1>6 DEF RingOK
<1>8. View(p) = <<>>
  <2>1. View(p) \in Seq(Values) /\ Len(View(p)) = 0 BY <1>3, <1>7, ViewIs
  <2> QED BY <2>1
<1> QED BY <1>3, <1>7, <1>8 DEF p

\* A deque that was moved from.
LEMMA EmptiedOK ==
  ASSUME RingAssumption, NEW r, RingOK(r), NEW p, p = [r EXCEPT !.numElements = 0, !.capacity = 0, !.cells = <<>>]
  PROVE  RingOK(p) /\ View(p) = <<>> /\ p.capacity = 0
<1>1. DOMAIN r = {"mask", "capacity", "frontIndex", "numElements", "cells"} /\ r.mask \in Nat
      /\ r.mask + 1 \in Pow2 /\ r.frontIndex \in 0..(Modulus - 1)
  BY DEF RingOK
<1>2. DOMAIN p = DOMAIN r /\ p.mask = r.mask /\ p.capacity = 0 /\ p.frontIndex = r.frontIndex
      /\ p.numElements = 0 /\ p.cells = <<>>
  BY <1>1
<1>3. Held(p.cells, p)
  <2>1. DOMAIN p.cells = {} BY <1>2
  <2> QED BY <2>1 DEF Held
<1>4. RingOK(p)
  <2>1. 0 \in 0..(p.mask + 1) /\ p.numElements \in 0..(p.capacity) BY <1>1, <1>2
  <2> QED BY <2>1, <1>1, <1>2, <1>3 DEF RingOK
<1>5. View(p) = <<>>
  <2>1. View(p) \in Seq(Values) /\ Len(View(p)) = 0 BY <1>2, <1>4, ViewIs
  <2> QED BY <2>1
<1> QED BY <1>2, <1>4, <1>5

\* A new ring.
LEMMA NewFacts ==
  ASSUME RingAssumption, NEW c \in Nat \ {0}, NEW P \in Pow2, c <= P
  PROVE  /\ DOMAIN New(c) = {"mask", "capacity", "frontIndex", "numElements", "cells"}
         /\ New(c).mask \in Nat /\ New(c).mask + 1 \in Pow2 /\ New(c).capacity = c
         /\ c <= New(c).mask + 1 /\ New(c).frontIndex = 0 /\ New(c).numElements = 0
         /\ New(c).cells = [i \in 0..(New(c).mask) |-> Raw]
<1> DEFINE L == nextPow2(c)
<1>1. L \in Pow2 /\ c <= L BY NextPow2Is
<1>2. L \in Nat \ {0} BY <1>1, Lengths
<1> HIDE DEF L
<1>3. L - 1 \in Nat /\ (L - 1) + 1 = L BY <1>2
<1> DEFINE m == L - 1
<1>4. New(c) = [mask |-> m, capacity |-> c, frontIndex |-> 0, numElements |-> 0, cells |-> [i \in 0..m |-> Raw]]
  BY DEF New, L
<1>5. m \in Nat /\ m + 1 \in Pow2 /\ c <= m + 1 BY <1>1, <1>3
<1> HIDE DEF m
<1> QED BY <1>4, <1>5

\* A cell of a window that starts at zero.
LEMMA CellOfNew ==
  ASSUME NEW p, p.mask \in Nat, p.frontIndex = 0, NEW k \in 0..(p.mask)
  PROVE  Cell(p, k) = k
<1> DEFINE L == p.mask + 1
<1>1. L \in Nat \ {0} /\ k \in Nat /\ k < L /\ 0 + k = k OBVIOUS
<1> HIDE DEF L
<1>2. k % L = k BY <1>1, ModStep
<1> QED BY <1>1, <1>2 DEF Cell, L

\* set_capacity, and the copy and move constructors: the elements in a new ring.
LEMMA RefilledOK ==
  ASSUME RingAssumption, NEW r, RingOK(r), NEW c \in Nat \ {0}, NEW P \in Pow2, c <= P, r.numElements <= c
  PROVE  RingOK(Refilled(c, r)) /\ View(Refilled(c, r)) = View(r) /\ Refilled(c, r).capacity = c
<1> DEFINE p == Refilled(c, r)
           n == r.numElements
           e == New(c)
           cells == [i \in 0..(e.mask) |-> IF i < n THEN At(r, i) ELSE Raw]
<1>1. n \in Nat BY Lengths DEF RingOK
<1>2. /\ DOMAIN e = {"mask", "capacity", "frontIndex", "numElements", "cells"}
      /\ e.mask \in Nat /\ e.mask + 1 \in Pow2 /\ e.capacity = c
      /\ c <= e.mask + 1 /\ e.frontIndex = 0 /\ e.numElements = 0
      /\ e.cells = [i \in 0..(e.mask) |-> Raw]
  BY NewFacts
<1>3. p = [e EXCEPT !.numElements = n, !.cells = cells]
  <2>1. DOMAIN e.cells = 0..(e.mask) BY <1>2
  <2>2. p = [e EXCEPT !.numElements = n, !.cells = [i \in DOMAIN e.cells |-> IF i < n THEN At(r, i) ELSE Raw]]
    BY DEF Refilled
  <2> QED BY <2>1, <2>2
<1> HIDE DEF p, e
<1>4. DOMAIN p = DOMAIN e /\ p.mask = e.mask /\ p.capacity = c /\ p.frontIndex = 0 /\ p.numElements = n
      /\ p.cells = cells
  <2> HIDE DEF cells
  <2> QED BY <1>2, <1>3
<1>5. \A k \in 1..n : View(r)[k] \in Values /\ View(r)[k] = At(r, k - 1)
  <2>1. View(r) \in Seq(Values) /\ Len(View(r)) = n BY ViewIs
  <2>2. \A k \in 1..n : View(r)[k] \in Values BY <2>1
  <2>3. \A k \in 1..n : View(r)[k] = At(r, k - 1) BY DEF View
  <2> QED BY <2>2, <2>3
<1>6. ASSUME NEW i \in 0..(n - 1) PROVE At(r, i) \in Values /\ At(r, i) = View(r)[i + 1]
  <2>1. i + 1 \in 1..n /\ (i + 1) - 1 = i BY <1>1
  <2> QED BY <2>1, <1>5
<1>7. p.cells \in [0..(p.mask) -> Values \union {Raw}]
  <2>1. \A i \in 0..(e.mask) : i < n => i \in 0..(n - 1) BY <1>1
  <2> QED BY <2>1, <1>4, <1>6
<1>8. \A k \in 0..(p.mask) : Cell(p, k) = k BY <1>2, <1>4, CellOfNew
<1>9. \A k \in 0..(n - 1) : k \in 0..(p.mask) BY <1>1, <1>2, <1>4
<1>10. Held(p.cells, p)
  <2> SUFFICES ASSUME NEW x \in 0..(p.mask)
               PROVE  p.cells[x] # Raw <=> \E k \in 0..(n - 1) : x = Cell(p, k)
    <3>1. DOMAIN p.cells = 0..(p.mask) BY <1>7
    <3> QED BY <3>1, <1>4 DEF Held
  <2>1. CASE x < n
    <3>1. x \in 0..(n - 1) BY <2>1, <1>1
    <3>2. p.cells[x] = At(r, x) BY <2>1, <1>4
    <3>3. p.cells[x] # Raw BY <3>1, <3>2, <1>6 DEF RingAssumption
    <3> QED BY <3>1, <3>3, <1>8
  <2>2. CASE ~(x < n)
    <3>1. p.cells[x] = Raw BY <2>2, <1>4
    <3>2. \A k \in 0..(n - 1) : k # x BY <2>2, <1>1
    <3> QED BY <3>1, <3>2, <1>8, <1>9
  <2> QED BY <2>1, <2>2
<1>11. RingOK(p)
  <2>1. p.capacity \in 0..(p.mask + 1) /\ p.numElements \in 0..(p.capacity) /\ p.capacity >= 1
    BY <1>1, <1>2, <1>4
  <2>2. 0 \in 0..(Modulus - 1)
    <3>1. Modulus \in Nat \ {0} BY Lengths
    <3> QED BY <3>1
  <2> QED BY <2>1, <2>2, <1>2, <1>4, <1>7, <1>10 DEF RingOK
<1>12. View(p) = View(r)
  <2> DEFINE s == View(r)
             t == View(p)
  <2>1. s \in Seq(Values) /\ Len(s) = n BY ViewIs
  <2>2. t \in Seq(Values) /\ Len(t) = n /\ \A k \in 1..n : t[k] = p.cells[Cell(p, k - 1)]
    <3>1. t \in Seq(Values) /\ Len(t) = p.numElements
          /\ \A k \in 1..(p.numElements) : t[k] = p.cells[Cell(p, k - 1)]
      BY <1>11, ViewIs
    <3> HIDE DEF t, cells
    <3> QED BY <3>1, <1>4
  <2> HIDE DEF t
  <2>3. ASSUME NEW k \in 1..n PROVE t[k] = s[k]
    <3>1. k - 1 \in 0..(n - 1) /\ (k - 1) + 1 = k /\ k - 1 < n BY <1>1
    <3>2. Cell(p, k - 1) = k - 1 /\ k - 1 \in 0..(e.mask) BY <3>1, <1>4, <1>8, <1>9
    <3>3. p.cells[k - 1] = At(r, k - 1) BY <3>1, <3>2, <1>4
    <3> QED BY <3>1, <3>2, <3>3, <2>2, <1>6
  <2> HIDE DEF s
  <2> QED BY <2>1, <2>2, <2>3, SameSequence DEF s, t
<1> QED BY <1>4, <1>11, <1>12 DEF p

-----------------------------------------------------------------------------
(* The refinement.                                                         *)

RingInv ==
  /\ DOMAIN ring = Deques /\ ring = [d \in Deques |-> ring[d]]
  /\ \A d \in Deques : RingOK(ring[d])

\* What Deque's variables stand for.
Queue == [d \in Deques |-> View(ring[d])]
Room == [d \in Deques |-> ring[d].capacity]

\* The steps of Deque, spelled out.
LEMMA AbstractSteps ==
  ASSUME NEW d, NEW from, NEW v, NEW c
  PROVE  /\ D!PushFront(d, v) <=>
              ~ (Len(Queue[d]) = Room[d]) /\ Queue' = [Queue EXCEPT ![d] = <<v>> \o Queue[d]] /\ Room' = Room
         /\ D!PushBack(d, v) <=>
              ~ (Len(Queue[d]) = Room[d]) /\ Queue' = [Queue EXCEPT ![d] = Append(Queue[d], v)] /\ Room' = Room
         /\ D!PopFront(d) <=>
              Queue[d] # <<>> /\ Queue' = [Queue EXCEPT ![d] = Tail(Queue[d])] /\ Room' = Room
         /\ D!PopBack(d) <=>
              /\ Queue[d] # <<>>
              /\ Queue' = [Queue EXCEPT ![d] = SubSeq(Queue[d], 1, Len(Queue[d]) - 1)] /\ Room' = Room
         /\ D!Clear(d) <=> Queue' = [Queue EXCEPT ![d] = <<>>] /\ Room' = Room
         /\ D!SetCapacity(d, c) <=>
              Len(Queue[d]) <= c /\ Room' = [Room EXCEPT ![d] = c] /\ Queue' = Queue
         /\ D!Copy(d, from) <=>
              d # from /\ Queue' = [Queue EXCEPT ![d] = Queue[from]] /\ Room' = [Room EXCEPT ![d] = Room[from]]
         /\ D!Move(d, from) <=>
              /\ d # from
              /\ Queue' = [Queue EXCEPT ![d] = Queue[from], ![from] = <<>>]
              /\ Room' = [Room EXCEPT ![d] = Room[from], ![from] = 0]
<1> QED BY DEF D!PushFront, D!PushBack, D!PopFront, D!PopBack, D!Clear, D!SetCapacity, D!Copy, D!Move,
               D!Full, D!Becomes, Queue, Room, View

\* One deque becomes p.
LEMMA SetOne ==
  ASSUME RingInv, NEW d \in Deques, NEW p, RingOK(p), Set(d, p)
  PROVE  /\ RingInv' /\ Queue' = [Queue EXCEPT ![d] = View(p)] /\ Room' = [Room EXCEPT ![d] = p.capacity]
         /\ p.capacity = ring[d].capacity => Room' = Room
         /\ View(p) = View(ring[d]) => Queue' = Queue
<1>1. ring' = [ring EXCEPT ![d] = p] BY DEF Set
<1>2. DOMAIN ring = Deques /\ \A x \in Deques : RingOK(ring[x]) BY DEF RingInv
<1>3. DOMAIN ring' = Deques /\ ring' = [x \in Deques |-> ring'[x]] /\ ring'[d] = p
      /\ \A x \in Deques : x # d => ring'[x] = ring[x]
  BY <1>1, <1>2
<1>4. RingInv' BY <1>2, <1>3 DEF RingInv
<1>5. Queue' = [x \in Deques |-> View(ring'[x])] /\ Room' = [x \in Deques |-> ring'[x].capacity]
  BY DEF Queue, Room
<1>6. Queue' = [Queue EXCEPT ![d] = View(p)] BY <1>3, <1>5 DEF Queue
<1>7. Room' = [Room EXCEPT ![d] = p.capacity] BY <1>3, <1>5 DEF Room
<1>8. p.capacity = ring[d].capacity => Room' = Room BY <1>3, <1>5 DEF Room
<1>9. View(p) = View(ring[d]) => Queue' = Queue BY <1>3, <1>5 DEF Queue
<1> QED BY <1>4, <1>6, <1>7, <1>8, <1>9

\* New deques are empty ones of Deque.
LEMMA StartsRight == ASSUME RingAssumption, RingInit PROVE RingInv /\ D!Init
<1>1. 1 \in Nat \ {0} /\ 1 \in Pow2 /\ 1 <= 1 BY DEF RingAssumption
<1> DEFINE r == New(1)
<1>2. /\ DOMAIN r = {"mask", "capacity", "frontIndex", "numElements", "cells"}
      /\ r.mask \in Nat /\ r.mask + 1 \in Pow2 /\ r.capacity = 1
      /\ 1 <= r.mask + 1 /\ r.frontIndex = 0 /\ r.numElements = 0
      /\ r.cells = [i \in 0..(r.mask) |-> Raw]
  BY <1>1, NewFacts
<1> HIDE DEF r
<1>3. RingOK(r)
  <2>1. Modulus \in Nat \ {0} BY <1>2, Lengths
  <2>2. 0 \in 0..(Modulus - 1) /\ r.capacity \in 0..(r.mask + 1) /\ r.numElements \in 0..(r.capacity)
    BY <2>1, <1>2
  <2>3. r.cells \in [0..(r.mask) -> Values \union {Raw}] /\ \A i \in DOMAIN r.cells : r.cells[i] = Raw
    BY <1>2
  <2>4. 0..(r.numElements - 1) = {} BY <1>2
  <2>5. Held(r.cells, r) BY <2>3, <2>4 DEF Held
  <2> QED BY <2>2, <2>3, <2>5, <1>2 DEF RingOK
<1>4. View(r) = <<>>
  <2>1. View(r) \in Seq(Values) /\ Len(View(r)) = 0 BY <1>2, <1>3, ViewIs
  <2> QED BY <2>1
<1>5. ring = [d \in Deques |-> r] BY DEF RingInit, r
<1>6. RingInv BY <1>3, <1>5 DEF RingInv
<1>7. Queue = [d \in Deques |-> <<>>] /\ Room = [d \in Deques |-> 1] BY <1>2, <1>4, <1>5 DEF Queue, Room
<1> QED BY <1>6, <1>7 DEF D!Init, Queue, Room, View

\* Every operation is one of Deque.
LEMMA StepsRight == ASSUME RingAssumption, RingInv, RingNext PROVE RingInv' /\ D!Next
<1>1. \A d \in Deques : RingOK(ring[d]) BY DEF RingInv
<1>2. \A d \in Deques : Queue[d] = View(ring[d]) /\ Room[d] = ring[d].capacity BY DEF Queue, Room
<1>3. \A d \in Deques : Len(View(ring[d])) = ring[d].numElements BY <1>1, ViewIs
<1>4. ASSUME NEW d \in Deques, NEW v \in Values, PushFront(d, v) PROVE RingInv' /\ D!PushFront(d, v)
  <2> DEFINE p == EmplaceFront(ring[d], v)
  <2>1. ~ Full(ring[d]) /\ Set(d, p) BY <1>4 DEF PushFront
  <2>2. RingOK(p) /\ View(p) = <<v>> \o View(ring[d]) /\ p.capacity = ring[d].capacity
    BY <2>1, <1>1, PushFrontOK
  <2> HIDE DEF p
  <2>3. RingInv' /\ Queue' = [Queue EXCEPT ![d] = View(p)] /\ Room' = Room BY <2>1, <2>2, SetOne
  <2>4. ~ (Len(Queue[d]) = Room[d]) BY <2>1, <1>2, <1>3 DEF Full
  <2> QED BY <2>2, <2>3, <2>4, <1>2, AbstractSteps
<1>5. ASSUME NEW d \in Deques, NEW v \in Values, PushBack(d, v) PROVE RingInv' /\ D!PushBack(d, v)
  <2> DEFINE p == EmplaceBack(ring[d], v)
  <2>1. ~ Full(ring[d]) /\ Set(d, p) BY <1>5 DEF PushBack
  <2>2. RingOK(p) /\ View(p) = Append(View(ring[d]), v) /\ p.capacity = ring[d].capacity
    BY <2>1, <1>1, PushBackOK
  <2> HIDE DEF p
  <2>3. RingInv' /\ Queue' = [Queue EXCEPT ![d] = View(p)] /\ Room' = Room BY <2>1, <2>2, SetOne
  <2>4. ~ (Len(Queue[d]) = Room[d]) BY <2>1, <1>2, <1>3 DEF Full
  <2> QED BY <2>2, <2>3, <2>4, <1>2, AbstractSteps
<1>6. ASSUME NEW d \in Deques, PopFront(d) PROVE RingInv' /\ D!PopFront(d)
  <2> DEFINE p == PoppedFront(ring[d])
  <2>1. ~ Empty(ring[d]) /\ Set(d, p) BY <1>6 DEF PopFront
  <2>2. RingOK(p) /\ View(ring[d]) # <<>> /\ View(p) = Tail(View(ring[d])) /\ p.capacity = ring[d].capacity
    BY <2>1, <1>1, PopFrontOK
  <2> HIDE DEF p
  <2>3. RingInv' /\ Queue' = [Queue EXCEPT ![d] = View(p)] /\ Room' = Room BY <2>1, <2>2, SetOne
  <2> QED BY <2>2, <2>3, <1>2, AbstractSteps
<1>7. ASSUME NEW d \in Deques, PopBack(d) PROVE RingInv' /\ D!PopBack(d)
  <2> DEFINE p == PoppedBack(ring[d])
  <2>1. ~ Empty(ring[d]) /\ Set(d, p) BY <1>7 DEF PopBack
  <2>2. RingOK(p) /\ View(ring[d]) # <<>> /\ View(p) = SubSeq(View(ring[d]), 1, Len(View(ring[d])) - 1)
        /\ p.capacity = ring[d].capacity
    BY <2>1, <1>1, PopBackOK
  <2> HIDE DEF p
  <2>3. RingInv' /\ Queue' = [Queue EXCEPT ![d] = View(p)] /\ Room' = Room BY <2>1, <2>2, SetOne
  <2> QED BY <2>2, <2>3, <1>2, AbstractSteps
<1>8. ASSUME NEW d \in Deques, Clear(d) PROVE RingInv' /\ D!Clear(d)
  <2> DEFINE p == Cleared(ring[d])
  <2>1. Set(d, p) BY <1>8 DEF Clear
  <2>2. RingOK(p) /\ View(p) = <<>> /\ p.capacity = ring[d].capacity BY <1>1, ClearOK
  <2> HIDE DEF p
  <2>3. RingInv' /\ Queue' = [Queue EXCEPT ![d] = View(p)] /\ Room' = Room BY <2>1, <2>2, SetOne
  <2> QED BY <2>2, <2>3, AbstractSteps
<1>9. ASSUME NEW d \in Deques, NEW c \in Capacities, SetCapacity(d, c) PROVE RingInv' /\ D!SetCapacity(d, c)
  <2> DEFINE p == Refilled(c, ring[d])
  <2>1. ring[d].numElements <= c /\ Set(d, p) BY <1>9 DEF SetCapacity
  <2>2. PICK P \in Pow2 : c \in Nat \ {0} /\ c <= P BY DEF RingAssumption
  <2>3. RingOK(p) /\ View(p) = View(ring[d]) /\ p.capacity = c BY <2>1, <2>2, <1>1, RefilledOK
  <2> HIDE DEF p
  <2>4. RingInv' /\ Queue' = Queue /\ Room' = [Room EXCEPT ![d] = c] BY <2>1, <2>3, SetOne
  <2>5. Len(Queue[d]) <= c BY <2>1, <1>2, <1>3
  <2> QED BY <2>4, <2>5, AbstractSteps
<1>10. ASSUME NEW d \in Deques, NEW from \in Deques, Copy(d, from) PROVE RingInv' /\ D!Copy(d, from)
  <2> DEFINE o == ring[from]
             p == Refilled(o.capacity, o)
  <2>1. d # from /\ o.capacity > 0 /\ Set(d, p) BY <1>10 DEF Copy, Assigned
  <2>2. RingOK(o) BY <1>1
  <2>3. o.capacity \in Nat \ {0} /\ o.mask + 1 \in Pow2 /\ o.capacity <= o.mask + 1
        /\ o.numElements <= o.capacity
    <3>1. o.mask + 1 \in Pow2 /\ o.capacity \in 0..(o.mask + 1) /\ o.numElements \in 0..(o.capacity)
      BY <2>2 DEF RingOK
    <3>2. o.mask + 1 \in Nat BY <3>1, Lengths
    <3> QED BY <3>1, <3>2, <2>1
  <2>4. RingOK(p) /\ View(p) = View(o) /\ p.capacity = o.capacity BY <2>2, <2>3, RefilledOK
  <2> HIDE DEF p
  <2>5. RingInv' /\ Queue' = [Queue EXCEPT ![d] = View(p)] /\ Room' = [Room EXCEPT ![d] = p.capacity]
    BY <2>1, <2>4, SetOne
  <2> QED BY <2>1, <2>4, <2>5, <1>2, AbstractSteps
<1>11. ASSUME NEW d \in Deques, NEW from \in Deques, Move(d, from) PROVE RingInv' /\ D!Move(d, from)
  <2> DEFINE o == ring[from]
             p == [o EXCEPT !.numElements = 0, !.capacity = 0, !.cells = <<>>]
  <2>1. d # from BY <1>11 DEF Move
  <2>2. ring' = [ring EXCEPT ![d] = o, ![from] = p] BY <1>11, <2>1 DEF Move, RingInv
  <2>3. RingOK(p) /\ View(p) = <<>> /\ p.capacity = 0 BY <1>1, EmptiedOK
  <2> HIDE DEF p
  <2>4. DOMAIN ring' = Deques /\ ring' = [x \in Deques |-> ring'[x]] /\ ring'[d] = o /\ ring'[from] = p
        /\ \A x \in Deques : x # d /\ x # from => ring'[x] = ring[x]
    BY <2>1, <2>2 DEF RingInv
  <2>5. RingInv' BY <2>3, <2>4, <1>1 DEF RingInv
  <2>6. Queue' = [x \in Deques |-> View(ring'[x])] /\ Room' = [x \in Deques |-> ring'[x].capacity]
    BY DEF Queue, Room
  <2>7. Queue' = [Queue EXCEPT ![d] = Queue[from], ![from] = <<>>]
    BY <2>1, <2>3, <2>4, <2>6, <1>2 DEF Queue
  <2>8. Room' = [Room EXCEPT ![d] = Room[from], ![from] = 0]
    BY <2>1, <2>3, <2>4, <2>6, <1>2 DEF Room
  <2> QED BY <2>1, <2>5, <2>7, <2>8, AbstractSteps
<1> QED BY <1>4, <1>5, <1>6, <1>7, <1>8, <1>9, <1>10, <1>11 DEF RingNext, D!Next

\* A step of something else is none.
LEMMA StutterRight == ASSUME RingInv, UNCHANGED ring PROVE RingInv' /\ UNCHANGED D!dvars
<1>1. RingInv' BY DEF RingInv
<1>2. Queue' = Queue /\ Room' = Room BY DEF Queue, Room
<1>3. UNCHANGED D!dvars BY <1>2 DEF D!dvars, Queue, Room, View
<1> QED BY <1>1, <1>3

\* What the invariant says of the members and of the memory.
LEMMA MemoryRight == ASSUME RingAssumption, RingInv PROVE RingTypeOK /\ ConstructedExactly
<1> SUFFICES ASSUME NEW d \in Deques, NEW r, r = ring[d]
             PROVE  /\ r.frontIndex \in 0..(Modulus - 1) /\ r.numElements \in 0..(r.capacity)
                    /\ r.mask + 1 \in Pow2
                    /\ r.cells # <<>> => DOMAIN r.cells = 0..(r.mask) /\ r.capacity \in 1..(r.mask + 1)
                    /\ r.cells = <<>> => r.capacity = 0
                    /\ {i \in DOMAIN r.cells : r.cells[i] # Raw}
                         = {Index(r, k) : k \in {n \in 0..(r.mask) : n < r.numElements}}
  BY DEF RingTypeOK, ConstructedExactly
<1>1. RingOK(r) BY DEF RingInv
<1>2. r.frontIndex \in 0..(Modulus - 1) /\ r.numElements \in 0..(r.capacity) /\ r.mask + 1 \in Pow2
      /\ r.capacity \in 0..(r.mask + 1) /\ r.mask \in Nat
  BY <1>1 DEF RingOK
<1>3. r.cells # <<>> => DOMAIN r.cells = 0..(r.mask) /\ r.capacity \in 1..(r.mask + 1)
  BY <1>1, <1>2 DEF RingOK
<1>4. r.cells = <<>> => r.capacity = 0
  <2>1. ASSUME r.cells = <<>>, r.cells \in [0..(r.mask) -> Values \union {Raw}] PROVE FALSE
    <3>1. DOMAIN r.cells = {} /\ DOMAIN r.cells = 0..(r.mask) BY <2>1
    <3>2. 0 \in 0..(r.mask) BY <1>2
    <3> QED BY <3>1, <3>2
  <2> QED BY <2>1, <1>1 DEF RingOK
<1>5. \A k \in 0..(r.mask) : Index(r, k) = Cell(r, k) /\ Cell(r, k) \in 0..(r.mask)
  <2>1. \A k \in 0..(r.mask) : k \in Nat /\ k <= r.mask + 1 BY <1>2
  <2> QED BY <2>1, <1>2, CellFacts
<1>6. \A k \in 0..(r.mask) : k < r.numElements <=> k \in 0..(r.numElements - 1) BY <1>2
<1>7. \A k \in 0..(r.numElements - 1) : k \in 0..(r.mask) BY <1>2
<1>8. \A i \in DOMAIN r.cells : r.cells[i] # Raw <=> \E k \in 0..(r.numElements - 1) : i = Cell(r, k)
  BY <1>1 DEF RingOK, Held
<1>9. ASSUME NEW k \in 0..(r.mask), k < r.numElements PROVE Cell(r, k) \in DOMAIN r.cells
  <2>1. r.capacity # 0 BY <1>2, <1>9
  <2> QED BY <2>1, <1>3, <1>4, <1>5
<1>10. {i \in DOMAIN r.cells : r.cells[i] # Raw} = {Index(r, k) : k \in {n \in 0..(r.mask) : n < r.numElements}}
  BY <1>5, <1>6, <1>7, <1>8, <1>9
<1> QED BY <1>2, <1>3, <1>4, <1>10

(* RingDeque implements Deque: each call does to the sequence of the       *)
(* elements from the front what the deque's call does, and exactly the     *)
(* cells of the window are constructed, for any number of deques, any      *)
(* elements and capacities and any width of size_t, however often the      *)
(* front index wrapped (RingDeque.hpp, all members).                       *)
THEOREM RingImplementsDeque == ASSUME RingAssumption PROVE RingSpec => RingIsDeque
<1>1. RingInit => RingInv /\ D!Init BY StartsRight
<1>2. RingInv /\ [RingNext]_ring => RingInv' /\ [D!Next]_(D!dvars)
  <2>1. ASSUME RingInv, RingNext PROVE RingInv' /\ [D!Next]_(D!dvars) BY <2>1, StepsRight
  <2>2. ASSUME RingInv, UNCHANGED ring PROVE RingInv' /\ [D!Next]_(D!dvars) BY <2>2, StutterRight
  <2> QED BY <2>1, <2>2
<1>3. RingInv => RingTypeOK /\ ConstructedExactly BY MemoryRight
<1> QED BY <1>1, <1>2, <1>3, PTL DEF RingSpec, RingIsDeque, DequeSpec, D!Spec

-----------------------------------------------------------------------------
(* Counting.                                                               *)
One(b) == IF b THEN 1 ELSE 0
Occ(q, x) == Cardinality(Occurs(q, x))

\* What occurs in a sequence can be counted.
LEMMA OccType ==
  ASSUME NEW S, NEW q \in Seq(S), NEW x
  PROVE  /\ IsFiniteSet(Occurs(q, x)) /\ Occ(q, x) \in Nat
         /\ Occ(q, x) = 0 <=> \A i \in DOMAIN q : q[i] # x
<1>1. DOMAIN q = 1..Len(q) /\ Len(q) \in Nat OBVIOUS
<1>2. IsFiniteSet(1..Len(q)) BY <1>1, FS_Interval
<1>3. Occurs(q, x) \in SUBSET (1..Len(q)) BY <1>1 DEF Occurs
<1>4. IsFiniteSet(Occurs(q, x)) BY <1>2, <1>3, FS_Subset
<1>5. Occ(q, x) \in Nat BY <1>4, FS_CardinalityType DEF Occ
<1>6. Occ(q, x) = 0 <=> Occurs(q, x) = {} BY <1>4, FS_EmptySet DEF Occ
<1> QED BY <1>4, <1>5, <1>6 DEF Occurs

\* Nothing occurs in the empty sequence, and one element in a sequence of one.
LEMMA OccEmpty == \A x : Occ(<<>>, x) = 0
<1> TAKE x
<1>1. <<>> \in Seq({}) /\ DOMAIN <<>> = {} OBVIOUS
<1>2. Occurs(<<>>, x) = {} BY <1>1 DEF Occurs
<1> QED BY <1>2, FS_EmptySet DEF Occ

LEMMA OccSingle ==
  ASSUME NEW x, NEW y
  PROVE  Occ(<<y>>, x) = One(y = x)
<1>1. DOMAIN <<y>> = {1} /\ <<y>>[1] = y OBVIOUS
<1>2. Occurs(<<y>>, x) = IF y = x THEN {1} ELSE {} BY <1>1 DEF Occurs
<1>3. Cardinality({1}) = 1 /\ Cardinality({}) = 0 BY FS_Singleton, FS_EmptySet
<1> QED BY <1>2, <1>3 DEF Occ, One

\* What occurs in two sequences that follow each other.
LEMMA OccJoin ==
  ASSUME NEW S, NEW p \in Seq(S), NEW q \in Seq(S), NEW x
  PROVE  Occ(p \o q, x) = Occ(p, x) + Occ(q, x)
<1> DEFINE n == Len(p)
           A == Occurs(p, x)
           B == Occurs(q, x)
           C == {i \in DOMAIN (p \o q) : i > n /\ (p \o q)[i] = x}
           f == [i \in B |-> n + i]
<1>1. /\ n \in Nat /\ Len(q) \in Nat /\ DOMAIN p = 1..n /\ DOMAIN q = 1..Len(q)
      /\ DOMAIN (p \o q) = 1..(n + Len(q))
      /\ \A i \in 1..n : (p \o q)[i] = p[i]
      /\ \A i \in 1..Len(q) : (p \o q)[n + i] = q[i]
  OBVIOUS
<1>2. IsFiniteSet(A) /\ IsFiniteSet(B) /\ Cardinality(A) \in Nat /\ Cardinality(B) \in Nat
  BY OccType DEF Occ
<1>3. Occurs(p \o q, x) = A \union C BY <1>1 DEF Occurs
<1>4. A \cap C = {} BY <1>1 DEF Occurs
<1>5. f \in Bijection(B, C)
  <2>1. \A i \in B : i \in 1..Len(q) /\ q[i] = x BY <1>1 DEF Occurs
  <2>2. f \in [B -> C] BY <1>1, <2>1
  <2>3. \A i, j \in B : f[i] = f[j] => i = j BY <1>1, <2>1
  <2>4. ASSUME NEW c \in C PROVE \E i \in B : f[i] = c
    <3>1. c - n \in 1..Len(q) /\ n + (c - n) = c BY <1>1
    <3>2. c - n \in B BY <3>1, <1>1 DEF Occurs
    <3> QED BY <3>1, <3>2
  <2> QED BY <2>2, <2>3, <2>4 DEF Bijection, Injection, Surjection, IsInjective
<1>6. IsFiniteSet(C) /\ Cardinality(C) = Cardinality(B)
  BY <1>2, <1>5, FS_Bijection DEF ExistsBijection
<1> HIDE DEF A, B, C
<1>7. Cardinality(A \union C) = Cardinality(A) + Cardinality(C)
  <2>1. Cardinality(A \union C) = Cardinality(A) + Cardinality(C) - Cardinality(A \cap C)
    BY <1>2, <1>6, FS_Union, Zenon
  <2>2. Cardinality(A \cap C) = 0 BY <1>4, FS_EmptySet
  <2> QED BY <2>1, <2>2, <1>2, <1>6
<1> QED BY <1>3, <1>6, <1>7 DEF Occ, A, B

\* What occurs in a sequence with one more at its end, and with one in front.
LEMMA OccAppend ==
  ASSUME NEW S, NEW q \in Seq(S), NEW y \in S, NEW x
  PROVE  Occ(Append(q, y), x) = Occ(q, x) + One(y = x)
<1>1. Append(q, y) = q \o <<y>> /\ <<y>> \in Seq(S) OBVIOUS
<1>2. Occ(q \o <<y>>, x) = Occ(q, x) + Occ(<<y>>, x) BY <1>1, OccJoin
<1> QED BY <1>1, <1>2, OccSingle

LEMMA OccTail ==
  ASSUME NEW S, NEW q \in Seq(S), q # <<>>, NEW x
  PROVE  Occ(q, x) = One(Head(q) = x) + Occ(Tail(q), x)
<1>1. q = <<Head(q)>> \o Tail(q) /\ <<Head(q)>> \in Seq(S) /\ Tail(q) \in Seq(S)
  <2> DEFINE r == <<Head(q)>> \o Tail(q)
  <2>1. /\ Len(q) \in Nat \ {0} /\ Head(q) = q[1] /\ Head(q) \in S /\ Tail(q) \in Seq(S) /\ Len(Tail(q)) = Len(q) - 1
        /\ \A i \in 1..(Len(q) - 1) : Tail(q)[i] = q[i + 1]
    <3>1. Len(q) \in Nat \ {0} BY EmptySeq
    <3>2. /\ Head(q) \in S /\ Tail(q) \in Seq(S) /\ Len(Tail(q)) = Len(q) - 1
          /\ \A i \in 1..Len(Tail(q)) : Tail(q)[i] = q[i + 1]
      BY HeadTailProperties, Zenon
    <3> QED BY <3>1, <3>2
  <2>2. <<Head(q)>> \in Seq(S) /\ Len(<<Head(q)>>) = 1 /\ <<Head(q)>>[1] = q[1] BY <2>1
  <2>3. /\ r \in Seq(S) /\ Len(r) = 1 + (Len(q) - 1)
        /\ \A i \in 1..(1 + (Len(q) - 1)) : r[i] = IF i <= 1 THEN q[1] ELSE Tail(q)[i - 1]
    <3>1. /\ r \in Seq(S) /\ Len(r) = Len(<<Head(q)>>) + Len(Tail(q))
          /\ \A i \in 1..(Len(<<Head(q)>>) + Len(Tail(q))) :
               r[i] = IF i <= Len(<<Head(q)>>) THEN <<Head(q)>>[i] ELSE Tail(q)[i - Len(<<Head(q)>>)]
      BY <2>1, <2>2, ConcatProperties, SMT
    <3> HIDE DEF r
    <3>2. \A i \in 1..(1 + (Len(q) - 1)) : i <= 1 => i = 1 BY <2>1
    <3> QED BY <3>1, <3>2, <2>1, <2>2
  <2> HIDE DEF r
  <2>4. Len(r) = Len(q) BY <2>1, <2>3
  <2>5. ASSUME NEW i \in 1..Len(r) PROVE r[i] = q[i]
    <3>1. CASE i = 1 BY <3>1, <2>1, <2>3
    <3>2. CASE i # 1
      <4>1. i - 1 \in 1..(Len(q) - 1) /\ (i - 1) + 1 = i BY <3>2, <2>1, <2>4
      <4> QED BY <4>1, <3>2, <2>1, <2>3, <2>4
    <3> QED BY <3>1, <3>2
  <2>6. r = q BY <2>3, <2>4, <2>5, SeqEqual
  <2> QED BY <2>1, <2>2, <2>6 DEF r
<1>2. Occ(<<Head(q)>> \o Tail(q), x) = Occ(<<Head(q)>>, x) + Occ(Tail(q), x) BY <1>1, OccJoin
<1> QED BY <1>1, <1>2, OccSingle

\* The operations on the counters of a sequence of buffers.
LEMMA OccDo ==
  ASSUME NEW S, NEW q \in Seq(S), NEW op
  PROVE  /\ Do(op, q) \in Seq([op : {op}, b : S])
         /\ \A b : Occ(Do(op, q), [op |-> op, b |-> b]) = Occ(q, b)
         /\ \A x : (\A c : x # [op |-> op, b |-> c]) => Occ(Do(op, q), x) = 0
<1>1. Do(op, q) \in Seq([op : {op}, b : S])
  <2>1. Len(q) \in Nat /\ DOMAIN q = 1..Len(q) /\ \A i \in 1..Len(q) : q[i] \in S
    BY LenProperties, ElementOfSeq
  <2>2. Do(op, q) \in [1..Len(q) -> [op : {op}, b : S]] BY <2>1 DEF Do
  <2>3. Do(op, q) \in UNION {[1..n -> [op : {op}, b : S]] : n \in Nat} BY <2>1, <2>2
  <2> QED BY <2>3, SeqDef, Zenon
<1>2. ASSUME NEW b PROVE Occurs(Do(op, q), [op |-> op, b |-> b]) = Occurs(q, b)
  <2>1. \A i \in DOMAIN q : [op |-> op, b |-> q[i]] = [op |-> op, b |-> b] <=> q[i] = b OBVIOUS
  <2> QED BY <2>1 DEF Occurs, Do
<1>3. \A x : (\A c : x # [op |-> op, b |-> c]) => Occ(Do(op, q), x) = 0
  BY <1>1, OccType DEF Do
<1> QED BY <1>1, <1>2, <1>3 DEF Occ

\* Sets that can be counted, all together.
Countable(F) == IsFiniteSet(DOMAIN F) /\ \A k \in DOMAIN F : IsFiniteSet(F[k])
Pairs(F) == UNION {{k} \X F[k] : k \in DOMAIN F}

\* The pairs of a key and an element, counted one by one.
LEMMA PairsAre == ASSUME NEW F PROVE Pairs(F) = {p \in (DOMAIN F) \X (UNION {F[k] : k \in DOMAIN F}) : p[2] \in F[p[1]]}
BY DEF Pairs

LEMMA PairsFinite ==
  ASSUME NEW F, Countable(F)
  PROVE  IsFiniteSet(Pairs(F)) /\ Total(F) \in Nat /\ (Total(F) = 0 <=> \A k \in DOMAIN F : F[k] = {})
<1> DEFINE all == {F[k] : k \in DOMAIN F}
<1>1. IsFiniteSet(all)
  <2> DEFINE g == [k \in DOMAIN F |-> F[k]]
  <2>1. g \in Surjection(DOMAIN F, all) BY DEF Surjection
  <2> HIDE DEF g, all
  <2> QED BY <2>1, FS_Surjection DEF Countable
<1>2. \A T \in all : IsFiniteSet(T) BY DEF Countable
<1> HIDE DEF all
<1>3. IsFiniteSet(UNION all) BY <1>1, <1>2, FS_UNION
<1>4. IsFiniteSet((DOMAIN F) \X (UNION all)) BY <1>3, FS_Product DEF Countable
<1>5. Pairs(F) \in SUBSET ((DOMAIN F) \X (UNION all)) BY PairsAre DEF all
<1>6. IsFiniteSet(Pairs(F)) BY <1>4, <1>5, FS_Subset
<1>7. Total(F) \in Nat /\ (Total(F) = 0 <=> Pairs(F) = {})
  BY <1>6, FS_CardinalityType, FS_EmptySet DEF Total, Pairs
<1>8. Pairs(F) = {} <=> \A k \in DOMAIN F : F[k] = {}
  <2>1. ASSUME NEW k \in DOMAIN F, NEW x \in F[k] PROVE <<k, x>> \in Pairs(F) BY DEF Pairs
  <2> QED BY <2>1, PairsAre
<1> QED BY <1>6, <1>7, <1>8

\* One of the sets changes.
LEMMA TotalChanged ==
  ASSUME NEW F, Countable(F), NEW G, Countable(G), DOMAIN G = DOMAIN F, NEW k \in DOMAIN F,
         \A j \in (DOMAIN F) \ {k} : G[j] = F[j]
  PROVE  Total(G) + Cardinality(F[k]) = Total(F) + Cardinality(G[k])
<1> DEFINE others == {p \in Pairs(F) : p[1] # k}
<1>1. IsFiniteSet(others) /\ Cardinality(others) \in Nat
  <2>1. others \in SUBSET Pairs(F) OBVIOUS
  <2> QED BY <2>1, PairsFinite, FS_Subset, FS_CardinalityType
<1>2. ASSUME NEW S, IsFiniteSet(S)
      PROVE  Cardinality(others \union ({k} \X S)) = Cardinality(others) + Cardinality(S)
  <2>1. IsFiniteSet({k} \X S) /\ Cardinality({k} \X S) = Cardinality(S)
    <3>1. IsFiniteSet({k}) /\ Cardinality({k}) = 1 BY FS_Singleton
    <3>2. IsFiniteSet({k} \X S) /\ Cardinality({k} \X S) = Cardinality({k}) * Cardinality(S)
      BY <3>1, <1>2, FS_Product
    <3>3. Cardinality(S) \in Nat BY <1>2, FS_CardinalityType
    <3> QED BY <3>1, <3>2, <3>3
  <2>2. others \cap ({k} \X S) = {} OBVIOUS
  <2> HIDE DEF others
  <2>3. Cardinality(others \cup ({k} \X S)) = Cardinality(others) + Cardinality({k} \X S) - Cardinality(others \cap ({k} \X S))
    BY <1>1, <2>1, FS_Union, Zenon
  <2>4. Cardinality(others \cap ({k} \X S)) = 0 BY <2>2, FS_EmptySet
  <2>5. Cardinality(S) \in Nat BY <1>2, FS_CardinalityType
  <2> QED BY <2>1, <2>3, <2>4, <2>5, <1>1
<1>3. Pairs(F) = others \union ({k} \X F[k])
  BY DEF Pairs
<1>4. Pairs(G) = others \union ({k} \X G[k])
  <2>1. ASSUME NEW j \in DOMAIN F, j # k PROVE {j} \X G[j] \subseteq others BY <2>1 DEF Pairs
  <2>2. Pairs(G) \subseteq others \union ({k} \X G[k]) BY <2>1 DEF Pairs
  <2>3. others \subseteq Pairs(G) BY DEF Pairs
  <2>4. {k} \X G[k] \subseteq Pairs(G) BY DEF Pairs
  <2> QED BY <2>2, <2>3, <2>4
<1> HIDE DEF others
<1>5. Total(F) = Cardinality(others) + Cardinality(F[k]) BY <1>2, <1>3 DEF Total, Pairs, Countable
<1>6. Total(G) = Cardinality(others) + Cardinality(G[k]) BY <1>2, <1>4 DEF Total, Pairs, Countable
<1>7. Cardinality(F[k]) \in Nat /\ Cardinality(G[k]) \in Nat BY FS_CardinalityType DEF Countable
<1> QED BY <1>1, <1>5, <1>6, <1>7

\* None of them is larger than another.
LEMMA TotalBound ==
  ASSUME NEW F, Countable(F), NEW G, Countable(G), DOMAIN G = DOMAIN F,
         \A k \in DOMAIN F : Cardinality(F[k]) <= Cardinality(G[k])
  PROVE  Total(F) <= Total(G)
<1>1. ASSUME NEW S, NEW T, IsFiniteSet(S), IsFiniteSet(T), Cardinality(S) <= Cardinality(T)
      PROVE  \E f \in [S -> T] : \A x, y \in S : f[x] = f[y] => x = y
  <2>1. /\ Cardinality(S) \in Nat /\ ExistsBijection(1..Cardinality(S), S)
        /\ Cardinality(T) \in Nat /\ ExistsBijection(1..Cardinality(T), T)
    BY <1>1, FS_CardinalityType
  <2>2. PICK g \in [1..Cardinality(S) -> S] : \A x \in S : \E i \in 1..Cardinality(S) : g[i] = x
    BY <2>1 DEF ExistsBijection, Bijection, Surjection
  <2>3. PICK h \in [1..Cardinality(T) -> T] : \A i, j \in 1..Cardinality(T) : h[i] = h[j] => i = j
    BY <2>1 DEF ExistsBijection, Bijection, Injection, IsInjective
  <2> DEFINE at(x) == CHOOSE i \in 1..Cardinality(S) : g[i] = x
             f == [x \in S |-> h[at(x)]]
  <2>4. \A x \in S : at(x) \in 1..Cardinality(S) /\ g[at(x)] = x BY <2>2
  <2> HIDE DEF at
  <2>5. \A x \in S : at(x) \in 1..Cardinality(T) BY <1>1, <2>1, <2>4
  <2>6. f \in [S -> T] BY <2>3, <2>5
  <2>7. ASSUME NEW x \in S, NEW y \in S, f[x] = f[y] PROVE x = y
    <3>1. h[at(x)] = h[at(y)] BY <2>7
    <3>2. at(x) = at(y) BY <3>1, <2>3, <2>5
    <3> QED BY <3>2, <2>4
  <2> QED BY <2>6, <2>7
<1> DEFINE into(k) == CHOOSE f \in [F[k] -> G[k]] : \A x, y \in F[k] : f[x] = f[y] => x = y
           m == [p \in Pairs(F) |-> <<p[1], into(p[1])[p[2]]>>]
<1>2. ASSUME NEW k \in DOMAIN F
      PROVE  into(k) \in [F[k] -> G[k]] /\ \A x, y \in F[k] : into(k)[x] = into(k)[y] => x = y
  BY <1>1 DEF Countable
<1> HIDE DEF into
<1>3. \A p \in Pairs(F) : p = <<p[1], p[2]>> /\ p[1] \in DOMAIN F /\ p[2] \in F[p[1]] BY PairsAre
<1>4. m \in [Pairs(F) -> Pairs(G)]
  <2>1. ASSUME NEW p \in Pairs(F) PROVE <<p[1], into(p[1])[p[2]]>> \in Pairs(G)
    <3>1. into(p[1])[p[2]] \in G[p[1]] BY <1>2, <1>3
    <3> QED BY <3>1, <1>3 DEF Pairs
  <2> QED BY <2>1
<1>5. ASSUME NEW p \in Pairs(F), NEW r \in Pairs(F), m[p] = m[r] PROVE p = r
  <2>1. p[1] = r[1] /\ into(p[1])[p[2]] = into(r[1])[r[2]] BY <1>5
  <2>2. p[2] = r[2] BY <2>1, <1>2, <1>3
  <2> QED BY <2>1, <2>2, <1>3
<1> HIDE DEF m
<1>6. m \in Injection(Pairs(F), Pairs(G)) BY <1>4, <1>5 DEF Injection, IsInjective
<1>7. Cardinality(Pairs(F)) <= Cardinality(Pairs(G)) BY <1>6, PairsFinite, FS_Injection
<1> QED BY <1>7 DEF Total, Pairs

-----------------------------------------------------------------------------
(* The chain of the buffers.                                               *)
LEMMA SlabIs ==
  ASSUME ChunksAssumption
  PROVE  LastIndex \in Nat /\ Slab = 0..LastIndex
<1>1. \E n \in Slab : Slab = 0..n BY DEF ChunksAssumption
<1>2. LastIndex \in Slab /\ Slab = 0..LastIndex BY <1>1 DEF LastIndex
<1> QED BY <1>2 DEF ChunksAssumption

\* The buffers behind one are in the slab, and as many as can be reached.
LEMMA Chain ==
  ASSUME ChunksAssumption, looped \in BOOLEAN, NEW b \in Slab, NEW n \in Nat
  PROVE  /\ Reach(b, n) \in 0..n /\ Reach(b, Reach(b, n)) = Reach(b, n)
         /\ Following(b, n) \in Seq(Slab) /\ Len(Following(b, n)) = Reach(b, n)
         /\ \A k \in 1..Reach(b, n) : Following(b, n)[k] = After(b, k)
<1>1. LastIndex \in Nat /\ Slab = 0..LastIndex BY SlabIs
<1>2. Reach(b, n) \in 0..n BY <1>1 DEF Reach
<1>3. Reach(b, Reach(b, n)) = Reach(b, n)
  <2>1. CASE looped BY <2>1 DEF Reach
  <2>2. CASE ~ looped /\ b + n \in Slab BY <2>2 DEF Reach
  <2>3. CASE ~ looped /\ b + n \notin Slab
    <3>1. Reach(b, n) = LastIndex - b BY <2>3 DEF Reach
    <3>2. b + (LastIndex - b) = LastIndex BY <1>1
    <3>3. Reach(b, LastIndex - b) = LastIndex - b BY <1>1, <3>2 DEF Reach
    <3> QED BY <3>1, <3>3
  <2> QED BY <2>1, <2>2, <2>3
<1>4. ASSUME NEW k \in 1..Reach(b, n) PROVE After(b, k) \in Slab
  <2>1. k \in Nat /\ k <= Reach(b, n) /\ b \in Nat /\ b + k \in Nat BY <1>1, <1>2
  <2>2. CASE looped
    <3>1. \A m, d \in Nat : d # 0 => m % d \in 0..(d - 1) OBVIOUS
    <3>2. /\ b + k \in Nat /\ LastIndex + 1 \in Nat /\ LastIndex + 1 # 0 /\ (LastIndex + 1) - 1 = LastIndex
      BY <1>1, <2>1
    <3>3. (b + k) % (LastIndex + 1) \in 0..LastIndex BY <3>1, <3>2, Zenon
    <3>4. After(b, k) = (b + k) % (LastIndex + 1) BY <2>2 DEF After
    <3> QED BY <1>1, <3>3, <3>4
  <2>3. CASE ~ looped
    <3>1. Reach(b, n) <= LastIndex - b BY <1>1, <2>3 DEF Reach
    <3>2. b + k \in 0..LastIndex BY <1>1, <1>2, <2>1, <3>1
    <3> QED BY <1>1, <2>3, <3>2 DEF After
  <2> QED BY <2>2, <2>3
<1>5. Reach(b, n) \in Nat BY <1>2
<1> HIDE DEF Reach
<1>6. Following(b, n) = [k \in 1..Reach(b, n) |-> After(b, k)] BY DEF Following
<1>7. Following(b, n) \in [1..Reach(b, n) -> Slab] BY <1>4, <1>6
<1>8. Following(b, n) \in Seq(Slab)
  <2>1. Following(b, n) \in UNION {[1..m -> Slab] : m \in Nat} BY <1>5, <1>7
  <2> QED BY <2>1, SeqDef, Zenon
<1>9. Len(Following(b, n)) = Reach(b, n)
  <2>1. DOMAIN Following(b, n) = 1..Reach(b, n) BY <1>6
  <2> QED BY <1>5, <1>8, <2>1, LenProperties
<1> QED BY <1>2, <1>3, <1>6, <1>8, <1>9

-----------------------------------------------------------------------------
(* Chunks.                                                                 *)

\* A chunk counts what it reaches into.
ChunkSet ==
  {c \in [impl : Slab \union {NoBuffer}, span : Nat, next : Nat] :
     IF c.impl = NoBuffer THEN c = NoChunk ELSE c.next = Reach(c.impl, c.span)}

\* What a chunk takes and what it gives up is what it uses, and a copy is like it.
LEMMA ChunkFacts ==
  ASSUME ChunksAssumption, looped \in BOOLEAN, NEW c \in ChunkSet
  PROVE  /\ Uses(c) \in Seq(Slab) /\ CopyOf(c) = c
         /\ Taken(c) \in Seq([op : {"incr"}, b : Slab]) /\ Drop(c) \in Seq([op : {"decr"}, b : Slab])
         /\ \A b : /\ Occ(Taken(c), [op |-> "incr", b |-> b]) = Occ(Uses(c), b)
                   /\ Occ(Drop(c), [op |-> "decr", b |-> b]) = Occ(Uses(c), b)
         /\ c.impl \in Slab => Occ(Uses(c), c.impl) > 0
<1>1. CASE c.impl = NoBuffer
  <2>1. c = NoChunk /\ Uses(c) = <<>> /\ Taken(c) = <<>> /\ CopyOf(c) = c BY <1>1 DEF ChunkSet, Uses, Taken, CopyOf
  <2>2. Drop(c) = <<>> BY <2>1 DEF Drop, Do
  <2> QED BY <1>1, <2>1, <2>2, OccEmpty DEF ChunksAssumption
<1>2. CASE c.impl # NoBuffer
  <2> DEFINE f == Following(c.impl, c.next)
             i == c.impl
  <2>1. i \in Slab /\ c.span \in Nat /\ c.next \in Nat /\ c.next = Reach(i, c.span) BY <1>2 DEF ChunkSet
  <2>2. Following(i, c.span) = f BY <2>1, Chain DEF Following
  <2>3. f \in Seq(Slab) /\ Len(f) = c.next BY <2>1, Chain
  <2>4. Uses(c) = Append(f, i) BY <1>2 DEF Uses
  <2>5. Taken(c) = Do("incr", <<i>> \o f) BY <1>2, <2>2 DEF Taken
  <2>6. CopyOf(c) = c
    <3>1. CopyOf(c) = [c EXCEPT !.next = c.next] BY <1>2, <2>2, <2>3 DEF CopyOf
    <3> QED BY <3>1 DEF ChunkSet
  <2> HIDE DEF f, i
  <2>7. Uses(c) \in Seq(Slab) /\ <<i>> \in Seq(Slab) /\ <<i>> \o f \in Seq(Slab) BY <2>1, <2>3, <2>4
  <2>8. \A b : Occ(Uses(c), b) = Occ(f, b) + One(i = b) BY <2>1, <2>3, <2>4, OccAppend
  <2>9. ASSUME NEW b PROVE Occ(<<i>> \o f, b) = One(i = b) + Occ(f, b)
    <3>1. Occ(<<i>> \o f, b) = Occ(<<i>>, b) + Occ(f, b) BY <2>3, <2>7, OccJoin
    <3> QED BY <3>1, OccSingle
  <2>10. /\ Taken(c) \in Seq([op : {"incr"}, b : Slab])
         /\ \A b : Occ(Taken(c), [op |-> "incr", b |-> b]) = Occ(<<i>> \o f, b)
    <3> DEFINE g == <<i>> \o f
    <3>1. g \in Seq(Slab) /\ Taken(c) = Do("incr", g) BY <2>5, <2>7
    <3> HIDE DEF g
    <3>2. /\ Do("incr", g) \in Seq([op : {"incr"}, b : Slab])
          /\ \A b : Occ(Do("incr", g), [op |-> "incr", b |-> b]) = Occ(g, b)
      BY <3>1, OccDo
    <3> QED BY <3>1, <3>2 DEF g
  <2>11. /\ Drop(c) \in Seq([op : {"decr"}, b : Slab])
         /\ \A b : Occ(Drop(c), [op |-> "decr", b |-> b]) = Occ(Uses(c), b)
    BY <2>7, OccDo DEF Drop
  <2>12. \A b : Occ(f, b) \in Nat BY <2>3, OccType
  <2>13. ASSUME NEW b PROVE Occ(Taken(c), [op |-> "incr", b |-> b]) = Occ(Uses(c), b)
    <3>1. Occ(Taken(c), [op |-> "incr", b |-> b]) = One(i = b) + Occ(f, b) BY <2>9, <2>10
    <3>2. Occ(Uses(c), b) = Occ(f, b) + One(i = b) BY <2>8
    <3>3. Occ(f, b) \in Nat /\ One(i = b) \in Nat BY <2>12 DEF One
    <3> QED BY <3>1, <3>2, <3>3
  <2>14. Occ(Uses(c), i) > 0 BY <2>8, <2>12 DEF One
  <2> QED BY <2>6, <2>7, <2>10, <2>11, <2>13, <2>14 DEF i
<1> QED BY <1>1, <1>2

\* How often the chunks refer to a buffer.
Refs(ch, b) == Total([p \in AllSlots |-> Occurs(Uses(ch[p[1]][p[2]]), b)])
Chunked(ch) == \A t \in Workers : \A s \in Slots[t] : ch[t][s] \in ChunkSet

\* The places of all threads, and the references from them, can be counted.
LEMMA SlotsFinite ==
  ASSUME ChunksAssumption
  PROVE  IsFiniteSet(AllSlots) /\ \A p : p \in AllSlots <=> \E t \in Workers : \E s \in Slots[t] : p = <<t, s>>
<1> DEFINE F == [t \in Workers |-> Slots[t]]
<1>1. Countable(F) BY DEF ChunksAssumption, Countable, Workers
<1>2. Pairs(F) = AllSlots BY DEF Pairs, AllSlots
<1>3. IsFiniteSet(AllSlots) BY <1>1, <1>2, PairsFinite
<1>4. \A p : p \in AllSlots <=> \E t \in Workers : \E s \in Slots[t] : p = <<t, s>> BY DEF AllSlots
<1> QED BY <1>3, <1>4

LEMMA RefsCountable ==
  ASSUME ChunksAssumption, looped \in BOOLEAN, NEW ch, Chunked(ch), NEW b
  PROVE  LET F == [p \in AllSlots |-> Occurs(Uses(ch[p[1]][p[2]]), b)]
         IN  Countable(F) /\ DOMAIN F = AllSlots
<1> DEFINE F == [p \in AllSlots |-> Occurs(Uses(ch[p[1]][p[2]]), b)]
<1>1. ASSUME NEW p \in AllSlots PROVE IsFiniteSet(F[p])
  <2>1. PICK t \in Workers : \E s \in Slots[t] : p = <<t, s>> BY SlotsFinite
  <2>2. PICK s \in Slots[t] : p = <<t, s>> BY <2>1
  <2>3. ch[p[1]][p[2]] \in ChunkSet BY <2>2 DEF Chunked
  <2>4. Uses(ch[p[1]][p[2]]) \in Seq(Slab) BY <2>3, ChunkFacts
  <2> QED BY <2>4, OccType
<1>2. DOMAIN F = AllSlots OBVIOUS
<1> HIDE DEF F
<1>3. Countable(F) BY <1>1, <1>2, SlotsFinite DEF Countable
<1> QED BY <1>2, <1>3 DEF F

\* A buffer without references is used by no chunk.
LEMMA RefsType ==
  ASSUME ChunksAssumption, looped \in BOOLEAN, NEW ch, Chunked(ch), NEW b
  PROVE  /\ Refs(ch, b) \in Nat
         /\ Refs(ch, b) = 0 <=> \A t \in Workers : \A s \in Slots[t] : Occ(Uses(ch[t][s]), b) = 0
<1> DEFINE F == [p \in AllSlots |-> Occurs(Uses(ch[p[1]][p[2]]), b)]
<1>1. Countable(F) /\ DOMAIN F = AllSlots BY RefsCountable
<1>2. \A t \in Workers : \A s \in Slots[t] : <<t, s>> \in AllSlots /\ F[<<t, s>>] = Occurs(Uses(ch[t][s]), b)
  BY SlotsFinite
<1>3. Refs(ch, b) = Total(F) BY DEF Refs
<1> HIDE DEF F
<1>4. Refs(ch, b) \in Nat /\ (Refs(ch, b) = 0 <=> \A p \in AllSlots : F[p] = {}) BY <1>1, <1>3, PairsFinite
<1>5. \A t \in Workers : \A s \in Slots[t] : Occ(Uses(ch[t][s]), b) = 0 <=> F[<<t, s>>] = {}
  <2> TAKE t \in Workers
  <2> TAKE s \in Slots[t]
  <2>1. IsFiniteSet(F[<<t, s>>]) BY <1>1, <1>2 DEF Countable
  <2> QED BY <2>1, <1>2, FS_EmptySet DEF Occ
<1>6. (\A p \in AllSlots : F[p] = {}) <=> \A t \in Workers : \A s \in Slots[t] : F[<<t, s>>] = {}
  BY SlotsFinite
<1> QED BY <1>4, <1>5, <1>6

\* The chunk in one place changes.
LEMMA RefsChanged ==
  ASSUME ChunksAssumption, looped \in BOOLEAN, NEW ch, Chunked(ch), NEW ch2, Chunked(ch2), NEW b,
         NEW t \in Workers, NEW s \in Slots[t],
         \A u \in Workers : \A r \in Slots[u] : <<u, r>> # <<t, s>> => ch2[u][r] = ch[u][r]
  PROVE  Refs(ch2, b) + Occ(Uses(ch[t][s]), b) = Refs(ch, b) + Occ(Uses(ch2[t][s]), b)
<1> DEFINE F == [p \in AllSlots |-> Occurs(Uses(ch[p[1]][p[2]]), b)]
           G == [p \in AllSlots |-> Occurs(Uses(ch2[p[1]][p[2]]), b)]
<1>1. Countable(F) /\ DOMAIN F = AllSlots /\ Countable(G) /\ DOMAIN G = AllSlots BY RefsCountable
<1>2. <<t, s>> \in AllSlots BY SlotsFinite
<1>3. \A p \in AllSlots \ {<<t, s>>} : G[p] = F[p]
  <2> TAKE p \in AllSlots \ {<<t, s>>}
  <2>1. PICK u \in Workers : \E r \in Slots[u] : p = <<u, r>> BY SlotsFinite
  <2>2. PICK r \in Slots[u] : p = <<u, r>> BY <2>1
  <2>3. ch2[u][r] = ch[u][r] BY <2>2
  <2> QED BY <2>2, <2>3
<1>4. F[<<t, s>>] = Occurs(Uses(ch[t][s]), b) /\ G[<<t, s>>] = Occurs(Uses(ch2[t][s]), b) BY <1>2
<1>5. Refs(ch, b) = Total(F) /\ Refs(ch2, b) = Total(G) BY DEF Refs
<1> HIDE DEF F, G
<1>6. Total(G) + Cardinality(F[<<t, s>>]) = Total(F) + Cardinality(G[<<t, s>>])
  BY <1>1, <1>2, <1>3, TotalChanged
<1> QED BY <1>4, <1>5, <1>6 DEF Occ

-----------------------------------------------------------------------------
(* The invariant.                                                          *)
On(op, b) == [op |-> op, b |-> b]
release == [op |-> "release"]
unlock == [op |-> "unlock"]
Ops == [op : {"incr", "decr", "cleanup", "push"}, b : Slab] \union {release, unlock}

\* How often an operation is still to be done by all threads
Count(x) == Total([t \in Workers |-> Occurs(todo[t], x)])
Returns(b) == Count(On("cleanup", b)) + Count(On("push", b))

\* What the variables are; the chunks count what they reach into.
ShapesOK ==
  /\ looped \in BOOLEAN /\ counter \in [Slab -> Nat] /\ freed \subseteq Slab
  /\ ready \subseteq Slab /\ port \in BOOLEAN /\ strong \in Nat /\ portLock \in Workers \union {Nobody}
  /\ todo \in [Workers -> Seq(Ops)]
  /\ chunk = [t \in Workers |-> [s \in Slots[t] |-> chunk[t][s]]] /\ Chunked(chunk)

\* What is counted: references, up to the operations that are still to be done.
CountsOK ==
  \A b \in Slab : counter[b] + Count(On("incr", b)) = Refs(chunk, b) + One(b \in ready) + Count(On("decr", b))

\* A buffer whose counter is zero is used by nobody, and is on its way back or deleted.
LifeOK ==
  \A b \in Slab :
    /\ Returns(b) <= 1 /\ (b \in freed => Returns(b) = 0)
    /\ counter[b] = 0 <=> b \in freed \/ Returns(b) = 1
    /\ counter[b] = 0 => /\ Refs(chunk, b) = 0 /\ b \notin ready
                         /\ Count(On("incr", b)) = 0 /\ Count(On("decr", b)) = 0

(* What a thread is about to count is in one place d, and counted already  *)
(* for another place of the thread, or for the manager of the port.        *)
Backs(t, d, b) ==
  LET n == Occ(todo[t], On("incr", b))
  IN  /\ n <= Occ(Uses(chunk[t][d]), b)
      /\ n > 0 => \/ t = Producer /\ port /\ b \in ready
                 \/ \E s \in Slots[t] \ {d} : Occ(Uses(chunk[t][s]), b) > 0
BackedOK ==
  \A t \in Workers : \/ \A b \in Slab : Occ(todo[t], On("incr", b)) = 0
                     \/ \E d \in Slots[t] : \A b \in Slab : Backs(t, d, b)

\* Who pushes a buffer keeps the manager; without it there is nothing ready.
ManagerOK ==
  /\ strong = One(port) + Count(release)
  /\ strong = 0 => ready = {}
  /\ freed # {} => strong = 0
  /\ \A t \in Workers : \A i \in DOMAIN todo[t] :
       todo[t][i].op = "push" => i = 1 /\ Occ(todo[t], release) > 0

\* Under the lock no buffer is given back to the manager, if a popped one is still held.
Harmless(count, mine, o) ==
  /\ o.op # "push" /\ (o.op = "cleanup" => count = 0)
  /\ o.op = "decr" => count = 0 \/ \E s \in DOMAIN mine : mine[s].impl = o.b
LockedOK ==
  /\ held \in BOOLEAN
  /\ \A t \in Workers :
       /\ Occ(todo[t], unlock) = One(portLock = t)
       /\ portLock = t /\ held => \A i \in DOMAIN todo[t] : Harmless(strong, chunk[t], todo[t][i])

ChunksInv == ShapesOK /\ CountsOK /\ LifeOK /\ BackedOK /\ ManagerOK /\ LockedOK

-----------------------------------------------------------------------------
(* What the invariant counts, when a step changes it.                      *)

\* The operations differ in their kind and in their buffer.
LEMMA OpKinds ==
  /\ \A o \in Ops : /\ o.op = "release" => o = release
                    /\ o.op = "unlock" => o = unlock
                    /\ o.op \notin {"release", "unlock"} => o.b \in Slab /\ o = On(o.op, o.b)
  /\ \A op, b : On(op, b).op = op /\ On(op, b).b = b
  /\ release.op = "release" /\ unlock.op = "unlock"
<1>1. \A op, b : On(op, b).op = op /\ On(op, b).b = b BY DEF On
<1>2. release.op = "release" /\ unlock.op = "unlock" BY DEF release, unlock
<1>3. ASSUME NEW o \in [op : {"incr", "decr", "cleanup", "push"}, b : Slab]
      PROVE  o.op \notin {"release", "unlock"} /\ o.b \in Slab /\ o = On(o.op, o.b)
  BY DEF On
<1> QED BY <1>1, <1>2, <1>3 DEF Ops

\* The operations of one thread are among those of all.
LEMMA CountType ==
  ASSUME ShapesOK, ChunksAssumption, NEW x
  PROVE  /\ Count(x) \in Nat
         /\ \A t \in Workers : Occ(todo[t], x) \in Nat /\ Occ(todo[t], x) <= Count(x)
         /\ (\A t \in Workers : Occ(todo[t], x) = 0) => Count(x) = 0
<1> DEFINE F == [t \in Workers |-> Occurs(todo[t], x)]
<1>1. \A t \in Workers : todo[t] \in Seq(Ops) BY DEF ShapesOK
<1>2. \A t \in Workers : IsFiniteSet(F[t]) /\ F[t] = Occurs(todo[t], x) BY <1>1, OccType
<1>3. DOMAIN F = Workers /\ IsFiniteSet(Workers) BY DEF ChunksAssumption, Workers
<1>4. Count(x) = Total(F) BY DEF Count
<1> HIDE DEF F
<1>5. Countable(F) BY <1>2, <1>3 DEF Countable
<1>6. Count(x) \in Nat /\ (Count(x) = 0 <=> \A t \in Workers : F[t] = {}) BY <1>3, <1>4, <1>5, PairsFinite
<1>7. \A t \in Workers : Occ(todo[t], x) \in Nat /\ (Occ(todo[t], x) = 0 <=> F[t] = {})
  BY <1>2, FS_CardinalityType, FS_EmptySet DEF Occ
<1>8. ASSUME NEW t \in Workers PROVE Occ(todo[t], x) <= Count(x)
  <2> DEFINE G == [F EXCEPT ![t] = {}]
  <2>1. DOMAIN G = DOMAIN F /\ G[t] = {} /\ \A u \in DOMAIN F \ {t} : G[u] = F[u] BY <1>3
  <2> HIDE DEF G
  <2>2. Countable(G)
    <3>1. IsFiniteSet({}) BY FS_EmptySet
    <3> QED BY <1>3, <1>5, <2>1, <3>1 DEF Countable
  <2>3. Total(G) + Cardinality(F[t]) = Total(F) + Cardinality(G[t]) BY <1>3, <1>5, <2>1, <2>2, TotalChanged
  <2>4. Cardinality(G[t]) = 0 BY <2>1, FS_EmptySet
  <2>5. Total(G) \in Nat BY <2>2, PairsFinite
  <2> QED BY <1>2, <1>4, <1>6, <1>7, <2>3, <2>4, <2>5 DEF Occ
<1> QED BY <1>6, <1>7, <1>8

\* A thread has other operations to do.
LEMMA CountChanged ==
  ASSUME ShapesOK, ChunksAssumption, NEW t \in Workers, NEW q \in Seq(Ops), todo' = [todo EXCEPT ![t] = q]
  PROVE  /\ todo' \in [Workers -> Seq(Ops)] /\ todo'[t] = q
         /\ \A u \in Workers \ {t} : todo'[u] = todo[u]
         /\ \A x : Count(x)' \in Nat /\ Count(x)' + Occ(todo[t], x) = Count(x) + Occ(q, x)
<1>1. /\ todo' \in [Workers -> Seq(Ops)] /\ todo'[t] = q
      /\ \A u \in Workers \ {t} : todo'[u] = todo[u] BY DEF ShapesOK
<1>2. ASSUME NEW x PROVE Count(x)' \in Nat /\ Count(x)' + Occ(todo[t], x) = Count(x) + Occ(q, x)
  <2> DEFINE F == [u \in Workers |-> Occurs(todo[u], x)]
             G == [u \in Workers |-> Occurs(todo'[u], x)]
  <2>1. \A u \in Workers : todo[u] \in Seq(Ops) /\ todo'[u] \in Seq(Ops) BY <1>1 DEF ShapesOK
  <2>2. \A u \in Workers : IsFiniteSet(F[u]) /\ IsFiniteSet(G[u]) BY <2>1, OccType
  <2>3. DOMAIN F = Workers /\ DOMAIN G = Workers /\ IsFiniteSet(Workers) BY DEF ChunksAssumption, Workers
  <2>4. F[t] = Occurs(todo[t], x) /\ G[t] = Occurs(q, x) /\ \A u \in Workers \ {t} : G[u] = F[u] BY <1>1
  <2>5. Count(x) = Total(F) /\ Count(x)' = Total(G) BY DEF Count, Total, Occurs
  <2> HIDE DEF F, G
  <2>6. Countable(F) /\ Countable(G) BY <2>2, <2>3 DEF Countable
  <2>7. Total(G) + Cardinality(F[t]) = Total(F) + Cardinality(G[t]) BY <2>3, <2>4, <2>6, TotalChanged
  <2>8. Total(G) \in Nat BY <2>6, PairsFinite
  <2> QED BY <2>4, <2>5, <2>7, <2>8 DEF Occ
<1> QED BY <1>1, <1>2

\* A thread goes on, with other operations in the place of the first.
LEMMA Continues ==
  ASSUME ShapesOK, ChunksAssumption, NEW t \in Workers, ~ Idle(t), NEW ops \in Seq(Ops), Continue(t, ops)
  PROVE  /\ todo' \in [Workers -> Seq(Ops)] /\ First(t) \in Ops
         /\ \A u \in Workers \ {t} : todo'[u] = todo[u]
         /\ \A x : /\ Count(x)' \in Nat /\ Count(x)' + One(First(t) = x) = Count(x) + Occ(ops, x)
                   /\ Occ(todo'[t], x) \in Nat /\ Occ(ops, x) \in Nat
                   /\ Occ(todo'[t], x) + One(First(t) = x) = Occ(todo[t], x) + Occ(ops, x)
         /\ \A i \in DOMAIN todo'[t] : \/ i \in DOMAIN ops /\ todo'[t][i] = ops[i]
                                       \/ \E j \in DOMAIN todo[t] : j > 1 /\ todo'[t][i] = todo[t][j]
<1> DEFINE q == todo[t]
           r == ops \o Tail(q)
<1>1. q \in Seq(Ops) /\ q # <<>> BY DEF ShapesOK, Idle
<1>2. /\ Len(q) \in Nat \ {0} /\ DOMAIN q = 1..Len(q) /\ Len(ops) \in Nat /\ DOMAIN ops = 1..Len(ops)
  BY <1>1, EmptySeq
<1>3. /\ Head(q) \in Ops /\ Tail(q) \in Seq(Ops) /\ Len(Tail(q)) = Len(q) - 1
      /\ \A i \in 1..Len(Tail(q)) : Tail(q)[i] = q[i + 1]
  BY <1>1, HeadTailProperties, Zenon
<1>4. todo' = [todo EXCEPT ![t] = r]
  BY DEF Continue, ShapesOK
<1>5. r \in Seq(Ops) /\ Len(r) = Len(ops) + (Len(q) - 1)
      /\ \A i \in 1..Len(r) : r[i] = IF i <= Len(ops) THEN ops[i] ELSE Tail(q)[i - Len(ops)]
  <2> DEFINE p == Tail(q)
  <2> HIDE DEF q
  <2>1. p \in Seq(Ops) BY <1>3
  <2> HIDE DEF p
  <2>2. /\ ops \o p \in Seq(Ops) /\ Len(ops \o p) = Len(ops) + Len(p)
        /\ \A i \in 1..(Len(ops) + Len(p)) : (ops \o p)[i] = IF i <= Len(ops) THEN ops[i] ELSE p[i - Len(ops)]
    BY <2>1, ConcatProperties, SMT
  <2> QED BY <2>2, <1>3 DEF p
<1>6. ASSUME NEW x
      PROVE  /\ Occ(r, x) = Occ(ops, x) + Occ(Tail(q), x) /\ Occ(q, x) = One(Head(q) = x) + Occ(Tail(q), x)
             /\ Occ(r, x) \in Nat /\ Occ(ops, x) \in Nat /\ Occ(Tail(q), x) \in Nat /\ Occ(q, x) \in Nat
  <2>1. Occ(r, x) = Occ(ops, x) + Occ(Tail(q), x) BY <1>3, OccJoin
  <2>2. Occ(q, x) = One(Head(q) = x) + Occ(Tail(q), x) BY <1>1, OccTail
  <2>3. Occ(r, x) \in Nat BY <1>5, OccType
  <2>4. Occ(ops, x) \in Nat BY OccType
  <2>5. Occ(Tail(q), x) \in Nat BY <1>3, OccType
  <2>6. Occ(q, x) \in Nat BY <1>1, OccType
  <2> QED BY <2>1, <2>2, <2>3, <2>4, <2>5, <2>6
<1>7. ASSUME NEW i \in 1..Len(r)
      PROVE  \/ i \in DOMAIN ops /\ r[i] = ops[i]
             \/ \E j \in DOMAIN q : j > 1 /\ r[i] = q[j]
  <2>1. CASE i <= Len(ops) BY <2>1, <1>2, <1>5
  <2>2. CASE i > Len(ops)
    <3>1. i - Len(ops) \in 1..Len(Tail(q)) BY <2>2, <1>2, <1>3, <1>5
    <3>2. r[i] = q[(i - Len(ops)) + 1] BY <2>2, <3>1, <1>2, <1>3, <1>5
    <3>3. (i - Len(ops)) + 1 \in DOMAIN q /\ (i - Len(ops)) + 1 > 1 BY <3>1, <1>2, <1>3
    <3> QED BY <3>2, <3>3
  <2> QED BY <2>1, <2>2, <1>2
<1>8. DOMAIN r = 1..Len(r) BY <1>5
<1> HIDE DEF r
<1>9. /\ todo' \in [Workers -> Seq(Ops)] /\ todo'[t] = r
      /\ \A u \in Workers \ {t} : todo'[u] = todo[u]
      /\ \A x : Count(x)' \in Nat /\ Count(x)' + Occ(todo[t], x) = Count(x) + Occ(r, x)
  BY <1>4, <1>5, CountChanged
<1>10. First(t) = Head(q) BY DEF First
<1> HIDE DEF q
<1>11. ASSUME NEW x
       PROVE  /\ Count(x)' \in Nat /\ Count(x)' + One(First(t) = x) = Count(x) + Occ(ops, x)
              /\ Occ(todo'[t], x) \in Nat /\ Occ(ops, x) \in Nat
              /\ Occ(todo'[t], x) + One(First(t) = x) = Occ(todo[t], x) + Occ(ops, x)
  <2> DEFINE h == One(First(t) = x)
  <2>1. Count(x)' \in Nat /\ Count(x)' + Occ(q, x) = Count(x) + Occ(r, x) BY <1>9 DEF q
  <2>2. Count(x) \in Nat BY CountType
  <2>3. h \in Nat BY DEF One
  <2>4. Occ(todo'[t], x) = Occ(r, x) /\ Occ(todo[t], x) = Occ(q, x) BY <1>9 DEF q
  <2>5. h = One(Head(q) = x) BY <1>10
  <2> HIDE DEF h
  <2>6. Occ(q, x) = h + Occ(Tail(q), x) BY <1>6, <2>5, Zenon
  <2>7. /\ Occ(r, x) = Occ(ops, x) + Occ(Tail(q), x)
        /\ Occ(r, x) \in Nat /\ Occ(ops, x) \in Nat /\ Occ(Tail(q), x) \in Nat
    BY <1>6, Zenon
  <2>8. Count(x)' + h = Count(x) + Occ(ops, x)
    <3>1. Count(x)' + (h + Occ(Tail(q), x)) = Count(x) + (Occ(ops, x) + Occ(Tail(q), x))
      BY <2>1, <2>6, <2>7, Zenon
    <3>2. Count(x)' \in Nat BY <2>1
    <3>3. h \in Nat BY <2>3
    <3>4. Occ(Tail(q), x) \in Nat BY <2>7
    <3>5. Count(x) \in Nat BY <2>2
    <3>6. Occ(ops, x) \in Nat BY <2>7
    <3> QED BY <3>1, <3>2, <3>3, <3>4, <3>5, <3>6
  <2>9. Occ(todo'[t], x) + h = Occ(todo[t], x) + Occ(ops, x) BY <2>3, <2>4, <2>6, <2>7
  <2> QED BY <2>1, <2>4, <2>7, <2>8, <2>9 DEF h
<1>12. \A i \in DOMAIN todo'[t] : \/ i \in DOMAIN ops /\ todo'[t][i] = ops[i]
                                  \/ \E j \in DOMAIN todo[t] : j > 1 /\ todo'[t][i] = todo[t][j]
  BY <1>7, <1>8, <1>9 DEF q
<1> QED BY <1>3, <1>9, <1>10, <1>11, <1>12

\* The next buffers stay where they are.
LEMMA SameUses ==
  ASSUME looped' = looped
  PROVE  /\ \A b : Refs(chunk, b)' = Refs(chunk', b)
         /\ \A t, s, b : Occ(Uses(chunk[t][s]), b)' = Occ(Uses(chunk'[t][s]), b)
         /\ Chunked(chunk)' <=> Chunked(chunk')
<1>1. \A b : Refs(chunk, b)' = Refs(chunk', b)
  BY DEF Refs, Uses, Following, Reach, After, Occurs, Total
<1>2. \A t, s, b : Occ(Uses(chunk[t][s]), b)' = Occ(Uses(chunk'[t][s]), b)
  BY DEF Occ, Uses, Following, Reach, After, Occurs
<1>3. Chunked(chunk)' <=> Chunked(chunk')
  BY DEF Chunked, ChunkSet, Reach
<1> QED BY <1>1, <1>2, <1>3

\* Every count that is still to come is one of a chunk, and when the manager
\* does not have the buffer another chunk counts it already.
LEMMA Backing ==
  ASSUME ChunksAssumption, ShapesOK, BackedOK, NEW b \in Slab
  PROVE  /\ Count(On("incr", b)) <= Refs(chunk, b)
         /\ Count(On("incr", b)) > 0 /\ b \notin ready => Count(On("incr", b)) < Refs(chunk, b)
<1> DEFINE x == On("incr", b)
           place(t) == CHOOSE d \in Slots[t] : Backs(t, d, b)
           I == [t \in Workers |-> Occurs(todo[t], x)]
           H == [p \in AllSlots |-> IF p[2] = place(p[1]) THEN Occurs(todo[p[1]], x) ELSE {}]
           G == [p \in AllSlots |-> Occurs(Uses(chunk[p[1]][p[2]]), b)]
<1>1. Chunked(chunk) /\ looped \in BOOLEAN BY DEF ShapesOK
<1>2. Countable(G) /\ DOMAIN G = AllSlots BY <1>1, RefsCountable
<1>3. Refs(chunk, b) = Total(G) BY DEF Refs
<1>4. \A t \in Workers : \A s \in Slots[t] : <<t, s>> \in AllSlots /\ G[<<t, s>>] = Occurs(Uses(chunk[t][s]), b)
  BY SlotsFinite
<1>5. \A t \in Workers : IsFiniteSet(Occurs(todo[t], x)) /\ Occ(todo[t], x) \in Nat
  <2>1. \A t \in Workers : todo[t] \in Seq(Ops) BY DEF ShapesOK
  <2> QED BY <2>1, OccType
<1>6. ASSUME NEW t \in Workers, Occurs(todo[t], x) # {}
      PROVE  place(t) \in Slots[t] /\ Backs(t, place(t), b) /\ Occ(todo[t], x) > 0
  <2>1. Occ(todo[t], x) # 0 /\ Occ(todo[t], x) \in Nat BY <1>5, <1>6, FS_EmptySet DEF Occ
  <2>2. \E d \in Slots[t] : Backs(t, d, b) BY <2>1 DEF BackedOK
  <2> QED BY <2>1, <2>2
<1>7. Countable(H) /\ DOMAIN H = AllSlots
  <2>1. IsFiniteSet({}) BY FS_EmptySet
  <2>2. ASSUME NEW p \in AllSlots PROVE IsFiniteSet(H[p])
    <3>1. PICK t \in Workers : \E s \in Slots[t] : p = <<t, s>> BY SlotsFinite
    <3>2. p[1] = t BY <3>1
    <3> QED BY <2>1, <3>2, <1>5
  <2>3. DOMAIN H = AllSlots OBVIOUS
  <2> HIDE DEF H
  <2> QED BY <2>2, <2>3, SlotsFinite DEF Countable
<1>8. \A t \in Workers : \A s \in Slots[t] :
        H[<<t, s>>] = IF s = place(t) THEN Occurs(todo[t], x) ELSE {}
  <2> TAKE t \in Workers
  <2> TAKE s \in Slots[t]
  <2>1. <<t, s>> \in AllSlots /\ <<t, s>>[1] = t /\ <<t, s>>[2] = s BY <1>4
  <2> HIDE DEF place
  <2>2. H[<<t, s>>] = IF <<t, s>>[2] = place(<<t, s>>[1]) THEN Occurs(todo[<<t, s>>[1]], x) ELSE {} BY <2>1
  <2> QED BY <2>1, <2>2
<1>9. Countable(I) /\ DOMAIN I = Workers /\ \A t \in Workers : I[t] = Occurs(todo[t], x)
  BY <1>5 DEF Countable, ChunksAssumption, Workers
<1>10. Count(x) = Total(I) BY DEF Count
<1> HIDE DEF I, H, G, place
<1>11. Total(I) <= Total(H)
  <2> DEFINE m == [r \in Pairs(I) |-> << <<r[1], place(r[1])>>, r[2]>>]
  <2>1. \A r \in Pairs(I) : r = <<r[1], r[2]>> /\ r[1] \in Workers /\ r[2] \in Occurs(todo[r[1]], x)
    BY <1>9, PairsAre
  <2>2. ASSUME NEW r \in Pairs(I) PROVE << <<r[1], place(r[1])>>, r[2]>> \in Pairs(H)
    <3>1. place(r[1]) \in Slots[r[1]] /\ r[1] \in Workers BY <1>6, <2>1
    <3>2. <<r[1], place(r[1])>> \in AllSlots /\ H[<<r[1], place(r[1])>>] = Occurs(todo[r[1]], x)
      BY <1>4, <1>8, <3>1
    <3> QED BY <1>7, <2>1, <3>2 DEF Pairs
  <2>3. m \in [Pairs(I) -> Pairs(H)] BY <2>2
  <2>4. ASSUME NEW q \in Pairs(I), NEW r \in Pairs(I), m[q] = m[r] PROVE q = r
    <3>1. << <<q[1], place(q[1])>>, q[2]>> = << <<r[1], place(r[1])>>, r[2]>> BY <2>4
    <3>2. q[1] = r[1] /\ q[2] = r[2] BY <3>1
    <3> QED BY <2>1, <3>2
  <2> HIDE DEF m
  <2>5. m \in Injection(Pairs(I), Pairs(H)) BY <2>3, <2>4 DEF Injection, IsInjective
  <2>6. Cardinality(Pairs(I)) <= Cardinality(Pairs(H)) BY <2>5, <1>7, <1>9, PairsFinite, FS_Injection
  <2> QED BY <2>6 DEF Total, Pairs
<1>12. ASSUME NEW t \in Workers, NEW s \in Slots[t]
       PROVE  Cardinality(H[<<t, s>>]) <= Cardinality(G[<<t, s>>])
  <2>1. Cardinality({}) = 0 BY FS_EmptySet
  <2>2. Cardinality(G[<<t, s>>]) \in Nat BY <1>2, <1>4, FS_CardinalityType DEF Countable
  <2>3. CASE H[<<t, s>>] = {} BY <2>1, <2>2, <2>3
  <2>4. CASE H[<<t, s>>] # {}
    <3>1. s = place(t) /\ H[<<t, s>>] = Occurs(todo[t], x) BY <1>8, <2>4
    <3>2. Backs(t, s, b) BY <1>6, <2>4, <3>1
    <3> QED BY <1>4, <3>1, <3>2 DEF Backs, Occ
  <2> QED BY <2>3, <2>4
<1>13. \A p \in AllSlots : Cardinality(H[p]) <= Cardinality(G[p])
  <2> TAKE p \in AllSlots
  <2>1. PICK t \in Workers : \E s \in Slots[t] : p = <<t, s>> BY SlotsFinite
  <2>2. PICK s \in Slots[t] : p = <<t, s>> BY <2>1
  <2> QED BY <2>2, <1>12
<1>14. Total(H) <= Total(G) BY <1>2, <1>7, <1>13, TotalBound
<1>15. Total(I) \in Nat /\ Total(H) \in Nat /\ Total(G) \in Nat BY <1>2, <1>7, <1>9, PairsFinite
<1>16. ASSUME Count(x) > 0, b \notin ready PROVE Total(H) < Total(G)
  <2>1. PICK t \in Workers : Occ(todo[t], x) # 0 BY <1>16, <1>15, <1>10, CountType
  <2>2. Occurs(todo[t], x) # {} BY <2>1, FS_EmptySet DEF Occ
  <2>3. PICK s \in Slots[t] \ {place(t)} : Occ(Uses(chunk[t][s]), b) > 0
    BY <1>6, <1>16, <2>2 DEF Backs
  <2> DEFINE p0 == <<t, s>>
             less == [G EXCEPT ![p0] = {}]
  <2>4. p0 \in AllSlots /\ H[p0] = {} /\ Cardinality(G[p0]) > 0 BY <1>4, <1>8, <2>3 DEF Occ
  <2>5. DOMAIN less = AllSlots /\ less[p0] = {} /\ \A p \in AllSlots \ {p0} : less[p] = G[p] BY <1>2, <2>4
  <2> HIDE DEF less, p0
  <2>6. Cardinality({}) = 0 /\ IsFiniteSet({}) BY FS_EmptySet
  <2>7. Countable(less) BY <1>2, <2>5, <2>6 DEF Countable
  <2>8. Total(less) + Cardinality(G[p0]) = Total(G) + Cardinality(less[p0]) BY <1>2, <2>4, <2>5, <2>7, TotalChanged
  <2>9. \A p \in AllSlots : Cardinality(H[p]) <= Cardinality(less[p])
    <3> TAKE p \in AllSlots
    <3>1. CASE p = p0 BY <3>1, <2>4, <2>5, <2>6
    <3>2. CASE p # p0 BY <3>2, <2>5, <1>13
    <3> QED BY <3>1, <3>2
  <2>10. Total(H) <= Total(less) BY <1>7, <2>5, <2>7, <2>9, TotalBound
  <2>11. Cardinality(G[p0]) \in Nat /\ Total(less) \in Nat BY <1>2, <2>4, <2>7, PairsFinite, FS_CardinalityType DEF Countable
  <2> QED BY <1>15, <2>4, <2>5, <2>6, <2>8, <2>10, <2>11
<1>17. Count(x) <= Total(G) BY <1>10, <1>11, <1>14, <1>15
<1>18. Count(x) > 0 /\ b \notin ready => Count(x) < Total(G) BY <1>10, <1>11, <1>15, <1>16
<1> QED BY <1>3, <1>17, <1>18

\* Whoever gives up the last count of a buffer is the last one to have it.
LEMMA LastOne ==
  ASSUME ChunksAssumption, ShapesOK, CountsOK, BackedOK, NEW b \in Slab, Count(On("decr", b)) > 0
  PROVE  /\ counter[b] > 0
         /\ counter[b] = 1 => /\ Refs(chunk, b) = 0 /\ b \notin ready
                              /\ Count(On("incr", b)) = 0 /\ Count(On("decr", b)) = 1
<1> DEFINE i == Count(On("incr", b))
           d == Count(On("decr", b))
           r == Refs(chunk, b)
           o == One(b \in ready)
<1>1. i \in Nat /\ d \in Nat BY CountType
<1>2. r \in Nat /\ counter[b] \in Nat BY RefsType DEF ShapesOK
<1>3. o \in Nat /\ (b \in ready => o = 1) /\ (b \notin ready => o = 0) BY DEF One
<1>4. counter[b] + i = r + o + d BY DEF CountsOK
<1>5. i <= r /\ (i > 0 /\ b \notin ready => i < r) BY Backing
<1>6. d > 0 OBVIOUS
<1> HIDE DEF i, d, r, o
<1>7. counter[b] > 0 BY <1>1, <1>2, <1>3, <1>4, <1>5, <1>6
<1>8. ASSUME counter[b] = 1 PROVE r = 0 /\ b \notin ready /\ i = 0 /\ d = 1
  <2>1. d = 1 /\ o = 0 /\ r = i BY <1>1, <1>2, <1>3, <1>4, <1>5, <1>6, <1>8
  <2>2. b \notin ready BY <1>3, <2>1
  <2>3. i = 0 BY <1>1, <1>5, <2>1, <2>2
  <2> QED BY <2>1, <2>2, <2>3
<1> QED BY <1>7, <1>8 DEF i, d, r, o

\* A sequence has its elements in a larger set, too.
LEMMA Wider ==
  ASSUME NEW S, NEW T, NEW q \in Seq(S), \A x \in S : x \in T
  PROVE  q \in Seq(T)
<1>1. Len(q) \in Nat /\ DOMAIN q = 1..Len(q) /\ \A k \in 1..Len(q) : q[k] \in S BY LenProperties, ElementOfSeq
<1>2. q = [k \in 1..Len(q) |-> q[k]] BY <1>1
<1>3. q \in [1..Len(q) -> T] BY <1>1, <1>2
<1>4. q \in UNION {[1..n -> T] : n \in Nat} BY <1>1, <1>3
<1> QED BY <1>4, SeqDef, Zenon

\* Backing after a step, in terms of the new values
LEMMA BacksNext ==
  ASSUME looped' = looped, NEW u, NEW d, NEW b
  PROVE  Backs(u, d, b)' <=>
           /\ Occ(todo'[u], On("incr", b)) <= Occ(Uses(chunk'[u][d]), b)
           /\ Occ(todo'[u], On("incr", b)) > 0 =>
                \/ u = Producer /\ port' /\ b \in ready'
                \/ \E s \in Slots[u] \ {d} : Occ(Uses(chunk'[u][s]), b) > 0
BY DEF Backs, Occ, Uses, Following, Reach, After, Occurs, On

\* Threads that are in no call have nothing to do.
LEMMA IdleIs ==
  ASSUME ShapesOK, NEW t \in Workers, Idle(t)
  PROVE  \A x : Occ(todo[t], x) = 0
BY OccEmpty DEF Idle

\* The chunks of a thread that starts a call, or of two idle ones, change.
Rearranges(t, q) ==
  /\ Idle(t) /\ q \in Seq([op : {"incr", "decr"}, b : Slab]) /\ todo' = [todo EXCEPT ![t] = q]
  /\ UNCHANGED <<looped, held, counter, freed, ready, port, strong, portLock>>
  /\ chunk' = [u \in Workers |-> [s \in Slots[u] |-> chunk'[u][s]]] /\ Chunked(chunk')
  /\ \A u \in Workers : u = t \/ Idle(u) \/ chunk'[u] = chunk[u]
  /\ \A b \in Slab :
       /\ Refs(chunk', b) + Occ(q, On("decr", b)) = Refs(chunk, b) + Occ(q, On("incr", b))
       /\ Occ(q, On("incr", b)) > 0 => Refs(chunk, b) > 0
  /\ \/ \A b \in Slab : Occ(q, On("incr", b)) = 0
     \/ \E d \in Slots[t] : \A b \in Slab :
          /\ Occ(q, On("incr", b)) <= Occ(Uses(chunk'[t][d]), b)
          /\ Occ(q, On("incr", b)) > 0 => \E s \in Slots[t] \ {d} : Occ(Uses(chunk'[t][s]), b) > 0

\* Such a step keeps the invariant, when what the chunks and todo count agrees.
LEMMA Rearranged ==
  ASSUME ChunksAssumption, ChunksInv, NEW t \in Workers, NEW q, Rearranges(t, q)
  PROVE  ChunksInv'
<1>0. ShapesOK /\ CountsOK /\ LifeOK /\ BackedOK /\ ManagerOK /\ LockedOK BY DEF ChunksInv
<1> DEFINE Kinds == [op : {"incr", "decr"}, b : Slab]
<1>01. Idle(t) /\ q \in Seq(Kinds) /\ todo' = [todo EXCEPT ![t] = q] BY DEF Rearranges
<1>02. /\ held' = held /\ looped' = looped /\ counter' = counter /\ freed' = freed /\ ready' = ready
       /\ port' = port /\ strong' = strong /\ portLock' = portLock
  BY DEF Rearranges
<1>03. chunk' = [u \in Workers |-> [s \in Slots[u] |-> chunk'[u][s]]] /\ Chunked(chunk') BY DEF Rearranges
<1>04. \A u \in Workers : u = t \/ Idle(u) \/ chunk'[u] = chunk[u] BY DEF Rearranges
<1>05. \A b \in Slab :
         /\ Refs(chunk', b) + Occ(q, On("decr", b)) = Refs(chunk, b) + Occ(q, On("incr", b))
         /\ Occ(q, On("incr", b)) > 0 => Refs(chunk, b) > 0
  BY DEF Rearranges
<1>06. \/ \A b \in Slab : Occ(q, On("incr", b)) = 0
       \/ \E d \in Slots[t] : \A b \in Slab :
            /\ Occ(q, On("incr", b)) <= Occ(Uses(chunk'[t][d]), b)
            /\ Occ(q, On("incr", b)) > 0 => \E s \in Slots[t] \ {d} : Occ(Uses(chunk'[t][s]), b) > 0
  BY DEF Rearranges
<1>1. q \in Seq(Ops)
  <2>1. \A o \in Kinds : o \in Ops BY DEF Ops
  <2> HIDE DEF Kinds
  <2> QED BY <1>01, <2>1, Wider
<1>2. \A k \in DOMAIN q : q[k].op \in {"incr", "decr"}
  <2>1. DOMAIN q = 1..Len(q) /\ \A k \in 1..Len(q) : q[k] \in Kinds BY <1>01, LenProperties, ElementOfSeq
  <2> QED BY <2>1
<1>3. ASSUME NEW x, x.op \notin {"incr", "decr"} PROVE Occ(q, x) = 0
  <2>1. \A k \in DOMAIN q : q[k] # x BY <1>2, <1>3
  <2> QED BY <2>1, <1>1, OccType
<1>4. \A x : Occ(q, x) \in Nat BY <1>1, OccType
<1>5. \A x : Occ(todo[t], x) = 0 BY <1>0, <1>01, IdleIs
<1>6. /\ todo' \in [Workers -> Seq(Ops)] /\ todo'[t] = q
      /\ \A u \in Workers \ {t} : todo'[u] = todo[u] BY <1>0, <1>01, <1>1, CountChanged
<1>7. \A x : Count(x)' = Count(x) + Occ(q, x) /\ Count(x) \in Nat
  <2> TAKE x
  <2>1. Count(x)' \in Nat /\ Count(x)' + Occ(todo[t], x) = Count(x) + Occ(q, x) BY <1>0, <1>01, <1>1, CountChanged
  <2>2. Count(x) \in Nat BY <1>0, CountType
  <2>3. Occ(todo[t], x) = 0 /\ Occ(q, x) \in Nat BY <1>4, <1>5
  <2> QED BY <2>1, <2>2, <2>3
<1>8. \A b : /\ Refs(chunk, b)' = Refs(chunk', b) /\ Refs(chunk', b) \in Nat /\ Refs(chunk, b) \in Nat
  BY <1>0, <1>02, <1>03, SameUses, RefsType DEF ShapesOK
<1>9. /\ \A b : /\ Count(On("cleanup", b))' = Count(On("cleanup", b))
                /\ Count(On("push", b))' = Count(On("push", b))
      /\ Count(release)' = Count(release) /\ Occ(q, unlock) = 0
  <2>1. \A b : On("cleanup", b).op = "cleanup" /\ On("push", b).op = "push" BY OpKinds
  <2>2. release.op = "release" /\ unlock.op = "unlock" BY OpKinds
  <2>3. Occ(q, release) = 0 /\ Occ(q, unlock) = 0 BY <2>2, <1>3
  <2>4. \A b : Occ(q, On("cleanup", b)) = 0 /\ Occ(q, On("push", b)) = 0
    <3> TAKE b
    <3>1. On("cleanup", b).op \notin {"incr", "decr"} /\ On("push", b).op \notin {"incr", "decr"} BY <2>1
    <3> QED BY <3>1, <1>3
  <2> QED BY <2>3, <2>4, <1>7
<1>10. ShapesOK'
  <2>1. Chunked(chunk)' BY <1>02, <1>03, SameUses
  <2> QED BY <1>0, <1>02, <1>03, <1>6, <2>1 DEF ShapesOK
<1>11. CountsOK'
  <2>1. ASSUME NEW b \in Slab
        PROVE  counter[b] + (Count(On("incr", b)) + Occ(q, On("incr", b)))
                 = Refs(chunk', b) + One(b \in ready) + (Count(On("decr", b)) + Occ(q, On("decr", b)))
    <3>1. counter[b] + Count(On("incr", b)) = Refs(chunk, b) + One(b \in ready) + Count(On("decr", b))
      BY <1>0 DEF CountsOK
    <3>2. Refs(chunk', b) + Occ(q, On("decr", b)) = Refs(chunk, b) + Occ(q, On("incr", b)) BY <1>05
    <3>3. counter[b] \in Nat /\ One(b \in ready) \in Nat BY <1>0 DEF ShapesOK, One
    <3>4. /\ Occ(q, On("incr", b)) \in Nat /\ Occ(q, On("decr", b)) \in Nat
          /\ Count(On("incr", b)) \in Nat /\ Count(On("decr", b)) \in Nat
          /\ Refs(chunk', b) \in Nat /\ Refs(chunk, b) \in Nat
      BY <1>4, <1>7, <1>8
    <3> QED BY <3>1, <3>2, <3>3, <3>4
  <2>2. ASSUME NEW b \in Slab
        PROVE  /\ Count(On("incr", b))' = Count(On("incr", b)) + Occ(q, On("incr", b))
               /\ Count(On("decr", b))' = Count(On("decr", b)) + Occ(q, On("decr", b))
               /\ Refs(chunk, b)' = Refs(chunk', b)
    BY <1>7, <1>8
  <2>3. counter' = counter /\ ready' = ready BY <1>02
  <2> QED BY <2>1, <2>2, <2>3, Zenon DEF CountsOK
<1>12. LifeOK'
  <2>1. \A b : Returns(b)' = Returns(b) BY <1>9 DEF Returns
  <2>2. ASSUME NEW b \in Slab, counter[b] = 0
        PROVE  /\ Refs(chunk, b)' = 0 /\ b \notin ready
               /\ Count(On("incr", b))' = 0 /\ Count(On("decr", b))' = 0
    <3>1. Refs(chunk, b) = 0 /\ b \notin ready /\ Count(On("incr", b)) = 0 /\ Count(On("decr", b)) = 0
      BY <1>0, <2>2 DEF LifeOK
    <3>2. Occ(q, On("incr", b)) = 0
      <4>1. Occ(q, On("incr", b)) > 0 => Refs(chunk, b) > 0 BY <1>05
      <4>2. Occ(q, On("incr", b)) \in Nat BY <1>4
      <4> QED BY <4>1, <4>2, <3>1
    <3>3. Refs(chunk', b) + Occ(q, On("decr", b)) = 0 BY <3>1, <3>2, <1>05
    <3>4. Refs(chunk', b) = 0 /\ Occ(q, On("decr", b)) = 0 BY <3>3, <1>4, <1>8
    <3> QED BY <3>1, <3>2, <3>4, <1>7, <1>8
  <2>3. counter' = counter /\ ready' = ready /\ freed' = freed BY <1>02
  <2> QED BY <2>1, <2>2, <2>3, <1>0 DEF LifeOK
<1>13. BackedOK'
  <2>1. ASSUME NEW u \in Workers
        PROVE  \/ \A b \in Slab : Occ(todo'[u], On("incr", b)) = 0
               \/ \E d \in Slots[u] : \A b \in Slab : Backs(u, d, b)'
    <3>1. CASE u = t
      <4>1. CASE \A b \in Slab : Occ(q, On("incr", b)) = 0 BY <4>1, <1>6, <3>1
      <4>2. ASSUME NEW d \in Slots[t],
                   \A b \in Slab :
                     /\ Occ(q, On("incr", b)) <= Occ(Uses(chunk'[t][d]), b)
                     /\ Occ(q, On("incr", b)) > 0 => \E s \in Slots[t] \ {d} : Occ(Uses(chunk'[t][s]), b) > 0
            PROVE  \A b \in Slab : Backs(t, d, b)'
        <5> TAKE b \in Slab
        <5> QED BY <4>2, <1>02, <1>6, BacksNext
      <4> QED BY <4>1, <4>2, <3>1, <1>06
    <3>2. CASE u # t /\ Idle(u) BY <3>2, <1>0, <1>6, IdleIs
    <3>3. CASE u # t /\ chunk'[u] = chunk[u]
      <4>1. todo'[u] = todo[u] BY <3>3, <1>02, <1>6
      <4>2. ASSUME NEW d \in Slots[u], NEW b \in Slab, Backs(u, d, b) PROVE Backs(u, d, b)'
        BY <4>1, <4>2, <3>3, <1>02, BacksNext DEF Backs
      <4> QED BY <4>1, <4>2, <1>0 DEF BackedOK
    <3> QED BY <3>1, <3>2, <3>3, <1>04
  <2>2. \A u \in Workers, b \in Slab : Occ(todo[u], On("incr", b))' = Occ(todo'[u], On("incr", b)) BY DEF Occ, Occurs, On
  <2> QED BY <2>1, <2>2 DEF BackedOK
<1>14. ManagerOK'
  <2>1. strong' = One(port') + Count(release)' BY <1>0, <1>02, <1>9 DEF ManagerOK
  <2>2. ASSUME NEW u \in Workers, NEW k \in DOMAIN todo'[u], todo'[u][k].op = "push"
        PROVE  k = 1 /\ Occ(todo'[u], release) > 0
    <3>1. u # t BY <2>2, <1>2, <1>6
    <3> QED BY <3>1, <2>2, <1>0, <1>6 DEF ManagerOK
  <2>3. ready' = ready /\ freed' = freed /\ strong' = strong BY <1>02
  <2>4. (strong' = 0 => ready' = {}) /\ (freed' # {} => strong' = 0) BY <2>3, <1>0 DEF ManagerOK
  <2> QED BY <2>1, <2>2, <2>4 DEF ManagerOK, Occ, Occurs, One, release
<1>15. LockedOK'
  <2>1. portLock # t
    <3>1. Occ(todo[t], unlock) = One(portLock = t) BY <1>0 DEF LockedOK
    <3> QED BY <3>1, <1>5 DEF One
  <2>2. ASSUME NEW u \in Workers PROVE Occ(todo'[u], unlock) = One(portLock = u)
    <3>1. CASE u = t BY <3>1, <2>1, <1>6, <1>9 DEF One
    <3>2. CASE u # t BY <3>2, <1>0, <1>6 DEF LockedOK
    <3> QED BY <3>1, <3>2
  <2>3. ASSUME NEW u \in Workers, portLock = u, held, NEW k \in DOMAIN todo'[u] PROVE Harmless(strong', chunk'[u], todo'[u][k])
    <3>1. u # t /\ todo'[u] = todo[u] BY <2>1, <2>3, <1>6
    <3>2. Occ(todo[u], unlock) = 1 BY <2>3, <1>0 DEF LockedOK, One
    <3>3. ~ Idle(u)
      <4>1. ASSUME Idle(u) PROVE Occ(todo[u], unlock) = 0 BY <4>1, <1>0, IdleIs
      <4> QED BY <4>1, <3>2
    <3>4. chunk'[u] = chunk[u] BY <3>1, <3>3, <1>04
    <3>5. Harmless(strong, chunk[u], todo[u][k]) BY <2>3, <3>1, <1>0 DEF LockedOK
    <3> QED BY <3>1, <3>4, <3>5, <1>02
  <2>4. portLock' = portLock /\ held' = held BY <1>02
  <2>5. held \in BOOLEAN BY <1>0 DEF LockedOK
  <2> QED BY <2>2, <2>3, <2>4, <2>5 DEF LockedOK, Occ, Occurs, One, unlock
<1> QED BY <1>10, <1>11, <1>12, <1>13, <1>14, <1>15 DEF ChunksInv

\* An empty chunk counts nothing.
LEMMA NoChunkIs ==
  ASSUME ChunksAssumption, looped \in BOOLEAN
  PROVE  NoChunk \in ChunkSet /\ Drop(NoChunk) = <<>> /\ \A b : Occ(Uses(NoChunk), b) = 0
<1>1. NoChunk \in ChunkSet BY DEF NoChunk, ChunkSet
<1>2. Uses(NoChunk) = <<>> BY DEF NoChunk, Uses
<1>3. Drop(NoChunk) = <<>> BY <1>2 DEF Drop, Do
<1> QED BY <1>1, <1>2, <1>3, OccEmpty

\* Every place has a chunk.
Placed(ch) == ch = [t \in Workers |-> [s \in Slots[t] |-> ch[t][s]]] /\ Chunked(ch)

\* The chunk in one place is another one.
Puts(ch, ch2, t, s, c) ==
  /\ Placed(ch2)
  /\ \A b : Refs(ch2, b) + Occ(Uses(ch[t][s]), b) = Refs(ch, b) + Occ(Uses(c), b)
  /\ \A u \in Workers \ {t} : ch2[u] = ch[u]
  /\ ch2[t][s] = c /\ \A r \in Slots[t] \ {s} : ch2[t][r] = ch[t][r]

\* Assigning a chunk to a place changes the references of that place only.
LEMMA PlaceChanged ==
  ASSUME ChunksAssumption, looped \in BOOLEAN, NEW ch, Placed(ch),
         NEW t \in Workers, NEW s \in Slots[t], NEW c \in ChunkSet, NEW ch2, ch2 = [ch EXCEPT ![t][s] = c]
  PROVE  Puts(ch, ch2, t, s, c)
<1>1. /\ ch2 = [u \in Workers |-> [r \in Slots[u] |-> ch2[u][r]]]
      /\ \A u \in Workers \ {t} : ch2[u] = ch[u]
      /\ ch2[t][s] = c /\ \A r \in Slots[t] \ {s} : ch2[t][r] = ch[t][r]
  <2>1. /\ DOMAIN ch = Workers
        /\ \A u \in Workers : DOMAIN ch[u] = Slots[u] /\ ch[u] = [r \in Slots[u] |-> ch[u][r]] BY DEF Placed
  <2> DEFINE row == [r \in Slots[t] |-> IF r = s THEN c ELSE ch[t][r]]
  <2>2. [ch[t] EXCEPT ![s] = c] = row BY <2>1
  <2>3. ch2 = [u \in Workers |-> IF u = t THEN row ELSE ch[u]] BY <2>1, <2>2
  <2>4. row = [r \in Slots[t] |-> row[r]] /\ row[s] = c /\ \A r \in Slots[t] \ {s} : row[r] = ch[t][r] OBVIOUS
  <2> HIDE DEF row
  <2>5. ch2[t] = row /\ \A u \in Workers \ {t} : ch2[u] = ch[u] BY <2>3
  <2>6. ASSUME NEW u \in Workers PROVE ch2[u] = [r \in Slots[u] |-> ch2[u][r]]
    <3>1. CASE u = t BY <3>1, <2>4, <2>5
    <3>2. CASE u # t
      <4>1. ch2[u] = ch[u] BY <3>2, <2>5
      <4>2. ch[u] = [r \in Slots[u] |-> ch[u][r]] BY <2>1
      <4> QED BY <4>1, <4>2
    <3> QED BY <3>1, <3>2
  <2>7. ch2 = [u \in Workers |-> [r \in Slots[u] |-> ch2[u][r]]]
    <3>1. ch2 = [u \in Workers |-> ch2[u]] BY <2>3
    <3> QED BY <2>6, <3>1
  <2> QED BY <2>4, <2>5, <2>7
<1>2. \A u \in Workers : \A r \in Slots[u] : <<u, r>> # <<t, s>> => ch2[u][r] = ch[u][r] BY <1>1
<1>3. Chunked(ch2) BY <1>1 DEF Chunked, Placed
<1>4. \A b : Refs(ch2, b) + Occ(Uses(ch[t][s]), b) = Refs(ch, b) + Occ(Uses(ch2[t][s]), b)
  BY <1>2, <1>3, RefsChanged DEF Placed
<1>5. Placed(ch2) BY <1>1, <1>3 DEF Placed
<1> QED BY <1>1, <1>4, <1>5 DEF Puts

\* A chunk is copied into a place of a thread that has what it counts elsewhere.
Copies(t, d, c) ==
  /\ Starts(t, Drop(chunk[t][d]) \o Taken(c)) /\ chunk' = [chunk EXCEPT ![t][d] = c]
  /\ UNCHANGED <<looped, held, counter, freed, ready, port, strong, portLock>>
  /\ \A b \in Slab : Occ(Uses(c), b) > 0 => \E s \in Slots[t] \ {d} : Occ(Uses(chunk[t][s]), b) > 0

\* A copy drops what was in its place and takes what it is a copy of.
LEMMA Copied ==
  ASSUME ChunksAssumption, ChunksInv, NEW t \in Workers, NEW d \in Slots[t], NEW c \in ChunkSet, Copies(t, d, c)
  PROVE  ChunksInv'
<1> DEFINE old == chunk[t][d]
           q == Drop(old) \o Taken(c)
           Kinds == [op : {"incr", "decr"}, b : Slab]
<1>1. looped \in BOOLEAN /\ Placed(chunk) /\ old \in ChunkSet
  BY DEF ChunksInv, ShapesOK, Chunked, Placed
<1>2. /\ Idle(t) /\ todo' = [todo EXCEPT ![t] = q] /\ chunk' = [chunk EXCEPT ![t][d] = c]
      /\ UNCHANGED <<looped, held, counter, freed, ready, port, strong, portLock>>
  BY DEF Copies, Starts
<1>3. /\ Placed(chunk')
      /\ \A b : Refs(chunk', b) + Occ(Uses(old), b) = Refs(chunk, b) + Occ(Uses(c), b)
      /\ \A u \in Workers \ {t} : chunk'[u] = chunk[u]
      /\ chunk'[t][d] = c /\ \A r \in Slots[t] \ {d} : chunk'[t][r] = chunk[t][r]
  <2>1. Puts(chunk, chunk', t, d, c) BY <1>1, <1>2, PlaceChanged
  <2> QED BY <2>1 DEF Puts
<1> HIDE DEF old
<1>4. /\ Drop(old) \in Seq([op : {"decr"}, b : Slab]) /\ Taken(c) \in Seq([op : {"incr"}, b : Slab])
      /\ Uses(c) \in Seq(Slab)
  <2>1. \A e \in ChunkSet : /\ Drop(e) \in Seq([op : {"decr"}, b : Slab]) /\ Taken(e) \in Seq([op : {"incr"}, b : Slab])
                             /\ Uses(e) \in Seq(Slab)
    BY <1>1, ChunkFacts, Zenon
  <2> QED BY <1>1, <2>1, Zenon
<1>5. ASSUME NEW b \in Slab
      PROVE  Occ(q, On("incr", b)) = Occ(Uses(c), b) /\ Occ(q, On("decr", b)) = Occ(Uses(old), b)
  <2>1. Occ(Taken(c), On("incr", b)) = Occ(Uses(c), b) /\ Occ(Drop(old), On("decr", b)) = Occ(Uses(old), b)
    BY <1>1, ChunkFacts DEF On
  <2>2. Occ(Drop(old), On("incr", b)) = 0
    <3>1. \A i \in DOMAIN Drop(old) : Drop(old)[i] # On("incr", b)
      <4>1. \A i \in 1..Len(Drop(old)) : Drop(old)[i] \in [op : {"decr"}, b : Slab] BY <1>4, ElementOfSeq
      <4>2. DOMAIN Drop(old) = 1..Len(Drop(old)) BY <1>4, LenProperties
      <4> QED BY <4>1, <4>2, OpKinds
    <3> QED BY <3>1, <1>4, OccType
  <2>3. Occ(Taken(c), On("decr", b)) = 0
    <3>1. \A i \in DOMAIN Taken(c) : Taken(c)[i] # On("decr", b)
      <4>1. \A i \in 1..Len(Taken(c)) : Taken(c)[i] \in [op : {"incr"}, b : Slab] BY <1>4, ElementOfSeq
      <4>2. DOMAIN Taken(c) = 1..Len(Taken(c)) BY <1>4, LenProperties
      <4> QED BY <4>1, <4>2, OpKinds
    <3> QED BY <3>1, <1>4, OccType
  <2>4. Drop(old) \in Seq(Kinds) /\ Taken(c) \in Seq(Kinds)
    BY <1>4, Wider
  <2>5. \A x : Occ(q, x) = Occ(Drop(old), x) + Occ(Taken(c), x) BY <2>4, OccJoin
  <2>6. Occ(Drop(old), On("decr", b)) \in Nat /\ Occ(Taken(c), On("incr", b)) \in Nat BY <1>4, OccType
  <2> HIDE DEF q
  <2>7. Occ(q, On("incr", b)) = Occ(Taken(c), On("incr", b)) BY <2>2, <2>5, <2>6
  <2>8. Occ(q, On("decr", b)) = Occ(Drop(old), On("decr", b)) BY <2>3, <2>5, <2>6
  <2> QED BY <2>1, <2>7, <2>8
<1>6. q \in Seq(Kinds)
  <2>1. Drop(old) \in Seq(Kinds) /\ Taken(c) \in Seq(Kinds) BY <1>4, Wider
  <2> HIDE DEF Kinds
  <2> QED BY <2>1, ConcatProperties, Zenon
<1> HIDE DEF q
<1>7. ASSUME NEW b \in Slab, Occ(Uses(c), b) > 0 PROVE Refs(chunk, b) > 0
  <2>1. PICK s \in Slots[t] \ {d} : Occ(Uses(chunk[t][s]), b) > 0 BY <1>7 DEF Copies
  <2>2. Refs(chunk, b) \in Nat /\ Refs(chunk, b) # 0 BY <2>1, <1>1, RefsType DEF Placed
  <2> QED BY <2>2
<1>8. \A b \in Slab :
        /\ Refs(chunk', b) + Occ(q, On("decr", b)) = Refs(chunk, b) + Occ(q, On("incr", b))
        /\ Occ(q, On("incr", b)) > 0 => Refs(chunk, b) > 0
  BY <1>3, <1>5, <1>7
<1>9. \A b \in Slab :
        /\ Occ(q, On("incr", b)) <= Occ(Uses(chunk'[t][d]), b)
        /\ Occ(q, On("incr", b)) > 0 => \E s \in Slots[t] \ {d} : Occ(Uses(chunk'[t][s]), b) > 0
  <2> TAKE b \in Slab
  <2>1. Occ(Uses(c), b) \in Nat BY <1>4, OccType
  <2>2. Occ(q, On("incr", b)) <= Occ(Uses(chunk'[t][d]), b) BY <2>1, <1>3, <1>5
  <2>3. ASSUME Occ(q, On("incr", b)) > 0 PROVE \E s \in Slots[t] \ {d} : Occ(Uses(chunk'[t][s]), b) > 0
    <3>1. Occ(Uses(c), b) > 0 BY <2>3, <1>5
    <3>2. PICK s \in Slots[t] \ {d} : Occ(Uses(chunk[t][s]), b) > 0 BY <3>1 DEF Copies
    <3> QED BY <3>2, <1>3
  <2> QED BY <2>2, <2>3
<1>10. Rearranges(t, q) BY <1>2, <1>3, <1>6, <1>8, <1>9 DEF Rearranges, Placed
<1> QED BY <1>10, Rearranged

-----------------------------------------------------------------------------
(* The steps of the chunks, of the port and of the counters.               *)

\* The copy constructor and operator= keep the invariant.
LEMMA CopyStep ==
  ASSUME ChunksAssumption, ChunksInv, NEW t \in Workers, NEW s \in Slots[t], NEW d \in Slots[t], CopyChunk(t, s, d)
  PROVE  ChunksInv'
<1> DEFINE c == chunk[t][s]
<1>1. looped \in BOOLEAN /\ c \in ChunkSet BY DEF ChunksInv, ShapesOK, Chunked
<1>2. CopyOf(c) = c BY <1>1, ChunkFacts
<1>3. \A b \in Slab : Occ(Uses(c), b) > 0 => \E r \in Slots[t] \ {d} : Occ(Uses(chunk[t][r]), b) > 0
  BY DEF CopyChunk
<1>4. Copies(t, d, c) BY <1>2, <1>3 DEF CopyChunk, Copies
<1> HIDE DEF c
<1> QED BY <1>1, <1>4, Copied

\* What occurs in a sequence is one of its elements.
LEMMA OccIn ==
  ASSUME NEW S, NEW q \in Seq(S), NEW x
  PROVE  Occ(q, x) > 0 <=> \E i \in 1..Len(q) : q[i] = x
<1>1. Occ(q, x) \in Nat /\ (Occ(q, x) = 0 <=> \A i \in DOMAIN q : q[i] # x) BY OccType
<1>2. DOMAIN q = 1..Len(q) BY LenProperties
<1> QED BY <1>1, <1>2

\* So does the front of an amalgamated queue: it reaches one buffer further.
LEMMA AmalgamatedStep ==
  ASSUME ChunksAssumption, ChunksInv, NEW t \in Workers, NEW s \in Slots[t], NEW d \in Slots[t], NEW e \in Slots[t],
         Amalgamated(t, s, d, e)
  PROVE  ChunksInv'
<1> DEFINE c == chunk[t][s]
           i == c.impl
           n == c.span
           long == [c EXCEPT !.span = @ + 1]
           new == CopyOf(long)
<1>1. /\ looped \in BOOLEAN /\ c \in ChunkSet /\ chunk[t][d] \in ChunkSet BY DEF ChunksInv, ShapesOK, Chunked
<1>2. i \in Slab /\ n \in Nat /\ c.next = n /\ Reach(i, n) = n
  <2>1. i # NoBuffer /\ c.next = n BY DEF Amalgamated
  <2> QED BY <1>1, <2>1 DEF ChunkSet
<1>3. long.impl = i /\ long.span = n + 1 /\ long \in [impl : Slab \union {NoBuffer}, span : Nat, next : Nat]
  BY <1>1, <1>2 DEF ChunkSet
<1>4. /\ Len(Following(i, n + 1)) = n + 1 /\ chunk[t][d] = [impl |-> Following(i, n + 1)[n + 1], span |-> 0, next |-> 0]
      /\ e \notin {s, d}
      /\ Starts(t, Drop(chunk[t][e]) \o Taken(long)) /\ chunk' = [chunk EXCEPT ![t][e] = new]
      /\ UNCHANGED <<looped, held, counter, freed, ready, port, strong, portLock>>
  BY <1>3 DEF Amalgamated
<1>5. Reach(i, n + 1) = n + 1 /\ Following(i, n + 1) \in Seq(Slab)
      /\ \A k \in 1..(n + 1) : Following(i, n + 1)[k] = After(i, k)
  <2>1. n + 1 \in Nat BY <1>2
  <2>2. /\ Following(i, n + 1) \in Seq(Slab) /\ Len(Following(i, n + 1)) = Reach(i, n + 1)
        /\ \A k \in 1..Reach(i, n + 1) : Following(i, n + 1)[k] = After(i, k)
    BY <1>1, <1>2, <2>1, Chain
  <2> QED BY <1>4, <2>2
<1>6. new = [impl |-> i, span |-> n + 1, next |-> n + 1]
  <2>1. i # NoBuffer BY <1>2 DEF ChunksAssumption
  <2>2. new = [long EXCEPT !.next = n + 1] BY <1>3, <1>4, <2>1 DEF CopyOf
  <2> QED BY <1>3, <2>2
<1> HIDE DEF new
<1>7. new \in ChunkSet BY <1>2, <1>5, <1>6 DEF ChunkSet, ChunksAssumption
<1>8. Taken(long) = Taken(new) BY <1>3, <1>6 DEF Taken
<1>9. Uses(new) = Append(Following(i, n + 1), i) /\ Uses(c) = Append(Following(i, n), i)
      /\ Uses(chunk[t][d]) = Append(Following(Following(i, n + 1)[n + 1], 0), Following(i, n + 1)[n + 1])
  <2>1. i # NoBuffer BY <1>2 DEF ChunksAssumption
  <2>2. Following(i, n + 1)[n + 1] # NoBuffer
    <3>1. n + 1 \in 1..(n + 1) BY <1>2
    <3>2. Following(i, n + 1)[n + 1] \in Slab BY <3>1, <1>4, <1>5, ElementOfSeq
    <3> QED BY <3>2 DEF ChunksAssumption
  <2> QED BY <1>2, <1>4, <1>6, <2>1, <2>2 DEF Uses
<1>10. Uses(c) \in Seq(Slab) /\ Uses(chunk[t][d]) \in Seq(Slab) /\ Uses(new) \in Seq(Slab)
  <2>1. \A k \in ChunkSet : Uses(k) \in Seq(Slab) BY <1>1, ChunkFacts
  <2> QED BY <1>1, <1>7, <2>1
<1>11. ASSUME NEW b \in Slab, Occ(Uses(new), b) > 0
       PROVE  \E r \in Slots[t] \ {e} : Occ(Uses(chunk[t][r]), b) > 0
  <2> DEFINE f == Following(i, n + 1)
             g == Following(i, n)
  <2>1. f \in Seq(Slab) /\ Len(f) = n + 1 /\ Uses(new) = Append(f, i) BY <1>4, <1>5, <1>9
  <2>2. /\ g \in Seq(Slab) /\ Len(g) = n /\ Uses(c) = Append(g, i)
        /\ \A k \in 1..n : g[k] = After(i, k)
    BY <1>1, <1>2, <1>9, Chain
  <2>3. \A k \in 1..(n + 1) : f[k] = After(i, k) BY <1>5
  <2>4. f[n + 1] \in Slab
    <3>1. n + 1 \in 1..(n + 1) BY <1>2
    <3> QED BY <3>1, <2>1, ElementOfSeq
  <2>5. Occ(Uses(chunk[t][d]), f[n + 1]) > 0
    <3>1. chunk[t][d].impl = f[n + 1] BY <1>4
    <3> QED BY <3>1, <2>4, <1>1, ChunkFacts
  <2> HIDE DEF f, g
  <2>6. PICK k \in 1..Len(Uses(new)) : Uses(new)[k] = b BY <1>10, <1>11, OccIn
  <2>7. Len(Uses(new)) = n + 2 /\ Uses(new)[n + 2] = i /\ \A j \in 1..(n + 1) : Uses(new)[j] = f[j]
    BY <1>2, <2>1
  <2>8. Len(Uses(c)) = n + 1 /\ Uses(c)[n + 1] = i /\ \A j \in 1..n : Uses(c)[j] = g[j]
    BY <1>2, <2>2
  <2>9. CASE k = n + 2 \/ k \in 1..n
    <3>1. \E j \in 1..Len(Uses(c)) : Uses(c)[j] = b
      <4>1. CASE k = n + 2 BY <4>1, <1>2, <2>6, <2>7, <2>8
      <4>2. CASE k \in 1..n
        <5>1. k \in 1..(n + 1) BY <4>2, <1>2
        <5>2. Uses(c)[k] = b BY <5>1, <4>2, <2>2, <2>3, <2>6, <2>7, <2>8
        <5> QED BY <5>1, <5>2, <2>8
      <4> QED BY <2>9, <4>1, <4>2
    <3>2. Occ(Uses(c), b) > 0 BY <3>1, <1>10, OccIn
    <3> QED BY <3>2, <1>4
  <2>10. CASE k = n + 1
    <3>1. n + 1 \in 1..(n + 1) BY <1>2
    <3>2. b = f[n + 1] BY <2>10, <2>6, <2>7, <3>1
    <3> QED BY <3>2, <2>5, <1>4
  <2> QED BY <1>2, <2>6, <2>7, <2>9, <2>10
<1>12. Copies(t, e, new) BY <1>4, <1>8, <1>11 DEF Copies
<1> HIDE DEF c, long
<1> QED BY <1>7, <1>12, Copied

\* A thread only gives chunks up, or to another thread.
LEMMA Given ==
  ASSUME ChunksAssumption, ChunksInv, NEW t \in Workers, NEW u \in Workers, NEW c \in ChunkSet,
         Idle(t), Idle(u), todo' = [todo EXCEPT ![t] = Drop(c)],
         UNCHANGED <<looped, held, counter, freed, ready, port, strong, portLock>>,
         Placed(chunk'), \A w \in Workers \ {t, u} : chunk'[w] = chunk[w],
         \A b \in Slab : Refs(chunk', b) + Occ(Uses(c), b) = Refs(chunk, b)
  PROVE  ChunksInv'
<1> DEFINE q == Drop(c)
           Kinds == [op : {"incr", "decr"}, b : Slab]
<1>1. looped \in BOOLEAN /\ Chunked(chunk) BY DEF ChunksInv, ShapesOK
<1>2. Drop(c) \in Seq([op : {"decr"}, b : Slab]) /\ Uses(c) \in Seq(Slab)
  <2>1. \A k \in ChunkSet : Drop(k) \in Seq([op : {"decr"}, b : Slab]) /\ Uses(k) \in Seq(Slab) BY <1>1, ChunkFacts, Zenon
  <2> QED BY <2>1, Zenon
<1>3. q \in Seq(Kinds) BY <1>2, Wider
<1>4. ASSUME NEW b \in Slab PROVE Occ(q, On("incr", b)) = 0 /\ Occ(q, On("decr", b)) = Occ(Uses(c), b)
  <2>1. Occ(Drop(c), On("decr", b)) = Occ(Uses(c), b) BY <1>1, ChunkFacts DEF On
  <2>2. \A i \in DOMAIN Drop(c) : Drop(c)[i] # On("incr", b)
    <3>1. \A i \in 1..Len(Drop(c)) : Drop(c)[i] \in [op : {"decr"}, b : Slab] BY <1>2, ElementOfSeq
    <3>2. DOMAIN Drop(c) = 1..Len(Drop(c)) BY <1>2, LenProperties
    <3> QED BY <3>1, <3>2, OpKinds
  <2> QED BY <1>2, <2>1, <2>2, OccType
<1> HIDE DEF q
<1>5. \A b \in Slab :
        /\ Refs(chunk', b) + Occ(q, On("decr", b)) = Refs(chunk, b) + Occ(q, On("incr", b))
        /\ Occ(q, On("incr", b)) > 0 => Refs(chunk, b) > 0
  <2> TAKE b \in Slab
  <2>1. Refs(chunk', b) + Occ(Uses(c), b) = Refs(chunk, b) OBVIOUS
  <2>2. Refs(chunk, b) \in Nat BY <1>1, RefsType
  <2> QED BY <2>1, <2>2, <1>4
<1>6. \A w \in Workers : w = t \/ Idle(w) \/ chunk'[w] = chunk[w] OBVIOUS
<1>7. Rearranges(t, q) BY <1>3, <1>4, <1>5, <1>6 DEF Rearranges, Placed, q
<1> QED BY <1>7, Rearranged

\* Moving a chunk drops the one that it replaces.
LEMMA MoveStep ==
  ASSUME ChunksAssumption, ChunksInv, NEW t \in Workers, NEW s \in Slots[t], NEW d \in Slots[t], MoveChunk(t, s, d)
  PROVE  ChunksInv'
<1> DEFINE c == chunk[t][s]
           old == chunk[t][d]
           ch == [chunk EXCEPT ![t][d] = c]
<1>1. looped \in BOOLEAN /\ Placed(chunk) /\ c \in ChunkSet /\ old \in ChunkSet
  BY DEF ChunksInv, ShapesOK, Chunked, Placed
<1>2. NoChunk \in ChunkSet /\ \A b : Occ(Uses(NoChunk), b) = 0 BY <1>1, NoChunkIs
<1>3. s # d /\ Idle(t) /\ todo' = [todo EXCEPT ![t] = Drop(old)]
      /\ UNCHANGED <<looped, held, counter, freed, ready, port, strong, portLock>>
  BY DEF MoveChunk, Starts
<1>4. chunk' = [ch EXCEPT ![t][s] = NoChunk] BY DEF MoveChunk
<1>5. Puts(chunk, ch, t, d, c) BY <1>1, PlaceChanged
<1> HIDE DEF ch
<1>6. Placed(ch) BY <1>5 DEF Puts
<1>7. Puts(ch, chunk', t, s, NoChunk) BY <1>1, <1>2, <1>4, <1>6, PlaceChanged
<1>8. ch[t][s] = c BY <1>3, <1>5 DEF Puts
<1>9. ASSUME NEW b \in Slab PROVE Refs(chunk', b) + Occ(Uses(old), b) = Refs(chunk, b)
  <2>1. Refs(ch, b) + Occ(Uses(old), b) = Refs(chunk, b) + Occ(Uses(c), b) BY <1>5 DEF Puts
  <2>2. Refs(chunk', b) + Occ(Uses(c), b) = Refs(ch, b) + Occ(Uses(NoChunk), b) BY <1>7, <1>8 DEF Puts
  <2>3. Uses(c) \in Seq(Slab) /\ Uses(old) \in Seq(Slab)
    <3>1. \A k \in ChunkSet : Uses(k) \in Seq(Slab) BY <1>1, ChunkFacts
    <3> QED BY <1>1, <3>1
  <2>4. Occ(Uses(c), b) \in Nat /\ Occ(Uses(old), b) \in Nat BY <2>3, OccType
  <2>5. Chunked(chunk) /\ Chunked(ch) /\ Chunked(chunk') BY <1>1, <1>6, <1>7 DEF Placed, Puts
  <2>6. Refs(chunk, b) \in Nat /\ Refs(ch, b) \in Nat /\ Refs(chunk', b) \in Nat BY <1>1, <2>5, RefsType
  <2>7. Occ(Uses(NoChunk), b) = 0 BY <1>2
  <2> QED BY <2>1, <2>2, <2>4, <2>6, <2>7
<1>10. Placed(chunk') /\ \A w \in Workers \ {t} : chunk'[w] = chunk[w] BY <1>5, <1>7 DEF Puts
<1> HIDE DEF old
<1> QED BY <1>1, <1>3, <1>9, <1>10, Given

\* clear and the destructor drop the chunk.
LEMMA ClearStep ==
  ASSUME ChunksAssumption, ChunksInv, NEW t \in Workers, NEW s \in Slots[t], ClearChunk(t, s)
  PROVE  ChunksInv'
<1> DEFINE old == chunk[t][s]
<1>1. looped \in BOOLEAN /\ Placed(chunk) /\ old \in ChunkSet
  BY DEF ChunksInv, ShapesOK, Chunked, Placed
<1>2. NoChunk \in ChunkSet /\ \A b : Occ(Uses(NoChunk), b) = 0 BY <1>1, NoChunkIs
<1>3. Idle(t) /\ todo' = [todo EXCEPT ![t] = Drop(old)] /\ chunk' = [chunk EXCEPT ![t][s] = NoChunk]
      /\ UNCHANGED <<looped, held, counter, freed, ready, port, strong, portLock>>
  BY DEF ClearChunk, Starts
<1>4. Puts(chunk, chunk', t, s, NoChunk) BY <1>1, <1>2, <1>3, PlaceChanged
<1>5. ASSUME NEW b \in Slab PROVE Refs(chunk', b) + Occ(Uses(old), b) = Refs(chunk, b)
  <2>1. Refs(chunk', b) + Occ(Uses(old), b) = Refs(chunk, b) + Occ(Uses(NoChunk), b) BY <1>4 DEF Puts
  <2>2. Chunked(chunk) BY <1>1 DEF Placed
  <2>3. Refs(chunk, b) \in Nat BY <1>1, <2>2, RefsType
  <2> QED BY <2>1, <2>3, <1>2
<1>6. Placed(chunk') /\ \A w \in Workers \ {t} : chunk'[w] = chunk[w] BY <1>4 DEF Puts
<1> HIDE DEF old
<1> QED BY <1>1, <1>3, <1>5, <1>6, Given

\* A chunk that is sent keeps its counts, in a place of another thread.
LEMMA SendStep ==
  ASSUME ChunksAssumption, ChunksInv, NEW t \in Workers, NEW s \in Slots[t], NEW u \in Workers, NEW d \in Slots[u],
         Send(t, s, u, d)
  PROVE  ChunksInv'
<1> DEFINE c == chunk[t][s]
           ch == [chunk EXCEPT ![u][d] = c]
<1>1. looped \in BOOLEAN /\ Placed(chunk) /\ c \in ChunkSet
  BY DEF ChunksInv, ShapesOK, Chunked, Placed
<1>2. NoChunk \in ChunkSet /\ Drop(NoChunk) = <<>> /\ \A b : Occ(Uses(NoChunk), b) = 0 BY <1>1, NoChunkIs
<1>3. t # u /\ Idle(t) /\ Idle(u) /\ chunk[u][d] = NoChunk /\ todo' = todo
      /\ UNCHANGED <<looped, held, counter, freed, ready, port, strong, portLock>>
  BY DEF Send
<1>4. chunk' = [ch EXCEPT ![t][s] = NoChunk] BY DEF Send
<1>5. Puts(chunk, ch, u, d, c) BY <1>1, PlaceChanged
<1> HIDE DEF ch
<1>6. Placed(ch) BY <1>5 DEF Puts
<1>7. Puts(ch, chunk', t, s, NoChunk) BY <1>1, <1>2, <1>4, <1>6, PlaceChanged
<1>8. ch[t][s] = c BY <1>3, <1>5 DEF Puts
<1>9. ASSUME NEW b \in Slab PROVE Refs(chunk', b) + Occ(Uses(NoChunk), b) = Refs(chunk, b)
  <2>1. Refs(ch, b) + Occ(Uses(NoChunk), b) = Refs(chunk, b) + Occ(Uses(c), b) BY <1>3, <1>5 DEF Puts
  <2>2. Refs(chunk', b) + Occ(Uses(c), b) = Refs(ch, b) + Occ(Uses(NoChunk), b) BY <1>7, <1>8 DEF Puts
  <2>3. Uses(c) \in Seq(Slab)
    <3>1. \A k \in ChunkSet : Uses(k) \in Seq(Slab) BY <1>1, ChunkFacts
    <3> QED BY <1>1, <3>1
  <2>4. Occ(Uses(c), b) \in Nat BY <2>3, OccType
  <2>5. Chunked(chunk) /\ Chunked(ch) /\ Chunked(chunk') BY <1>1, <1>6, <1>7 DEF Placed, Puts
  <2>6. Refs(chunk, b) \in Nat /\ Refs(ch, b) \in Nat /\ Refs(chunk', b) \in Nat BY <1>1, <2>5, RefsType
  <2>7. Occ(Uses(NoChunk), b) = 0 BY <1>2
  <2> QED BY <2>1, <2>2, <2>4, <2>6, <2>7
<1>10. Placed(chunk') /\ \A w \in Workers \ {t, u} : chunk'[w] = chunk[w] BY <1>5, <1>7 DEF Puts
<1>11. todo' = [todo EXCEPT ![t] = Drop(NoChunk)]
  <2>1. todo \in [Workers -> Seq(Ops)] /\ todo[t] = <<>> BY <1>3 DEF ChunksInv, ShapesOK, Idle
  <2> QED BY <1>2, <1>3, <2>1
<1> QED BY <1>2, <1>3, <1>9, <1>10, <1>11, Given

\* What a thread is about to count stays backed.
LEMMA StillBacks ==
  ASSUME looped' = looped, NEW u \in Workers, chunk'[u] = chunk[u], NEW d \in Slots[u], NEW b, Backs(u, d, b),
         Occ(todo'[u], On("incr", b)) \in Nat, Occ(todo[u], On("incr", b)) \in Nat,
         Occ(todo'[u], On("incr", b)) <= Occ(todo[u], On("incr", b)),
         Occ(Uses(chunk[u][d]), b) \in Nat,
         u # Producer \/ (port => port' /\ ready \subseteq ready')
  PROVE  Backs(u, d, b)'
<1> DEFINE n == Occ(todo[u], On("incr", b))
           m == Occ(todo'[u], On("incr", b))
           k == Occ(Uses(chunk[u][d]), b)
<1>1. n <= k /\ (n > 0 => \/ u = Producer /\ port /\ b \in ready
                          \/ \E s \in Slots[u] \ {d} : Occ(Uses(chunk[u][s]), b) > 0)
  BY DEF Backs
<1>2. m \in Nat /\ n \in Nat /\ k \in Nat /\ m <= n OBVIOUS
<1> HIDE DEF n, m, k
<1>3. m <= k /\ (m > 0 => n > 0) BY <1>1, <1>2
<1>4. u = Producer /\ port /\ b \in ready => u = Producer /\ port' /\ b \in ready' OBVIOUS
<1> QED BY <1>1, <1>3, <1>4, BacksNext DEF n, m, k

\* All counts stay backed when one thread goes on, or starts with backed counts.
LEMMA StillBacked ==
  ASSUME ChunksAssumption, ShapesOK, BackedOK, looped' = looped, todo' \in [Workers -> Seq(Ops)], NEW t \in Workers,
         \A u \in Workers \ {t} : todo'[u] = todo[u] /\ chunk'[u] = chunk[u],
         t = Producer \/ (port => port' /\ ready \subseteq ready'),
         \/ \A b \in Slab : Occ(todo'[t], On("incr", b)) = 0
         \/ \E d \in Slots[t] : \A b \in Slab : Backs(t, d, b)'
         \/ /\ port => port' /\ ready \subseteq ready'
            /\ chunk'[t] = chunk[t] /\ \A b \in Slab : Occ(todo'[t], On("incr", b)) <= Occ(todo[t], On("incr", b))
  PROVE  BackedOK'
<1>1. \A u \in Workers : \A b : Occ(todo'[u], On("incr", b)) \in Nat /\ Occ(todo[u], On("incr", b)) \in Nat
  BY OccType DEF ShapesOK
<1>2. ASSUME NEW u \in Workers, NEW d \in Slots[u], NEW b PROVE Occ(Uses(chunk[u][d]), b) \in Nat
  <2>1. looped \in BOOLEAN /\ chunk[u][d] \in ChunkSet BY DEF ShapesOK, Chunked
  <2>2. \A c \in ChunkSet : Uses(c) \in Seq(Slab) BY <2>1, ChunkFacts
  <2>3. Uses(chunk[u][d]) \in Seq(Slab) BY <2>1, <2>2, Zenon
  <2> QED BY <2>3, OccType
<1>3. ASSUME NEW u \in Workers, chunk'[u] = chunk[u], u # Producer \/ (port => port' /\ ready \subseteq ready'),
             \A b \in Slab : Occ(todo'[u], On("incr", b)) <= Occ(todo[u], On("incr", b))
      PROVE  \/ \A b \in Slab : Occ(todo'[u], On("incr", b)) = 0
             \/ \E d \in Slots[u] : \A b \in Slab : Backs(u, d, b)'
  <2>1. CASE \A b \in Slab : Occ(todo[u], On("incr", b)) = 0
    <3>1. ASSUME NEW b \in Slab PROVE Occ(todo'[u], On("incr", b)) = 0
      <4>1. Occ(todo'[u], On("incr", b)) <= 0 BY <1>3, <2>1
      <4>2. Occ(todo'[u], On("incr", b)) \in Nat BY <1>1
      <4> HIDE DEF On
      <4> QED BY <4>1, <4>2
    <3> QED BY <3>1
  <2>2. ASSUME NEW d \in Slots[u], \A b \in Slab : Backs(u, d, b) PROVE \A b \in Slab : Backs(u, d, b)'
    BY <2>2, <1>1, <1>2, <1>3, StillBacks
  <2> QED BY <2>1, <2>2 DEF BackedOK
<1>4. ASSUME NEW u \in Workers
      PROVE  \/ \A b \in Slab : Occ(todo'[u], On("incr", b)) = 0
             \/ \E d \in Slots[u] : \A b \in Slab : Backs(u, d, b)'
  <2>1. CASE u # t
    <3>1. todo'[u] = todo[u] /\ chunk'[u] = chunk[u] BY <2>1
    <3>2. \A b \in Slab : Occ(todo'[u], On("incr", b)) <= Occ(todo[u], On("incr", b)) BY <1>1, <3>1
    <3>3. u # Producer \/ (port => port' /\ ready \subseteq ready') BY <2>1
    <3> QED BY <3>1, <3>2, <3>3, <1>3
  <2>2. CASE u = t
    <3>1. CASE /\ port => port' /\ ready \subseteq ready'
               /\ chunk'[t] = chunk[t]
               /\ \A b \in Slab : Occ(todo'[t], On("incr", b)) <= Occ(todo[t], On("incr", b))
      BY <2>2, <3>1, <1>3
    <3> QED BY <2>2, <3>1
  <2> QED BY <2>1, <2>2
<1>5. \A u \in Workers, b \in Slab : Occ(todo[u], On("incr", b))' = Occ(todo'[u], On("incr", b)) BY DEF Occ, Occurs, On
<1> QED BY <1>4, <1>5 DEF BackedOK

\* Two operations, one after the other.
LEMMA Pair == ASSUME NEW x, NEW y PROVE Append(<<x>>, y) = <<x, y>>
<1>1. <<x>> \in Seq({x, y}) /\ Len(<<x>>) = 1 OBVIOUS
<1>2. Append(<<x>>, y) \in Seq({x, y}) /\ Len(Append(<<x>>, y)) = 2 BY <1>1
<1>3. Append(<<x>>, y)[1] = x /\ Append(<<x>>, y)[2] = y BY <1>1
<1>4. <<x, y>> \in Seq({x, y}) /\ Len(<<x, y>>) = 2 /\ <<x, y>>[1] = x /\ <<x, y>>[2] = y OBVIOUS
<1> DEFINE p == Append(<<x>>, y)
           q == <<x, y>>
<1>5. p \in Seq({x, y}) /\ q \in Seq({x, y}) /\ Len(p) = Len(q) BY <1>2, <1>4
<1>6. Len(p) = 2 /\ p[1] = q[1] /\ p[2] = q[2] BY <1>2, <1>3, <1>4
<1> HIDE DEF p, q
<1>7. \A i \in 1..Len(p) : p[i] = q[i] BY <1>6
<1>8. p = q BY <1>5, <1>7, SeqEqual
<1> QED BY <1>8 DEF p, q

\* A thread takes the lock of the port, to do one thing and to unlock it.
LEMMA LocksFor ==
  ASSUME ChunksAssumption, ChunksInv, NEW t \in Workers, NEW o \in Ops, o # unlock, Locks(t, <<o>>)
  PROVE  /\ todo' \in [Workers -> Seq(Ops)] /\ \A u \in Workers \ {t} : todo'[u] = todo[u]
         /\ \A x : /\ Count(x)' = Count(x) + One(o = x) + One(unlock = x) /\ Count(x) \in Nat
                   /\ Occ(todo'[t], x) = One(o = x) + One(unlock = x)
         /\ DOMAIN todo'[t] = 1..2 /\ todo'[t][1] = o /\ todo'[t][2] = unlock
         /\ portLock = Nobody /\ portLock' = t
         /\ Occ(todo'[t], unlock) = 1 /\ \A u \in Workers \ {t} : Occ(todo'[u], unlock) = 0
<1>1. ShapesOK /\ LockedOK BY DEF ChunksInv
<1>2. Idle(t) /\ todo' = [todo EXCEPT ![t] = <<o, unlock>>] /\ portLock = Nobody /\ portLock' = t
  <2>1. Append(<<o>>, unlock) = <<o, unlock>> BY Pair
  <2>2. Starts(t, Append(<<o>>, unlock)) /\ portLock = Nobody /\ portLock' = t BY DEF Locks, unlock
  <2> QED BY <2>1, <2>2 DEF Starts
<1>3. <<o>> \in Seq(Ops) /\ unlock \in Ops /\ <<o, unlock>> \in Seq(Ops) /\ <<o, unlock>> = Append(<<o>>, unlock)
  <2>1. unlock \in Ops BY DEF Ops
  <2>2. <<o>> \in Seq(Ops) OBVIOUS
  <2>3. <<o, unlock>> \in Seq(Ops) BY <2>1
  <2>4. <<o, unlock>> = Append(<<o>>, unlock) OBVIOUS
  <2> QED BY <2>1, <2>2, <2>3, <2>4
<1>4. \A x : Occ(<<o, unlock>>, x) = One(o = x) + One(unlock = x)
  <2> TAKE x
  <2> DEFINE p == <<o>>
  <2>1. p \in Seq(Ops) /\ unlock \in Ops /\ <<o, unlock>> = Append(p, unlock) BY <1>3
  <2>2. Occ(p, x) = One(o = x) BY OccSingle
  <2> HIDE DEF p
  <2>3. Occ(Append(p, unlock), x) = Occ(p, x) + One(unlock = x) BY <2>1, OccAppend
  <2> QED BY <2>1, <2>2, <2>3, Zenon
<1>5. /\ todo' \in [Workers -> Seq(Ops)] /\ todo'[t] = <<o, unlock>>
      /\ \A u \in Workers \ {t} : todo'[u] = todo[u]
      /\ \A x : Count(x)' \in Nat /\ Count(x)' + Occ(todo[t], x) = Count(x) + Occ(<<o, unlock>>, x)
  BY <1>1, <1>2, <1>3, CountChanged
<1>6. ASSUME NEW x PROVE Count(x)' = Count(x) + One(o = x) + One(unlock = x) /\ Count(x) \in Nat
  <2> DEFINE k == Occ(<<o, unlock>>, x)
             m == One(o = x)
             n == One(unlock = x)
  <2>1. Count(x)' \in Nat /\ Count(x) \in Nat BY <1>1, <1>5, CountType
  <2>2. m \in Nat /\ n \in Nat BY DEF One
  <2>3. k = m + n BY <1>4
  <2>4. Occ(todo[t], x) = 0 BY <1>1, <1>2, IdleIs
  <2>5. Count(x)' + 0 = Count(x) + k BY <1>5, <2>4
  <2> HIDE DEF k, m, n
  <2>6. Count(x)' = Count(x) + m + n BY <2>1, <2>2, <2>3, <2>5
  <2> QED BY <2>1, <2>6 DEF m, n
<1>7. DOMAIN todo'[t] = 1..2 /\ todo'[t][1] = o /\ todo'[t][2] = unlock BY <1>5
<1>8. Occ(todo'[t], unlock) = 1
  <2>1. Occ(todo'[t], unlock) = One(o = unlock) + One(unlock = unlock) BY <1>4, <1>5, Zenon
  <2>2. One(o = unlock) = 0 /\ One(unlock = unlock) = 1 BY DEF One
  <2> QED BY <2>1, <2>2
<1>9. \A u \in Workers \ {t} : Occ(todo'[u], unlock) = 0
  <2> TAKE u \in Workers \ {t}
  <2>1. Occ(todo[u], unlock) = One(Nobody = u) BY <1>1, <1>2 DEF LockedOK
  <2>2. Nobody # u BY DEF ChunksAssumption, Workers
  <2> QED BY <2>1, <2>2, <1>5 DEF One
<1> QED BY <1>2, <1>4, <1>5, <1>6, <1>7, <1>8, <1>9

\* It keeps the other parts of the invariant.
LEMMA LockKeeps ==
  ASSUME ChunksAssumption, ChunksInv, NEW t \in Workers, NEW o \in Ops, o # unlock, Locks(t, <<o>>),
         o.op # "push", held' \in BOOLEAN, held' => Harmless(strong', chunk'[t], o), UNCHANGED <<freed, strong>>, ready' \subseteq ready,
         One(port') + One(o = release) = One(port)
  PROVE  LockedOK' /\ ManagerOK'
<1>1. ManagerOK /\ ShapesOK BY DEF ChunksInv
<1>2. /\ todo' \in [Workers -> Seq(Ops)] /\ \A u \in Workers \ {t} : todo'[u] = todo[u]
      /\ \A x : Count(x)' = Count(x) + One(o = x) + One(unlock = x) /\ Count(x) \in Nat
      /\ DOMAIN todo'[t] = 1..2 /\ todo'[t][1] = o /\ todo'[t][2] = unlock
      /\ portLock' = t
      /\ Occ(todo'[t], unlock) = 1 /\ \A u \in Workers \ {t} : Occ(todo'[u], unlock) = 0
  BY LocksFor
<1>3. unlock.op = "unlock" /\ release.op = "release" BY OpKinds
<1>4. LockedOK'
  <2>1. \A u \in Workers : Occ(todo'[u], unlock) = One(portLock' = u) BY <1>2 DEF One
  <2>2. ASSUME NEW u \in Workers, portLock' = u, held', NEW k \in DOMAIN todo'[u] PROVE Harmless(strong', chunk'[u], todo'[u][k])
    <3>1. u = t /\ k \in 1..2 BY <1>2, <2>2
    <3>2. CASE k = 1
      <4>1. Harmless(strong', chunk'[t], o) BY <2>2
      <4> QED BY <1>2, <3>1, <3>2, <4>1
    <3>3. CASE k = 2 BY <1>2, <1>3, <3>1, <3>3 DEF Harmless
    <3> QED BY <3>1, <3>2, <3>3
  <2>3. \A u \in Workers : Occ(todo[u], unlock)' = Occ(todo'[u], unlock) BY DEF Occ, Occurs, unlock
  <2>4. \A u \in Workers : One(portLock = u)' = One(portLock' = u) BY DEF One
  <2> QED BY <2>1, <2>2, <2>3, <2>4 DEF LockedOK
<1>5. ManagerOK'
  <2>1. strong' = One(port') + Count(release)'
    <3> DEFINE p == One(port)
               p2 == One(port')
               k == One(o = release)
    <3>1. Count(release)' = Count(release) + k + One(unlock = release) /\ Count(release) \in Nat BY <1>2
    <3>2. One(unlock = release) = 0 BY <1>3 DEF One
    <3>3. p \in Nat /\ p2 \in Nat /\ k \in Nat BY DEF One
    <3>4. strong = p + Count(release) /\ p2 + k = p BY <1>1 DEF ManagerOK
    <3> HIDE DEF p, p2, k
    <3>5. strong = p2 + Count(release)' BY <3>1, <3>2, <3>3, <3>4
    <3> QED BY <3>5 DEF p2
  <2>2. ASSUME NEW u \in Workers, NEW k \in DOMAIN todo'[u], todo'[u][k].op = "push"
        PROVE  k = 1 /\ Occ(todo'[u], release) > 0
    <3>1. u # t
      <4>1. ASSUME u = t PROVE FALSE
        <5>1. k = 1 \/ k = 2 BY <4>1, <1>2
        <5> QED BY <4>1, <5>1, <1>2, <1>3, <2>2
      <4> QED BY <4>1
    <3> QED BY <3>1, <2>2, <1>1, <1>2 DEF ManagerOK
  <2>3. (strong' = 0 => ready' = {}) /\ (freed' # {} => strong' = 0) BY <1>1 DEF ManagerOK
  <2> QED BY <2>1, <2>2, <2>3 DEF ManagerOK, Occ, Occurs, One, release
<1> QED BY <1>4, <1>5

\* The kinds of operations are counted apart.
LEMMA KindsApart ==
  /\ \A b, c : /\ One(On("incr", b) = On("incr", c)) = One(b = c)
               /\ One(On("decr", b) = On("decr", c)) = One(b = c)
               /\ One(On("cleanup", b) = On("cleanup", c)) = One(b = c)
               /\ One(On("push", b) = On("push", c)) = One(b = c)
               /\ On("incr", b) # unlock /\ On("decr", b) # unlock /\ On("cleanup", b) # unlock /\ On("push", b) # unlock
               /\ On("incr", b) # release /\ On("decr", b) # release /\ On("cleanup", b) # release /\ On("push", b) # release
               /\ On("incr", b) # On("decr", c) /\ On("incr", b) # On("cleanup", c) /\ On("incr", b) # On("push", c)
               /\ On("decr", b) # On("cleanup", c) /\ On("decr", b) # On("push", c) /\ On("cleanup", b) # On("push", c)
  /\ release # unlock
<1>1. \A op, b : On(op, b).op = op /\ On(op, b).b = b BY OpKinds
<1>2. release.op = "release" /\ unlock.op = "unlock" BY OpKinds
<1>3. ASSUME NEW op, NEW b, NEW c PROVE One(On(op, b) = On(op, c)) = One(b = c)
  <2>1. On(op, b) = On(op, c) <=> b = c BY <1>1
  <2> QED BY <2>1 DEF One
<1>4. \A op1, op2, b, c : op1 # op2 => On(op1, b) # On(op2, c) BY <1>1
<1>5. \A op, b : (op # "release" => On(op, b) # release) /\ (op # "unlock" => On(op, b) # unlock) BY <1>1, <1>2
<1>6. release # unlock BY <1>2
<1> HIDE DEF One
<1> QED BY <1>3, <1>4, <1>5, <1>6

\* The front of the manager has a chunk; its count is still to come.
LEMMA FrontStep ==
  ASSUME ChunksAssumption, ChunksInv, NEW t \in Workers, t = Producer, NEW s \in Slots[t], NEW b \in Slab,
         BufferManagerFront(t, s, b)
  PROVE  ChunksInv'
<1> DEFINE o == On("incr", b)
           c == [NoChunk EXCEPT !.impl = b]
<1>0. ShapesOK /\ CountsOK /\ LifeOK /\ BackedOK BY DEF ChunksInv
<1>1. /\ port /\ b \in ready /\ chunk[t][s] = NoChunk /\ chunk' = [chunk EXCEPT ![t][s] = c]
      /\ held' = held /\ looped' = looped /\ counter' = counter /\ freed' = freed /\ ready' = ready /\ port' = port /\ strong' = strong
  BY DEF BufferManagerFront
<1>2. Locks(t, <<o>>)
  <2>1. Do("incr", <<b>>) = <<o>> BY DEF Do, On
  <2> QED BY <2>1 DEF BufferManagerFront
<1>3. o \in Ops /\ o # unlock /\ o # release /\ o.op = "incr" /\ o.b = b
  <2>1. o \in Ops BY DEF Ops, On
  <2> QED BY <2>1, KindsApart, OpKinds
<1>4. /\ todo' \in [Workers -> Seq(Ops)] /\ \A u \in Workers \ {t} : todo'[u] = todo[u]
      /\ \A x : /\ Count(x)' = Count(x) + One(o = x) + One(unlock = x) /\ Count(x) \in Nat
                /\ Occ(todo'[t], x) = One(o = x) + One(unlock = x)
      /\ portLock' = t
  BY <1>2, <1>3, LocksFor
<1>5. looped \in BOOLEAN /\ Placed(chunk) /\ b \in Nat /\ b # NoBuffer
  BY <1>0 DEF ShapesOK, Placed, ChunksAssumption
<1>6. c = [impl |-> b, span |-> 0, next |-> 0] BY DEF NoChunk
<1>7. Reach(b, 0) = 0 /\ Following(b, 0) \in Seq(Slab) /\ Len(Following(b, 0)) = 0 BY <1>5, Chain
<1>8. c \in ChunkSet BY <1>5, <1>6, <1>7 DEF ChunkSet
<1>9. \A x : Occ(Uses(c), x) = One(b = x)
  <2> TAKE x
  <2>1. Uses(c) = Append(Following(b, 0), b) BY <1>5, <1>6 DEF Uses
  <2>2. \A i \in DOMAIN Following(b, 0) : FALSE BY <1>7, LenProperties
  <2>3. Occ(Following(b, 0), x) = 0 BY <2>2, <1>7, OccType
  <2>4. Occ(Append(Following(b, 0), b), x) = Occ(Following(b, 0), x) + One(b = x) BY <1>7, OccAppend
  <2> DEFINE k == One(b = x)
  <2>5. k \in Nat BY DEF One
  <2>6. Occ(Uses(c), x) = 0 + k BY <2>1, <2>3, <2>4
  <2> HIDE DEF k
  <2>7. Occ(Uses(c), x) = k BY <2>5, <2>6
  <2> QED BY <2>7 DEF k
<1>10. Puts(chunk, chunk', t, s, c) BY <1>1, <1>5, <1>8, PlaceChanged
<1> HIDE DEF c, o
<1>11. /\ Placed(chunk') /\ \A u \in Workers \ {t} : chunk'[u] = chunk[u]
       /\ chunk'[t][s] = c
  BY <1>10 DEF Puts
<1>12. \A x : /\ Refs(chunk, x)' = Refs(chunk', x) /\ Refs(chunk', x) \in Nat /\ Refs(chunk, x) \in Nat
  BY <1>0, <1>1, <1>5, <1>11, SameUses, RefsType DEF Placed
<1>13. \A x : Refs(chunk', x) = Refs(chunk, x) + One(b = x)
  <2> TAKE x
  <2>1. Refs(chunk', x) + Occ(Uses(NoChunk), x) = Refs(chunk, x) + Occ(Uses(c), x) BY <1>1, <1>10 DEF Puts
  <2>2. Occ(Uses(NoChunk), x) = 0 BY <1>5, NoChunkIs
  <2> QED BY <2>1, <2>2, <1>9, <1>12
<1>14. ASSUME NEW x
       PROVE  /\ Count(On("incr", x))' = Count(On("incr", x)) + One(b = x) /\ Count(On("incr", x)) \in Nat
              /\ Count(On("decr", x))' = Count(On("decr", x)) /\ Count(On("decr", x)) \in Nat
              /\ Returns(x)' = Returns(x)
              /\ Occ(todo'[t], On("incr", x)) = One(b = x)
  <2>1. One(o = On("incr", x)) = One(b = x) BY KindsApart DEF o
  <2>2. /\ One(unlock = On("incr", x)) = 0 /\ One(unlock = On("decr", x)) = 0
        /\ One(unlock = On("cleanup", x)) = 0 /\ One(unlock = On("push", x)) = 0
        /\ One(o = On("decr", x)) = 0 /\ One(o = On("cleanup", x)) = 0 /\ One(o = On("push", x)) = 0
    BY KindsApart DEF One, o
  <2>3. One(b = x) \in Nat BY DEF One
  <2>4. Count(On("incr", x))' = Count(On("incr", x)) + One(b = x) /\ Count(On("incr", x)) \in Nat
    BY <1>4, <2>1, <2>2, <2>3
  <2>5. Count(On("decr", x))' = Count(On("decr", x)) /\ Count(On("decr", x)) \in Nat BY <1>4, <2>2
  <2>6. Count(On("cleanup", x))' = Count(On("cleanup", x)) BY <1>4, <2>2
  <2>7. Count(On("push", x))' = Count(On("push", x)) BY <1>4, <2>2
  <2>8. Occ(todo'[t], On("incr", x)) = One(b = x) BY <1>4, <2>1, <2>2, <2>3
  <2> QED BY <2>4, <2>5, <2>6, <2>7, <2>8 DEF Returns
<1>15. ShapesOK'
  <2>1. Chunked(chunk)' BY <1>1, <1>11, SameUses DEF Placed
  <2> QED BY <1>0, <1>1, <1>4, <1>11, <2>1 DEF ShapesOK, Placed
<1>16. CountsOK'
  <2>1. ASSUME NEW x \in Slab
        PROVE  counter[x] + Count(On("incr", x))' = Refs(chunk', x) + One(x \in ready) + Count(On("decr", x))'
    <3> DEFINE k == One(b = x)
               r == One(x \in ready)
               i == Count(On("incr", x))
               d == Count(On("decr", x))
    <3>1. counter[x] + i = Refs(chunk, x) + r + d BY <1>0 DEF CountsOK
    <3>2. counter[x] \in Nat /\ k \in Nat /\ r \in Nat BY <1>0 DEF ShapesOK, One
    <3>3. Count(On("incr", x))' = i + k /\ i \in Nat /\ Count(On("decr", x))' = d /\ d \in Nat BY <1>14
    <3>4. Refs(chunk', x) = Refs(chunk, x) + k /\ Refs(chunk, x) \in Nat BY <1>12, <1>13
    <3> HIDE DEF k, r, i, d
    <3>5. counter[x] + (i + k) = (Refs(chunk, x) + k) + r + d BY <3>1, <3>2, <3>3, <3>4
    <3> QED BY <3>3, <3>4, <3>5 DEF r
  <2> QED BY <2>1, <1>1, <1>12 DEF CountsOK
<1>17. LifeOK'
  <2>1. counter[b] # 0 BY <1>0, <1>1 DEF LifeOK
  <2>2. \A x : Returns(x)' = Returns(x) BY <1>14
  <2>3. ASSUME NEW x \in Slab, counter[x] = 0
        PROVE  /\ Refs(chunk, x)' = 0 /\ x \notin ready
               /\ Count(On("incr", x))' = 0 /\ Count(On("decr", x))' = 0
    <3>1. Refs(chunk, x) = 0 /\ x \notin ready /\ Count(On("incr", x)) = 0 /\ Count(On("decr", x)) = 0
      BY <1>0, <2>3 DEF LifeOK
    <3>2. One(b = x) = 0 BY <2>1, <2>3 DEF One
    <3>3. Count(On("incr", x))' = 0 /\ Count(On("decr", x))' = 0 BY <3>1, <3>2, <1>14
    <3>4. Refs(chunk', x) = 0 BY <3>1, <3>2, <1>13
    <3> QED BY <3>1, <3>3, <3>4, <1>12
  <2> QED BY <2>2, <2>3, <1>0, <1>1 DEF LifeOK
<1>18. BackedOK'
  <2>1. ASSUME NEW x \in Slab PROVE Backs(t, s, x)'
    <3>1. Occ(todo'[t], On("incr", x)) = One(b = x) /\ Occ(Uses(chunk'[t][s]), x) = One(b = x)
      BY <1>9, <1>11, <1>14
    <3>2. One(b = x) \in Nat /\ (One(b = x) > 0 => b = x) BY DEF One
    <3>3. Occ(todo'[t], On("incr", x)) <= Occ(Uses(chunk'[t][s]), x) BY <3>1, <3>2
    <3>4. Occ(todo'[t], On("incr", x)) > 0 => t = Producer /\ port' /\ x \in ready' BY <3>1, <3>2, <1>1
    <3> QED BY <3>3, <3>4, <1>1, BacksNext
  <2> QED BY <2>1, <1>0, <1>1, <1>4, <1>11, StillBacked
<1>19. LockedOK' /\ ManagerOK'
  <2>1. Harmless(strong', chunk'[t], o) BY <1>3 DEF Harmless
  <2>2. One(port') + One(o = release) = One(port) BY <1>1, <1>3 DEF One
  <2>3. held' \in BOOLEAN BY <1>1 DEF ChunksInv, LockedOK
  <2> QED BY <2>1, <2>2, <2>3, <1>1, <1>2, <1>3, LockKeeps
<1> QED BY <1>15, <1>16, <1>17, <1>18, <1>19 DEF ChunksInv

\* The manager pops a buffer, of which the producer may have a chunk, and gives its count up.
LEMMA PopStep ==
  ASSUME ChunksAssumption, ChunksInv, NEW t \in Workers, t = Producer, NEW b \in Slab, BufferManagerPop(t, b)
  PROVE  ChunksInv'
<1> DEFINE o == On("decr", b)
<1>0. ShapesOK /\ CountsOK /\ LifeOK /\ BackedOK BY DEF ChunksInv
<1>1. /\ port /\ b \in ready /\ chunk' = chunk /\ ready' = ready \ {b}
      /\ looped' = looped /\ counter' = counter /\ freed' = freed /\ port' = port /\ strong' = strong
      /\ held' = HasChunkOf(t, b)
  BY DEF BufferManagerPop
<1>2. Locks(t, <<o>>)
  <2>1. Do("decr", <<b>>) = <<o>> BY DEF Do, On
  <2> QED BY <2>1 DEF BufferManagerPop
<1>3. o \in Ops /\ o # unlock /\ o # release /\ o.op = "decr" /\ o.b = b
  <2>1. o \in Ops BY DEF Ops, On
  <2> QED BY <2>1, KindsApart, OpKinds
<1>4. /\ todo' \in [Workers -> Seq(Ops)] /\ \A u \in Workers \ {t} : todo'[u] = todo[u]
      /\ \A x : /\ Count(x)' = Count(x) + One(o = x) + One(unlock = x) /\ Count(x) \in Nat
                /\ Occ(todo'[t], x) = One(o = x) + One(unlock = x)
      /\ portLock' = t
  BY <1>2, <1>3, LocksFor
<1> HIDE DEF o
<1>5. \A x : Refs(chunk, x)' = Refs(chunk, x) /\ Refs(chunk, x) \in Nat
  BY <1>0, <1>1, SameUses, RefsType DEF ShapesOK
<1>6. ASSUME NEW x
      PROVE  /\ Count(On("decr", x))' = Count(On("decr", x)) + One(b = x) /\ Count(On("decr", x)) \in Nat
             /\ Count(On("incr", x))' = Count(On("incr", x)) /\ Count(On("incr", x)) \in Nat
             /\ Returns(x)' = Returns(x)
             /\ Occ(todo'[t], On("incr", x)) = 0
  <2>1. One(o = On("decr", x)) = One(b = x) BY KindsApart DEF o
  <2>2. /\ One(unlock = On("incr", x)) = 0 /\ One(unlock = On("decr", x)) = 0
        /\ One(unlock = On("cleanup", x)) = 0 /\ One(unlock = On("push", x)) = 0
        /\ One(o = On("incr", x)) = 0 /\ One(o = On("cleanup", x)) = 0 /\ One(o = On("push", x)) = 0
    BY KindsApart DEF One, o
  <2>3. One(b = x) \in Nat BY DEF One
  <2>4. Count(On("decr", x))' = Count(On("decr", x)) + One(b = x) /\ Count(On("decr", x)) \in Nat
    BY <1>4, <2>1, <2>2, <2>3
  <2>5. Count(On("incr", x))' = Count(On("incr", x)) /\ Count(On("incr", x)) \in Nat BY <1>4, <2>2
  <2>6. Count(On("cleanup", x))' = Count(On("cleanup", x)) BY <1>4, <2>2
  <2>7. Count(On("push", x))' = Count(On("push", x)) BY <1>4, <2>2
  <2>8. Occ(todo'[t], On("incr", x)) = 0 BY <1>4, <2>2
  <2> QED BY <2>4, <2>5, <2>6, <2>7, <2>8 DEF Returns
<1>7. ShapesOK'
  <2>1. Chunked(chunk)' BY <1>0, <1>1, SameUses DEF ShapesOK
  <2>2. portLock' \in Workers /\ ready' \subseteq Slab BY <1>0, <1>1, <1>4 DEF ShapesOK
  <2> QED BY <1>0, <1>1, <1>4, <2>1, <2>2 DEF ShapesOK
<1>8. CountsOK'
  <2>1. ASSUME NEW x \in Slab
        PROVE  counter[x] + Count(On("incr", x)) = Refs(chunk, x) + One(x \in ready') + Count(On("decr", x))'
    <3> DEFINE k == One(b = x)
               r == One(x \in ready)
               r2 == One(x \in ready')
               i == Count(On("incr", x))
               d == Count(On("decr", x))
    <3>1. counter[x] + i = Refs(chunk, x) + r + d BY <1>0 DEF CountsOK
    <3>2. counter[x] \in Nat /\ k \in Nat /\ r \in Nat /\ r2 \in Nat BY <1>0 DEF ShapesOK, One
    <3>3. Count(On("decr", x))' = d + k /\ i \in Nat /\ d \in Nat /\ Refs(chunk, x) \in Nat BY <1>5, <1>6
    <3>4. r = r2 + k BY <1>1 DEF One
    <3> HIDE DEF k, r, i, d, r2
    <3>5. counter[x] + i = Refs(chunk, x) + r2 + (d + k) BY <3>1, <3>2, <3>3, <3>4
    <3> QED BY <3>3, <3>5 DEF r2, i
  <2>2. \A x : Count(On("incr", x))' = Count(On("incr", x)) BY <1>6
  <2>3. \A x : One(x \in ready)' = One(x \in ready') BY DEF One
  <2> QED BY <2>1, <2>2, <2>3, <1>1, <1>5 DEF CountsOK
<1>9. LifeOK'
  <2>1. counter[b] # 0 BY <1>0, <1>1 DEF LifeOK
  <2>2. \A x : Returns(x)' = Returns(x) BY <1>6
  <2>3. ASSUME NEW x \in Slab, counter[x] = 0
        PROVE  /\ Refs(chunk, x)' = 0 /\ x \notin ready'
               /\ Count(On("incr", x))' = 0 /\ Count(On("decr", x))' = 0
    <3>1. Refs(chunk, x) = 0 /\ x \notin ready /\ Count(On("incr", x)) = 0 /\ Count(On("decr", x)) = 0
      BY <1>0, <2>3 DEF LifeOK
    <3>2. One(b = x) = 0 BY <2>1, <2>3 DEF One
    <3> QED BY <3>1, <3>2, <1>1, <1>5, <1>6
  <2> QED BY <2>2, <2>3, <1>0, <1>1 DEF LifeOK
<1>10. BackedOK'
  <2>1. \A x \in Slab : Occ(todo'[t], On("incr", x)) = 0 BY <1>6
  <2>2. \A u \in Workers \ {t} : todo'[u] = todo[u] /\ chunk'[u] = chunk[u] BY <1>1, <1>4
  <2> QED BY <2>1, <2>2, <1>0, <1>1, <1>4, StillBacked
<1>11. LockedOK' /\ ManagerOK'
  <2>1. held' \in BOOLEAN /\ (held' => Harmless(strong', chunk'[t], o))
    <3>1. DOMAIN chunk[t] = Slots[t] BY <1>0 DEF ShapesOK
    <3> QED BY <3>1, <1>1, <1>3 DEF Harmless, HasChunkOf
  <2>2. One(port') + One(o = release) = One(port) BY <1>1, <1>3 DEF One
  <2>3. ready' \subseteq ready BY <1>1
  <2> QED BY <2>1, <2>2, <2>3, <1>1, <1>2, <1>3, LockKeeps
<1> QED BY <1>7, <1>8, <1>9, <1>10, <1>11 DEF ChunksInv

\* The port gives its manager up.
LEMMA SetupStep ==
  ASSUME ChunksAssumption, ChunksInv, NEW t \in Workers, t = Producer, BufferManagerSetup(t)
  PROVE  ChunksInv'
<1>0. ShapesOK /\ CountsOK /\ LifeOK /\ BackedOK BY DEF ChunksInv
<1>1. /\ port = TRUE /\ port' = FALSE /\ chunk' = chunk /\ ready' = ready
      /\ held' = held /\ looped' = looped /\ counter' = counter /\ freed' = freed /\ strong' = strong
  BY <1>0 DEF BufferManagerSetup, ShapesOK
<1>2. Locks(t, <<release>>) BY DEF BufferManagerSetup, release
<1>3. release \in Ops /\ release # unlock /\ release.op = "release"
  <2>1. release \in Ops BY DEF Ops
  <2> QED BY <2>1, KindsApart, OpKinds
<1>4. /\ todo' \in [Workers -> Seq(Ops)] /\ \A u \in Workers \ {t} : todo'[u] = todo[u]
      /\ \A x : /\ Count(x)' = Count(x) + One(release = x) + One(unlock = x) /\ Count(x) \in Nat
                /\ Occ(todo'[t], x) = One(release = x) + One(unlock = x)
      /\ portLock' = t
  BY <1>2, <1>3, LocksFor
<1>5. \A x : Refs(chunk, x)' = Refs(chunk, x) BY <1>1, SameUses
<1>6. ASSUME NEW x
      PROVE  /\ Count(On("decr", x))' = Count(On("decr", x)) /\ Count(On("incr", x))' = Count(On("incr", x))
             /\ Returns(x)' = Returns(x)
             /\ Occ(todo'[t], On("incr", x)) = 0
  <2>1. /\ One(unlock = On("incr", x)) = 0 /\ One(unlock = On("decr", x)) = 0
        /\ One(unlock = On("cleanup", x)) = 0 /\ One(unlock = On("push", x)) = 0
        /\ One(release = On("incr", x)) = 0 /\ One(release = On("decr", x)) = 0
        /\ One(release = On("cleanup", x)) = 0 /\ One(release = On("push", x)) = 0
    BY KindsApart DEF One
  <2>2. Count(On("decr", x))' = Count(On("decr", x)) BY <1>4, <2>1
  <2>3. Count(On("incr", x))' = Count(On("incr", x)) BY <1>4, <2>1
  <2>4. Count(On("cleanup", x))' = Count(On("cleanup", x)) BY <1>4, <2>1
  <2>5. Count(On("push", x))' = Count(On("push", x)) BY <1>4, <2>1
  <2>6. Occ(todo'[t], On("incr", x)) = 0 BY <1>4, <2>1
  <2> QED BY <2>2, <2>3, <2>4, <2>5, <2>6 DEF Returns
<1>7. ShapesOK'
  <2>1. Chunked(chunk)' BY <1>0, <1>1, SameUses DEF ShapesOK
  <2> QED BY <1>0, <1>1, <1>4, <2>1 DEF ShapesOK
<1>8. CountsOK' BY <1>0, <1>1, <1>5, <1>6 DEF CountsOK
<1>9. LifeOK' BY <1>0, <1>1, <1>5, <1>6 DEF LifeOK
<1>10. BackedOK'
  <2>1. \A x \in Slab : Occ(todo'[t], On("incr", x)) = 0 BY <1>6
  <2>2. \A u \in Workers \ {t} : todo'[u] = todo[u] /\ chunk'[u] = chunk[u] BY <1>1, <1>4
  <2> QED BY <2>1, <2>2, <1>0, <1>1, <1>4, StillBacked
<1>11. LockedOK' /\ ManagerOK'
  <2>1. Harmless(strong', chunk'[t], release) BY <1>3 DEF Harmless
  <2>2. One(port') + One(release = release) = One(port) BY <1>1 DEF One
  <2>3. held' \in BOOLEAN BY <1>1 DEF ChunksInv, LockedOK
  <2> QED BY <2>1, <2>2, <2>3, <1>1, <1>2, <1>3, LockKeeps
<1> QED BY <1>7, <1>8, <1>9, <1>10, <1>11 DEF ChunksInv

\* A step of a call that has the lock, or waits for nothing.
LEMMA StepLocked ==
  ASSUME ChunksAssumption, ChunksInv, NEW t \in Workers, ~ Idle(t), NEW ops \in Seq(Ops), Continue(t, ops),
         chunk' = chunk, portLock' = portLock, held' = held, strong = 0 => strong' = 0,
         First(t) # unlock, Occ(ops, unlock) = 0,
         portLock = t /\ held => \A i \in DOMAIN ops : Harmless(strong', chunk[t], ops[i])
  PROVE  LockedOK'
<1>1. ShapesOK /\ LockedOK BY DEF ChunksInv
<1>2. /\ \A u \in Workers \ {t} : todo'[u] = todo[u]
      /\ \A i \in DOMAIN todo'[t] : \/ i \in DOMAIN ops /\ todo'[t][i] = ops[i]
                                    \/ \E j \in DOMAIN todo[t] : j > 1 /\ todo'[t][i] = todo[t][j]
  BY <1>1, Continues
<1>3. Occ(todo'[t], unlock) = Occ(todo[t], unlock)
  <2>1. Occ(todo'[t], unlock) \in Nat /\ Occ(todo'[t], unlock) + One(First(t) = unlock) = Occ(todo[t], unlock) + Occ(ops, unlock)
    BY <1>1, Continues
  <2>2. One(First(t) = unlock) = 0 BY DEF One
  <2>3. Occ(todo[t], unlock) \in Nat BY <1>1, CountType
  <2> QED BY <2>1, <2>2, <2>3
<1>4. \A u \in Workers : Occ(todo'[u], unlock) = One(portLock = u) BY <1>1, <1>2, <1>3 DEF LockedOK
<1>5. \A mine, o : Harmless(strong, mine, o) => Harmless(strong', mine, o) BY DEF Harmless
<1>6. ASSUME NEW u \in Workers, portLock = u, held, NEW i \in DOMAIN todo'[u] PROVE Harmless(strong', chunk'[u], todo'[u][i])
  <2>1. CASE u # t
    <3>1. Harmless(strong, chunk[u], todo[u][i]) BY <2>1, <1>1, <1>2, <1>6 DEF LockedOK
    <3> QED BY <2>1, <3>1, <1>2, <1>5
  <2>2. CASE u = t /\ i \in DOMAIN ops /\ todo'[t][i] = ops[i] BY <2>2, <1>6
  <2>3. ASSUME u = t, NEW j \in DOMAIN todo[t], todo'[t][i] = todo[t][j]
        PROVE  Harmless(strong', chunk'[u], todo'[u][i])
    <3>1. Harmless(strong, chunk[t], todo[t][j]) BY <2>3, <1>1, <1>6 DEF LockedOK
    <3> QED BY <2>3, <3>1, <1>5
  <2> QED BY <2>1, <2>2, <2>3, <1>2, <1>6
<1>7. \A u \in Workers : Occ(todo[u], unlock)' = Occ(todo'[u], unlock) BY DEF Occ, Occurs, unlock
<1>8. \A u \in Workers : One(portLock = u)' = One(portLock = u) BY DEF One
<1> QED BY <1>1, <1>4, <1>6, <1>7, <1>8 DEF LockedOK

\* Pushing stays first, before a release of the same thread.
LEMMA StepManager ==
  ASSUME ChunksAssumption, ChunksInv, NEW t \in Workers, ~ Idle(t), NEW ops \in Seq(Ops), Continue(t, ops),
         strong' = One(port') + Count(release)', strong' = 0 => ready' = {}, freed' # {} => strong' = 0,
         \A i \in DOMAIN ops : ops[i].op = "push" => i = 1 /\ Occ(todo'[t], release) > 0
  PROVE  ManagerOK'
<1>1. ShapesOK /\ ManagerOK BY DEF ChunksInv
<1>2. /\ \A u \in Workers \ {t} : todo'[u] = todo[u]
      /\ \A i \in DOMAIN todo'[t] : \/ i \in DOMAIN ops /\ todo'[t][i] = ops[i]
                                    \/ \E j \in DOMAIN todo[t] : j > 1 /\ todo'[t][i] = todo[t][j]
  BY <1>1, Continues
<1>3. ASSUME NEW u \in Workers, NEW i \in DOMAIN todo'[u], todo'[u][i].op = "push"
      PROVE  i = 1 /\ Occ(todo'[u], release) > 0
  <2>1. CASE u # t BY <2>1, <1>1, <1>2, <1>3 DEF ManagerOK
  <2>2. CASE u = t /\ i \in DOMAIN ops /\ todo'[t][i] = ops[i] BY <2>2, <1>3
  <2>3. ASSUME u = t, NEW j \in DOMAIN todo[t], j > 1, todo'[t][i] = todo[t][j] PROVE FALSE
    <3>1. j = 1 BY <2>3, <1>1, <1>3 DEF ManagerOK
    <3> QED BY <2>3, <3>1
  <2> QED BY <2>1, <2>2, <2>3, <1>2, <1>3
<1> QED BY <1>3 DEF ManagerOK, Occ, Occurs, One, release

\* A step that adds no counts leaves the others backed.
LEMMA StepBacked ==
  ASSUME ChunksAssumption, ChunksInv, NEW t \in Workers, ~ Idle(t), NEW ops \in Seq(Ops), Continue(t, ops),
         looped' = looped, chunk' = chunk, port => port' /\ ready \subseteq ready',
         \A b \in Slab : Occ(ops, On("incr", b)) = 0
  PROVE  BackedOK'
<1>1. ShapesOK /\ BackedOK BY DEF ChunksInv
<1>2. todo' \in [Workers -> Seq(Ops)] /\ \A u \in Workers \ {t} : todo'[u] = todo[u]
  BY <1>1, Continues
<1>3. ASSUME NEW b \in Slab PROVE Occ(todo'[t], On("incr", b)) <= Occ(todo[t], On("incr", b))
  <2> DEFINE x == On("incr", b)
             k == One(First(t) = x)
  <2>1. Occ(todo'[t], x) \in Nat /\ Occ(todo'[t], x) + k = Occ(todo[t], x) + Occ(ops, x) BY <1>1, Continues
  <2>2. k \in Nat BY DEF One
  <2>3. Occ(todo[t], x) \in Nat BY <1>1, CountType
  <2>4. Occ(ops, x) = 0 OBVIOUS
  <2> HIDE DEF x, k
  <2>5. Occ(todo'[t], x) <= Occ(todo[t], x) BY <2>1, <2>2, <2>3, <2>4
  <2> QED BY <2>5 DEF x
<1>4. \A u \in Workers \ {t} : todo'[u] = todo[u] /\ chunk'[u] = chunk[u] BY <1>2
<1>5. chunk'[t] = chunk[t] OBVIOUS
<1> QED BY <1>1, <1>2, <1>3, <1>4, <1>5, StillBacked

\* What the first operation of a thread is, and what is left without it.
LEMMA StepCounts ==
  ASSUME ChunksAssumption, ChunksInv, NEW t \in Workers, ~ Idle(t), NEW ops \in Seq(Ops), Continue(t, ops),
         chunk' = chunk, looped' = looped
  PROVE  /\ First(t) \in Ops /\ todo' \in [Workers -> Seq(Ops)]
         /\ \A x : /\ Count(x)' \in Nat /\ Count(x) \in Nat /\ Occ(ops, x) \in Nat
                   /\ Count(x)' + One(First(t) = x) = Count(x) + Occ(ops, x)
         /\ \A b : Refs(chunk, b)' = Refs(chunk, b) /\ Refs(chunk, b) \in Nat
         /\ Count(First(t)) > 0
<1>1. ShapesOK BY DEF ChunksInv
<1>2. /\ First(t) \in Ops /\ todo' \in [Workers -> Seq(Ops)]
      /\ \A x : /\ Count(x)' \in Nat /\ Occ(ops, x) \in Nat
                /\ Count(x)' + One(First(t) = x) = Count(x) + Occ(ops, x)
  BY <1>1, Continues
<1>3. \A x : Count(x) \in Nat BY <1>1, CountType
<1>4. \A b : Refs(chunk, b)' = Refs(chunk, b) /\ Refs(chunk, b) \in Nat
  BY <1>1, SameUses, RefsType DEF ShapesOK
<1>5. Count(First(t)) > 0
  <2> DEFINE f == First(t)
             q == todo[t]
  <2>1. q \in Seq(Ops) /\ q # <<>> /\ f = Head(q) BY <1>1 DEF ShapesOK, Idle, First
  <2>2. Occ(q, f) \in Nat /\ Occ(q, f) <= Count(f) BY <1>1, CountType
  <2>3. Tail(q) \in Seq(Ops) BY <2>1, HeadTailProperties, Zenon
  <2> HIDE DEF f, q
  <2>4. Occ(q, f) = One(Head(q) = f) + Occ(Tail(q), f) BY <2>1, OccTail
  <2>5. One(Head(q) = f) = 1 BY <2>1 DEF One
  <2>6. Occ(Tail(q), f) \in Nat BY <2>3, OccType
  <2>7. Count(f) \in Nat BY <1>3
  <2>8. Occ(q, f) = 1 + Occ(Tail(q), f) BY <2>4, <2>5, Zenon
  <2>9. Count(f) > 0 BY <2>2, <2>6, <2>7, <2>8
  <2> QED BY <2>9 DEF f
<1> QED BY <1>2, <1>3, <1>4, <1>5, Zenon

\* A call that has nothing more to do.
LEMMA NoOps ==
  /\ <<>> \in Seq(Ops) /\ \A i \in DOMAIN <<>> : FALSE
  /\ \A x : Occ(<<>>, x) = 0
BY OccEmpty

\* The increment of a counter.
LEMMA IncrStep ==
  ASSUME ChunksAssumption, ChunksInv, NEW t \in Workers, Incr(t)
  PROVE  ChunksInv'
<1>0. ShapesOK /\ CountsOK /\ LifeOK /\ BackedOK /\ ManagerOK BY DEF ChunksInv
<1>1. /\ ~ Idle(t) /\ First(t).op = "incr" /\ Continue(t, <<>>) /\ counter' = [counter EXCEPT ![First(t).b] = @ + 1]
      /\ held' = held /\ looped' = looped /\ freed' = freed /\ ready' = ready /\ port' = port /\ strong' = strong
      /\ portLock' = portLock /\ chunk' = chunk
  BY DEF Incr, Step
<1>2. /\ First(t) \in Ops /\ todo' \in [Workers -> Seq(Ops)]
      /\ \A x : /\ Count(x)' \in Nat /\ Count(x) \in Nat /\ Occ(<<>>, x) \in Nat
                /\ Count(x)' + One(First(t) = x) = Count(x) + Occ(<<>>, x)
      /\ \A b : Refs(chunk, b)' = Refs(chunk, b) /\ Refs(chunk, b) \in Nat
      /\ Count(First(t)) > 0
  BY <1>1, NoOps, StepCounts, Zenon
<1>3. PICK b \in Slab : First(t) = On("incr", b) /\ First(t).b = b BY <1>1, <1>2, OpKinds
<1>4. ASSUME NEW x
      PROVE  /\ Count(On("incr", x))' + One(b = x) = Count(On("incr", x))
             /\ Count(On("decr", x))' = Count(On("decr", x)) /\ Count(release)' = Count(release)
             /\ Returns(x)' = Returns(x)
  <2>1. One(First(t) = On("incr", x)) = One(b = x) BY <1>3, KindsApart
  <2>2. /\ One(First(t) = On("decr", x)) = 0 /\ One(First(t) = On("cleanup", x)) = 0
        /\ One(First(t) = On("push", x)) = 0 /\ One(First(t) = release) = 0
    BY <1>3, KindsApart DEF One
  <2>3. \A y : Occ(<<>>, y) = 0 BY NoOps
  <2>4. Count(On("incr", x))' + One(b = x) = Count(On("incr", x)) BY <1>2, <2>1, <2>3
  <2>5. Count(On("decr", x))' = Count(On("decr", x)) BY <1>2, <2>2, <2>3
  <2>6. Count(On("cleanup", x))' = Count(On("cleanup", x)) BY <1>2, <2>2, <2>3
  <2>7. Count(On("push", x))' = Count(On("push", x)) BY <1>2, <2>2, <2>3
  <2>8. Count(release)' = Count(release) BY <1>2, <2>2, <2>3
  <2> QED BY <2>4, <2>5, <2>6, <2>7, <2>8 DEF Returns
<1>5. /\ counter' \in [Slab -> Nat] /\ counter'[b] = counter[b] + 1 /\ \A x \in Slab \ {b} : counter'[x] = counter[x]
      /\ counter \in [Slab -> Nat]
  BY <1>0, <1>1, <1>3 DEF ShapesOK
<1>6. ShapesOK'
  <2>1. Chunked(chunk)' BY <1>0, <1>1, SameUses DEF ShapesOK
  <2> QED BY <1>0, <1>1, <1>2, <1>5, <2>1 DEF ShapesOK
<1>7. CountsOK'
  <2>1. ASSUME NEW x \in Slab
        PROVE  counter'[x] + Count(On("incr", x))' = Refs(chunk, x) + One(x \in ready) + Count(On("decr", x))
    <3> DEFINE k == One(b = x)
               r == One(x \in ready)
               i == Count(On("incr", x))
               j == Count(On("incr", x))'
    <3>1. counter[x] + i = Refs(chunk, x) + r + Count(On("decr", x)) BY <1>0 DEF CountsOK
    <3>2. counter'[x] = counter[x] + k BY <1>5 DEF One
    <3>3. j + k = i BY <1>4
    <3>4. k \in Nat /\ i \in Nat /\ j \in Nat /\ counter[x] \in Nat BY <1>2, <1>5 DEF One
    <3> HIDE DEF k, i, j, r
    <3>5. counter'[x] + j = counter[x] + i BY <3>2, <3>3, <3>4
    <3> QED BY <3>1, <3>5, Zenon DEF r, j
  <2>2. \A x : One(x \in ready)' = One(x \in ready) BY <1>1 DEF One
  <2> QED BY <2>1, <2>2, <1>1, <1>2, <1>4 DEF CountsOK
<1>8. LifeOK'
  <2>1. counter[b] # 0
    <3>1. Count(On("incr", b)) > 0 BY <1>2, <1>3
    <3> QED BY <3>1, <1>0 DEF LifeOK
  <2>2. counter'[b] # 0 BY <1>5
  <2>3. \A x : Returns(x)' = Returns(x) BY <1>4
  <2>4. ASSUME NEW x \in Slab, x # b
        PROVE  /\ Count(On("incr", x))' = Count(On("incr", x)) /\ Count(On("decr", x))' = Count(On("decr", x))
               /\ counter'[x] = counter[x]
    <3>1. One(b = x) = 0 BY <2>4 DEF One
    <3>2. Count(On("incr", x))' + One(b = x) = Count(On("incr", x)) BY <1>4
    <3>3. Count(On("incr", x))' + 0 = Count(On("incr", x)) BY <3>1, <3>2
    <3>4. Count(On("incr", x))' \in Nat BY <1>2
    <3> QED BY <3>3, <3>4, <2>4, <1>4, <1>5
  <2> QED BY <2>1, <2>2, <2>3, <2>4, <1>0, <1>1, <1>2 DEF LifeOK
<1>9. BackedOK'
  BY <1>1, NoOps, StepBacked
<1>10. ManagerOK'
  <2>1. strong' = One(port') + Count(release)' BY <1>0, <1>1, <1>4 DEF ManagerOK
  <2>2. (strong' = 0 => ready' = {}) /\ (freed' # {} => strong' = 0) BY <1>0, <1>1 DEF ManagerOK
  <2> QED BY <2>1, <2>2, <1>1, NoOps, StepManager
<1>11. LockedOK'
  <2>1. First(t) # unlock BY <1>3, KindsApart
  <2> QED BY <2>1, <1>1, NoOps, StepLocked
<1> QED BY <1>6, <1>7, <1>8, <1>9, <1>10, <1>11 DEF ChunksInv

\* A call that has one thing more to do.
LEMMA OneOp ==
  ASSUME NEW o \in Ops
  PROVE  /\ <<o>> \in Seq(Ops) /\ \A i \in DOMAIN <<o>> : <<o>>[i] = o
         /\ \A x : Occ(<<o>>, x) = One(o = x)
<1>1. <<o>> \in Seq(Ops) /\ \A i \in DOMAIN <<o>> : <<o>>[i] = o OBVIOUS
<1>2. \A x : Occ(<<o>>, x) = One(o = x) BY OccSingle
<1> QED BY <1>1, <1>2

\* What is to be shown of a step that leaves the chunks alone.
LEMMA CountsNext ==
  ASSUME looped' = looped, chunk' = chunk,
         \A x \in Slab : counter'[x] + Count(On("incr", x))' = Refs(chunk, x) + One(x \in ready') + Count(On("decr", x))'
  PROVE  CountsOK'
<1>1. \A x : Refs(chunk, x)' = Refs(chunk, x) BY SameUses
<1>2. \A x : One(x \in ready)' = One(x \in ready') BY DEF One
<1> QED BY <1>1, <1>2 DEF CountsOK

\* What LifeOK says of one buffer
Lives(b, n, away, gone, refs, has, incr, decr) ==
  /\ away <= 1 /\ (gone => away = 0)
  /\ n = 0 <=> gone \/ away = 1
  /\ n = 0 => refs = 0 /\ ~ has /\ incr = 0 /\ decr = 0

\* It says so of each.
LEMMA LivesNow ==
  LifeOK <=> \A b \in Slab : Lives(b, counter[b], Returns(b), b \in freed, Refs(chunk, b), b \in ready,
                                   Count(On("incr", b)), Count(On("decr", b)))
BY DEF LifeOK, Lives

\* It says so after a step that leaves the chunks alone.
LEMMA LivesNext ==
  ASSUME looped' = looped, chunk' = chunk,
         \A b \in Slab : Lives(b, counter'[b], Returns(b)', b \in freed', Refs(chunk, b), b \in ready',
                              Count(On("incr", b))', Count(On("decr", b))')
  PROVE  LifeOK'
<1>1. \A x : Refs(chunk, x)' = Refs(chunk, x) BY SameUses
<1> QED BY <1>1 DEF LifeOK, Lives

(* The decrement of a counter: whoever takes the last one is the only one *)
(* who has the buffer, and does not have the port's lock unless the        *)
(* manager is gone.                                                        *)
LEMMA DecrStep ==
  ASSUME ChunksAssumption, ChunksInv, NEW t \in Workers, Decr(t)
  PROVE  ChunksInv'
<1>0. ShapesOK /\ CountsOK /\ LifeOK /\ BackedOK /\ ManagerOK /\ LockedOK BY DEF ChunksInv
<1> DEFINE f == First(t)
           c == On("cleanup", f.b)
           last == counter[f.b] = 1
           ops == IF last THEN <<c>> ELSE <<>>
<1>1. /\ ~ Idle(t) /\ f.op = "decr" /\ Continue(t, ops) /\ counter' = [counter EXCEPT ![f.b] = @ - 1]
      /\ held' = held /\ looped' = looped /\ freed' = freed /\ ready' = ready /\ port' = port /\ strong' = strong
      /\ portLock' = portLock /\ chunk' = chunk
  BY DEF Decr, Step, WasLast, On
<1>2. f \in Ops
  <2>1. todo[t] \in Seq(Ops) /\ todo[t] # <<>> BY <1>0, <1>1 DEF ShapesOK, Idle
  <2>2. f = Head(todo[t]) BY DEF First
  <2> HIDE DEF f
  <2> QED BY <2>1, <2>2, HeadTailProperties, Zenon
<1>3. PICK b \in Slab : f = On("decr", b) /\ f.b = b BY <1>1, <1>2, OpKinds
<1>4. c = On("cleanup", b) /\ c \in Ops /\ c.op = "cleanup" /\ last = (counter[b] = 1)
  <2>1. On("cleanup", b) \in Ops BY DEF Ops, On
  <2> QED BY <2>1, <1>3, OpKinds
<1> HIDE DEF c, last
<1>5. /\ ops \in Seq(Ops) /\ \A i \in DOMAIN ops : last /\ ops[i] = c
      /\ \A x : Occ(ops, x) = IF last THEN One(c = x) ELSE 0
  <2>1. CASE last
    <3>1. ops = <<c>> BY <2>1
    <3>2. /\ <<c>> \in Seq(Ops) /\ \A i \in DOMAIN <<c>> : <<c>>[i] = c
          /\ \A x : Occ(<<c>>, x) = One(c = x)
      BY <1>4, OneOp
    <3> QED BY <2>1, <3>1, <3>2, Zenon
  <2>2. CASE ~ last
    <3>1. ops = <<>> BY <2>2
    <3> QED BY <2>2, <3>1, NoOps, Zenon
  <2> QED BY <2>1, <2>2
<1> HIDE DEF ops, f
<1>6. /\ todo' \in [Workers -> Seq(Ops)]
      /\ \A x : /\ Count(x)' \in Nat /\ Count(x) \in Nat /\ Occ(ops, x) \in Nat
                /\ Count(x)' + One(First(t) = x) = Count(x) + Occ(ops, x)
      /\ \A x : Refs(chunk, x)' = Refs(chunk, x) /\ Refs(chunk, x) \in Nat
      /\ Count(First(t)) > 0
  BY <1>1, <1>5, StepCounts, Zenon
<1>7. First(t) = On("decr", b) BY <1>3 DEF f
<1>8. ASSUME NEW x
      PROVE  /\ Count(On("decr", x))' + One(b = x) = Count(On("decr", x))
             /\ Count(On("incr", x))' = Count(On("incr", x)) /\ Count(release)' = Count(release)
             /\ Returns(x)' = Returns(x) + (IF last THEN One(b = x) ELSE 0) /\ Returns(x) \in Nat
  <2>1. One(First(t) = On("decr", x)) = One(b = x) /\ One(c = On("cleanup", x)) = One(b = x) BY <1>4, <1>7, KindsApart
  <2>2. /\ One(First(t) = On("incr", x)) = 0 /\ One(First(t) = On("cleanup", x)) = 0
        /\ One(First(t) = On("push", x)) = 0 /\ One(First(t) = release) = 0
        /\ One(c = On("decr", x)) = 0 /\ One(c = On("incr", x)) = 0 /\ One(c = On("push", x)) = 0
        /\ One(c = release) = 0
    BY <1>4, <1>7, KindsApart DEF One
  <2>3. One(b = x) \in Nat BY DEF One
  <2>4. Count(On("decr", x))' + One(b = x) = Count(On("decr", x)) BY <1>5, <1>6, <2>1, <2>2
  <2>5. Count(On("incr", x))' = Count(On("incr", x)) BY <1>5, <1>6, <2>2
  <2>6. Count(On("push", x))' = Count(On("push", x)) /\ Count(On("push", x)) \in Nat BY <1>5, <1>6, <2>2
  <2>7. Count(release)' = Count(release) BY <1>5, <1>6, <2>2
  <2>8. Count(On("cleanup", x))' = Count(On("cleanup", x)) + (IF last THEN One(b = x) ELSE 0)
        /\ Count(On("cleanup", x)) \in Nat
    BY <1>5, <1>6, <2>1, <2>2, <2>3
  <2> DEFINE k == IF last THEN One(b = x) ELSE 0
  <2>9. k \in Nat BY <2>3
  <2> HIDE DEF k
  <2>10. (Count(On("cleanup", x)) + k) + Count(On("push", x)) = (Count(On("cleanup", x)) + Count(On("push", x))) + k
    BY <2>6, <2>8, <2>9
  <2>11. Returns(x)' = Returns(x) + k /\ Returns(x) \in Nat BY <2>6, <2>8, <2>9, <2>10 DEF Returns, k
  <2> QED BY <2>4, <2>5, <2>7, <2>11 DEF k
<1>9. /\ counter[b] > 0
      /\ counter[b] = 1 => /\ Refs(chunk, b) = 0 /\ b \notin ready
                           /\ Count(On("incr", b)) = 0 /\ Count(On("decr", b)) = 1
  BY <1>0, <1>6, <1>7, LastOne
<1>10. /\ counter' \in [Slab -> Nat] /\ counter'[b] = counter[b] - 1 /\ \A x \in Slab \ {b} : counter'[x] = counter[x]
       /\ counter \in [Slab -> Nat]
  <2>1. counter \in [Slab -> Nat] /\ counter[b] \in Nat BY <1>0 DEF ShapesOK
  <2>2. counter[b] - 1 \in Nat BY <2>1, <1>9
  <2> QED BY <2>1, <2>2, <1>1, <1>3
<1>11. ShapesOK'
  <2>1. Chunked(chunk)' BY <1>0, <1>1, SameUses DEF ShapesOK
  <2> QED BY <1>0, <1>1, <1>6, <1>10, <2>1 DEF ShapesOK
<1>12. CountsOK'
  <2>1. ASSUME NEW x \in Slab
        PROVE  counter'[x] + Count(On("incr", x))' = Refs(chunk, x) + One(x \in ready') + Count(On("decr", x))'
    <3> DEFINE k == One(b = x)
               r == One(x \in ready)
               d == Count(On("decr", x))
               e == Count(On("decr", x))'
               i == Count(On("incr", x))
               m == counter'[x]
               n == counter[x]
               p == Refs(chunk, x)
    <3>1. counter[x] + i = Refs(chunk, x) + r + d BY <1>0 DEF CountsOK
    <3>2. counter'[x] = counter[x] - k BY <1>10 DEF One
    <3>3. e + k = d BY <1>8
    <3>4. k \in Nat /\ d \in Nat /\ e \in Nat /\ i \in Nat /\ r \in Nat /\ counter[x] \in Nat /\ Refs(chunk, x) \in Nat
      BY <1>6, <1>10 DEF One
    <3> HIDE DEF k, d, e, r, i, m, n, p
    <3>5. n + i = p + r + d BY <3>1 DEF n, p
    <3>6. m = n - k BY <3>2 DEF n, m
    <3>7. m + i = p + r + e BY <3>3, <3>4, <3>5, <3>6 DEF n, p
    <3>8. Count(On("incr", x))' = i BY <1>8 DEF i
    <3> QED BY <3>7, <3>8, <1>1, Zenon DEF r, e, m, p
  <2> QED BY <2>1, <1>1, CountsNext
<1>13. LifeOK'
  <2>1. ASSUME NEW x \in Slab, x # b
        PROVE  /\ Count(On("incr", x))' = Count(On("incr", x)) /\ Count(On("decr", x))' = Count(On("decr", x))
               /\ Returns(x)' = Returns(x) /\ counter'[x] = counter[x]
    <3>1. One(b = x) = 0 BY <2>1 DEF One
    <3>2. Count(On("decr", x))' + 0 = Count(On("decr", x)) BY <3>1, <1>8
    <3>3. Returns(x)' = Returns(x) + 0 /\ Returns(x) \in Nat BY <3>1, <1>8
    <3>4. Count(On("decr", x))' \in Nat BY <1>6
    <3> QED BY <3>2, <3>3, <3>4, <2>1, <1>8, <1>10
  <2>2. b \notin freed /\ Returns(b) = 0
    <3>1. Returns(b) <= 1 /\ Returns(b) # 1 /\ b \notin freed /\ Returns(b) \in Nat BY <1>0, <1>8, <1>9 DEF LifeOK
    <3> QED BY <3>1
  <2>3. One(b = b) = 1 BY DEF One
  <2>6. ASSUME NEW x \in Slab, x # b
        PROVE  Lives(x, counter'[x], Returns(x)', x \in freed', Refs(chunk, x), x \in ready',
                     Count(On("incr", x))', Count(On("decr", x))')
    BY <2>1, <2>6, <1>0, <1>1, LivesNow
  <2>4. CASE last
    <3>1. counter[b] = 1 /\ Refs(chunk, b) = 0 /\ b \notin ready /\ Count(On("incr", b)) = 0 /\ Count(On("decr", b)) = 1
      BY <2>4, <1>4, <1>9
    <3>2. counter'[b] = 0 BY <3>1, <1>10
    <3>3. Returns(b)' = 1
      <4>1. Returns(b)' = Returns(b) + (IF last THEN One(b = b) ELSE 0) BY <1>8
      <4> QED BY <4>1, <2>2, <2>3, <2>4
    <3>4. Count(On("incr", b))' = 0 BY <3>1, <1>8
    <3>5. Count(On("decr", b))' = 0
      <4>1. Count(On("decr", b))' + One(b = b) = Count(On("decr", b)) BY <1>8
      <4>2. Count(On("decr", b))' \in Nat BY <1>6
      <4> QED BY <4>1, <4>2, <3>1, <2>3
    <3>6. Lives(b, counter'[b], Returns(b)', b \in freed', Refs(chunk, b), b \in ready',
                Count(On("incr", b))', Count(On("decr", b))')
      BY <3>1, <3>2, <3>3, <3>4, <3>5, <2>2, <1>1 DEF Lives
    <3> QED BY <3>6, <2>6, <1>1, LivesNext
  <2>5. CASE ~ last
    <3>1. counter'[b] # 0
      <4>1. counter[b] \in Nat /\ counter[b] > 0 /\ counter[b] # 1 BY <2>5, <1>4, <1>9, <1>10
      <4>2. counter'[b] = counter[b] - 1 BY <1>10
      <4> QED BY <4>1, <4>2
    <3>2. Returns(b)' = 0 BY <2>2, <2>5, <1>8
    <3>3. Lives(b, counter'[b], Returns(b)', b \in freed', Refs(chunk, b), b \in ready',
                Count(On("incr", b))', Count(On("decr", b))')
      BY <3>1, <3>2, <2>2, <1>1 DEF Lives
    <3> QED BY <3>3, <2>6, <1>1, LivesNext
  <2> QED BY <2>4, <2>5
<1>14. BackedOK'
  <2>1. \A x \in Slab : Occ(ops, On("incr", x)) = 0 BY <1>4, <1>5, KindsApart DEF One
  <2> QED BY <2>1, <1>1, <1>5, StepBacked
<1>15. ManagerOK'
  <2>1. strong' = One(port') + Count(release)' BY <1>0, <1>1, <1>8 DEF ManagerOK
  <2>2. (strong' = 0 => ready' = {}) /\ (freed' # {} => strong' = 0) BY <1>0, <1>1 DEF ManagerOK
  <2>3. \A i \in DOMAIN ops : ops[i].op # "push" BY <1>4, <1>5
  <2> QED BY <2>1, <2>2, <2>3, <1>1, <1>5, StepManager
<1>16. LockedOK'
  <2>1. First(t) # unlock BY <1>7, KindsApart
  <2>2. Occ(ops, unlock) = 0 BY <1>4, <1>5, KindsApart DEF One
  <2>3. ASSUME portLock = t, held, last PROVE strong = 0
    <3>1. First(t) = todo[t][1] /\ 1 \in DOMAIN todo[t]
      <4>1. todo[t] \in Seq(Ops) /\ todo[t] # <<>> BY <1>0, <1>1 DEF ShapesOK, Idle
      <4>2. Len(todo[t]) \in Nat \ {0} /\ DOMAIN todo[t] = 1..Len(todo[t]) BY <4>1, EmptySeq
      <4> QED BY <4>1, <4>2 DEF First
    <3>2. Harmless(strong, chunk[t], First(t)) BY <3>1, <2>3, <1>0 DEF LockedOK
    <3>3. strong = 0 \/ \E s \in DOMAIN chunk[t] : chunk[t][s].impl = b
      <4>1. First(t).op = "decr" /\ First(t).b = b BY <1>7, OpKinds
      <4> QED BY <3>2, <4>1 DEF Harmless
    <3>4. DOMAIN chunk[t] = Slots[t] BY <1>0 DEF ShapesOK
    <3>5. ASSUME NEW s \in Slots[t], chunk[t][s].impl = b PROVE FALSE
      <4>1. chunk[t][s] \in ChunkSet /\ looped \in BOOLEAN /\ Chunked(chunk) BY <1>0 DEF ShapesOK, Chunked
      <4>2. Occ(Uses(chunk[t][s]), b) > 0 BY <3>5, <4>1, ChunkFacts
      <4>3. Refs(chunk, b) = 0 BY <2>3, <1>4, <1>9
      <4>4. Occ(Uses(chunk[t][s]), b) = 0 BY <4>1, <4>3, RefsType
      <4> QED BY <4>2, <4>4
    <3> QED BY <3>3, <3>4, <3>5
  <2>4. portLock = t /\ held => \A i \in DOMAIN ops : Harmless(strong', chunk[t], ops[i])
    BY <2>3, <1>1, <1>4, <1>5 DEF Harmless
  <2>5. strong = 0 => strong' = 0 BY <1>1
  <2> QED BY <2>1, <2>2, <2>4, <2>5, <1>1, <1>5, StepLocked
<1> QED BY <1>11, <1>12, <1>13, <1>14, <1>15, <1>16 DEF ChunksInv

\* A call that has two things more to do.
LEMMA TwoOps ==
  ASSUME NEW o \in Ops, NEW p \in Ops
  PROVE  /\ <<o, p>> \in Seq(Ops) /\ \A i \in DOMAIN <<o, p>> : (i = 1 /\ <<o, p>>[i] = o) \/ <<o, p>>[i] = p
         /\ \A x : Occ(<<o, p>>, x) = One(o = x) + One(p = x)
<1>1. <<o, p>> \in Seq(Ops) /\ \A i \in DOMAIN <<o, p>> : (i = 1 /\ <<o, p>>[i] = o) \/ <<o, p>>[i] = p OBVIOUS
<1>2. ASSUME NEW x PROVE Occ(<<o, p>>, x) = One(o = x) + One(p = x)
  <2>1. Append(<<o>>, p) = <<o, p>> BY Pair
  <2>2. <<o>> \in Seq(Ops) /\ Occ(<<o>>, x) = One(o = x) BY OneOp
  <2> DEFINE q == <<o>>
  <2>5. p \in Ops OBVIOUS
  <2>3. q \in Seq(Ops) /\ Occ(q, x) = One(o = x) /\ Append(q, p) = <<o, p>> BY <2>1, <2>2
  <2> HIDE DEF q
  <2>6. q \in Seq(Ops) BY <2>3
  <2>4. Occ(Append(q, p), x) = Occ(q, x) + One(p = x) BY <2>5, <2>6, OccAppend
  <2> QED BY <2>3, <2>4
<1> QED BY <1>1, <1>2

\* A buffer whose cleanup or push is still to be done
LEMMA OnItsWay ==
  ASSUME ChunksAssumption, ShapesOK, LifeOK, NEW b \in Slab, Count(On("cleanup", b)) > 0 \/ Count(On("push", b)) > 0
  PROVE  /\ Returns(b) = 1 /\ counter[b] = 0 /\ b \notin freed /\ Refs(chunk, b) = 0 /\ b \notin ready
         /\ Count(On("incr", b)) = 0 /\ Count(On("decr", b)) = 0
<1>1. Count(On("cleanup", b)) \in Nat /\ Count(On("push", b)) \in Nat BY CountType
<1>2. Returns(b) <= 1 /\ (b \in freed => Returns(b) = 0) BY DEF LifeOK
<1>3. Returns(b) = 1 /\ b \notin freed BY <1>1, <1>2 DEF Returns
<1>4. counter[b] = 0 BY <1>3 DEF LifeOK
<1> QED BY <1>3, <1>4 DEF LifeOK

\* The first operation of a thread that has the lock is harmless.
LEMMA FirstHarmless ==
  ASSUME ChunksAssumption, ChunksInv, NEW t \in Workers, ~ Idle(t)
  PROVE  /\ First(t) \in Ops /\ 1 \in DOMAIN todo[t] /\ First(t) = todo[t][1]
         /\ portLock = t /\ held => Harmless(strong, chunk[t], First(t))
<1>1. todo[t] \in Seq(Ops) /\ todo[t] # <<>> BY DEF ChunksInv, ShapesOK, Idle
<1>2. Len(todo[t]) \in Nat \ {0} /\ DOMAIN todo[t] = 1..Len(todo[t]) BY <1>1, EmptySeq
<1>3. First(t) = todo[t][1] /\ 1 \in DOMAIN todo[t] BY <1>1, <1>2 DEF First
<1>4. First(t) \in Ops BY <1>1, <1>2, <1>3
<1> QED BY <1>3, <1>4 DEF ChunksInv, LockedOK

\* cleanup of a buffer whose manager is there: it will be pushed.
LEMMA CleanupReturns ==
  ASSUME ChunksAssumption, ChunksInv, NEW t \in Workers, Cleanup(t), strong > 0
  PROVE  ChunksInv'
<1>0. ShapesOK /\ CountsOK /\ LifeOK /\ BackedOK /\ ManagerOK /\ LockedOK BY DEF ChunksInv
<1> DEFINE f == First(t)
           p == On("push", f.b)
           ops == <<p, release>>
<1>1. /\ ~ Idle(t) /\ f.op = "cleanup" /\ Continue(t, ops) /\ strong' = strong + 1
      /\ held' = held /\ looped' = looped /\ freed' = freed /\ ready' = ready /\ port' = port /\ counter' = counter
      /\ portLock' = portLock /\ chunk' = chunk
  BY DEF Cleanup, Step, On, release
<1>2. f \in Ops BY <1>1, FirstHarmless
<1>3. PICK b \in Slab : f = On("cleanup", b) /\ f.b = b BY <1>1, <1>2, OpKinds
<1>4. p = On("push", b) /\ p \in Ops /\ p.op = "push" /\ release \in Ops /\ release.op = "release"
  <2>1. On("push", b) \in Ops /\ release \in Ops BY DEF Ops, On
  <2> QED BY <2>1, <1>3, OpKinds
<1> HIDE DEF p
<1>5. /\ ops \in Seq(Ops) /\ \A i \in DOMAIN ops : (i = 1 /\ ops[i] = p) \/ ops[i] = release
      /\ \A x : Occ(ops, x) = One(p = x) + One(release = x)
  BY <1>4, TwoOps
<1> HIDE DEF ops, f
<1>6. /\ todo' \in [Workers -> Seq(Ops)]
      /\ \A x : /\ Count(x)' \in Nat /\ Count(x) \in Nat /\ Occ(ops, x) \in Nat
                /\ Count(x)' + One(First(t) = x) = Count(x) + Occ(ops, x)
      /\ \A x : Refs(chunk, x)' = Refs(chunk, x) /\ Refs(chunk, x) \in Nat
      /\ Count(First(t)) > 0
  BY <1>1, <1>5, StepCounts, Zenon
<1>7. First(t) = On("cleanup", b) BY <1>3 DEF f
<1>8. ASSUME NEW x
      PROVE  /\ Count(On("decr", x))' = Count(On("decr", x)) /\ Count(On("incr", x))' = Count(On("incr", x))
             /\ Returns(x)' = Returns(x)
  <2> DEFINE k == One(b = x)
  <2>1. One(First(t) = On("cleanup", x)) = k /\ One(p = On("push", x)) = k BY <1>4, <1>7, KindsApart
  <2>2. /\ One(First(t) = On("incr", x)) = 0 /\ One(First(t) = On("decr", x)) = 0
        /\ One(First(t) = On("push", x)) = 0
        /\ One(p = On("decr", x)) = 0 /\ One(p = On("incr", x)) = 0 /\ One(p = On("cleanup", x)) = 0
        /\ One(release = On("decr", x)) = 0 /\ One(release = On("incr", x)) = 0
        /\ One(release = On("cleanup", x)) = 0 /\ One(release = On("push", x)) = 0
    BY <1>4, <1>7, KindsApart DEF One
  <2>3. k \in Nat BY DEF One
  <2> HIDE DEF k
  <2>4. Count(On("decr", x))' = Count(On("decr", x)) BY <1>5, <1>6, <2>2
  <2>5. Count(On("incr", x))' = Count(On("incr", x)) BY <1>5, <1>6, <2>2
  <2>6. /\ Count(On("push", x))' = Count(On("push", x)) + k /\ Count(On("push", x)) \in Nat
        /\ Count(On("push", x))' \in Nat
    BY <1>5, <1>6, <2>1, <2>2, <2>3
  <2>7. /\ Count(On("cleanup", x))' + k = Count(On("cleanup", x)) /\ Count(On("cleanup", x)) \in Nat
        /\ Count(On("cleanup", x))' \in Nat
    BY <1>5, <1>6, <2>1, <2>2, <2>3
  <2>8. Count(On("cleanup", x))' + Count(On("push", x))' = Count(On("cleanup", x)) + Count(On("push", x))
    BY <2>3, <2>6, <2>7
  <2> QED BY <2>4, <2>5, <2>8 DEF Returns
<1>9. Count(release)' = Count(release) + 1 /\ Count(release) \in Nat
  <2>1. One(First(t) = release) = 0 /\ One(p = release) = 0 /\ One(release = release) = 1
    BY <1>4, <1>7, KindsApart DEF One
  <2> QED BY <2>1, <1>5, <1>6
<1>10. strong \in Nat BY <1>0 DEF ShapesOK
<1>11. ShapesOK'
  <2>1. Chunked(chunk)' BY <1>0, <1>1, SameUses DEF ShapesOK
  <2> QED BY <1>0, <1>1, <1>6, <1>10, <2>1 DEF ShapesOK
<1>12. CountsOK'
  <2>1. \A x \in Slab :
          counter'[x] + Count(On("incr", x))' = Refs(chunk, x) + One(x \in ready') + Count(On("decr", x))'
    BY <1>0, <1>1, <1>8 DEF CountsOK
  <2> QED BY <2>1, <1>1, CountsNext
<1>13. LifeOK'
  <2>1. \A x \in Slab : Lives(x, counter'[x], Returns(x)', x \in freed', Refs(chunk, x), x \in ready',
                              Count(On("incr", x))', Count(On("decr", x))')
    BY <1>0, <1>1, <1>8, LivesNow
  <2> QED BY <2>1, <1>1, LivesNext
<1>14. BackedOK'
  <2>1. \A x \in Slab : Occ(ops, On("incr", x)) = 0 BY <1>4, <1>5, KindsApart DEF One
  <2> QED BY <2>1, <1>1, <1>5, StepBacked
<1>15. ManagerOK'
  <2>1. strong' = One(port') + Count(release)'
    <3> DEFINE k == One(port)
               n == Count(release)
    <3>1. strong = k + n /\ k \in Nat /\ n \in Nat /\ Count(release)' = n + 1 BY <1>0, <1>9 DEF ManagerOK, One
    <3> HIDE DEF k, n
    <3>2. strong + 1 = k + (n + 1) BY <3>1
    <3> QED BY <3>1, <3>2, <1>1 DEF k
  <2>2. (strong' = 0 => ready' = {}) /\ (freed' # {} => strong' = 0) BY <1>0, <1>1, <1>10 DEF ManagerOK
  <2>3. Occ(todo'[t], release) > 0
    <3>1. One(First(t) = release) = 0 /\ Occ(ops, release) = 0 + 1
      BY <1>4, <1>5, <1>7, KindsApart DEF One
    <3>2. Occ(todo'[t], release) \in Nat /\ Occ(todo'[t], release) + One(First(t) = release) = Occ(todo[t], release) + Occ(ops, release)
      BY <1>0, <1>1, <1>5, Continues
    <3>3. Occ(todo[t], release) \in Nat BY <1>0, CountType
    <3> QED BY <3>1, <3>2, <3>3
  <2>4. \A i \in DOMAIN ops : ops[i].op = "push" => i = 1 BY <1>4, <1>5
  <2> QED BY <2>1, <2>2, <2>3, <2>4, <1>1, <1>5, StepManager
<1>16. LockedOK'
  <2>1. First(t) # unlock BY <1>7, KindsApart
  <2>2. Occ(ops, unlock) = 0 BY <1>4, <1>5, KindsApart DEF One
  <2>3. ~ (portLock = t /\ held)
    <3>1. First(t).op = "cleanup" BY <1>7, OpKinds
    <3>2. portLock = t /\ held => Harmless(strong, chunk[t], First(t)) BY <1>1, FirstHarmless
    <3> QED BY <3>1, <3>2 DEF Harmless
  <2>4. strong = 0 => strong' = 0 BY <1>10
  <2> QED BY <2>1, <2>2, <2>3, <2>4, <1>1, <1>5, StepLocked
<1> QED BY <1>11, <1>12, <1>13, <1>14, <1>15, <1>16 DEF ChunksInv

\* cleanup of a buffer whose manager is gone: it is deleted.
LEMMA CleanupFrees ==
  ASSUME ChunksAssumption, ChunksInv, NEW t \in Workers, Cleanup(t), ~ (strong > 0)
  PROVE  ChunksInv'
<1>0. ShapesOK /\ CountsOK /\ LifeOK /\ BackedOK /\ ManagerOK /\ LockedOK BY DEF ChunksInv
<1>1. /\ ~ Idle(t) /\ First(t).op = "cleanup" /\ Continue(t, <<>>) /\ freed' = freed \union {First(t).b}
      /\ held' = held /\ looped' = looped /\ strong' = strong /\ ready' = ready /\ port' = port /\ counter' = counter
      /\ portLock' = portLock /\ chunk' = chunk
  BY DEF Cleanup, Step
<1>2. First(t) \in Ops BY <1>1, FirstHarmless
<1>3. PICK b \in Slab : First(t) = On("cleanup", b) /\ First(t).b = b BY <1>1, <1>2, OpKinds
<1>4. /\ todo' \in [Workers -> Seq(Ops)]
      /\ \A x : /\ Count(x)' \in Nat /\ Count(x) \in Nat /\ Occ(<<>>, x) \in Nat
                /\ Count(x)' + One(First(t) = x) = Count(x) + Occ(<<>>, x)
      /\ \A x : Refs(chunk, x)' = Refs(chunk, x) /\ Refs(chunk, x) \in Nat
      /\ Count(First(t)) > 0
  BY <1>1, NoOps, StepCounts, Zenon
<1>5. ASSUME NEW x
      PROVE  /\ Count(On("decr", x))' = Count(On("decr", x)) /\ Count(On("incr", x))' = Count(On("incr", x))
             /\ Returns(x)' + One(b = x) = Returns(x) /\ Returns(x)' \in Nat /\ Returns(x) \in Nat
             /\ Count(release)' = Count(release)
  <2> DEFINE k == One(b = x)
  <2>1. One(First(t) = On("cleanup", x)) = k BY <1>3, KindsApart
  <2>2. /\ One(First(t) = On("incr", x)) = 0 /\ One(First(t) = On("decr", x)) = 0
        /\ One(First(t) = On("push", x)) = 0 /\ One(First(t) = release) = 0
    BY <1>3, KindsApart DEF One
  <2>3. k \in Nat BY DEF One
  <2> HIDE DEF k
  <2>4. \A y : Occ(<<>>, y) = 0 BY NoOps
  <2>5. Count(On("decr", x))' = Count(On("decr", x)) BY <1>4, <2>2, <2>4
  <2>6. Count(On("incr", x))' = Count(On("incr", x)) BY <1>4, <2>2, <2>4
  <2>7. Count(On("push", x))' = Count(On("push", x)) /\ Count(On("push", x)) \in Nat BY <1>4, <2>2, <2>4
  <2>8. /\ Count(On("cleanup", x))' + k = Count(On("cleanup", x)) /\ Count(On("cleanup", x)) \in Nat
        /\ Count(On("cleanup", x))' \in Nat
    BY <1>4, <2>1, <2>3, <2>4
  <2>9. Count(release)' = Count(release) BY <1>4, <2>2, <2>4
  <2>10. (Count(On("cleanup", x))' + Count(On("push", x))') + k = Count(On("cleanup", x)) + Count(On("push", x))
    BY <2>3, <2>7, <2>8
  <2> QED BY <2>5, <2>6, <2>7, <2>8, <2>9, <2>10 DEF Returns, k
<1>6. /\ Returns(b) = 1 /\ counter[b] = 0 /\ b \notin freed /\ Refs(chunk, b) = 0 /\ b \notin ready
      /\ Count(On("incr", b)) = 0 /\ Count(On("decr", b)) = 0
  <2>1. Count(On("cleanup", b)) > 0 BY <1>3, <1>4
  <2> QED BY <2>1, <1>0, OnItsWay
<1>7. strong = 0 BY <1>0 DEF ShapesOK
<1>8. ShapesOK'
  <2>1. Chunked(chunk)' BY <1>0, <1>1, SameUses DEF ShapesOK
  <2> QED BY <1>0, <1>1, <1>3, <1>4, <2>1 DEF ShapesOK
<1>9. CountsOK'
  <2>1. \A x \in Slab :
          counter'[x] + Count(On("incr", x))' = Refs(chunk, x) + One(x \in ready') + Count(On("decr", x))'
    BY <1>0, <1>1, <1>5 DEF CountsOK
  <2> QED BY <2>1, <1>1, CountsNext
<1>10. LifeOK'
  <2>1. Lives(b, counter'[b], Returns(b)', b \in freed', Refs(chunk, b), b \in ready',
              Count(On("incr", b))', Count(On("decr", b))')
    <3>1. Returns(b)' = 0
      <4>1. Returns(b)' + One(b = b) = 1 /\ Returns(b)' \in Nat BY <1>5, <1>6
      <4>2. One(b = b) = 1 BY DEF One
      <4> QED BY <4>1, <4>2
    <3> QED BY <3>1, <1>1, <1>3, <1>5, <1>6 DEF Lives
  <2>2. ASSUME NEW x \in Slab, x # b
        PROVE  Lives(x, counter'[x], Returns(x)', x \in freed', Refs(chunk, x), x \in ready',
                     Count(On("incr", x))', Count(On("decr", x))')
    <3>1. Returns(x)' = Returns(x)
      <4>1. Returns(x)' + One(b = x) = Returns(x) /\ Returns(x)' \in Nat BY <1>5
      <4>2. One(b = x) = 0 BY <2>2 DEF One
      <4> QED BY <4>1, <4>2
    <3>2. x \in freed' <=> x \in freed BY <2>2, <1>1, <1>3
    <3>3. Lives(x, counter[x], Returns(x), x \in freed, Refs(chunk, x), x \in ready,
                Count(On("incr", x)), Count(On("decr", x)))
      BY <1>0, LivesNow
    <3> QED BY <3>1, <3>2, <3>3, <1>1, <1>5 DEF Lives
  <2> QED BY <2>1, <2>2, <1>1, LivesNext
<1>11. BackedOK' BY <1>1, NoOps, StepBacked
<1>12. ManagerOK'
  <2>1. strong' = One(port') + Count(release)' BY <1>0, <1>1, <1>5 DEF ManagerOK
  <2>2. (strong' = 0 => ready' = {}) /\ (freed' # {} => strong' = 0) BY <1>0, <1>1, <1>7 DEF ManagerOK
  <2> QED BY <2>1, <2>2, <1>1, NoOps, StepManager
<1>13. LockedOK'
  <2>1. First(t) # unlock BY <1>3, KindsApart
  <2> QED BY <2>1, <1>1, NoOps, StepLocked
<1> QED BY <1>8, <1>9, <1>10, <1>11, <1>12, <1>13 DEF ChunksInv

\* The manager has the buffer again.
LEMMA PushStep ==
  ASSUME ChunksAssumption, ChunksInv, NEW t \in Workers, Push(t)
  PROVE  ChunksInv'
<1>0. ShapesOK /\ CountsOK /\ LifeOK /\ BackedOK /\ ManagerOK /\ LockedOK BY DEF ChunksInv
<1>1. /\ ~ Idle(t) /\ First(t).op = "push" /\ Continue(t, <<>>) /\ ready' = ready \union {First(t).b}
      /\ counter' = [counter EXCEPT ![First(t).b] = @ + 1]
      /\ held' = held /\ looped' = looped /\ strong' = strong /\ freed' = freed /\ port' = port
      /\ portLock' = portLock /\ chunk' = chunk
  BY DEF Push, Step
<1>2. First(t) \in Ops /\ 1 \in DOMAIN todo[t] /\ First(t) = todo[t][1] BY <1>1, FirstHarmless
<1>3. PICK b \in Slab : First(t) = On("push", b) /\ First(t).b = b BY <1>1, <1>2, OpKinds
<1>4. /\ todo' \in [Workers -> Seq(Ops)]
      /\ \A x : /\ Count(x)' \in Nat /\ Count(x) \in Nat /\ Occ(<<>>, x) \in Nat
                /\ Count(x)' + One(First(t) = x) = Count(x) + Occ(<<>>, x)
      /\ \A x : Refs(chunk, x)' = Refs(chunk, x) /\ Refs(chunk, x) \in Nat
      /\ Count(First(t)) > 0
  BY <1>1, NoOps, StepCounts, Zenon
<1>5. ASSUME NEW x
      PROVE  /\ Count(On("decr", x))' = Count(On("decr", x)) /\ Count(On("incr", x))' = Count(On("incr", x))
             /\ Returns(x)' + One(b = x) = Returns(x) /\ Returns(x)' \in Nat /\ Returns(x) \in Nat
             /\ Count(release)' = Count(release)
  <2> DEFINE k == One(b = x)
  <2>1. One(First(t) = On("push", x)) = k BY <1>3, KindsApart
  <2>2. /\ One(First(t) = On("incr", x)) = 0 /\ One(First(t) = On("decr", x)) = 0
        /\ One(First(t) = On("cleanup", x)) = 0 /\ One(First(t) = release) = 0
    BY <1>3, KindsApart DEF One
  <2>3. k \in Nat BY DEF One
  <2> HIDE DEF k
  <2>4. \A y : Occ(<<>>, y) = 0 BY NoOps
  <2>5. Count(On("decr", x))' = Count(On("decr", x)) BY <1>4, <2>2, <2>4
  <2>6. Count(On("incr", x))' = Count(On("incr", x)) BY <1>4, <2>2, <2>4
  <2>7. Count(On("cleanup", x))' = Count(On("cleanup", x)) /\ Count(On("cleanup", x)) \in Nat BY <1>4, <2>2, <2>4
  <2>8. /\ Count(On("push", x))' + k = Count(On("push", x)) /\ Count(On("push", x)) \in Nat
        /\ Count(On("push", x))' \in Nat
    BY <1>4, <2>1, <2>3, <2>4
  <2>9. Count(release)' = Count(release) BY <1>4, <2>2, <2>4
  <2>10. (Count(On("cleanup", x))' + Count(On("push", x))') + k = Count(On("cleanup", x)) + Count(On("push", x))
    BY <2>3, <2>7, <2>8
  <2> QED BY <2>5, <2>6, <2>7, <2>8, <2>9, <2>10 DEF Returns, k
<1>6. /\ Returns(b) = 1 /\ counter[b] = 0 /\ b \notin freed /\ b \notin ready
  <2>1. Count(On("push", b)) > 0 BY <1>3, <1>4
  <2> QED BY <2>1, <1>0, OnItsWay
<1>7. strong # 0
  <2>1. Occ(todo[t], release) > 0 BY <1>0, <1>1, <1>2 DEF ManagerOK
  <2>2. Occ(todo[t], release) <= Count(release) /\ Occ(todo[t], release) \in Nat /\ Count(release) \in Nat
    BY <1>0, CountType
  <2>3. One(port) \in Nat BY DEF One
  <2>4. strong = One(port) + Count(release) BY <1>0 DEF ManagerOK
  <2> QED BY <2>1, <2>2, <2>3, <2>4
<1>8. /\ counter' \in [Slab -> Nat] /\ counter'[b] = counter[b] + 1 /\ \A x \in Slab \ {b} : counter'[x] = counter[x]
      /\ counter \in [Slab -> Nat]
  BY <1>0, <1>1, <1>3 DEF ShapesOK
<1>9. ShapesOK'
  <2>1. Chunked(chunk)' BY <1>0, <1>1, SameUses DEF ShapesOK
  <2> QED BY <1>0, <1>1, <1>3, <1>4, <1>8, <2>1 DEF ShapesOK
<1>10. CountsOK'
  <2>1. ASSUME NEW x \in Slab
        PROVE  counter'[x] + Count(On("incr", x))' = Refs(chunk, x) + One(x \in ready') + Count(On("decr", x))'
    <3> DEFINE k == One(b = x)
               r == One(x \in ready)
               s == One(x \in ready')
               d == Count(On("decr", x))
               i == Count(On("incr", x))
               m == counter'[x]
               n == counter[x]
               p == Refs(chunk, x)
    <3>1. n + i = p + r + d BY <1>0 DEF CountsOK
    <3>2. m = n + k BY <1>8 DEF One
    <3>3. s = r + k BY <1>1, <1>3, <1>6 DEF One
    <3>4. k \in Nat /\ d \in Nat /\ i \in Nat /\ r \in Nat /\ n \in Nat /\ p \in Nat
      BY <1>4, <1>8 DEF One
    <3> HIDE DEF k, d, r, s, i, m, n, p
    <3>5. m + i = p + s + d BY <3>1, <3>2, <3>3, <3>4
    <3>6. Count(On("incr", x))' = i /\ Count(On("decr", x))' = d BY <1>5 DEF i, d
    <3> QED BY <3>5, <3>6, Zenon DEF s, m, p
  <2> QED BY <2>1, <1>1, CountsNext
<1>11. LifeOK'
  <2>1. Lives(b, counter'[b], Returns(b)', b \in freed', Refs(chunk, b), b \in ready',
              Count(On("incr", b))', Count(On("decr", b))')
    <3>1. Returns(b)' = 0
      <4>1. Returns(b)' + One(b = b) = 1 /\ Returns(b)' \in Nat BY <1>5, <1>6
      <4>2. One(b = b) = 1 BY DEF One
      <4> QED BY <4>1, <4>2
    <3>2. counter'[b] = 1 BY <1>6, <1>8
    <3> QED BY <3>1, <3>2, <1>1, <1>6 DEF Lives
  <2>2. ASSUME NEW x \in Slab, x # b
        PROVE  Lives(x, counter'[x], Returns(x)', x \in freed', Refs(chunk, x), x \in ready',
                     Count(On("incr", x))', Count(On("decr", x))')
    <3>1. Returns(x)' = Returns(x)
      <4>1. Returns(x)' + One(b = x) = Returns(x) /\ Returns(x)' \in Nat BY <1>5
      <4>2. One(b = x) = 0 BY <2>2 DEF One
      <4> QED BY <4>1, <4>2
    <3>2. counter'[x] = counter[x] /\ (x \in ready' <=> x \in ready) BY <2>2, <1>1, <1>3, <1>8
    <3>3. Lives(x, counter[x], Returns(x), x \in freed, Refs(chunk, x), x \in ready,
                Count(On("incr", x)), Count(On("decr", x)))
      BY <1>0, LivesNow
    <3> QED BY <3>1, <3>2, <3>3, <1>1, <1>5 DEF Lives
  <2> QED BY <2>1, <2>2, <1>1, LivesNext
<1>12. BackedOK'
  <2>1. port => port' /\ ready \subseteq ready' BY <1>1
  <2> QED BY <2>1, <1>1, NoOps, StepBacked
<1>13. ManagerOK'
  <2>1. strong' = One(port') + Count(release)' BY <1>0, <1>1, <1>5 DEF ManagerOK
  <2>2. (strong' = 0 => ready' = {}) /\ (freed' # {} => strong' = 0) BY <1>0, <1>1, <1>7 DEF ManagerOK
  <2> QED BY <2>1, <2>2, <1>1, NoOps, StepManager
<1>14. LockedOK'
  <2>1. First(t) # unlock BY <1>3, KindsApart
  <2> QED BY <2>1, <1>1, NoOps, StepLocked
<1> QED BY <1>9, <1>10, <1>11, <1>12, <1>13, <1>14 DEF ChunksInv

\* Each buffer of the manager is in its queue once.
LEMMA OrderedOnce ==
  ASSUME ChunksAssumption, NEW S \in SUBSET Slab, NEW q \in Orders(S)
  PROVE  q \in Seq(Slab) /\ \A b : Occ(q, b) = One(b \in S)
<1>1. LastIndex \in Nat /\ Slab = 0..LastIndex BY SlabIs
<1>2. IsFiniteSet(S)
  <2>1. 0 \in Int /\ LastIndex \in Int BY <1>1
  <2>2. IsFiniteSet(0..LastIndex) BY <2>1, FS_Interval
  <2>3. IsFiniteSet(Slab) BY <1>1, <2>2
  <2> QED BY <2>3, FS_Subset
<1>3. Cardinality(S) \in Nat BY <1>2, FS_CardinalityType
<1>4. q \in [1..Cardinality(S) -> S] /\ \A b \in S : Cardinality(Occurs(q, b)) = 1 BY DEF Orders
<1> DEFINE n == Cardinality(S)
<1> HIDE DEF n
<1>5. q \in [1..n -> Slab] BY <1>4 DEF n
<1>6. q \in UNION {[1..m -> Slab] : m \in Nat} BY <1>3, <1>5 DEF n
<1>7. q \in Seq(Slab) BY <1>6, SeqDef, Zenon
<1>8. ASSUME NEW b, b \notin S PROVE Occ(q, b) = 0
  <2>1. Occurs(q, b) = {} BY <1>4, <1>8 DEF Occurs
  <2> QED BY <2>1, FS_EmptySet DEF Occ
<1> QED BY <1>4, <1>7, <1>8 DEF Occ, One

\* Who releases the manager had it, and nothing was deleted before.
LEMMA Releasing ==
  ASSUME ChunksAssumption, ChunksInv, NEW t \in Workers, ~ Idle(t), First(t).op = "release"
  PROVE  First(t) = release /\ strong \in Nat /\ strong > 0 /\ freed = {} /\ (strong = 1 => port = FALSE /\ Count(release) = 1)
<1>0. ShapesOK /\ ManagerOK BY DEF ChunksInv
<1>1. /\ First(t) \in Ops /\ 1 \in DOMAIN todo[t] /\ First(t) = todo[t][1] BY FirstHarmless
<1>2. First(t) = release BY <1>1, OpKinds
<1>3. todo[t] \in Seq(Ops) BY <1>0 DEF ShapesOK
<1>4. Occ(todo[t], release) # 0 BY <1>1, <1>2, <1>3, OccType
<1>5. Occ(todo[t], release) \in Nat /\ Occ(todo[t], release) <= Count(release) /\ Count(release) \in Nat
  BY <1>0, CountType
<1>6. strong = One(port) + Count(release) /\ (freed # {} => strong = 0) BY <1>0 DEF ManagerOK
<1>7. One(port) \in Nat /\ (One(port) = 0 => port = FALSE) BY <1>0 DEF One, ShapesOK
<1> DEFINE k == One(port)
           n == Count(release)
<1>8. k \in Nat /\ n \in Nat /\ n > 0 BY <1>4, <1>5, <1>7
<1>9. strong = k + n BY <1>6
<1> HIDE DEF k, n
<1>10. strong \in Nat /\ strong > 0 /\ (strong = 1 => k = 0 /\ n = 1) BY <1>8, <1>9
<1> QED BY <1>2, <1>6, <1>7, <1>10 DEF k, n

\* A reference to the manager goes; with the last one, its queue goes too.
LEMMA ReleaseStep ==
  ASSUME ChunksAssumption, ChunksInv, NEW t \in Workers, ReleaseManager(t)
  PROVE  ChunksInv'
<1>0. ShapesOK /\ CountsOK /\ LifeOK /\ BackedOK /\ ManagerOK /\ LockedOK BY DEF ChunksInv
<1>1. /\ ~ Idle(t) /\ First(t).op = "release" /\ strong' = strong - 1
      /\ held' = held /\ looped' = looped /\ counter' = counter /\ freed' = freed /\ port' = port
      /\ portLock' = portLock /\ chunk' = chunk
  BY DEF ReleaseManager, Step
<1>2. First(t) = release /\ strong \in Nat /\ strong > 0 /\ freed = {} /\ (strong = 1 => port = FALSE /\ Count(release) = 1)
  BY <1>1, Releasing
<1> DEFINE gone(x) == strong = 1 /\ x \in ready
<1>3. PICK ops \in Seq(Ops) :
        /\ Continue(t, ops) /\ ready' = (IF strong = 1 THEN {} ELSE ready)
        /\ \A i \in DOMAIN ops : ops[i].op = "decr" /\ strong = 1
        /\ \A x : Occ(ops, On("decr", x)) = One(gone(x))
        /\ \A x : (\A b : x # On("decr", b)) => Occ(ops, x) = 0
  <2>1. CASE strong = 1
    <3>1. PICK order \in Orders(ready) : Continue(t, Do("decr", order)) /\ ready' = {} BY <2>1 DEF ReleaseManager
    <3>2. ready \in SUBSET Slab BY <1>0 DEF ShapesOK
    <3>3. order \in Seq(Slab) /\ \A b : Occ(order, b) = One(b \in ready) BY <3>2, OrderedOnce
    <3> DEFINE d == Do("decr", order)
               Kinds == [op : {"decr"}, b : Slab]
    <3>4. /\ d \in Seq(Kinds)
          /\ \A b : Occ(d, On("decr", b)) = Occ(order, b)
          /\ \A x : (\A c : x # On("decr", c)) => Occ(d, x) = 0
      BY <3>3, OccDo DEF On
    <3> HIDE DEF d
    <3>5. \A x \in Kinds : x \in Ops /\ x.op = "decr" BY DEF Ops
    <3> HIDE DEF Kinds
    <3>6. d \in Seq(Ops) BY <3>4, <3>5, Wider
    <3>7. \A i \in DOMAIN d : d[i].op = "decr" BY <3>4, <3>5
    <3>8. \A x : Occ(d, On("decr", x)) = One(gone(x)) BY <2>1, <3>3, <3>4 DEF One
    <3>9. Continue(t, d) BY <3>1 DEF d
    <3> QED BY <2>1, <3>1, <3>4, <3>6, <3>7, <3>8, <3>9
  <2>2. CASE strong # 1
    <3>1. Continue(t, <<>>) /\ ready' = ready BY <2>2 DEF ReleaseManager
    <3>2. \A x : Occ(<<>>, On("decr", x)) = One(gone(x)) BY <2>2, NoOps DEF One
    <3> QED BY <2>2, <3>1, <3>2, NoOps
  <2> QED BY <2>1, <2>2
<1>4. /\ todo' \in [Workers -> Seq(Ops)]
      /\ \A x : /\ Count(x)' \in Nat /\ Count(x) \in Nat /\ Occ(ops, x) \in Nat
                /\ Count(x)' + One(First(t) = x) = Count(x) + Occ(ops, x)
      /\ \A x : Refs(chunk, x)' = Refs(chunk, x) /\ Refs(chunk, x) \in Nat
  BY <1>1, <1>3, StepCounts, Zenon
<1> HIDE DEF gone
<1>5. ASSUME NEW x
      PROVE  /\ Count(On("decr", x))' = Count(On("decr", x)) + One(gone(x))
             /\ Count(On("incr", x))' = Count(On("incr", x))
             /\ Returns(x)' = Returns(x)
             /\ Count(release)' + 1 = Count(release)
  <2>1. One(First(t) = release) = 1 BY <1>2 DEF One
  <2>2. /\ One(First(t) = On("incr", x)) = 0 /\ One(First(t) = On("decr", x)) = 0
        /\ One(First(t) = On("cleanup", x)) = 0 /\ One(First(t) = On("push", x)) = 0
    BY <1>2, KindsApart DEF One
  <2>3. /\ Occ(ops, On("incr", x)) = 0 /\ Occ(ops, On("cleanup", x)) = 0
        /\ Occ(ops, On("push", x)) = 0 /\ Occ(ops, release) = 0 /\ Occ(ops, On("decr", x)) = One(gone(x))
    <3>1. \A b : /\ On("incr", x) # On("decr", b) /\ On("cleanup", x) # On("decr", b)
                 /\ On("push", x) # On("decr", b) /\ release # On("decr", b)
      BY KindsApart
    <3>2. Occ(ops, On("decr", x)) = One(gone(x)) BY <1>3
    <3>3. \A y : (\A b : y # On("decr", b)) => Occ(ops, y) = 0 BY <1>3
    <3> QED BY <3>1, <3>2, <3>3, Zenon
  <2>4. Count(On("decr", x))' = Count(On("decr", x)) + One(gone(x))
    <3> DEFINE k == One(gone(x))
    <3>1. k \in Nat /\ Occ(ops, On("decr", x)) = k BY <2>3 DEF One
    <3> HIDE DEF k
    <3>2. Count(On("decr", x))' = Count(On("decr", x)) + k BY <1>4, <2>2, <3>1
    <3> QED BY <3>2 DEF k
  <2>5. Count(On("incr", x))' = Count(On("incr", x)) BY <1>4, <2>2, <2>3
  <2>6. Count(On("cleanup", x))' = Count(On("cleanup", x)) BY <1>4, <2>2, <2>3
  <2>7. Count(On("push", x))' = Count(On("push", x)) BY <1>4, <2>2, <2>3
  <2>8. Count(release)' + 1 = Count(release) BY <1>4, <2>1, <2>3
  <2> QED BY <2>4, <2>5, <2>6, <2>7, <2>8 DEF Returns
<1>6. ShapesOK'
  <2>1. Chunked(chunk)' BY <1>0, <1>1, SameUses DEF ShapesOK
  <2>2. strong' \in Nat /\ ready' \subseteq Slab BY <1>0, <1>1, <1>2, <1>3 DEF ShapesOK
  <2> QED BY <1>0, <1>1, <1>4, <2>1, <2>2 DEF ShapesOK
<1>7. CountsOK'
  <2>1. ASSUME NEW x \in Slab
        PROVE  counter'[x] + Count(On("incr", x))' = Refs(chunk, x) + One(x \in ready') + Count(On("decr", x))'
    <3> DEFINE k == One(gone(x))
               r == One(x \in ready)
               s == One(x \in ready')
               d == Count(On("decr", x))
               i == Count(On("incr", x))
               n == counter[x]
               p == Refs(chunk, x)
    <3>1. n + i = p + r + d BY <1>0 DEF CountsOK
    <3>2. r = s + k BY <1>3 DEF One, gone
    <3>3. k \in Nat /\ d \in Nat /\ i \in Nat /\ r \in Nat /\ s \in Nat /\ n \in Nat /\ p \in Nat
      BY <1>0, <1>4 DEF One, ShapesOK
    <3>4. Count(On("incr", x))' = i /\ Count(On("decr", x))' = d + k BY <1>5
    <3>5. counter'[x] = n BY <1>1
    <3> HIDE DEF k, d, r, s, i, n, p
    <3>6. n + i = p + s + (d + k) BY <3>1, <3>2, <3>3
    <3> QED BY <3>4, <3>5, <3>6, Zenon DEF s, p
  <2> QED BY <2>1, <1>1, CountsNext
<1>8. LifeOK'
  <2>1. ASSUME NEW x \in Slab
        PROVE  Lives(x, counter'[x], Returns(x)', x \in freed', Refs(chunk, x), x \in ready',
                     Count(On("incr", x))', Count(On("decr", x))')
    <3>1. Lives(x, counter[x], Returns(x), x \in freed, Refs(chunk, x), x \in ready,
                Count(On("incr", x)), Count(On("decr", x)))
      BY <1>0, LivesNow
    <3>2. x \in ready' => x \in ready BY <1>3
    <3>3. counter[x] = 0 => Count(On("decr", x))' = 0
      <4> HAVE counter[x] = 0
      <4>1. x \notin ready /\ Count(On("decr", x)) = 0 BY <3>1 DEF Lives
      <4>2. One(gone(x)) = 0 BY <4>1 DEF One, gone
      <4> QED BY <4>1, <4>2, <1>5
    <3> QED BY <3>1, <3>2, <3>3, <1>1, <1>5 DEF Lives
  <2> QED BY <2>1, <1>1, LivesNext
<1>9. BackedOK'
  <2>1. port => port' /\ ready \subseteq ready' BY <1>1, <1>2, <1>3
  <2>2. \A b \in Slab : Occ(ops, On("incr", b)) = 0 BY <1>3, KindsApart
  <2> QED BY <2>1, <2>2, <1>1, <1>3, StepBacked
<1>10. ManagerOK'
  <2>1. strong' = One(port') + Count(release)'
    <3> DEFINE k == One(port)
               m == Count(release)
               n == Count(release)'
    <3>1. strong = k + m /\ n + 1 = m BY <1>0, <1>5 DEF ManagerOK
    <3>2. k \in Nat /\ n \in Nat /\ m \in Nat BY <1>4 DEF One
    <3> HIDE DEF k, m, n
    <3>3. strong - 1 = k + n BY <3>1, <3>2
    <3> QED BY <3>3, <1>1 DEF k, n
  <2>2. (strong' = 0 => ready' = {}) /\ freed' = {} BY <1>1, <1>2, <1>3
  <2>3. \A i \in DOMAIN ops : ops[i].op # "push" BY <1>3
  <2> QED BY <2>1, <2>2, <2>3, <1>1, <1>3, StepManager
<1>11. LockedOK'
  <2>1. First(t) # unlock BY <1>2, KindsApart
  <2>2. Occ(ops, unlock) = 0 BY <1>3, KindsApart
  <2>3. \A i \in DOMAIN ops : Harmless(strong', chunk[t], ops[i])
    BY <1>1, <1>2, <1>3 DEF Harmless
  <2>4. strong = 0 => strong' = 0 BY <1>2
  <2> QED BY <2>1, <2>2, <2>3, <2>4, <1>1, <1>3, StepLocked
<1> QED BY <1>6, <1>7, <1>8, <1>9, <1>10, <1>11 DEF ChunksInv

\* The lock goes back when nothing under it is left to do.
LEMMA UnlockStep ==
  ASSUME ChunksAssumption, ChunksInv, NEW t \in Workers, UnlockPort(t)
  PROVE  ChunksInv'
<1>0. ShapesOK /\ CountsOK /\ LifeOK /\ BackedOK /\ ManagerOK /\ LockedOK BY DEF ChunksInv
<1>1. /\ ~ Idle(t) /\ First(t).op = "unlock" /\ Continue(t, <<>>) /\ portLock' = Nobody
      /\ held' = TRUE /\ counter' = counter /\ ready' = ready
      /\ looped' = looped /\ strong' = strong /\ freed' = freed /\ port' = port /\ chunk' = chunk
  BY DEF UnlockPort, Step
<1>2. First(t) = unlock BY <1>1, FirstHarmless, OpKinds
<1>3. /\ todo' \in [Workers -> Seq(Ops)]
      /\ \A x : /\ Count(x)' \in Nat /\ Count(x) \in Nat /\ Occ(<<>>, x) \in Nat
                /\ Count(x)' + One(First(t) = x) = Count(x) + Occ(<<>>, x)
      /\ \A x : Refs(chunk, x)' = Refs(chunk, x) /\ Refs(chunk, x) \in Nat
  BY <1>1, NoOps, StepCounts, Zenon
<1>4. \A x : x # unlock => Count(x)' = Count(x)
  <2> TAKE x
  <2> HAVE x # unlock
  <2>1. One(First(t) = x) = 0 BY <1>2 DEF One
  <2>2. Occ(<<>>, x) = 0 BY NoOps
  <2> QED BY <2>1, <2>2, <1>3
<1>5. ASSUME NEW x
      PROVE  /\ Count(On("decr", x))' = Count(On("decr", x)) /\ Count(On("incr", x))' = Count(On("incr", x))
             /\ Returns(x)' = Returns(x) /\ Count(release)' = Count(release)
  <2>1. /\ On("decr", x) # unlock /\ On("incr", x) # unlock /\ release # unlock
        /\ On("cleanup", x) # unlock /\ On("push", x) # unlock
    BY KindsApart
  <2> QED BY <2>1, <1>4 DEF Returns
<1>6. ShapesOK'
  <2>1. Chunked(chunk)' BY <1>0, <1>1, SameUses DEF ShapesOK
  <2> QED BY <1>0, <1>1, <1>3, <2>1 DEF ShapesOK
<1>7. CountsOK'
  <2>1. \A x \in Slab :
          counter'[x] + Count(On("incr", x))' = Refs(chunk, x) + One(x \in ready') + Count(On("decr", x))'
    BY <1>0, <1>1, <1>5 DEF CountsOK
  <2> QED BY <2>1, <1>1, CountsNext
<1>8. LifeOK'
  <2>1. \A x \in Slab : Lives(x, counter'[x], Returns(x)', x \in freed', Refs(chunk, x), x \in ready',
                              Count(On("incr", x))', Count(On("decr", x))')
    BY <1>0, <1>1, <1>5, LivesNow
  <2> QED BY <2>1, <1>1, LivesNext
<1>9. BackedOK' BY <1>1, NoOps, StepBacked
<1>10. ManagerOK'
  <2>1. strong' = One(port') + Count(release)' BY <1>0, <1>1, <1>5 DEF ManagerOK
  <2>2. (strong' = 0 => ready' = {}) /\ (freed' # {} => strong' = 0) BY <1>0, <1>1 DEF ManagerOK
  <2> QED BY <2>1, <2>2, <1>1, NoOps, StepManager
<1>11. LockedOK'
  <2>1. /\ \A u \in Workers \ {t} : todo'[u] = todo[u]
        /\ Occ(todo'[t], unlock) \in Nat
        /\ Occ(todo'[t], unlock) + One(First(t) = unlock) = Occ(todo[t], unlock) + Occ(<<>>, unlock)
    <3> DEFINE ops == <<>>
    <3>1. ShapesOK /\ ~ Idle(t) /\ Continue(t, ops) /\ ops \in Seq(Ops) BY <1>0, <1>1, NoOps
    <3> HIDE DEF ops
    <3>2. /\ \A u \in Workers \ {t} : todo'[u] = todo[u]
          /\ Occ(todo'[t], unlock) \in Nat
          /\ Occ(todo'[t], unlock) + One(First(t) = unlock) = Occ(todo[t], unlock) + Occ(ops, unlock)
      BY <3>1, Continues
    <3> QED BY <3>2 DEF ops
  <2>2. One(First(t) = unlock) = 1 /\ Occ(<<>>, unlock) = 0 BY <1>2, NoOps DEF One
  <2>3. Occ(todo[t], unlock) = One(portLock = t) BY <1>0 DEF LockedOK
  <2>4. One(portLock = t) \in {0, 1} /\ (One(portLock = t) = 1 => portLock = t) BY DEF One
  <2>5. Occ(todo'[t], unlock) = 0 /\ portLock = t BY <2>1, <2>2, <2>3, <2>4
  <2>6. Nobody \notin Workers BY DEF ChunksAssumption, Workers
  <2>7. ASSUME NEW u \in Workers PROVE Occ(todo'[u], unlock) = 0 /\ portLock' # u
    <3>1. CASE u = t BY <3>1, <2>5, <2>6, <1>1
    <3>2. CASE u # t
      <4>1. Occ(todo[u], unlock) = One(portLock = u) BY <1>0 DEF LockedOK
      <4>2. One(portLock = u) = 0 BY <3>2, <2>5 DEF One
      <4> QED BY <3>2, <4>1, <4>2, <2>1, <2>6, <1>1
    <3> QED BY <3>1, <3>2
  <2>8. \A u \in Workers : Occ(todo[u], unlock)' = Occ(todo'[u], unlock) BY DEF Occ, Occurs, unlock
  <2>9. \A u \in Workers : One(portLock = u)' = 0 BY <2>7 DEF One
  <2> QED BY <2>7, <2>8, <2>9, <1>1 DEF LockedOK
<1> QED BY <1>6, <1>7, <1>8, <1>9, <1>10, <1>11 DEF ChunksInv

\* A step of something else is none.
LEMMA ChunksRest == ASSUME ChunksInv, UNCHANGED chunkVars PROVE ChunksInv'
<1>1. /\ held' = held /\ looped' = looped /\ counter' = counter /\ freed' = freed /\ ready' = ready /\ port' = port
      /\ strong' = strong /\ portLock' = portLock /\ chunk' = chunk /\ todo' = todo
  BY DEF chunkVars
<1>2. /\ \A x : Count(x)' = Count(x)
      /\ \A b : Refs(chunk, b)' = Refs(chunk, b)
      /\ \A q, x : Occ(q, x)' = Occ(q, x)
  BY <1>1 DEF Count, Refs, Occ, Uses, Following, Reach, After, Occurs, Total
<1>3. ShapesOK' BY <1>1 DEF ChunksInv, ShapesOK, Chunked, ChunkSet, Reach
<1>4. CountsOK' BY <1>1, <1>2 DEF ChunksInv, CountsOK, On, One
<1>5. LifeOK' BY <1>1, <1>2 DEF ChunksInv, LifeOK, Returns, On
<1>6. BackedOK'
  <2>1. BackedOK BY DEF ChunksInv
  <2>2. \A u, d, b : Backs(u, d, b)' <=> Backs(u, d, b) BY <1>1, BacksNext DEF Backs
  <2>3. \A u, b : Occ(todo[u], On("incr", b))' = Occ(todo[u], On("incr", b)) BY <1>1 DEF Occ, Occurs, On
  <2> QED BY <2>1, <2>2, <2>3 DEF BackedOK
<1>7. ManagerOK' BY <1>1, <1>2 DEF ChunksInv, ManagerOK, One, Occ, Occurs, release
<1>8. LockedOK' BY <1>1 DEF ChunksInv, LockedOK, Harmless, One, Occ, Occurs, unlock
<1> QED BY <1>3, <1>4, <1>5, <1>6, <1>7, <1>8 DEF ChunksInv

\* At first the manager has all buffers, each counted once.
LEMMA ChunksStart == ASSUME ChunksAssumption, ChunksInit PROVE ChunksInv
<1>1. /\ looped \in Rings /\ counter = [b \in Slab |-> 1] /\ freed = {} /\ ready = Slab
      /\ port = TRUE /\ strong = 1 /\ portLock = Nobody /\ held = TRUE
      /\ chunk = [t \in Workers |-> [s \in Slots[t] |-> NoChunk]] /\ todo = [t \in Workers |-> <<>>]
  BY DEF ChunksInit
<1>2. looped \in BOOLEAN BY <1>1 DEF ChunksAssumption
<1>3. \A t \in Workers : todo[t] = <<>> BY <1>1
<1>4. \A t \in Workers : \A s \in Slots[t] : chunk[t][s] = NoChunk BY <1>1
<1>5. ShapesOK
  <2>1. todo \in [Workers -> Seq(Ops)] BY <1>1, NoOps
  <2>2. Chunked(chunk) BY <1>2, <1>4, NoChunkIs DEF Chunked
  <2> QED BY <1>1, <1>2, <2>1, <2>2 DEF ShapesOK
<1>6. \A x : Count(x) = 0
  <2>1. \A x : \A t \in Workers : Occ(todo[t], x) = 0 BY <1>3, OccEmpty
  <2> QED BY <2>1, <1>5, CountType
<1>7. \A b : Refs(chunk, b) = 0
  <2>1. \A b : \A t \in Workers : \A s \in Slots[t] : Occ(Uses(chunk[t][s]), b) = 0 BY <1>2, <1>4, NoChunkIs
  <2>2. Chunked(chunk) BY <1>5 DEF ShapesOK
  <2> QED BY <2>1, <2>2, <1>2, RefsType
<1>8. CountsOK BY <1>1, <1>6, <1>7 DEF CountsOK, One
<1>9. LifeOK BY <1>1, <1>6 DEF LifeOK, Returns
<1>10. BackedOK BY <1>3, OccEmpty DEF BackedOK
<1>11. ManagerOK BY <1>1, <1>3, <1>6 DEF ManagerOK, One
<1>12. LockedOK
  <2>1. \A t \in Workers : portLock # t BY <1>1 DEF ChunksAssumption, Workers
  <2> QED BY <2>1, <1>1, <1>3, OccEmpty DEF LockedOK, One
<1> QED BY <1>5, <1>8, <1>9, <1>10, <1>11, <1>12 DEF ChunksInv

\* Every step keeps the invariant.
LEMMA ChunksStep == ASSUME ChunksAssumption, ChunksInv, ChunksNext PROVE ChunksInv'
<1>1. PICK t \in Workers :
        \/ Incr(t) \/ Decr(t) \/ Cleanup(t) \/ Push(t) \/ ReleaseManager(t) \/ UnlockPort(t)
        \/ \E s \in Slots[t] :
             \/ ClearChunk(t, s)
             \/ \E d \in Slots[t] : CopyChunk(t, s, d) \/ MoveChunk(t, s, d)
             \/ \E d, e \in Slots[t] : Amalgamated(t, s, d, e)
             \/ \E u \in Workers : \E d \in Slots[u] : Send(t, s, u, d)
             \/ t = Producer /\ \E b \in Slab : BufferManagerFront(t, s, b)
        \/ t = Producer /\ (BufferManagerSetup(t) \/ \E b \in Slab : BufferManagerPop(t, b))
  BY DEF ChunksNext
<1>2. CASE Incr(t) BY <1>2, IncrStep
<1>3. CASE Decr(t) BY <1>3, DecrStep
<1>4. CASE Cleanup(t) BY <1>4, CleanupReturns, CleanupFrees
<1>5. CASE Push(t) BY <1>5, PushStep
<1>6. CASE ReleaseManager(t) BY <1>6, ReleaseStep
<1>7. CASE UnlockPort(t) BY <1>7, UnlockStep
<1>8. ASSUME NEW s \in Slots[t], ClearChunk(t, s) PROVE ChunksInv' BY <1>8, ClearStep
<1>9. ASSUME NEW s \in Slots[t], NEW d \in Slots[t], CopyChunk(t, s, d) PROVE ChunksInv' BY <1>9, CopyStep
<1>10. ASSUME NEW s \in Slots[t], NEW d \in Slots[t], MoveChunk(t, s, d) PROVE ChunksInv' BY <1>10, MoveStep
<1>11. ASSUME NEW s \in Slots[t], NEW d \in Slots[t], NEW e \in Slots[t], Amalgamated(t, s, d, e) PROVE ChunksInv'
  BY <1>11, AmalgamatedStep
<1>12. ASSUME NEW s \in Slots[t], NEW u \in Workers, NEW d \in Slots[u], Send(t, s, u, d) PROVE ChunksInv'
  BY <1>12, SendStep
<1>13. ASSUME NEW s \in Slots[t], t = Producer, NEW b \in Slab, BufferManagerFront(t, s, b) PROVE ChunksInv'
  BY <1>13, FrontStep
<1>14. CASE t = Producer /\ BufferManagerSetup(t) BY <1>14, SetupStep
<1>15. ASSUME t = Producer, NEW b \in Slab, BufferManagerPop(t, b) PROVE ChunksInv' BY <1>15, PopStep
<1> QED BY <1>1, <1>2, <1>3, <1>4, <1>5, <1>6, <1>7, <1>8, <1>9, <1>10, <1>11, <1>12, <1>13, <1>14, <1>15

\* The invariant says what is to be proved.
LEMMA ChunksSay == ASSUME ChunksAssumption, ChunksInv PROVE ChunksCounted
<1>0. ShapesOK /\ CountsOK /\ LifeOK /\ BackedOK /\ ManagerOK /\ LockedOK BY DEF ChunksInv
<1>1. ChunkTypesOK BY <1>0 DEF ShapesOK, LockedOK, ChunkTypesOK
<1>2. \A op, b : Pending(op, b) = Count(On(op, b)) BY DEF Pending, Count, On
<1>3. \A b : References(b) = Refs(chunk, b) BY DEF References, Refs
<1>4. \A x : Count(x) \in Nat BY <1>0, CountType
<1>5. \A b : Refs(chunk, b) \in Nat BY <1>0, RefsType DEF ShapesOK
<1>6. CountExact
  <2> SUFFICES ASSUME NEW b \in Slab
               PROVE  counter[b] = References(b) + (IF b \in ready THEN 1 ELSE 0) + Pending("decr", b) - Pending("incr", b)
    BY DEF CountExact
  <2> DEFINE n == counter[b]
             i == Count(On("incr", b))
             d == Count(On("decr", b))
             p == Refs(chunk, b)
             r == One(b \in ready)
  <2>1. n + i = p + r + d BY <1>0 DEF CountsOK
  <2>2. n \in Nat /\ i \in Nat /\ d \in Nat /\ p \in Nat /\ r \in Nat BY <1>0, <1>4, <1>5 DEF One, ShapesOK
  <2>3. r = IF b \in ready THEN 1 ELSE 0 BY DEF One
  <2>4. References(b) = p /\ Pending("decr", b) = d /\ Pending("incr", b) = i BY <1>2, <1>3
  <2> HIDE DEF n, i, d, p, r
  <2>5. n = p + r + d - i BY <2>1, <2>2
  <2> QED BY <2>3, <2>4, <2>5 DEF n
<1>7. NoUseAfterFree
  <2> SUFFICES ASSUME NEW b \in freed
               PROVE  /\ b \notin ready /\ References(b) = 0
                      /\ \A op \in {"incr", "decr", "cleanup", "push"} : Pending(op, b) = 0
    BY DEF NoUseAfterFree
  <2>1. b \in Slab BY <1>0 DEF ShapesOK
  <2>2. counter[b] = 0 /\ Returns(b) = 0 BY <1>0, <2>1 DEF LifeOK
  <2>3. /\ b \notin ready /\ Refs(chunk, b) = 0 /\ Count(On("incr", b)) = 0 /\ Count(On("decr", b)) = 0
    BY <1>0, <2>1, <2>2 DEF LifeOK
  <2>4. Count(On("cleanup", b)) = 0 /\ Count(On("push", b)) = 0 BY <1>4, <2>2 DEF Returns
  <2> QED BY <2>3, <2>4, <1>2, <1>3
<1>8. ReturnedOnce
  <2> SUFFICES ASSUME NEW b \in Slab, Pending("cleanup", b) + Pending("push", b) > 0
               PROVE  /\ Pending("cleanup", b) + Pending("push", b) = 1 /\ References(b) = 0 /\ b \notin ready
    BY DEF ReturnedOnce
  <2>1. Pending("cleanup", b) + Pending("push", b) = Returns(b) BY <1>2 DEF Returns
  <2>2. Returns(b) \in Nat /\ Returns(b) <= 1 BY <1>0, <1>4 DEF Returns, LifeOK
  <2>3. Returns(b) = 1 BY <2>1, <2>2
  <2>4. counter[b] = 0 BY <1>0, <2>3 DEF LifeOK
  <2> QED BY <2>1, <2>3, <2>4, <1>0, <1>3 DEF LifeOK
<1>9. NoSelfDeadlock
  <2> SUFFICES ASSUME NEW t \in Workers, Step(t, "push"), portLock = t, held PROVE FALSE BY DEF NoSelfDeadlock
  <2>1. ~ Idle(t) /\ First(t).op = "push" BY DEF Step
  <2>2. Harmless(strong, chunk[t], First(t)) BY <2>1, FirstHarmless
  <2> QED BY <2>1, <2>2 DEF Harmless
<1>10. NothingLeaks
  <2> SUFFICES ASSUME \A t \in Workers : Idle(t) /\ \A s \in Slots[t] : chunk[t][s] = NoChunk
               PROVE  IF strong > 0 THEN ready = Slab ELSE freed = Slab
    BY DEF NothingLeaks
  <2>1. looped \in BOOLEAN /\ Chunked(chunk) BY <1>0 DEF ShapesOK
  <2>2. \A x : Count(x) = 0
    <3>1. \A x : \A t \in Workers : Occ(todo[t], x) = 0 BY <1>0, IdleIs
    <3> QED BY <3>1, <1>0, CountType
  <2>3. \A b : Refs(chunk, b) = 0
    <3>1. \A b : \A t \in Workers : \A s \in Slots[t] : Occ(Uses(chunk[t][s]), b) = 0 BY <2>1, NoChunkIs
    <3> QED BY <3>1, <2>1, RefsType
  <2>4. strong \in Nat /\ ready \subseteq Slab /\ freed \subseteq Slab /\ counter \in [Slab -> Nat] BY <1>0 DEF ShapesOK
  <2>5. ASSUME NEW b \in Slab, b \notin ready PROVE b \in freed
    <3>1. One(b \in ready) = 0 BY <2>5 DEF One
    <3>2. counter[b] + Count(On("incr", b)) = Refs(chunk, b) + One(b \in ready) + Count(On("decr", b))
      BY <1>0 DEF CountsOK
    <3>3. counter[b] + 0 = 0 BY <3>1, <3>2, <2>2, <2>3
    <3>4. counter[b] = 0 BY <3>3, <2>4
    <3>5. Returns(b) = 0 BY <2>2 DEF Returns
    <3> QED BY <3>4, <3>5, <1>0 DEF LifeOK
  <2>6. CASE strong > 0
    <3>1. freed = {} BY <2>4, <2>6, <1>0 DEF ManagerOK
    <3> QED BY <3>1, <2>4, <2>5, <2>6
  <2>7. CASE ~ (strong > 0)
    <3>1. ready = {} BY <2>4, <2>7, <1>0 DEF ManagerOK
    <3> QED BY <3>1, <2>4, <2>5, <2>7
  <2> QED BY <2>6, <2>7
<1> QED BY <1>1, <1>6, <1>7, <1>8, <1>9, <1>10 DEF ChunksCounted

(* Whatever threads copy, move, drop and send the chunks of the buffers    *)
(* of a port, with chunks that reach into the buffers behind, while the    *)
(* port takes buffers from its manager or gives the manager up: counts     *)
(* are exact, no buffer is used after it was deleted or comes back twice,  *)
(* none is lost, and a thread that has the port's lock waits for it only   *)
(* in the pop of a buffer of which it has no chunk (BufferChunk.hpp,       *)
(* ManagedBuffer.cpp, OutputPortImpl.hpp).                                 *)
THEOREM ChunksAreCounted == ASSUME ChunksAssumption PROVE ChunksSpec => []ChunksCounted
<1>1. ChunksInit => ChunksInv BY ChunksStart
<1>2. ChunksInv /\ [ChunksNext]_chunkVars => ChunksInv' BY ChunksStep, ChunksRest
<1>3. ChunksInv => ChunksCounted BY ChunksSay
<1> QED BY <1>1, <1>2, <1>3, PTL DEF ChunksSpec
=============================================================================
