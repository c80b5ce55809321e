----------------------------- MODULE RingDeque -----------------------------
(***************************************************************************)
(* RingDeque: a deque in a ring of raw memory whose length is the next     *)
(* power of two of the capacity.  _frontIndex is a size_t that runs on     *)
(* for ever, down below zero too, and is masked when it is used.           *)
(*                                                                         *)
(* The asserted preconditions of the calls are guards: the callers test    *)
(* full() and empty() first.                                               *)
(***************************************************************************)
EXTENDS Naturals, Sequences

CONSTANTS
  Deques, Values, Capacities,
  Raw,       \* a cell in which no element has been constructed
  Modulus,   \* the number of values of size_t
  Pow2       \* the powers of two among them

\* Of the powers of two: the first is 1, and they divide the number of values.
RingAssumption ==
  /\ Raw \notin Values /\ Modulus \in Nat
  /\ 1 \in Pow2 /\ Pow2 \subseteq 1..(Modulus - 1)
  /\ \A p \in Pow2 : \E t \in 1..Modulus : Modulus = t * p
  /\ \A c \in Capacities : c \in Nat \ {0} /\ \E p \in Pow2 : c <= p

VARIABLE ring   \* the members of each deque; no cells: _container is null

Add(m, n) == (m + n) % Modulus
Minus(m, n) == (m + (Modulus - n)) % Modulus

nextPow2(n) == CHOOSE p \in Pow2 : p >= n /\ \A q \in Pow2 : q >= n => p <= q

New(capacity) ==
  [mask |-> nextPow2(capacity) - 1, capacity |-> capacity, frontIndex |-> 0,
   numElements |-> 0, cells |-> [i \in 0..(nextPow2(capacity) - 1) |-> Raw]]

RingInit == ring = [d \in Deques |-> New(1)]

-----------------------------------------------------------------------------
\* Mutant: the ring is as long as the capacity.
IndexByCapacity(r, offset) == Add(r.frontIndex, offset) % r.capacity

\* operator[]: where the element at the offset is; & with the mask.
Index(r, offset) == Add(r.frontIndex, offset) % (r.mask + 1)
At(r, offset) == r.cells[Index(r, offset)]

Empty(r) == r.numElements = 0
Full(r) == r.numElements = r.capacity

Construct(r, offset, v) == [r EXCEPT !.cells[Index(r, offset)] = v]
Destroy(r, offset) == Construct(r, offset, Raw)

EmplaceFront(r, v) ==
  Construct([r EXCEPT !.frontIndex = Minus(@, 1), !.numElements = @ + 1], 0, v)

EmplaceBack(r, v) == Construct([r EXCEPT !.numElements = @ + 1], r.numElements, v)

PoppedFront(r) == [Destroy(r, 0) EXCEPT !.frontIndex = Add(@, 1), !.numElements = @ - 1]

PoppedBack(r) == [Destroy(r, r.numElements - 1) EXCEPT !.numElements = @ - 1]

\* clear: pops from the front until there is nothing left.
Cleared(r) ==
  [r EXCEPT !.frontIndex = Add(@, r.numElements), !.numElements = 0,
            !.cells = [i \in DOMAIN @ |-> Raw]]

\* A new ring into which the elements of r are pushed one after the other.
Refilled(capacity, r) ==
  [New(capacity) EXCEPT !.numElements = r.numElements,
     !.cells = [i \in DOMAIN @ |-> IF i < r.numElements THEN At(r, i) ELSE Raw]]

\* operator=(const RingDeque &): clear, set_capacity (a new ring), push_back of each.
Assigned(r, other) == Refilled(other.capacity, other)

-----------------------------------------------------------------------------
Set(d, r) == ring' = [ring EXCEPT ![d] = r]

PushFront(d, v) == ~ Full(ring[d]) /\ Set(d, EmplaceFront(ring[d], v))
PushBack(d, v) == ~ Full(ring[d]) /\ Set(d, EmplaceBack(ring[d], v))
PopFront(d) == ~ Empty(ring[d]) /\ Set(d, PoppedFront(ring[d]))
PopBack(d) == ~ Empty(ring[d]) /\ Set(d, PoppedBack(ring[d]))
Clear(d) == Set(d, Cleared(ring[d]))

SetCapacity(d, c) == ring[d].numElements <= c /\ Set(d, Refilled(c, ring[d]))

\* Copy construction and assignment, of a deque that was not moved from.
Copy(d, from) ==
  /\ d # from /\ ring[from].capacity > 0
  /\ Set(d, Assigned(ring[d], ring[from]))

\* Construction by a move, and assignment: the other keeps its mask and its index.
Move(d, from) ==
  /\ d # from
  /\ ring' = [ring EXCEPT ![d] = ring[from],
                ![from] = [@ EXCEPT !.numElements = 0, !.capacity = 0, !.cells = <<>>]]

RingNext ==
  \E d \in Deques :
    \/ \E v \in Values : PushFront(d, v) \/ PushBack(d, v)
    \/ PopFront(d) \/ PopBack(d) \/ Clear(d)
    \/ \E c \in Capacities : SetCapacity(d, c)
    \/ \E from \in Deques : Copy(d, from) \/ Move(d, from)

RingSpec == RingInit /\ [][RingNext]_ring

-----------------------------------------------------------------------------
\* The members have their types; a ring is a power of two that the capacity fits into.
RingTypeOK ==
  \A d \in Deques : LET r == ring[d] IN
    /\ r.frontIndex \in 0..(Modulus - 1) /\ r.numElements \in 0..r.capacity
    /\ r.mask + 1 \in Pow2
    /\ r.cells # <<>> => DOMAIN r.cells = 0..r.mask /\ r.capacity \in 1..(r.mask + 1)
    /\ r.cells = <<>> => r.capacity = 0

(* Exactly the cells in the window of the deque hold a constructed         *)
(* element: none is overwritten, leaked or destroyed twice, however far    *)
(* the index has run below zero or past the end of size_t.                 *)
ConstructedExactly ==
  \A d \in Deques : LET r == ring[d] IN
    {i \in DOMAIN r.cells : r.cells[i] # Raw}
      = {Index(r, k) : k \in {n \in 0..(r.mask) : n < r.numElements}}

(* A ring is a deque: the calls do to the sequence of the elements from    *)
(* the front what the deque's calls do, and nothing else.                  *)
D == INSTANCE Deque WITH
  queue <- [d \in Deques |-> [k \in 1..ring[d].numElements |-> At(ring[d], k - 1)]],
  room <- [d \in Deques |-> ring[d].capacity]
DequeSpec == D!Spec

(* RingDeque is a deque, and its memory has exactly the deque's elements.  *)
RingIsDeque == DequeSpec /\ [](RingTypeOK /\ ConstructedExactly)
=============================================================================
