------------------------------- MODULE Deque -------------------------------
(***************************************************************************)
(* What a RingDeque promises: each deque is a sequence and a capacity.     *)
(* The other modules use sequences where the code has a RingDeque.         *)
(***************************************************************************)
EXTENDS Naturals, Sequences

CONSTANTS Deques, Values, Capacities

VARIABLES
  queue,   \* the elements of each deque, front first
  room     \* its capacity; 0 when it was moved from

dvars == <<queue, room>>

Init == queue = [d \in Deques |-> <<>>] /\ room = [d \in Deques |-> 1]

Full(d) == Len(queue[d]) = room[d]

Becomes(d, s) == queue' = [queue EXCEPT ![d] = s] /\ UNCHANGED room

PushFront(d, v) == ~ Full(d) /\ Becomes(d, <<v>> \o queue[d])
PushBack(d, v) == ~ Full(d) /\ Becomes(d, Append(queue[d], v))
PopFront(d) == queue[d] # <<>> /\ Becomes(d, Tail(queue[d]))
PopBack(d) == queue[d] # <<>> /\ Becomes(d, SubSeq(queue[d], 1, Len(queue[d]) - 1))
Clear(d) == Becomes(d, <<>>)

SetCapacity(d, c) ==
  /\ Len(queue[d]) <= c
  /\ room' = [room EXCEPT ![d] = c] /\ UNCHANGED queue

Copy(d, from) ==
  /\ d # from
  /\ queue' = [queue EXCEPT ![d] = queue[from]] /\ room' = [room EXCEPT ![d] = room[from]]

Move(d, from) ==
  /\ d # from
  /\ queue' = [queue EXCEPT ![d] = queue[from], ![from] = <<>>]
  /\ room' = [room EXCEPT ![d] = room[from], ![from] = 0]

Next ==
  \E d \in Deques :
    \/ \E v \in Values : PushFront(d, v) \/ PushBack(d, v)
    \/ PopFront(d) \/ PopBack(d) \/ Clear(d)
    \/ \E c \in Capacities : SetCapacity(d, c)
    \/ \E from \in Deques : Copy(d, from) \/ Move(d, from)

Spec == Init /\ [][Next]_dvars
=============================================================================
