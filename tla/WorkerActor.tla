----------------------------- MODULE WorkerActor -----------------------------
(***************************************************************************)
(* Blocks that run workTask() against each other: the input and output     *)
(* ports with their stream, label, message and slot queues, the tokens     *)
(* that limit messages, and the change flag that makes a block run again.  *)
(*                                                                         *)
(* The buffers themselves are abstracted to a count of elements: the       *)
(* modules of the buffer managers and BufferStream are about them.  The    *)
(* memory of an output is free again when every subscriber has consumed.   *)
(***************************************************************************)
EXTENDS Integers, Sequences, FiniteSets, FiniteSetsExt, SequencesExt

CONSTANTS
  Blocks, Inputs, Outputs,
  Owner,             \* the block of each port
  Slots, Signals,    \* the ports registered with registerSlot, registerSignal
  Subscribers,       \* for each output the inputs in its _subscribers
  Probes,            \* for each probe slot the signal that carries its result
  DTypeSize,         \* bytes per element
  Room,              \* elements that the buffers of an output hold
  Tokens,            \* buffers of a token manager (16 in the code)
  MaxQueueCapacity,  \* messages an input queues (1024 in the code)
  IndexRange,        \* label indices are unsigned and wrap at this value
  Shortfall,         \* how much less than it consumes a block may produce
  Eager,             \* the blocks whose work() uses whatever it is given
  External,          \* the ports that other threads push or call into
  Reserve,           \* _reserveElements of the inputs
  Burst,             \* bound: messages that one call of work() posts on each output
  MaxElements,       \* bound: elements produced by each output
  MaxMessages,       \* bound: messages posted from outside and by work()
  MaxToggles         \* bound: calls of setActiveStateOff

ASSUME PortsAssumption ==
  /\ Owner \in [Inputs \union Outputs -> Blocks]
  /\ Slots \subseteq Inputs /\ Signals \subseteq Outputs
  /\ Subscribers \in [Outputs -> SUBSET Inputs]
  /\ DOMAIN Probes \subseteq Slots
  /\ Eager \subseteq Blocks /\ External \subseteq Inputs \union Outputs
  /\ \A i \in DOMAIN Probes : Probes[i] \in Signals /\ Owner[Probes[i]] = Owner[i]

ASSUME BoundsAssumption ==
  /\ {DTypeSize, Room, Tokens, MaxQueueCapacity, IndexRange} \subseteq Nat \ {0}
  /\ {Shortfall, Reserve, MaxElements, MaxMessages, MaxToggles} \subseteq Nat
  /\ Burst \in [Outputs -> Nat]

VARIABLES
  in,        \* the input ports
  out,       \* the output ports
  active,    \* activeState of each block
  changed,   \* the change flag of each block's actor
  pc,        \* where the worker of each block is in workTask
  burst,     \* messages that this call of work() has posted on each output
  posts,     \* number of the last message
  lost,      \* messages dropped by an overflow
  toggles    \* calls of setActiveStateOff so far

vars == <<in, out, active, changed, pc, burst, posts, lost, toggles>>

Ins(b) == {i \in Inputs : Owner[i] = b}
Outs(b) == {o \in Outputs : Owner[o] = b}
Streams == Inputs \ Slots

NoToken == <<>>
Token == ({NoToken} \union (Outputs \X (1..Tokens)))
Message == [id : 0..MaxMessages, token : Token]

(* A label's "at" is the element it was posted on, counted from the first  *)
(* element of the port; index is the field the code keeps up to date.      *)
Label == [index : 0..(IndexRange - 1), at : Nat]

InputPort == [avail : Nat,              \* elements in the accumulator
              received : Nat,           \* elements pushed so far
              input : Seq(Label),       \* _inputInlineMessages, in bytes
              inline : Seq(Label),      \* _inlineMessages, in elements
              messages : Seq(Message),  \* _asyncMessages
              slots : Seq(Message),     \* _slotCalls
              elements : Nat, pending : Nat, total : Nat, events : BOOLEAN]

OutputPort == [elements : Nat, pending : Nat, total : Nat,
               labels : Seq(Label),     \* _postedLabels, in bytes
               events : BOOLEAN]

(* What the variables hold.                                                *)
TypeOK ==
  /\ in \in [Inputs -> InputPort]
  /\ out \in [Outputs -> OutputPort]
  /\ active \in [Blocks -> BOOLEAN]
  /\ changed \in [Blocks -> BOOLEAN]
  /\ pc \in [Blocks -> {"idle", "slots", "work", "post", "send"}]
  /\ burst \in [Outputs -> Nat] /\ \A o \in Outputs : burst[o] <= Burst[o]
  /\ posts \in 0..MaxMessages
  /\ lost \in SUBSET (1..MaxMessages)
  /\ toggles \in 0..MaxToggles

-----------------------------------------------------------------------------
(* Tokens.  A token is with the output's manager unless a queue entry      *)
(* refers to it; when the last entry is dropped it returns and the owner   *)
(* is flagged.                                                             *)
Queued(ports, i) == ToSet(ports[i].messages) \union ToSet(ports[i].slots)
Held(ports) == {m.token : m \in UNION {Queued(ports, i) : i \in Inputs}}
FreeTokens(ports, o) ==
  (1..Tokens) \ {m.token[2] : m \in {e \in UNION {Queued(ports, i) : i \in Subscribers[o]} :
                                      e.token # NoToken /\ e.token[1] = o}}

\* The elements that an output's buffers can still take, and whether there are any.
Readers(o) == Subscribers[o] \cap Streams
Free(ports, o) == Room - Max({0} \union {ports[i].avail : i \in Readers(o)})
HasRoom(ports, o) == \A i \in Readers(o) : ports[i].avail < Room

\* Memory comes back when the reader that was furthest behind has consumed.
RoomGrew(before, after, o) ==
  /\ Readers(o) # {}
  /\ \A i \in Readers(o) : \E j \in Readers(o) : after[i].avail < before[j].avail

\* Mutant: a token that comes back does not flag the owner.
TokensReturnSilently(before, after) ==
  {Owner[o] : o \in {p \in Outputs \ Signals : RoomGrew(before, after, p)}}

\* The blocks flagged because a token or a buffer came back to an output.
Returned(before, after) ==
  {Owner[t[1]] : t \in (Held(before) \ Held(after)) \ {NoToken}}
    \union {Owner[o] : o \in {p \in Outputs \ Signals : RoomGrew(before, after, p)}}

\* Mutant: a port that was given something does not flag its actor.
NobodyFlagged(o) == {}

Receivers(o) == {Owner[i] : i \in Subscribers[o]}

\* The token of a message that nobody takes comes back at once.
PostFlags(o) == IF Subscribers[o] = {} THEN {Owner[o]} ELSE Receivers(o)

Flagged(set) == [b \in Blocks |-> changed[b] \/ b \in set]

(* asyncMessagesPush and slotCallsPush: at the maximal capacity the queue  *)
(* is cleared first, with its tokens.                                      *)
QueuePush(q, m) == IF Len(q) >= MaxQueueCapacity THEN <<m>> ELSE Append(q, m)
Overflowed(q) == IF Len(q) >= MaxQueueCapacity THEN {e.id : e \in ToSet(q)} ELSE {}

(* _postMessage: a signal's arguments go to the slot queue of a slot, any  *)
(* other message to the message queue.  Without a token the message is     *)
(* posted all the same.                                                    *)
ToSlot(o, i) == o \in Signals /\ i \in Slots
Post(ports, o, id) ==
  LET free == FreeTokens(ports, o)
      m == [id |-> id, token |-> IF free = {} THEN NoToken ELSE <<o, CHOOSE k \in free : TRUE>>]
  IN  [i \in Inputs |->
         IF i \notin Subscribers[o] THEN ports[i]
         ELSE IF ToSlot(o, i) THEN [ports[i] EXCEPT !.slots = QueuePush(@, m)]
         ELSE [ports[i] EXCEPT !.messages = QueuePush(@, m)]]
PostLoses(ports, o) ==
  UNION {IF ToSlot(o, i) THEN Overflowed(ports[i].slots)
                         ELSE Overflowed(ports[i].messages) : i \in Subscribers[o]}

-----------------------------------------------------------------------------
\* A topology that has just been committed: every block is active.
Init ==
  /\ in = [i \in Inputs |-> [avail |-> 0, received |-> 0, input |-> <<>>,
             inline |-> <<>>, messages |-> <<>>, slots |-> <<>>, elements |-> 0,
             pending |-> 0, total |-> 0, events |-> FALSE]]
  /\ out = [o \in Outputs |-> [elements |-> 0, pending |-> 0, total |-> 0,
             labels |-> <<>>, events |-> FALSE]]
  /\ active = [b \in Blocks |-> TRUE]
  /\ changed = [b \in Blocks |-> TRUE]
  /\ pc = [b \in Blocks |-> "idle"]
  /\ burst = [o \in Outputs |-> 0]
  /\ posts = 0 /\ lost = {}
  /\ toggles = 0

(* setActiveStateOn and setActiveStateOff hold the actor's context, so the *)
(* worker is not in workTask; giving the context back flags a change.      *)
SetActiveStateOn(b) ==
  /\ pc[b] = "idle" /\ ~ active[b]
  /\ active' = [active EXCEPT ![b] = TRUE]
  /\ changed' = Flagged({b})
  /\ UNCHANGED <<in, out, pc, burst, posts, lost, toggles>>

SetActiveStateOff(b) ==
  /\ pc[b] = "idle" /\ active[b] /\ toggles < MaxToggles
  /\ active' = [active EXCEPT ![b] = FALSE]
  /\ changed' = Flagged({b})
  /\ toggles' = toggles + 1
  /\ UNCHANGED <<in, out, pc, burst, posts, lost>>

\* workTask returns at once in a block that is not active.
WorkTaskInactive(b) ==
  /\ pc[b] = "idle" /\ changed[b] /\ ~ active[b]
  /\ changed' = [changed EXCEPT ![b] = FALSE]
  /\ UNCHANGED <<in, out, active, pc, burst, posts, lost, toggles>>

\* Mutant: the token manager is not asked.
OutputReadyWithoutTokens(o) == o \notin Signals => HasRoom(in, o)

(* preWorkTasks, outputs: one without tokens, or a stream without memory,  *)
(* ends the task before any input is looked at.                            *)
OutputReady(o) ==
  /\ FreeTokens(in, o) # {}
  /\ o \notin Signals => HasRoom(in, o)

PreWorkBlocked(b) ==
  /\ pc[b] = "idle" /\ changed[b] /\ active[b]
  /\ \E o \in Outs(b) : ~ OutputReady(o)
  /\ changed' = [changed EXCEPT ![b] = FALSE]
  /\ UNCHANGED <<in, out, active, pc, burst, posts, lost, toggles>>

PreWorkOutputs(b) ==
  /\ pc[b] = "idle" /\ changed[b] /\ active[b]
  /\ \A o \in Outs(b) : OutputReady(o)
  /\ out' = [o \in Outputs |->
               IF o \notin Outs(b) THEN out[o]
               ELSE [out[o] EXCEPT !.events = FALSE,
                       !.elements = IF o \in Signals THEN 0 ELSE Free(in, o)]]
  /\ changed' = [changed EXCEPT ![b] = FALSE]
  /\ pc' = [pc EXCEPT ![b] = "slots"]
  /\ UNCHANGED <<in, active, burst, posts, lost, toggles>>

(* handleSlotCalls: one call.  The result of a probe is posted on its      *)
(* signal; any other call flags a change of the block itself.              *)
HandleSlotCall(b, i) ==
  /\ pc[b] = "slots" /\ i \in Ins(b) \cap Slots /\ in[i].slots # <<>>
  /\ LET popped == [in EXCEPT ![i].slots = Tail(@)]
         probe == i \in DOMAIN Probes
     IN  /\ in' = IF probe THEN Post(popped, Probes[i], Head(in[i].slots).id)
                           ELSE popped
         /\ lost' = lost \union IF probe THEN PostLoses(popped, Probes[i]) ELSE {}
         /\ out' = IF probe THEN [out EXCEPT ![Probes[i]].events = TRUE] ELSE out
         /\ changed' = Flagged(Returned(in, in')
                               \union IF probe THEN PostFlags(Probes[i]) ELSE {b})
  /\ UNCHANGED <<active, pc, burst, posts, toggles>>

(* preWorkTasks, inputs: new labels move to the block's list, from bytes   *)
(* to elements.  The front of the accumulator holds the reserve when that  *)
(* many elements are there, and may hold more.                             *)
Adjusted(l, mult, div) == [l EXCEPT !.index = (@ * mult) \div div]
BufferAccumulatorFront(p) ==
  [p EXCEPT !.inline = @ \o [k \in DOMAIN p.input |-> Adjusted(p.input[k], 1, DTypeSize)],
            !.input = <<>>]

FrontSizes(p) == Min({p.avail, Max({1, Reserve})})..p.avail

WorkNeeded(b, elements) ==
  \/ \E i \in Ins(b) \cap Streams : elements[i] >= Reserve \/ in[i].messages # <<>>
  \/ Ins(b) \cap Streams = {}

PreWorkInputs(b) ==
  /\ pc[b] = "slots"
  /\ \A i \in Ins(b) \cap Slots : in[i].slots = <<>>
  /\ \E elements \in [Ins(b) \cap Streams -> 0..Max({0} \union {in[i].avail : i \in Ins(b)})] :
       /\ \A i \in Ins(b) \cap Streams : elements[i] \in FrontSizes(in[i])
       /\ in' = [i \in Inputs |->
                   IF i \notin Ins(b) \cap Streams THEN in[i]
                   ELSE [BufferAccumulatorFront(in[i]) EXCEPT
                           !.elements = IF WorkNeeded(b, elements) THEN elements[i] ELSE 0]]
       /\ pc' = [pc EXCEPT ![b] = IF WorkNeeded(b, elements) THEN "work" ELSE "idle"]
       /\ out' = [o \in Outputs |->
                    IF o \in Outs(b) /\ ~ WorkNeeded(b, elements)
                    THEN [out[o] EXCEPT !.elements = 0, !.events = FALSE] ELSE out[o]]
  /\ UNCHANGED <<active, changed, burst, posts, lost, toggles>>

-----------------------------------------------------------------------------
(* work() is the block's own code: it may consume and produce up to what   *)
(* it was given, post labels, and take and post messages.                  *)

(* Streams.  A block without a stream input is a source and posts a label  *)
(* on an element it produces; any other block leaves the labels to         *)
(* propagateLabels and produces what it consumes, or up to Shortfall less. *)
PostLabels(p, indices) ==
  [p EXCEPT !.labels = @ \o [k \in DOMAIN indices |->
                              [index |-> indices[k] * DTypeSize, at |-> p.total + indices[k]]],
            !.events = @ \/ indices # <<>>]

Consumption(b) ==
  {c \in [Ins(b) \cap Streams -> 0..Room] :
     /\ \A i \in DOMAIN c : c[i] <= in[i].elements
     /\ b \in Eager => \A i \in DOMAIN c :
          /\ in[i].elements > 0 => c[i] > 0
          /\ in[i].elements = 0 => in[i].messages = <<>>}

\* produce, and postLabel on one of the elements or (-1) on none
Produced(o, n, label) ==
  LET p == [out[o] EXCEPT !.pending = n]
  IN  IF label = -1 THEN p ELSE PostLabels(p, <<label>>)

Work(b) ==
  /\ pc[b] = "work"
  /\ \E c \in Consumption(b) : \E p \in [Outs(b) \ Signals -> 0..Room] :
     \E label \in [Outs(b) \ Signals -> -1..(Room - 1)] :
       /\ \A o \in DOMAIN p :
            /\ p[o] <= out[o].elements /\ out[o].total + p[o] <= MaxElements
            /\ IF c = <<>> THEN label[o] < p[o]
               ELSE label[o] = -1 /\ \A i \in DOMAIN c : c[i] \in p[o]..(p[o] + Shortfall)
       /\ in' = [i \in Inputs |->
                   IF i \in DOMAIN c THEN [in[i] EXCEPT !.pending = c[i]] ELSE in[i]]
       /\ out' = [o \in Outputs |->
                    IF o \in DOMAIN p THEN Produced(o, p[o], label[o]) ELSE out[o]]
  /\ pc' = [pc EXCEPT ![b] = "post"]
  /\ UNCHANGED <<active, changed, burst, posts, lost, toggles>>

\* popMessage: the entry's token goes with it.
WorkPopMessage(b, i) ==
  /\ pc[b] = "work" /\ i \in Ins(b) /\ in[i].messages # <<>>
  /\ in' = [in EXCEPT ![i].messages = Tail(@), ![i].events = TRUE]
  /\ changed' = Flagged(Returned(in, in'))
  /\ pc' = [pc EXCEPT ![b] = "post"]
  /\ UNCHANGED <<out, active, burst, posts, lost, toggles>>

\* postMessage: what it posts is with the subscribers while work() goes on.
WorkPostMessage(b, o) ==
  /\ pc[b] = "work" /\ o \in Outs(b)
  /\ burst[o] < Burst[o] /\ posts < MaxMessages
  /\ in' = Post(in, o, posts + 1)
  /\ lost' = lost \union PostLoses(in, o)
  /\ posts' = posts + 1
  /\ burst' = [burst EXCEPT ![o] = @ + 1]
  /\ out' = [out EXCEPT ![o].events = TRUE]
  /\ changed' = Flagged(PostFlags(o) \union Returned(in, in'))
  /\ UNCHANGED <<active, pc, toggles>>

-----------------------------------------------------------------------------
(* What preWorkTasks sets anew (elements, pending, events) is reset here,  *)
(* so that states that differ only in stale values coincide.               *)
(*                                                                         *)
(* postWorkTasks, inputs.  The labels before the consumed elements are     *)
(* counted; the others move closer; as many as were counted are taken from *)
(* the front of the list, shown to propagateLabels and erased.             *)
Subtract(index, n) == (index + IndexRange - n) % IndexRange

NumLabels(p) == Cardinality({k \in DOMAIN p.inline : p.inline[k].index < p.pending})
Shifted(p) ==
  [k \in DOMAIN p.inline |->
     IF p.inline[k].index < p.pending THEN p.inline[k]
     ELSE [p.inline[k] EXCEPT !.index = Subtract(@, p.pending)]]
LabelRange(p) == SubSeq(Shifted(p), 1, NumLabels(p))

\* Mutant: labels that arrived during work() keep their index.
BufferAccumulatorPopKeepsLabels(p) ==
  IF p.pending = 0 THEN p ELSE [p EXCEPT !.avail = @ - p.pending]

Closer(labels, n) == [k \in DOMAIN labels |-> [labels[k] EXCEPT !.index = Subtract(@, n)]]

(* bufferAccumulatorPop: the labels that arrived since are in bytes.       *)
BufferAccumulatorPop(p) ==
  IF p.pending = 0 THEN p
  ELSE [p EXCEPT !.avail = @ - p.pending,
                 !.input = Closer(@, p.pending * DTypeSize)]

PostWorkInput(p) ==
  LET q == BufferAccumulatorPop(p)
  IN  [q EXCEPT !.inline = SubSeq(Shifted(p), NumLabels(p) + 1, Len(p.inline)),
                !.total = @ + p.pending, !.pending = 0, !.elements = 0, !.events = FALSE]

\* Block::propagateLabels: every label in the range is posted on every output.
Propagate(b, o) ==
  LET ports == SetToSeq(Ins(b) \cap Streams)
      labels == FlattenSeq([n \in DOMAIN ports |-> LabelRange(in[ports[n]])])
  IN  PostLabels(out[o], [k \in DOMAIN labels |-> labels[k].index])

(* postWorkTasks, outputs.  bufferLabelPush: labels move behind the bytes  *)
(* already in the accumulator, and the produced elements follow.           *)
Sorted(labels) == SortSeq(labels, LAMBDA l, m : l.index < m.index)

BufferLabelPush(p, labels, n) ==
  [p EXCEPT !.input = @ \o [k \in DOMAIN labels |->
              [index |-> (labels[k].index + p.avail * DTypeSize) % IndexRange,
               at |-> p.received + labels[k].index \div DTypeSize]],
            !.avail = @ + n, !.received = @ + n]

(* The inputs come first: their consumption flags the block itself, and    *)
(* their labels are posted on the outputs.                                 *)
PostWorkInputs(b) ==
  /\ pc[b] = "post"
  /\ in' = [i \in Inputs |-> IF i \in Ins(b) THEN PostWorkInput(in[i]) ELSE in[i]]
  /\ out' = [o \in Outputs |-> IF o \in Outs(b) \ Signals THEN Propagate(b, o) ELSE out[o]]
  /\ changed' = Flagged(Returned(in, in') \union
       IF \E i \in Ins(b) : in[i].events \/ in[i].pending > 0 THEN {b} ELSE {})
  /\ pc' = [pc EXCEPT ![b] = "send"]
  /\ UNCHANGED <<active, burst, posts, lost, toggles>>

\* Then each output sends its labels and buffers to its subscribers.
Unsent(o) == out[o].labels # <<>> \/ out[o].pending > 0

PostWorkOutput(b, o) ==
  /\ pc[b] = "send" /\ o \in Outs(b) /\ Unsent(o)
  /\ in' = [i \in Inputs |-> IF i \notin Subscribers[o] THEN in[i]
              ELSE BufferLabelPush(in[i], Sorted(out[o].labels), out[o].pending)]
  /\ out' = [out EXCEPT ![o] = [@ EXCEPT !.total = @ + out[o].pending, !.labels = <<>>,
                                 !.pending = 0, !.events = @ \/ out[o].pending > 0]]
  /\ changed' = Flagged(Receivers(o))
  /\ UNCHANGED <<active, pc, burst, posts, lost, toggles>>

\* What was posted or produced flags the block itself, and workTask returns.
PostWorkDone(b) ==
  /\ pc[b] = "send" /\ \A o \in Outs(b) : ~ Unsent(o)
  /\ out' = [o \in Outputs |-> IF o \notin Outs(b) THEN out[o]
                                ELSE [out[o] EXCEPT !.elements = 0, !.events = FALSE]]
  /\ changed' = Flagged(IF \E o \in Outs(b) : out[o].events THEN {b} ELSE {})
  /\ pc' = [pc EXCEPT ![b] = "idle"]
  /\ burst' = [o \in Outputs |-> IF o \in Outs(b) THEN 0 ELSE burst[o]]
  /\ UNCHANGED <<in, active, posts, lost, toggles>>

-----------------------------------------------------------------------------
(* Calls of other threads: InputPort::pushMessage has no token;            *)
(* Block::opaqueCallMethod posts on a signal without the actor's lock, so  *)
(* its increment of _workEvents may be lost.                               *)
PushMessage(i) ==
  /\ posts < MaxMessages /\ i \in Streams \cap External
  /\ in' = [in EXCEPT ![i].messages = QueuePush(@, [id |-> posts + 1, token |-> NoToken])]
  /\ lost' = lost \union Overflowed(in[i].messages)
  /\ posts' = posts + 1
  /\ changed' = Flagged({Owner[i]} \union Returned(in, in'))
  /\ UNCHANGED <<out, active, pc, burst, toggles>>

CallSignal(o) ==
  /\ posts < MaxMessages /\ o \in Signals \cap External
  /\ in' = Post(in, o, posts + 1)
  /\ lost' = lost \union PostLoses(in, o)
  /\ posts' = posts + 1
  /\ \E e \in {pc[Owner[o]] # "idle", out[o].events} : out' = [out EXCEPT ![o].events = e]
  /\ changed' = Flagged(PostFlags(o) \union Returned(in, in'))
  /\ UNCHANGED <<active, pc, burst, toggles>>

Worker(b) ==
  \/ WorkTaskInactive(b)
  \/ PreWorkBlocked(b)
  \/ PreWorkOutputs(b)
  \/ \E i \in Inputs : HandleSlotCall(b, i)
  \/ PreWorkInputs(b)
  \/ Work(b)
  \/ \E i \in Inputs : WorkPopMessage(b, i)
  \/ \E o \in Outputs : WorkPostMessage(b, o)
  \/ PostWorkInputs(b)
  \/ \E o \in Outputs : PostWorkOutput(b, o)
  \/ PostWorkDone(b)

Next ==
  \/ \E b \in Blocks : SetActiveStateOn(b) \/ SetActiveStateOff(b) \/ Worker(b)
  \/ \E i \in Inputs : PushMessage(i)
  \/ \E o \in Outputs : CallSignal(o)

(* Every worker is run by some thread (ThreadEnvironment, ActorInterface).  *)
Spec == Init /\ [][Next]_vars /\ \A b \in Blocks : WF_vars(Worker(b))

-----------------------------------------------------------------------------
(* The index of a label denotes the element it was posted on, whatever was *)
(* pushed, moved and consumed in between, also while work() runs: in bytes *)
(* in the shared queue (bufferLabelPush, bufferAccumulatorPop), in         *)
(* elements in the list that labels() returns (bufferAccumulatorFront,     *)
(* postWorkTasks).                                                         *)
LabelsOnTheirElements ==
  \A i \in Streams :
    /\ \A k \in DOMAIN in[i].inline : in[i].inline[k].at = in[i].total + in[i].inline[k].index
    /\ \A k \in DOMAIN in[i].input :
         in[i].input[k].at * DTypeSize = in[i].total * DTypeSize + in[i].input[k].index

(* The labels that postWorkTasks hands to propagateLabels and erases are   *)
(* labels of consumed elements (Block.hpp: "This iterator will contain     *)
(* only labels from the consumed elements").                               *)
LabelsLeaveWithTheirElement ==
  [][\A i \in Streams : \A l \in {in[i].inline[k].at : k \in DOMAIN in[i].inline} :
       \/ \E k \in DOMAIN in'[i].inline : in'[i].inline[k].at = l
       \/ l < in'[i].total]_vars

\* From the push of its chunk to the pop, a label stays with its element and
\* leaves with it, and the ports and workers are in their states.
LabelsFollowElements == [](TypeOK /\ LabelsOnTheirElements) /\ LabelsLeaveWithTheirElement

(* Back-pressure by tokens keeps the message queues below the capacity at  *)
(* which asyncMessagesPush and slotCallsPush throw everything away.  A     *)
(* call of work() starts only with a token left, so of any B messages in a *)
(* row of an output that posts B at a time one holds a token: a queue that *)
(* one output fills has at most (Tokens + 1) * B - 1 messages, and loses   *)
(* none if its capacity is that.  With one less it does.                   *)
NoMessageLost == lost = {}

(* A block that sleeps has been shown everything: if its worker is idle    *)
(* with no change flagged, the block is inactive, or an output is starved, *)
(* or no slot call and no label is left that preWorkTasks has not seen.    *)
SleepsOnlyWhenServed ==
  \A b \in Blocks : pc[b] = "idle" /\ ~ changed[b] /\ active[b] =>
    \/ \E o \in Outs(b) : ~ OutputReady(o)
    \/ \A i \in Ins(b) : in[i].slots = <<>> /\ in[i].input = <<>>

(* Every slot call is served, if the blocks stay active.  The block does   *)
(* not look at its calls while an output is without tokens or memory: its  *)
(* outputs get them back, and it is run again, although only the blocks in *)
(* Eager are sure to consume.                                              *)
CallsServed ==
  <>[](\A b \in Blocks : active[b]) =>
    \A i \in Slots : (in[i].slots # <<>>) ~> (in[i].slots = <<>>)
=============================================================================
