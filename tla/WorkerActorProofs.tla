------------------------- MODULE WorkerActorProofs --------------------------
(***************************************************************************)
(* Blocks do not sleep on what they have not been shown, and no message is *)
(* lost to a queue that is full, for any number of blocks and ports and    *)
(* any topology.                                                           *)
(*                                                                         *)
(* The first invariant says of the ports where tokens may be, and of the   *)
(* workers that between the look at its inputs and its return a worker has *)
(* a change flagged or has nothing new at its inputs.  The second says of  *)
(* the queues that each burst of messages began with a token.              *)
(***************************************************************************)
EXTENDS WorkerActor, FiniteSetTheorems, TLAPS

(* What a connection may be: an output that is no signal is not connected  *)
(* to a slot, where preWorkTasks would never look for labels and buffers.  *)
SlotsTakeSignals == \A o \in Outputs \ Signals : Subscribers[o] \cap Slots = {}

InFields == {"avail", "received", "input", "inline", "messages", "slots",
             "elements", "pending", "total", "events"}
OutFields == {"elements", "pending", "total", "labels", "events"}

\* Tokens are with the subscribers of their output; a slot has slot calls
\* and no labels, any other input no slot calls.
PlacedIn(i, q) == \A m \in ToSet(q) : m.token # NoToken => i \in Subscribers[m.token[1]]
InputOK(i, p) ==
  /\ DOMAIN p = InFields /\ p.avail \in Int /\ p.pending \in Int
  /\ p.messages \in Seq(Message) /\ p.slots \in Seq(Message)
  /\ PlacedIn(i, p.messages) /\ PlacedIn(i, p.slots)
  /\ i \in Slots => p.input = <<>>
  /\ i \notin Slots => p.slots = <<>>
InputsOK(ports) == DOMAIN ports = Inputs /\ \A i \in Inputs : InputOK(i, ports[i])

OutputOK(o, p) ==
  /\ DOMAIN p = OutFields /\ p.pending \in Nat
  /\ o \in Signals => p.labels = <<>> /\ p.pending = 0
OutputsOK(ports) == DOMAIN ports = Outputs /\ \A o \in Outputs : OutputOK(o, ports[o])

Clean(p) == p.slots = <<>> /\ p.input = <<>>
Shown(ports, b) == \A i \in Ins(b) : Clean(ports[i])
Ready(ports, o) == FreeTokens(ports, o) # {} /\ (o \notin Signals => HasRoom(ports, o))

\* What is true of each block.
Awake(ports, where, flags, on, b) ==
  flags[b] \/
    /\ where[b] \in {"work", "post", "send"} => Shown(ports, b)
    /\ where[b] = "idle" /\ on[b] => Shown(ports, b) \/ \E o \in Outs(b) : ~ Ready(ports, o)

Control ==
  /\ active \in [Blocks -> BOOLEAN] /\ changed \in [Blocks -> BOOLEAN]
  /\ pc \in [Blocks -> {"idle", "slots", "work", "post", "send"}]
  /\ posts \in 0..MaxMessages

IInv ==
  /\ InputsOK(in) /\ OutputsOK(out) /\ Control
  /\ \A b \in Blocks : Awake(in, pc, changed, active, b)

-----------------------------------------------------------------------------
\* Nothing is lost or gained but by a push or a pop.
LEMMA PushFacts ==
  ASSUME NEW q \in Seq(Message), NEW m \in Message
  PROVE  QueuePush(q, m) \in Seq(Message) /\ ToSet(QueuePush(q, m)) \subseteq ToSet(q) \union {m}
<1>1. CASE Len(q) >= MaxQueueCapacity
  <2>1. QueuePush(q, m) = <<m>> BY <1>1 DEF QueuePush
  <2> QED BY <2>1 DEF ToSet
<1>2. CASE ~ (Len(q) >= MaxQueueCapacity)
  <2>1. QueuePush(q, m) = Append(q, m) BY <1>2 DEF QueuePush
  <2>2. \A k \in 1..Len(Append(q, m)) : Append(q, m)[k] \in ToSet(q) \union {m} BY DEF ToSet
  <2> QED BY <2>1, <2>2 DEF ToSet
<1> QED BY <1>1, <1>2

\* A tail has only members of the sequence.
LEMMA TailMembers ==
  ASSUME NEW q \in Seq(Message), q # <<>>
  PROVE  Tail(q) \in Seq(Message) /\ ToSet(Tail(q)) \subseteq ToSet(q) /\ Head(q) \in Message
<1>1. \A k \in 1..Len(Tail(q)) : Tail(q)[k] = q[k + 1] /\ k + 1 \in 1..Len(q) OBVIOUS
<1> QED BY <1>1 DEF ToSet

\* A post keeps the ports right and touches only the subscribers.
LEMMA PostFacts ==
  ASSUME BoundsAssumption, PortsAssumption,
         NEW ports, InputsOK(ports), NEW o \in Outputs, NEW id \in 0..MaxMessages
  PROVE  /\ InputsOK(Post(ports, o, id))
         /\ \A i \in Inputs \ Subscribers[o] : Post(ports, o, id)[i] = ports[i]
<1> DEFINE free == FreeTokens(ports, o)
           m == [id |-> id, token |-> IF free = {} THEN NoToken ELSE <<o, CHOOSE k \in free : TRUE>>]
           after == Post(ports, o, id)
<1>1. free \subseteq 1..Tokens BY DEF FreeTokens
<1>2. m \in Message /\ (m.token # NoToken => m.token[1] = o)
  <2>1. CASE free = {} BY <2>1 DEF Message, Token
  <2>2. CASE free # {}
    <3>1. (CHOOSE k \in free : TRUE) \in 1..Tokens BY <2>2, <1>1
    <3>2. m = [id |-> id, token |-> <<o, CHOOSE k \in free : TRUE>>] BY <2>2
    <3> QED BY <3>1, <3>2 DEF Message, Token
  <2> QED BY <2>1, <2>2
<1>3. after = [i \in Inputs |->
         IF i \notin Subscribers[o] THEN ports[i]
         ELSE IF ToSlot(o, i) THEN [ports[i] EXCEPT !.slots = QueuePush(@, m)]
         ELSE [ports[i] EXCEPT !.messages = QueuePush(@, m)]]
  BY DEF Post
<1> HIDE DEF m, after, free
<1>4. \A i \in Inputs \ Subscribers[o] : after[i] = ports[i] BY <1>3
<1>5. ASSUME NEW i \in Inputs PROVE InputOK(i, after[i])
  <2>1. InputOK(i, ports[i]) BY DEF InputsOK
  <2>2. CASE i \notin Subscribers[o] BY <2>1, <2>2, <1>3
  <2>3. CASE i \in Subscribers[o] /\ ToSlot(o, i)
    <3>1. after[i] = [ports[i] EXCEPT !.slots = QueuePush(@, m)] BY <2>3, <1>3
    <3>2. i \in Slots BY <2>3 DEF ToSlot
    <3>3. QueuePush(ports[i].slots, m) \in Seq(Message)
          /\ ToSet(QueuePush(ports[i].slots, m)) \subseteq ToSet(ports[i].slots) \union {m}
      BY <2>1, <1>2, PushFacts DEF InputOK
    <3>4. PlacedIn(i, QueuePush(ports[i].slots, m)) BY <3>3, <2>1, <2>3, <1>2 DEF PlacedIn, InputOK
    <3> QED BY <3>1, <3>2, <3>3, <3>4, <2>1 DEF InputOK, InFields
  <2>4. CASE i \in Subscribers[o] /\ ~ ToSlot(o, i)
    <3>1. after[i] = [ports[i] EXCEPT !.messages = QueuePush(@, m)] BY <2>4, <1>3
    <3>2. QueuePush(ports[i].messages, m) \in Seq(Message)
          /\ ToSet(QueuePush(ports[i].messages, m)) \subseteq ToSet(ports[i].messages) \union {m}
      BY <2>1, <1>2, PushFacts DEF InputOK
    <3>3. PlacedIn(i, QueuePush(ports[i].messages, m)) BY <3>2, <2>1, <2>4, <1>2 DEF PlacedIn, InputOK
    <3> QED BY <3>1, <3>2, <3>3, <2>1 DEF InputOK, InFields
  <2> QED BY <2>2, <2>3, <2>4
<1>6. DOMAIN after = Inputs BY <1>3
<1> QED BY <1>4, <1>5, <1>6 DEF InputsOK, after

\* Who gets a token or memory for an output that had none is flagged.
LEMMA Wakes ==
  ASSUME BoundsAssumption, PortsAssumption,
         NEW before, NEW after, InputsOK(before), InputsOK(after),
         NEW o \in Outputs, ~ Ready(before, o), Ready(after, o)
  PROVE  Owner[o] \in Returned(before, after)
<1>1. CASE FreeTokens(before, o) = {}
  <2>1. PICK k \in 1..Tokens : k \in FreeTokens(after, o) BY DEF Ready, FreeTokens
  <2>2. PICK i \in Subscribers[o] : \E m \in Queued(before, i) :
          m.token # NoToken /\ m.token[1] = o /\ m.token[2] = k
    BY <1>1, <2>1 DEF FreeTokens
  <2>3. PICK m \in Queued(before, i) : m.token # NoToken /\ m.token[1] = o /\ m.token[2] = k
    BY <2>2
  <2>4. i \in Inputs BY <2>2 DEF PortsAssumption
  <2>5. m \in Message
    <3>1. \A q \in Seq(Message) : ToSet(q) \subseteq Message BY DEF ToSet
    <3> QED BY <3>1, <2>3, <2>4 DEF InputsOK, InputOK, Queued
  <2>6. m.token = <<o, k>> BY <2>3, <2>5 DEF Message, Token
  <2>7. <<o, k>> \in Held(before) BY <2>3, <2>4, <2>6 DEF Held
  <2>8. <<o, k>> \notin Held(after)
    <3> SUFFICES ASSUME <<o, k>> \in Held(after) PROVE FALSE OBVIOUS
    <3>1. PICK j \in Inputs : \E e \in Queued(after, j) : e.token = <<o, k>> BY DEF Held
    <3>2. PICK e \in Queued(after, j) : e.token = <<o, k>> BY <3>1
    <3>3. e.token # NoToken /\ e.token[1] = o /\ e.token[2] = k BY <3>2 DEF NoToken
    <3>4. j \in Subscribers[o] BY <3>2, <3>3 DEF InputsOK, InputOK, PlacedIn, Queued
    <3> QED BY <3>2, <3>3, <3>4, <2>1 DEF FreeTokens
  <2>9. <<o, k>> # NoToken /\ <<o, k>>[1] = o BY DEF NoToken
  <2> QED BY <2>7, <2>8, <2>9 DEF Returned
<1>2. CASE o \notin Signals /\ ~ HasRoom(before, o)
  <2>1. PICK j \in Readers(o) : ~ (before[j].avail < Room) BY <1>2 DEF HasRoom
  <2>2. \A i \in Readers(o) : after[i].avail < Room BY <1>2 DEF Ready, HasRoom
  <2>3. Readers(o) \subseteq Inputs BY DEF Readers, Streams
  <2>4. \A i \in Readers(o) : before[i].avail \in Int /\ after[i].avail \in Int
    BY <2>3 DEF InputsOK, InputOK
  <2>5. \A i \in Readers(o) : after[i].avail < before[j].avail
    BY <2>1, <2>2, <2>4 DEF BoundsAssumption
  <2>6. RoomGrew(before, after, o) BY <2>1, <2>5 DEF RoomGrew
  <2> QED BY <1>2, <2>6 DEF Returned
<1> QED BY <1>1, <1>2 DEF Ready

\* A step that flags who got something, or something back, leaves nobody asleep.
LEMMA StaysAwake ==
  ASSUME BoundsAssumption, PortsAssumption,
         NEW before, NEW after, InputsOK(before), InputsOK(after),
         NEW where, NEW flags, NEW on, NEW set, NEW b \in Blocks,
         flags \in [Blocks -> BOOLEAN],
         Awake(before, where, flags, on, b),
         \A o \in Outputs : ~ Ready(before, o) /\ Ready(after, o) => Owner[o] \in set,
         b \in set \/ \A i \in Ins(b) : Clean(before[i]) => Clean(after[i])
  PROVE  Awake(after, where, [c \in Blocks |-> flags[c] \/ c \in set], on, b)
<1> DEFINE new == [c \in Blocks |-> flags[c] \/ c \in set]
<1>1. new[b] <=> flags[b] \/ b \in set OBVIOUS
<1> HIDE DEF new
<1>2. CASE flags[b] \/ b \in set BY <1>1, <1>2 DEF Awake, new
<1>3. CASE ~ flags[b] /\ b \notin set
  <2>1. Shown(before, b) => Shown(after, b) BY <1>3 DEF Shown
  <2>2. ASSUME NEW o \in Outs(b), ~ Ready(before, o) PROVE ~ Ready(after, o)
    <3>1. o \in Outputs /\ Owner[o] = b BY DEF Outs
    <3> QED BY <2>2, <3>1, <1>3
  <2> QED BY <2>1, <2>2, <1>3 DEF Awake, new
<1> QED BY <1>2, <1>3

\* Awake is about one block.
LEMMA AwakeSame ==
  ASSUME NEW ports, NEW where, NEW flags, NEW on, NEW where2, NEW flags2, NEW on2, NEW b,
         Awake(ports, where, flags, on, b),
         where2[b] = where[b], flags[b] => flags2[b], on2[b] = on[b]
  PROVE  Awake(ports, where2, flags2, on2, b)
BY DEF Awake

-----------------------------------------------------------------------------
(* Each step keeps the invariant.                                          *)

\* Hypotheses of all that follows.
Hypotheses == PortsAssumption /\ BoundsAssumption /\ SlotsTakeSignals

\* At first every block is flagged.
LEMMA InitInv == ASSUME Hypotheses, Init PROVE IInv
<1>1. ASSUME NEW i \in Inputs PROVE InputOK(i, in[i])
  <2>1. in[i] = [avail |-> 0, received |-> 0, input |-> <<>>,
             inline |-> <<>>, messages |-> <<>>, slots |-> <<>>, elements |-> 0,
             pending |-> 0, total |-> 0, events |-> FALSE] BY DEF Init
  <2>2. <<>> \in Seq(Message) /\ ToSet(<<>>) = {} BY DEF ToSet
  <2> QED BY <2>1, <2>2 DEF InputOK, InFields, PlacedIn
<1>2. ASSUME NEW o \in Outputs PROVE OutputOK(o, out[o])
  BY DEF Init, OutputOK, OutFields
<1>3. DOMAIN in = Inputs /\ DOMAIN out = Outputs BY DEF Init
<1>4. Control BY DEF Init, Control, Hypotheses, BoundsAssumption
<1>5. \A b \in Blocks : Awake(in, pc, changed, active, b) BY DEF Init, Awake
<1> QED BY <1>1, <1>2, <1>3, <1>4, <1>5 DEF IInv, InputsOK, OutputsOK

\* Steps that leave the inputs alone.
LEMMA SetActiveKeeps ==
  ASSUME Hypotheses, IInv, NEW b \in Blocks, SetActiveStateOn(b) \/ SetActiveStateOff(b) PROVE IInv'
<1>1. in' = in /\ out' = out /\ pc' = pc /\ posts' = posts /\ changed' = Flagged({b})
      /\ active' \in [Blocks -> BOOLEAN] /\ \A c \in Blocks \ {b} : active'[c] = active[c]
  BY DEF SetActiveStateOn, SetActiveStateOff, IInv, Control
<1>2. changed' \in [Blocks -> BOOLEAN] /\ changed'[b] /\ \A c \in Blocks : changed[c] => changed'[c]
  BY <1>1 DEF Flagged
<1>3. ASSUME NEW c \in Blocks PROVE Awake(in, pc, changed', active', c)
  <2>1. Awake(in, pc, changed, active, c) BY DEF IInv
  <2>2. CASE c = b BY <2>2, <1>2 DEF Awake
  <2>3. CASE c # b
    <3>1. active'[c] = active[c] /\ (changed[c] => changed'[c]) BY <2>3, <1>1, <1>2
    <3> QED BY <3>1, <2>1, AwakeSame
  <2> QED BY <2>2, <2>3
<1> QED BY <1>1, <1>2, <1>3 DEF IInv, Control

\* Steps that take the flag of a block, whose worker then is where it may be without.
LEMMA FlagTaken ==
  ASSUME Hypotheses, IInv, NEW b \in Blocks, UNCHANGED <<in, active, posts>>, OutputsOK(out'),
         changed' = [changed EXCEPT ![b] = FALSE],
         pc' \in [Blocks -> {"idle", "slots", "work", "post", "send"}],
         \A c \in Blocks \ {b} : pc'[c] = pc[c],
         \/ pc'[b] = "slots"
         \/ pc'[b] = "idle" /\ (active[b] => \E o \in Outs(b) : ~ Ready(in, o))
  PROVE  IInv'
<1>1. changed' \in [Blocks -> BOOLEAN] /\ \A c \in Blocks \ {b} : changed'[c] = changed[c]
  BY DEF IInv, Control
<1>2. ASSUME NEW c \in Blocks PROVE Awake(in, pc', changed', active, c)
  <2>1. Awake(in, pc, changed, active, c) BY DEF IInv
  <2>2. CASE c = b BY <2>2 DEF Awake
  <2>3. CASE c # b
    <3>1. pc'[c] = pc[c] /\ (changed[c] => changed'[c]) BY <2>3, <1>1
    <3> QED BY <3>1, <2>1, AwakeSame
  <2> QED BY <2>2, <2>3
<1> QED BY <1>1, <1>2 DEF IInv, Control

\* workTask() that returns at once: the block is not active, or an output is not ready.
LEMMA IdleTaskKeeps ==
  ASSUME Hypotheses, IInv, NEW b \in Blocks, WorkTaskInactive(b) \/ PreWorkBlocked(b) PROVE IInv'
<1>1. UNCHANGED <<in, active, posts>> /\ out' = out /\ pc' = pc /\ changed' = [changed EXCEPT ![b] = FALSE]
  BY DEF WorkTaskInactive, PreWorkBlocked
<1>2. pc'[b] = "idle" /\ (active[b] => \E o \in Outs(b) : ~ Ready(in, o))
  BY <1>1 DEF WorkTaskInactive, PreWorkBlocked, Ready, OutputReady
<1>3. pc' \in [Blocks -> {"idle", "slots", "work", "post", "send"}] /\ OutputsOK(out')
  BY <1>1 DEF IInv, Control
<1> QED BY <1>1, <1>2, <1>3, FlagTaken

\* workTask() that goes on to the slots, where it sees what arrived before.
LEMMA PreWorkOutputsKeeps ==
  ASSUME Hypotheses, IInv, NEW b \in Blocks, PreWorkOutputs(b) PROVE IInv'
<1>1. UNCHANGED <<in, active, posts>> /\ changed' = [changed EXCEPT ![b] = FALSE]
      /\ pc' = [pc EXCEPT ![b] = "slots"]
  BY DEF PreWorkOutputs
<1>2. pc' \in [Blocks -> {"idle", "slots", "work", "post", "send"}] /\ pc'[b] = "slots"
      /\ \A c \in Blocks \ {b} : pc'[c] = pc[c]
  BY <1>1 DEF IInv, Control
<1>3. OutputsOK(out')
  <2>1. DOMAIN out' = Outputs BY DEF PreWorkOutputs
  <2>2. ASSUME NEW o \in Outputs PROVE OutputOK(o, out'[o])
    <3>1. OutputOK(o, out[o]) BY DEF IInv, OutputsOK
    <3>2. \/ out'[o] = out[o]
          \/ out'[o] = [out[o] EXCEPT !.events = FALSE,
                                      !.elements = IF o \in Signals THEN 0 ELSE Free(in, o)]
      BY DEF PreWorkOutputs
    <3> QED BY <3>1, <3>2 DEF OutputOK, OutFields
  <2> QED BY <2>1, <2>2 DEF OutputsOK
<1> QED BY <1>1, <1>2, <1>3, FlagTaken

\* Steps that flag a set of blocks.
LEMMA FlagsKeep ==
  ASSUME Hypotheses, IInv, InputsOK(in'), OutputsOK(out'), active' = active, posts' \in 0..MaxMessages,
         NEW set, changed' = Flagged(set), \A o \in Outputs : ~ Ready(in, o) /\ Ready(in', o) => Owner[o] \in set,
         pc' \in [Blocks -> {"idle", "slots", "work", "post", "send"}],
         \A c \in Blocks : \/ pc'[c] = pc[c]
                           \/ pc[c] \in {"work", "post", "send"} /\ pc'[c] \in {"work", "post", "send", "idle"}
                           \/ pc'[c] \in {"work", "idle"} /\ Shown(in', c),
         \A i \in Inputs : Clean(in[i]) => Clean(in'[i]) \/ Owner[i] \in set
  PROVE  IInv'
<1>1. changed \in [Blocks -> BOOLEAN] BY DEF IInv, Control
<1>2. changed' = [c \in Blocks |-> changed[c] \/ c \in set] BY DEF Flagged
<1>3. changed' \in [Blocks -> BOOLEAN] BY <1>1, <1>2
<1>4. ASSUME NEW b \in Blocks PROVE Awake(in', pc', changed', active', b)
  <2>1. Awake(in, pc, changed, active, b) /\ InputsOK(in) BY DEF IInv
  <2>2. b \in set \/ \A i \in Ins(b) : Clean(in[i]) => Clean(in'[i]) BY DEF Ins
  <2>3. Awake(in', pc, changed', active, b)
    BY <2>1, <2>2, <1>1, <1>2, StaysAwake DEF Hypotheses
  <2>4. CASE pc'[b] = pc[b] BY <2>3, <2>4, AwakeSame
  <2>5. CASE pc[b] \in {"work", "post", "send"} /\ pc'[b] \in {"work", "post", "send", "idle"}
    BY <2>3, <2>5 DEF Awake
  <2>6. CASE pc'[b] \in {"work", "idle"} /\ Shown(in', b) BY <2>6 DEF Awake
  <2> QED BY <2>4, <2>5, <2>6
<1> QED BY <1>3, <1>4 DEF IInv, Control

\* The messages and slot calls stay where they are.
SameQueues == \A i \in Inputs : in'[i].messages = in[i].messages /\ in'[i].slots = in[i].slots

\* No output becomes ready when the queues stay and no reader has less.
LEMMA NotReadier ==
  ASSUME Hypotheses, NEW before, NEW after, InputsOK(before), InputsOK(after),
         \A i \in Inputs : /\ after[i].messages = before[i].messages
                           /\ after[i].slots = before[i].slots
                           /\ after[i].avail >= before[i].avail,
         NEW o \in Outputs, Ready(after, o)
  PROVE  Ready(before, o)
<1>1. Subscribers[o] \subseteq Inputs /\ Readers(o) \subseteq Inputs
  BY DEF Hypotheses, PortsAssumption, Readers
<1>2. \A i \in Subscribers[o] : Queued(after, i) = Queued(before, i) BY <1>1 DEF Queued
<1>3. FreeTokens(after, o) = FreeTokens(before, o) BY <1>2 DEF FreeTokens
<1>4. \A i \in Readers(o) : after[i].avail >= before[i].avail /\ before[i].avail \in Int /\ after[i].avail \in Int
  BY <1>1 DEF InputsOK, InputOK
<1>5. HasRoom(after, o) => HasRoom(before, o)
  BY <1>4 DEF HasRoom, Hypotheses, BoundsAssumption
<1> QED BY <1>3, <1>5 DEF Ready

\* What is popped from a queue leaves the ports right.
LEMMA PopFacts ==
  ASSUME NEW ports, InputsOK(ports), NEW i \in Inputs, NEW f \in {"slots", "messages"}, ports[i][f] # <<>>,
         NEW p, p \in {[ports[i] EXCEPT ![f] = Tail(@)],
                       [ports[i] EXCEPT ![f] = Tail(@), !.events = TRUE]}
  PROVE  InputsOK([ports EXCEPT ![i] = p]) /\ p.input = ports[i].input /\ Head(ports[i][f]) \in Message
         /\ (f = "messages" => p.slots = ports[i].slots)
<1>1. InputOK(i, ports[i]) BY DEF InputsOK
<1>2. ports[i][f] \in Seq(Message) /\ PlacedIn(i, ports[i][f]) BY <1>1 DEF InputOK
<1>3. Tail(ports[i][f]) \in Seq(Message) /\ ToSet(Tail(ports[i][f])) \subseteq ToSet(ports[i][f])
      /\ Head(ports[i][f]) \in Message
  BY <1>2, TailMembers
<1>4. PlacedIn(i, Tail(ports[i][f])) BY <1>2, <1>3 DEF PlacedIn
<1>5. DOMAIN p = InFields /\ p[f] = Tail(ports[i][f])
      /\ \A g \in InFields \ {f, "events"} : p[g] = ports[i][g]
  BY <1>1 DEF InputOK, InFields
<1>6. InputOK(i, p)
  <2>1. CASE f = "slots"
    <3>1. p.avail = ports[i].avail /\ p.pending = ports[i].pending /\ p.messages = ports[i].messages
          /\ p.input = ports[i].input /\ p.slots = Tail(ports[i].slots)
      BY <2>1, <1>5 DEF InFields
    <3>2. i \in Slots BY <1>1, <2>1 DEF InputOK
    <3> QED BY <3>1, <3>2, <2>1, <1>1, <1>3, <1>4, <1>5 DEF InputOK
  <2>2. CASE f = "messages"
    <3>1. p.avail = ports[i].avail /\ p.pending = ports[i].pending /\ p.slots = ports[i].slots
          /\ p.input = ports[i].input /\ p.messages = Tail(ports[i].messages)
      BY <2>2, <1>5 DEF InFields
    <3> QED BY <3>1, <2>2, <1>1, <1>3, <1>4, <1>5 DEF InputOK
  <2> QED BY <2>1, <2>2
<1>7. p.input = ports[i].input /\ (f = "messages" => p.slots = ports[i].slots) BY <1>5 DEF InFields
<1> QED BY <1>3, <1>6, <1>7 DEF InputsOK

\* The events of an output do not matter.
LEMMA EventsFacts ==
  ASSUME OutputsOK(out), NEW o \in Outputs, NEW e, out' = [out EXCEPT ![o].events = e]
  PROVE  OutputsOK(out')
<1>1. ASSUME NEW u \in Outputs PROVE OutputOK(u, out'[u])
  <2>1. OutputOK(u, out[u]) /\ (u = o => out'[u] = [out[u] EXCEPT !.events = e])
        /\ (u # o => out'[u] = out[u])
    BY DEF OutputsOK
  <2> QED BY <2>1 DEF OutputOK, OutFields
<1> QED BY <1>1 DEF OutputsOK

\* A message that is posted flags the subscribers.
LEMMA PostFlagsFacts ==
  ASSUME Hypotheses, NEW o \in Outputs, NEW i \in Subscribers[o]
  PROVE  Owner[i] \in PostFlags(o) /\ Owner[i] \in Receivers(o)
BY DEF PostFlags, Receivers

\* A slot call is served: its token comes back, and a probe posts its result.
LEMMA HandleSlotCallKeeps ==
  ASSUME Hypotheses, IInv, NEW b \in Blocks, NEW i \in Inputs, HandleSlotCall(b, i) PROVE IInv'
<1> DEFINE popped == [in EXCEPT ![i].slots = Tail(@)]
           p == [in[i] EXCEPT !["slots"] = Tail(@)]
<1>1. pc[b] = "slots" /\ i \in Ins(b) \cap Slots /\ in[i].slots # <<>> /\ Owner[i] = b
      /\ UNCHANGED <<active, pc, posts>>
  BY DEF HandleSlotCall, Ins
<1>2. InputsOK(in) /\ OutputsOK(out) /\ Control BY DEF IInv
<1>3. popped = [in EXCEPT ![i] = p] /\ i \in DOMAIN in BY <1>2 DEF InputsOK
<1>4. InputsOK(popped) /\ Head(in[i].slots) \in Message
  BY <1>1, <1>2, <1>3, PopFacts
<1>5. \A j \in Inputs \ {i} : popped[j] = in[j] BY <1>2 DEF InputsOK
<1> HIDE DEF popped, p
<1>6. CASE i \in DOMAIN Probes
  <2> DEFINE o == Probes[i]  id == Head(in[i].slots).id
  <2>1. o \in Outputs BY <1>6 DEF Hypotheses, PortsAssumption
  <2>2. id \in 0..MaxMessages BY <1>4 DEF Message
  <2>3. in' = Post(popped, o, id) /\ out' = [out EXCEPT ![o].events = TRUE]
        /\ changed' = Flagged(Returned(in, in') \union PostFlags(o))
    BY <1>6 DEF HandleSlotCall, popped
  <2> HIDE DEF o, id
  <2>4. InputsOK(in') /\ \A j \in Inputs \ Subscribers[o] : in'[j] = popped[j]
    BY <2>1, <2>2, <2>3, <1>4, PostFacts DEF Hypotheses
  <2>5. OutputsOK(out') BY <2>1, <2>3, <1>2, EventsFacts
  <2>6. \A u \in Outputs : ~ Ready(in, u) /\ Ready(in', u) => Owner[u] \in Returned(in, in') \union PostFlags(o)
    BY <2>4, <1>2, Wakes DEF Hypotheses
  <2>7. ASSUME NEW j \in Inputs, Clean(in[j])
        PROVE  Clean(in'[j]) \/ Owner[j] \in Returned(in, in') \union PostFlags(o)
    <3>1. j # i BY <2>7, <1>1 DEF Clean
    <3>2. CASE j \in Subscribers[o] BY <3>2, <2>1, PostFlagsFacts
    <3>3. CASE j \notin Subscribers[o] BY <3>1, <3>3, <2>4, <2>7, <1>5
    <3> QED BY <3>2, <3>3
  <2> QED BY <2>3, <2>4, <2>5, <2>6, <2>7, <1>1, <1>2, FlagsKeep DEF Control
<1>7. CASE i \notin DOMAIN Probes
  <2>1. in' = popped /\ out' = out /\ changed' = Flagged(Returned(in, in') \union {b})
    BY <1>7 DEF HandleSlotCall, popped
  <2>2. \A u \in Outputs : ~ Ready(in, u) /\ Ready(in', u) => Owner[u] \in Returned(in, in') \union {b}
    BY <2>1, <1>2, <1>4, Wakes DEF Hypotheses
  <2>3. \A j \in Inputs : Clean(in[j]) => Clean(in'[j]) \/ Owner[j] \in Returned(in, in') \union {b}
    BY <2>1, <1>1, <1>5 DEF Clean
  <2> QED BY <2>1, <2>2, <2>3, <1>1, <1>2, <1>4, FlagsKeep DEF Control
<1> QED BY <1>6, <1>7

\* A post from work() or by another thread.
LEMMA PostKeeps ==
  ASSUME Hypotheses, IInv, NEW o \in Outputs, posts < MaxMessages,
         in' = Post(in, o, posts + 1), posts' = posts + 1,
         NEW e, out' = [out EXCEPT ![o].events = e],
         changed' = Flagged(PostFlags(o) \union Returned(in, in')), UNCHANGED <<active, pc>>
  PROVE  IInv'
<1>1. InputsOK(in) /\ OutputsOK(out) /\ Control BY DEF IInv
<1>2. posts + 1 \in 0..MaxMessages BY <1>1 DEF Control, Hypotheses, BoundsAssumption
<1>3. InputsOK(in') /\ \A j \in Inputs \ Subscribers[o] : in'[j] = in[j]
  BY <1>1, <1>2, PostFacts DEF Hypotheses
<1>4. OutputsOK(out') BY <1>1, EventsFacts
<1>5. \A u \in Outputs : ~ Ready(in, u) /\ Ready(in', u) => Owner[u] \in PostFlags(o) \union Returned(in, in')
  BY <1>1, <1>3, Wakes DEF Hypotheses
<1>6. \A j \in Inputs : Clean(in[j]) => Clean(in'[j]) \/ Owner[j] \in PostFlags(o) \union Returned(in, in')
  BY <1>3, PostFlagsFacts
<1> QED BY <1>1, <1>2, <1>3, <1>4, <1>5, <1>6, FlagsKeep DEF Control

\* The two posts of the model are of that form.
LEMMA PostActionsKeep ==
  ASSUME Hypotheses, IInv, NEW o \in Outputs,
         CallSignal(o) \/ \E b \in Blocks : WorkPostMessage(b, o)
  PROVE  IInv'
<1>1. CASE CallSignal(o)
  <2>1. PICK e : out' = [out EXCEPT ![o].events = e] BY <1>1 DEF CallSignal
  <2> QED BY <1>1, <2>1, PostKeeps DEF CallSignal
<1>2. ASSUME NEW b \in Blocks, WorkPostMessage(b, o) PROVE IInv'
  BY <1>2, PostKeeps DEF WorkPostMessage
<1> QED BY <1>1, <1>2

\* A message from outside flags the block that it is for.
LEMMA PushMessageKeeps ==
  ASSUME Hypotheses, IInv, NEW i \in Inputs, PushMessage(i) PROVE IInv'
<1> DEFINE m == [id |-> posts + 1, token |-> NoToken]
           set == {Owner[i]} \union Returned(in, in')
<1>1. InputsOK(in) /\ OutputsOK(out) /\ Control BY DEF IInv
<1>2. in' = [in EXCEPT ![i].messages = QueuePush(@, m)] /\ posts' = posts + 1 /\ posts < MaxMessages
      /\ changed' = Flagged(set) /\ UNCHANGED <<out, active, pc>>
  BY DEF PushMessage
<1>3. posts' \in 0..MaxMessages BY <1>1, <1>2 DEF Control, Hypotheses, BoundsAssumption
<1>4. m \in Message BY <1>2, <1>3 DEF Message, Token
<1>5. m.token = NoToken OBVIOUS
<1> HIDE DEF m
<1>6. InputOK(i, in[i]) /\ i \in DOMAIN in BY <1>1 DEF InputsOK
<1>7. QueuePush(in[i].messages, m) \in Seq(Message)
      /\ ToSet(QueuePush(in[i].messages, m)) \subseteq ToSet(in[i].messages) \union {m}
  BY <1>4, <1>6, PushFacts DEF InputOK
<1>8. PlacedIn(i, QueuePush(in[i].messages, m)) BY <1>5, <1>6, <1>7 DEF PlacedIn, InputOK
<1>9. DOMAIN in' = Inputs /\ in'[i] = [in[i] EXCEPT !.messages = QueuePush(@, m)]
      /\ \A j \in Inputs \ {i} : in'[j] = in[j]
  BY <1>1, <1>2, <1>6 DEF InputsOK
<1>10. InputOK(i, in'[i]) BY <1>6, <1>7, <1>8, <1>9 DEF InputOK, InFields
<1>11. InputsOK(in')
  <2>1. ASSUME NEW j \in Inputs PROVE InputOK(j, in'[j])
    <3>1. CASE j = i BY <3>1, <1>10
    <3>2. CASE j # i
      <4>1. in'[j] = in[j] BY <3>2, <1>9
      <4> QED BY <4>1, <1>1 DEF InputsOK
    <3> QED BY <3>1, <3>2
  <2>2. DOMAIN in' = Inputs BY <1>9
  <2> QED BY <2>1, <2>2 DEF InputsOK
<1>12. \A u \in Outputs : ~ Ready(in, u) /\ Ready(in', u) => Owner[u] \in set
  BY <1>1, <1>11, Wakes DEF Hypotheses
<1>13. \A j \in Inputs : Clean(in[j]) => Clean(in'[j]) \/ Owner[j] \in set BY <1>9
<1> HIDE DEF set
<1> QED BY <1>1, <1>2, <1>3, <1>11, <1>12, <1>13, FlagsKeep DEF Control

\* A message taken by work() gives its token back.
LEMMA WorkPopMessageKeeps ==
  ASSUME Hypotheses, IInv, NEW b \in Blocks, NEW i \in Inputs, WorkPopMessage(b, i) PROVE IInv'
<1> DEFINE p == [in[i] EXCEPT !["messages"] = Tail(@), !.events = TRUE]
<1>1. InputsOK(in) /\ OutputsOK(out) /\ Control BY DEF IInv
<1>2. pc[b] = "work" /\ in[i].messages # <<>> /\ changed' = Flagged(Returned(in, in'))
      /\ pc' = [pc EXCEPT ![b] = "post"] /\ UNCHANGED <<out, active, posts>>
  BY DEF WorkPopMessage
<1>3. i \in DOMAIN in BY <1>1 DEF InputsOK
<1>4. in' = [in EXCEPT ![i] = p] BY <1>3 DEF WorkPopMessage
<1>5. InputsOK(in') /\ p.input = in[i].input /\ p.slots = in[i].slots
  BY <1>1, <1>2, <1>4, PopFacts
<1> HIDE DEF p
<1>6. in'[i] = p /\ \A j \in Inputs \ {i} : in'[j] = in[j] BY <1>3, <1>4, <1>1 DEF InputsOK
<1>7. \A j \in Inputs : Clean(in[j]) => Clean(in'[j]) BY <1>5, <1>6 DEF Clean
<1>8. \A u \in Outputs : ~ Ready(in, u) /\ Ready(in', u) => Owner[u] \in Returned(in, in')
  BY <1>1, <1>5, Wakes DEF Hypotheses
<1>9. pc' \in [Blocks -> {"idle", "slots", "work", "post", "send"}] /\ pc'[b] = "post"
      /\ \A c \in Blocks \ {b} : pc'[c] = pc[c]
  BY <1>1, <1>2 DEF Control
<1> QED BY <1>1, <1>2, <1>5, <1>7, <1>8, <1>9, FlagsKeep DEF Control

\* Without a flag that is new, FlagsKeep has no set.
LEMMA NoFlags == ASSUME IInv, changed' = changed PROVE changed' = Flagged({})
BY DEF IInv, Control, Flagged

\* preWorkTasks shows the block all labels, and has served all slot calls before.
LEMMA PreWorkInputsKeeps ==
  ASSUME Hypotheses, IInv, NEW b \in Blocks, PreWorkInputs(b) PROVE IInv' /\ SameQueues
<1>1. InputsOK(in) /\ OutputsOK(out) /\ Control BY DEF IInv
<1>2. pc[b] = "slots" /\ (\A i \in Ins(b) \cap Slots : in[i].slots = <<>>)
      /\ UNCHANGED <<active, changed, posts>>
  BY DEF PreWorkInputs
<1>3. PICK elements :
       /\ in' = [i \in Inputs |->
                   IF i \notin Ins(b) \cap Streams THEN in[i]
                   ELSE [BufferAccumulatorFront(in[i]) EXCEPT
                           !.elements = IF WorkNeeded(b, elements) THEN elements[i] ELSE 0]]
       /\ pc' = [pc EXCEPT ![b] = IF WorkNeeded(b, elements) THEN "work" ELSE "idle"]
       /\ out' = [o \in Outputs |->
                    IF o \in Outs(b) /\ ~ WorkNeeded(b, elements)
                    THEN [out[o] EXCEPT !.elements = 0, !.events = FALSE] ELSE out[o]]
  BY Zenon DEF PreWorkInputs
<1>4. ASSUME NEW i \in Ins(b) \cap Streams
      PROVE  /\ InputOK(i, in'[i]) /\ in'[i].input = <<>> /\ in'[i].avail = in[i].avail
             /\ in'[i].messages = in[i].messages /\ in'[i].slots = in[i].slots
  <2>1. i \in Inputs /\ i \notin Slots /\ InputOK(i, in[i]) BY <1>1 DEF InputsOK, Streams
  <2>2. PICK e : in'[i] = [BufferAccumulatorFront(in[i]) EXCEPT !.elements = e] BY <1>3, <2>1
  <2>3. DOMAIN in'[i] = InFields /\ in'[i].input = <<>>
        /\ \A f \in InFields \ {"input", "inline", "elements"} : in'[i][f] = in[i][f]
    BY <2>1, <2>2 DEF BufferAccumulatorFront, InputOK, InFields
  <2> QED BY <2>1, <2>3 DEF InputOK, InFields
<1>5. \A i \in Inputs \ (Ins(b) \cap Streams) : in'[i] = in[i] BY <1>3
<1>6. InputsOK(in')
  <2>1. DOMAIN in' = Inputs BY <1>3
  <2> QED BY <2>1, <1>1, <1>4, <1>5 DEF InputsOK
<1>7. OutputsOK(out')
  <2>1. ASSUME NEW o \in Outputs PROVE OutputOK(o, out'[o])
    <3>1. OutputOK(o, out[o]) BY <1>1 DEF OutputsOK
    <3>2. out'[o] = out[o] \/ out'[o] = [out[o] EXCEPT !.elements = 0, !.events = FALSE] BY <1>3
    <3> QED BY <3>1, <3>2 DEF OutputOK, OutFields
  <2>2. DOMAIN out' = Outputs BY <1>3
  <2> QED BY <2>1, <2>2 DEF OutputsOK
<1>8. \A i \in Inputs : /\ in'[i].messages = in[i].messages /\ in'[i].slots = in[i].slots
                        /\ in'[i].avail >= in[i].avail
  BY <1>1, <1>4, <1>5 DEF InputsOK, InputOK
<1>9. \A o \in Outputs : Ready(in', o) => Ready(in, o) BY <1>1, <1>6, <1>8, NotReadier
<1>10. \A i \in Inputs : Clean(in[i]) => Clean(in'[i]) BY <1>4, <1>5 DEF Clean
<1>11. Shown(in', b)
  <2>1. ASSUME NEW i \in Ins(b) PROVE Clean(in'[i])
    <3>1. i \in Inputs /\ InputOK(i, in'[i]) BY <1>6 DEF InputsOK, Ins
    <3>2. CASE i \in Slots BY <3>1, <3>2, <1>2, <1>5 DEF Clean, InputOK, Streams
    <3>3. CASE i \notin Slots BY <3>1, <3>3, <1>4 DEF Clean, InputOK, Streams
    <3> QED BY <3>2, <3>3
  <2> QED BY <2>1 DEF Shown
<1>12. pc' \in [Blocks -> {"idle", "slots", "work", "post", "send"}] /\ pc'[b] \in {"work", "idle"}
       /\ \A c \in Blocks \ {b} : pc'[c] = pc[c]
  BY <1>1, <1>3 DEF Control
<1>13. changed' = Flagged({}) BY <1>2, NoFlags
<1>14. IInv' BY <1>1, <1>2, <1>6, <1>7, <1>9, <1>10, <1>11, <1>12, <1>13, FlagsKeep DEF Control
<1> QED BY <1>14, <1>8 DEF SameQueues

\* work() only notes what it consumes and produces.
LEMMA WorkKeeps ==
  ASSUME Hypotheses, IInv, NEW b \in Blocks, Work(b) PROVE IInv' /\ SameQueues
<1>1. InputsOK(in) /\ OutputsOK(out) /\ Control BY DEF IInv
<1>2. pc[b] = "work" /\ pc' = [pc EXCEPT ![b] = "post"] /\ UNCHANGED <<active, changed, posts>>
  BY DEF Work
<1>3. PICK c \in Consumption(b) : \E p \in [Outs(b) \ Signals -> 0..Room] :
     \E label \in [Outs(b) \ Signals -> -1..(Room - 1)] :
       /\ \A o \in DOMAIN p :
            /\ p[o] <= out[o].elements /\ out[o].total + p[o] <= MaxElements
            /\ IF c = <<>> THEN label[o] < p[o]
               ELSE label[o] = -1 /\ \A i \in DOMAIN c : c[i] \in p[o]..(p[o] + Shortfall)
       /\ in' = [i \in Inputs |->
                   IF i \in DOMAIN c THEN [in[i] EXCEPT !.pending = c[i]] ELSE in[i]]
       /\ out' = [o \in Outputs |->
                    IF o \in DOMAIN p THEN Produced(o, p[o], label[o]) ELSE out[o]]
  BY Zenon DEF Work
<1>4. PICK p \in [Outs(b) \ Signals -> 0..Room] : \E label :
       /\ in' = [i \in Inputs |->
                   IF i \in DOMAIN c THEN [in[i] EXCEPT !.pending = c[i]] ELSE in[i]]
       /\ out' = [o \in Outputs |->
                    IF o \in DOMAIN p THEN Produced(o, p[o], label[o]) ELSE out[o]]
  BY <1>3, Zenon
<1>5. PICK label :
       /\ in' = [i \in Inputs |->
                   IF i \in DOMAIN c THEN [in[i] EXCEPT !.pending = c[i]] ELSE in[i]]
       /\ out' = [o \in Outputs |->
                    IF o \in DOMAIN p THEN Produced(o, p[o], label[o]) ELSE out[o]]
  BY <1>4, Zenon
<1>6. \A i \in DOMAIN c : c[i] \in Int BY DEF Consumption
<1>7. ASSUME NEW i \in Inputs
      PROVE  /\ InputOK(i, in'[i]) /\ in'[i].input = in[i].input /\ in'[i].avail >= in[i].avail
             /\ in'[i].messages = in[i].messages /\ in'[i].slots = in[i].slots
  <2>1. InputOK(i, in[i]) BY <1>1 DEF InputsOK
  <2>2. CASE i \in DOMAIN c
    <3>1. in'[i] = [in[i] EXCEPT !.pending = c[i]] /\ c[i] \in Int BY <2>2, <1>5, <1>6
    <3> QED BY <3>1, <2>1 DEF InputOK, InFields
  <2>3. CASE i \notin DOMAIN c BY <2>1, <2>3, <1>5 DEF InputOK
  <2> QED BY <2>2, <2>3
<1>8. InputsOK(in')
  <2>1. DOMAIN in' = Inputs BY <1>5
  <2> QED BY <2>1, <1>7 DEF InputsOK
<1>9. OutputsOK(out')
  <2>1. ASSUME NEW o \in Outputs PROVE OutputOK(o, out'[o])
    <3>1. OutputOK(o, out[o]) BY <1>1 DEF OutputsOK
    <3>2. CASE o \notin DOMAIN p BY <3>1, <3>2, <1>5
    <3>3. CASE o \in DOMAIN p
      <4> DEFINE q == [out[o] EXCEPT !.pending = p[o]]
      <4>1. o \notin Signals /\ p[o] \in Nat BY <3>3 DEF Hypotheses, BoundsAssumption
      <4>2. OutputOK(o, q) BY <3>1, <4>1 DEF OutputOK, OutFields
      <4>3. out'[o] = IF label[o] = -1 THEN q ELSE PostLabels(q, <<label[o]>>) BY <3>3, <1>5 DEF Produced
      <4> HIDE DEF q
      <4> QED BY <4>1, <4>2, <4>3 DEF OutputOK, OutFields, PostLabels
    <3> QED BY <3>2, <3>3
  <2>2. DOMAIN out' = Outputs BY <1>5
  <2> QED BY <2>1, <2>2 DEF OutputsOK
<1>10. \A o \in Outputs : Ready(in', o) => Ready(in, o) BY <1>1, <1>7, <1>8, NotReadier
<1>11. \A i \in Inputs : Clean(in[i]) => Clean(in'[i]) BY <1>7 DEF Clean
<1>12. pc' \in [Blocks -> {"idle", "slots", "work", "post", "send"}] /\ pc'[b] = "post"
       /\ \A d \in Blocks \ {b} : pc'[d] = pc[d]
  BY <1>1, <1>2 DEF Control
<1>13. changed' = Flagged({}) BY <1>2, NoFlags
<1>14. IInv' BY <1>1, <1>2, <1>8, <1>9, <1>10, <1>11, <1>12, <1>13, FlagsKeep DEF Control
<1> QED BY <1>14, <1>7 DEF SameQueues

\* What postWorkTasks does to an input.
LEMMA PostWorkInputFacts ==
  ASSUME NEW i \in Inputs, NEW p, InputOK(i, p)
  PROVE  /\ InputOK(i, PostWorkInput(p)) /\ PostWorkInput(p).slots = p.slots
         /\ PostWorkInput(p).messages = p.messages
         /\ p.input = <<>> => PostWorkInput(p).input = <<>>
<1> DEFINE q == BufferAccumulatorPop(p)
           r == PostWorkInput(p)
<1>1. /\ DOMAIN q = InFields /\ q.avail \in Int /\ (p.input = <<>> => q.input = <<>>)
      /\ q.messages = p.messages /\ q.slots = p.slots
  <2>1. CASE p.pending = 0 BY <2>1 DEF BufferAccumulatorPop, InputOK
  <2>2. CASE p.pending # 0
    <3> DEFINE moved == Closer(p.input, p.pending * DTypeSize)
    <3>1. q = [p EXCEPT !.avail = @ - p.pending, !.input = moved]
      BY <2>2 DEF BufferAccumulatorPop
    <3>2. p.input = <<>> => moved = <<>> BY DEF Closer
    <3> HIDE DEF moved, q
    <3> QED BY <3>1, <3>2 DEF InputOK, InFields
  <2> QED BY <2>1, <2>2
<1>2. PICK inline, total : r = [q EXCEPT !.inline = inline, !.total = total,
                                  !.pending = 0, !.elements = 0, !.events = FALSE]
  BY DEF PostWorkInput
<1> HIDE DEF q, r
<1>3. /\ DOMAIN r = InFields /\ r.avail = q.avail /\ r.pending = 0 /\ r.input = q.input
      /\ r.messages = q.messages /\ r.slots = q.slots
  BY <1>1, <1>2 DEF InFields
<1>4. InputOK(i, r) BY <1>1, <1>3 DEF InputOK
<1> QED BY <1>1, <1>3, <1>4 DEF r

\* Consumption flags the owner of an output that gets memory back.
LEMMA PostWorkInputsKeeps ==
  ASSUME Hypotheses, IInv, NEW b \in Blocks, PostWorkInputs(b) PROVE IInv' /\ SameQueues
<1>1. InputsOK(in) /\ OutputsOK(out) /\ Control BY DEF IInv
<1>2. PICK own : changed' = Flagged(Returned(in, in') \union own) BY DEF PostWorkInputs
<1>3. pc[b] = "post" /\ pc' = [pc EXCEPT ![b] = "send"] /\ UNCHANGED <<active, posts>>
  BY DEF PostWorkInputs
<1>4. ASSUME NEW i \in Inputs PROVE  /\ InputOK(i, in'[i]) /\ (Clean(in[i]) => Clean(in'[i]))
             /\ in'[i].messages = in[i].messages /\ in'[i].slots = in[i].slots
  <2>1. InputOK(i, in[i]) BY <1>1 DEF InputsOK
  <2>2. in'[i] = in[i] \/ in'[i] = PostWorkInput(in[i]) BY DEF PostWorkInputs
  <2> QED BY <2>1, <2>2, PostWorkInputFacts DEF Clean
<1>5. InputsOK(in')
  <2>1. DOMAIN in' = Inputs BY DEF PostWorkInputs
  <2> QED BY <2>1, <1>4 DEF InputsOK
<1>6. OutputsOK(out')
  <2>1. ASSUME NEW o \in Outputs PROVE OutputOK(o, out'[o])
    <3>1. OutputOK(o, out[o]) BY <1>1 DEF OutputsOK
    <3>2. CASE o \notin Outs(b) \ Signals
      <4>1. out'[o] = out[o] BY <3>2 DEF PostWorkInputs
      <4> QED BY <3>1, <4>1
    <3>3. CASE o \in Outs(b) \ Signals
      <4>1. out'[o] = Propagate(b, o) BY <3>3 DEF PostWorkInputs
      <4>2. PICK indices : Propagate(b, o) = PostLabels(out[o], indices) BY DEF Propagate
      <4> QED BY <3>1, <3>3, <4>1, <4>2 DEF PostLabels, OutputOK, OutFields
    <3> QED BY <3>2, <3>3
  <2>2. DOMAIN out' = Outputs BY DEF PostWorkInputs
  <2> QED BY <2>1, <2>2 DEF OutputsOK
<1>7. \A o \in Outputs : ~ Ready(in, o) /\ Ready(in', o) => Owner[o] \in Returned(in, in') \union own
  BY <1>1, <1>5, Wakes DEF Hypotheses
<1>8. pc' \in [Blocks -> {"idle", "slots", "work", "post", "send"}] /\ pc'[b] = "send"
      /\ \A d \in Blocks \ {b} : pc'[d] = pc[d]
  BY <1>1, <1>3 DEF Control
<1>9. IInv' BY <1>1, <1>2, <1>3, <1>4, <1>5, <1>6, <1>7, <1>8, FlagsKeep DEF Control
<1> QED BY <1>9, <1>4 DEF SameQueues

\* What is sent flags the blocks that get it.
LEMMA PostWorkOutputKeeps ==
  ASSUME Hypotheses, IInv, NEW b \in Blocks, NEW o \in Outputs, PostWorkOutput(b, o) PROVE IInv' /\ SameQueues
<1>1. InputsOK(in) /\ OutputsOK(out) /\ Control /\ OutputOK(o, out[o]) BY DEF IInv, OutputsOK
<1>2. changed' = Flagged(Receivers(o)) /\ UNCHANGED <<active, pc, posts>> BY DEF PostWorkOutput
<1>3. o \notin Signals /\ out[o].pending \in Nat
  BY <1>1 DEF PostWorkOutput, Unsent, OutputOK
<1>4. \A i \in Subscribers[o] : i \notin Slots BY <1>3 DEF Hypotheses, SlotsTakeSignals
<1>5. ASSUME NEW i \in Inputs
      PROVE  /\ InputOK(i, in'[i])
             /\ in'[i].messages = in[i].messages /\ in'[i].slots = in[i].slots
             /\ in'[i].avail >= in[i].avail
             /\ i \notin Subscribers[o] => in'[i] = in[i]
  <2>1. InputOK(i, in[i]) BY <1>1 DEF InputsOK
  <2>2. CASE i \notin Subscribers[o]
    <3>1. in'[i] = in[i] BY <2>2 DEF PostWorkOutput
    <3> QED BY <2>1, <3>1 DEF InputOK
  <2>3. CASE i \in Subscribers[o]
    <3>1. PICK labels : in'[i] = [in[i] EXCEPT !.input = labels, !.avail = @ + out[o].pending,
                                    !.received = @ + out[o].pending]
      BY <2>3 DEF PostWorkOutput, BufferLabelPush
    <3> QED BY <2>1, <2>3, <3>1, <1>3, <1>4 DEF InputOK, InFields
  <2> QED BY <2>2, <2>3
<1>6. InputsOK(in')
  <2>1. DOMAIN in' = Inputs BY DEF PostWorkOutput
  <2> QED BY <2>1, <1>5 DEF InputsOK
<1>7. OutputsOK(out')
  <2>1. ASSUME NEW u \in Outputs PROVE OutputOK(u, out'[u])
    <3>1. OutputOK(u, out[u]) BY <1>1 DEF OutputsOK
    <3>2. CASE u # o
      <4>1. out'[u] = out[u] BY <3>2, <1>1 DEF PostWorkOutput, OutputsOK
      <4> QED BY <3>1, <4>1
    <3>3. CASE u = o
      <4>1. PICK total, events : out'[u] = [out[u] EXCEPT !.total = total, !.labels = <<>>,
                                              !.pending = 0, !.events = events]
        BY <3>3, <1>1 DEF PostWorkOutput, OutputsOK
      <4> QED BY <3>1, <4>1 DEF OutputOK, OutFields
    <3> QED BY <3>2, <3>3
  <2>2. DOMAIN out' = Outputs BY <1>1 DEF PostWorkOutput, OutputsOK
  <2> QED BY <2>1, <2>2 DEF OutputsOK
<1>8. \A u \in Outputs : Ready(in', u) => Ready(in, u) BY <1>1, <1>5, <1>6, NotReadier
<1>9. \A i \in Inputs : Clean(in[i]) => Clean(in'[i]) \/ Owner[i] \in Receivers(o)
  BY <1>5, PostFlagsFacts
<1>10. IInv' BY <1>1, <1>2, <1>6, <1>7, <1>8, <1>9, FlagsKeep DEF Control
<1> QED BY <1>10, <1>5 DEF SameQueues

\* workTask() returns with the flag, or with nothing new at the inputs.
LEMMA PostWorkDoneKeeps ==
  ASSUME Hypotheses, IInv, NEW b \in Blocks, PostWorkDone(b) PROVE IInv'
<1>1. InputsOK(in) /\ OutputsOK(out) /\ Control BY DEF IInv
<1>2. PICK own : changed' = Flagged(own) BY DEF PostWorkDone
<1>3. pc[b] = "send" /\ pc' = [pc EXCEPT ![b] = "idle"] /\ UNCHANGED <<in, active, posts>>
  BY DEF PostWorkDone
<1>4. OutputsOK(out')
  <2>1. ASSUME NEW o \in Outputs PROVE OutputOK(o, out'[o])
    <3>1. OutputOK(o, out[o]) BY <1>1 DEF OutputsOK
    <3>2. out'[o] = out[o] \/ out'[o] = [out[o] EXCEPT !.elements = 0, !.events = FALSE]
      BY DEF PostWorkDone
    <3> QED BY <3>1, <3>2 DEF OutputOK, OutFields
  <2>2. DOMAIN out' = Outputs BY DEF PostWorkDone
  <2> QED BY <2>1, <2>2 DEF OutputsOK
<1>5. pc' \in [Blocks -> {"idle", "slots", "work", "post", "send"}] /\ pc'[b] = "idle"
      /\ \A d \in Blocks \ {b} : pc'[d] = pc[d]
  BY <1>1, <1>3 DEF Control
<1> QED BY <1>1, <1>2, <1>3, <1>4, <1>5, FlagsKeep DEF Control

\* Every step keeps it.
LEMMA NextInv == ASSUME Hypotheses, IInv, [Next]_vars PROVE IInv'
<1>1. CASE UNCHANGED vars
  BY <1>1 DEF vars, IInv, InputsOK, OutputsOK, Control
<1>2. ASSUME NEW b \in Blocks, SetActiveStateOn(b) \/ SetActiveStateOff(b) PROVE IInv'
  BY <1>2, SetActiveKeeps
<1>3. ASSUME NEW b \in Blocks, Worker(b) PROVE IInv'
  BY <1>3, IdleTaskKeeps, PreWorkOutputsKeeps, HandleSlotCallKeeps, PreWorkInputsKeeps, WorkKeeps,
     WorkPopMessageKeeps, PostActionsKeep, PostWorkInputsKeeps, PostWorkOutputKeeps, PostWorkDoneKeeps
  DEF Worker
<1>4. ASSUME NEW i \in Inputs, PushMessage(i) PROVE IInv' BY <1>4, PushMessageKeeps
<1>5. ASSUME NEW o \in Outputs, CallSignal(o) PROVE IInv' BY <1>5, PostActionsKeep
<1> QED BY <1>1, <1>2, <1>3, <1>4, <1>5 DEF Next

\* The invariant says what is wanted of the blocks that sleep.
LEMMA InvSleeps == ASSUME IInv PROVE SleepsOnlyWhenServed
BY DEF IInv, Awake, SleepsOnlyWhenServed, Shown, Clean, Ready, OutputReady

(* A block whose worker is idle with no change flagged is inactive, or has *)
(* an output without token or memory, or was shown every slot call and     *)
(* label at its inputs (WorkerActor::preWorkTasks, postWorkTasks; the      *)
(* flags of InputPort.cpp and OutputPort.cpp).                             *)
THEOREM NoBlockOversleeps ==
  ASSUME SlotsTakeSignals PROVE Spec => []SleepsOnlyWhenServed
<1> Hypotheses BY PortsAssumption, BoundsAssumption DEF Hypotheses
<1>1. Init => IInv BY InitInv
<1>2. IInv /\ [Next]_vars => IInv' BY NextInv
<1>3. IInv => SleepsOnlyWhenServed BY InvSleeps
<1> QED BY <1>1, <1>2, <1>3, PTL DEF Spec

-----------------------------------------------------------------------------
(* No message is lost.                                                     *)

(* Messages come from work() only, an input gets them from one output, and *)
(* a queue takes what the tokens and one call of work() can amount to.     *)
Paced ==
  /\ External \cap Streams = {}
  /\ \A o \in Outputs : Subscribers[o] # {} =>
       /\ o \notin External /\ \A i \in DOMAIN Probes : Probes[i] # o
       /\ (Tokens + 1) * Burst[o] - 1 <= MaxQueueCapacity
  /\ \A o, u \in Outputs : o # u => Subscribers[o] \cap Subscribers[u] = {}

\* The queue of i that o fills.
Queue(ports, o, i) == IF ToSlot(o, i) THEN ports[i].slots ELSE ports[i].messages

\* Tokens are of the output, each at most once, and no n entries in a row are without.
Of(q, o) == \A j \in 1..Len(q) : q[j].token # NoToken => q[j].token[1] = o
Distinct(q) == \A j, k \in 1..Len(q) : q[j].token # NoToken /\ q[j].token = q[k].token => j = k
Spaced(q, n) ==
  \A k \in 1..Len(q) : k + n - 1 <= Len(q) => \E j \in k..(k + n - 1) : q[j].token # NoToken
QueueOK(q, o, n) == q \in Seq(Message) /\ Of(q, o) /\ Distinct(q) /\ Spaced(q, n)

\* The first of the last n messages, if it is still there, holds a token.
Begun(q, n) == Len(q) < n \/ q[Len(q) - n + 1].token # NoToken

\* What bursts of n messages with a token each amount to.
Full(n) == Tokens * n

\* Token k of o is in the first n entries.
Among(q, n, o, k) == \E j \in 1..n : q[j].token = <<o, k>>

\* A prefix as long as all bursts that begin with a token has every token.
LEMMA Crowded ==
  ASSUME Tokens \in Nat \ {0}, NEW B \in Nat \ {0}, NEW o, NEW q, QueueOK(q, o, B),
         NEW M \in Nat, M <= Len(q), Full(B) <= M, NEW k \in 1..Tokens
  PROVE  Among(q, M, o, k)
<1> SUFFICES ASSUME \A j \in 1..M : q[j].token # <<o, k>> PROVE FALSE BY DEF Among
<1>1. ASSUME NEW x \in 1..Tokens
      PROVE  \E j \in ((x - 1) * B + 1)..(x * B) : j \in 1..M /\ q[j].token # NoToken
  <2>1. x * B <= Tokens * B /\ (x - 1) * B >= 0 /\ (x - 1) * B \in Int /\ x * B \in Int BY SMTT(30)
  <2>2. Tokens * B <= M BY DEF Full
  <2>3. (x - 1) * B + 1 + B - 1 = x * B BY SMTT(30)
  <2> DEFINE a == (x - 1) * B + 1
             z == x * B
  <2>4. a \in Nat \ {0} /\ z \in Nat /\ z <= M /\ a + B - 1 = z BY <2>1, <2>3, <2>2
  <2> HIDE DEF a, z
  <2>5. Len(q) \in Nat BY DEF QueueOK
  <2>6. a \in 1..Len(q) /\ a + B - 1 <= Len(q) BY <2>4, <2>5
  <2>7. PICK j \in a..(a + B - 1) : q[j].token # NoToken BY <2>6 DEF QueueOK, Spaced
  <2>8. j \in a..z /\ j \in 1..M BY <2>4, <2>7
  <2> QED BY <2>7, <2>8 DEF a, z
<1> DEFINE f == [x \in 1..Tokens |-> CHOOSE j \in ((x - 1) * B + 1)..(x * B) : j \in 1..M /\ q[j].token # NoToken]
           g == [x \in 1..Tokens |-> q[f[x]].token[2]]
<1>2. \A x \in 1..Tokens : f[x] \in ((x - 1) * B + 1)..(x * B) /\ f[x] \in 1..M /\ q[f[x]].token # NoToken
  BY <1>1
<1>3. \A x \in 1..Tokens : f[x] \in 1..Len(q) BY <1>2 DEF QueueOK
<1> HIDE DEF f
<1>4. \A x \in 1..Tokens : q[f[x]].token = <<o, g[x]>> /\ g[x] \in 1..Tokens
  <2> TAKE x \in 1..Tokens
  <2>1. q[f[x]] \in Message BY <1>3 DEF QueueOK
  <2>2. q[f[x]].token \in Outputs \X (1..Tokens) BY <2>1, <1>2 DEF Message, Token
  <2>3. q[f[x]].token[1] = o BY <1>2, <1>3 DEF QueueOK, Of
  <2> QED BY <2>2, <2>3
<1>5. DOMAIN g = 1..Tokens /\ g = [x \in 1..Tokens |-> g[x]] OBVIOUS
<1> HIDE DEF g
<1>6. ASSUME NEW x \in 1..Tokens PROVE g[x] # k BY <1>2, <1>4
<1>7. g \in [1..Tokens -> (1..Tokens) \ {k}]
  <2>1. \A x \in 1..Tokens : g[x] \in (1..Tokens) \ {k} BY <1>4, <1>6
  <2> QED BY <2>1, <1>5
<1>8. ASSUME NEW x \in 1..Tokens, NEW y \in 1..Tokens, x < y PROVE g[x] # g[y]
  <2>1. x * B <= (y - 1) * B /\ x * B \in Int /\ (y - 1) * B \in Int
    <3>1. x <= y - 1 /\ x \in Nat /\ y - 1 \in Nat BY <1>8
    <3> QED BY <3>1, SMTT(30)
  <2>2. f[x] \in ((x - 1) * B + 1)..(x * B) /\ f[y] \in ((y - 1) * B + 1)..(y * B) BY <1>2
  <2> DEFINE u == x * B
             v == (y - 1) * B
  <2>3. f[x] \in Int /\ f[x] <= u /\ f[y] \in Int /\ v + 1 <= f[y] BY <2>2
  <2>4. u <= v /\ u \in Int /\ v \in Int BY <2>1
  <2> HIDE DEF u, v
  <2>5. f[x] # f[y] BY <2>3, <2>4
  <2>6. q[f[x]].token # q[f[y]].token BY <2>5, <1>2, <1>3 DEF QueueOK, Distinct
  <2>7. q[f[x]].token = <<o, g[x]>> /\ q[f[y]].token = <<o, g[y]>> BY <1>4
  <2> QED BY <2>6, <2>7
<1>9. IsFiniteSet(1..Tokens) /\ Cardinality(1..Tokens) = Tokens
  <2>1. 1 \in Int /\ Tokens \in Int /\ ~ (1 > Tokens) /\ Tokens - 1 + 1 = Tokens OBVIOUS
  <2>2. /\ IsFiniteSet(1..Tokens)
        /\ Cardinality(1..Tokens) = IF 1 > Tokens THEN 0 ELSE Tokens - 1 + 1 BY <2>1, FS_Interval, Zenon
  <2> QED BY <2>1, <2>2
<1>10. IsFiniteSet((1..Tokens) \ {k}) /\ Cardinality((1..Tokens) \ {k}) = Tokens - 1
  <2> DEFINE S == 1..Tokens
  <2>1. IsFiniteSet(S) /\ Cardinality(S) = Tokens /\ k \in S BY <1>9
  <2> HIDE DEF S
  <2>2. IsFiniteSet(S \ {k}) /\ Cardinality(S \ {k}) = Cardinality(S) - 1 BY <2>1, FS_RemoveElement
  <2> QED BY <2>1, <2>2 DEF S
<1>11. \E x, y \in 1..Tokens : x # y /\ g[x] = g[y]
  <2> DEFINE S == 1..Tokens
             U == (1..Tokens) \ {k}
  <2>1. IsFiniteSet(S) /\ IsFiniteSet(U) BY <1>9, <1>10, Zenon
  <2>2. Cardinality(U) = Tokens - 1 /\ Cardinality(S) = Tokens BY <1>9, <1>10, Zenon
  <2>3. g \in [S -> U] BY <1>7, Zenon
  <2> HIDE DEF S, U
  <2>4. Cardinality(U) < Cardinality(S) BY <2>2
  <2>5. \E x, y \in S : x # y /\ g[x] = g[y] BY <2>4, <2>1, <2>3, FS_PigeonHole
  <2> QED BY <2>5 DEF S
<1>12. PICK x, y \in 1..Tokens : x # y /\ g[x] = g[y] BY <1>11
<1>13. x < y \/ y < x BY <1>12
<1> QED BY <1>8, <1>12, <1>13

\* A queue keeps its shape when its first entry is taken.
LEMMA TailOK ==
  ASSUME NEW q, NEW o, NEW n \in Nat, QueueOK(q, o, n), q # <<>>
  PROVE  QueueOK(Tail(q), o, n) /\ \A m \in Nat \ {0} : Begun(q, m) => Begun(Tail(q), m)
<1>1. q \in Seq(Message) /\ Len(q) \in Nat \ {0} /\ Len(Tail(q)) = Len(q) - 1 /\ Tail(q) \in Seq(Message)
  BY DEF QueueOK
<1>2. \A j \in 1..Len(Tail(q)) : Tail(q)[j] = q[j + 1] /\ j + 1 \in 1..Len(q) BY <1>1
<1> DEFINE r == Tail(q)
<1> HIDE DEF r
<1>3. Of(r, o) BY <1>1, <1>2 DEF QueueOK, Of, r
<1>4. Distinct(r)
  <2> SUFFICES ASSUME NEW j \in 1..Len(r), NEW k \in 1..Len(r), r[j].token # NoToken, r[j].token = r[k].token
               PROVE  j = k
    BY DEF Distinct
  <2>1. j + 1 = k + 1 BY <1>2 DEF QueueOK, Distinct, r
  <2> QED BY <2>1, <1>1 DEF r
<1>5. Spaced(r, n)
  <2> SUFFICES ASSUME NEW k \in 1..Len(r), k + n - 1 <= Len(r)
               PROVE  \E j \in k..(k + n - 1) : r[j].token # NoToken
    BY DEF Spaced
  <2>1. k + 1 \in 1..Len(q) /\ (k + 1) + n - 1 <= Len(q) BY <1>1 DEF r
  <2>2. PICK j \in (k + 1)..((k + 1) + n - 1) : q[j].token # NoToken BY <2>1 DEF QueueOK, Spaced
  <2>3. j - 1 \in k..(k + n - 1) /\ j - 1 \in 1..Len(r) /\ (j - 1) + 1 = j BY <2>1, <2>2, <1>1 DEF r
  <2>4. r[j - 1] = q[j] BY <2>3, <1>2 DEF r
  <2> QED BY <2>2, <2>3, <2>4
<1>6. ASSUME NEW m \in Nat \ {0}, Begun(q, m) PROVE Begun(r, m)
  <2>1. CASE Len(q) - 1 < m BY <2>1, <1>1 DEF Begun, r
  <2>2. CASE Len(q) - 1 >= m
    <3>1. Len(r) - m + 1 \in 1..Len(r) /\ (Len(r) - m + 1) + 1 = Len(q) - m + 1 /\ ~ (Len(q) < m)
      BY <2>2, <1>1 DEF r
    <3>2. r[Len(r) - m + 1] = q[Len(q) - m + 1] BY <3>1, <1>2 DEF r
    <3> QED BY <3>1, <3>2, <1>6 DEF Begun
  <2> QED BY <2>1, <2>2, <1>1
<1> QED BY <1>1, <1>3, <1>4, <1>5, <1>6 DEF QueueOK, r

\* And when a call of work() that has posted d < n messages posts another.
LEMMA AppendOK ==
  ASSUME NEW q, NEW o, NEW n \in Nat, NEW d \in Nat, d < n, QueueOK(q, o, n), NEW m \in Message,
         m.token # NoToken => m.token[1] = o /\ \A j \in 1..Len(q) : q[j].token # m.token,
         d = 0 => m.token # NoToken, d > 0 => Begun(q, d)
  PROVE  QueueOK(Append(q, m), o, n) /\ Begun(Append(q, m), d + 1)
<1> DEFINE r == Append(q, m)
<1>1. q \in Seq(Message) /\ Len(q) \in Nat /\ r \in Seq(Message) /\ Len(r) = Len(q) + 1
      /\ r[Len(q) + 1] = m /\ \A j \in 1..Len(q) : r[j] = q[j]
  BY DEF QueueOK
<1> HIDE DEF r
<1>2. \A j \in 1..Len(r) : j \in 1..Len(q) \/ j = Len(q) + 1 BY <1>1
<1>3. Of(r, o) BY <1>1, <1>2 DEF QueueOK, Of
<1>4. Distinct(r)
  <2> SUFFICES ASSUME NEW j \in 1..Len(r), NEW k \in 1..Len(r), r[j].token # NoToken, r[j].token = r[k].token
               PROVE  j = k
    BY DEF Distinct
  <2>1. CASE j \in 1..Len(q) /\ k \in 1..Len(q) BY <2>1, <1>1 DEF QueueOK, Distinct
  <2>2. CASE j \in 1..Len(q) /\ k = Len(q) + 1 BY <2>2, <1>1
  <2>3. CASE j = Len(q) + 1 /\ k \in 1..Len(q) BY <2>3, <1>1
  <2> QED BY <2>1, <2>2, <2>3, <1>2
<1>5. Begun(r, d + 1)
  <2>1. CASE d = 0
    <3>1. Len(r) - (d + 1) + 1 = Len(q) + 1 BY <2>1, <1>1
    <3> QED BY <2>1, <3>1, <1>1 DEF Begun
  <2>2. CASE d > 0 /\ Len(q) < d BY <2>2, <1>1 DEF Begun
  <2>3. CASE d > 0 /\ ~ (Len(q) < d)
    <3>1. Len(r) - (d + 1) + 1 = Len(q) - d + 1 /\ Len(q) - d + 1 \in 1..Len(q) BY <2>3, <1>1
    <3>2. q[Len(q) - d + 1].token # NoToken BY <2>3 DEF Begun
    <3> QED BY <3>1, <3>2, <1>1 DEF Begun
  <2> QED BY <2>1, <2>2, <2>3
<1>6. Spaced(r, n)
  <2> SUFFICES ASSUME NEW k \in 1..Len(r), k + n - 1 <= Len(r)
               PROVE  \E j \in k..(k + n - 1) : r[j].token # NoToken
    BY DEF Spaced
  <2>1. CASE k + n - 1 <= Len(q)
    <3>1. k \in 1..Len(q) BY <2>1, <1>1
    <3>2. PICK j \in k..(k + n - 1) : q[j].token # NoToken BY <2>1, <3>1 DEF QueueOK, Spaced
    <3>3. j \in 1..Len(q) BY <3>1, <3>2, <2>1, <1>1
    <3> QED BY <3>2, <3>3, <1>1
  <2>2. CASE k + n - 1 = Len(r)
    <3>1. ~ (Len(r) < d + 1) /\ Len(r) - (d + 1) + 1 \in k..(k + n - 1) BY <2>2, <1>1
    <3>2. r[Len(r) - (d + 1) + 1].token # NoToken BY <3>1, <1>5 DEF Begun
    <3> QED BY <3>1, <3>2
  <2> QED BY <2>1, <2>2, <1>1
<1> QED BY <1>1, <1>3, <1>4, <1>5, <1>6 DEF QueueOK, r

-----------------------------------------------------------------------------
(* The calls of work() that post on an output: each starts with a token    *)
(* left, and the first message that it posts has one.                      *)
Posting(ports, where, sent, o) ==
  /\ sent[o] \in 0..Burst[o]
  /\ where[Owner[o]] \in {"idle", "slots"} => sent[o] = 0
  /\ where[Owner[o]] \in {"slots", "work"} /\ sent[o] = 0 => FreeTokens(ports, o) # {}
  /\ \A i \in Subscribers[o] :
       /\ QueueOK(Queue(ports, o, i), o, Burst[o])
       /\ where[Owner[o]] = "work" /\ sent[o] > 0 => Begun(Queue(ports, o, i), sent[o])

MInv ==
  /\ IInv /\ lost = {} /\ DOMAIN burst = Outputs
  /\ \A o \in Outputs : Posting(in, pc, burst, o)

\* A token that is free is in no queue of a subscriber.
LEMMA FreeFacts ==
  ASSUME Hypotheses, NEW ports, InputsOK(ports), NEW o \in Outputs, NEW k \in FreeTokens(ports, o),
         NEW i \in Subscribers[o]
  PROVE  k \in 1..Tokens /\ \A j \in 1..Len(Queue(ports, o, i)) : Queue(ports, o, i)[j].token # <<o, k>>
<1>1. k \in 1..Tokens BY DEF FreeTokens
<1>2. i \in Inputs BY DEF Hypotheses, PortsAssumption
<1>3. ASSUME NEW m \in Queued(ports, i) PROVE m.token # <<o, k>>
  <2> SUFFICES ASSUME m.token = <<o, k>> PROVE FALSE OBVIOUS
  <2>1. m.token # NoToken /\ m.token[1] = o /\ m.token[2] = k BY DEF NoToken
  <2> QED BY <2>1 DEF FreeTokens
<1>4. ports[i].slots \in Seq(Message) /\ ports[i].messages \in Seq(Message) BY <1>2 DEF InputsOK, InputOK
<1>5. \A j \in 1..Len(Queue(ports, o, i)) : Queue(ports, o, i)[j] \in Queued(ports, i)
  BY <1>4 DEF Queue, Queued, ToSet
<1> QED BY <1>1, <1>3, <1>5

\* Such a queue is short of its capacity until the call that posts has posted all.
LEMMA ShortQueue ==
  ASSUME Tokens \in Nat \ {0}, NEW C \in Nat, NEW B \in Nat \ {0}, (Tokens + 1) * B - 1 <= C,
         NEW o, NEW q, QueueOK(q, o, B), NEW n \in Nat, n < B, n > 0 => Begun(q, n),
         n = 0 => \E k \in 1..Tokens : \A j \in 1..Len(q) : q[j].token # <<o, k>>
  PROVE  Len(q) < C
<1>1. Len(q) \in Nat /\ q \in Seq(Message) BY DEF QueueOK
<1>2. ASSUME NEW M \in Nat, M <= Len(q), Full(B) <= M, NEW k \in 1..Tokens
      PROVE  Among(q, M, o, k)
  BY <1>2, Crowded
<1>3. Tokens * B \in Nat /\ (Tokens + 1) * B = Tokens * B + B /\ Tokens * B >= B BY SMTT(30)
<1>4. Full(B) \in Nat /\ Full(B) + B - 1 <= C /\ Full(B) >= B BY <1>3 DEF Full
<1>5. CASE n = 0
  <2>1. PICK k \in 1..Tokens : \A j \in 1..Len(q) : q[j].token # <<o, k>> BY <1>5
  <2>2. Full(B) <= Len(q) => Among(q, Len(q), o, k)
    <3>1. Len(q) <= Len(q) BY <1>1
    <3> QED BY <3>1, <1>1, <1>2, Zenon
  <2>3. ~ (Full(B) <= Len(q)) BY <2>1, <2>2 DEF Among
  <2> QED BY <2>3, <1>1, <1>4
<1>6. CASE n > 0 /\ Len(q) < n BY <1>6, <1>1, <1>4
<1>7. CASE n > 0 /\ ~ (Len(q) < n)
  <2> DEFINE M == Len(q) - n
  <2>1. q[M + 1].token # NoToken /\ M + 1 \in 1..Len(q) /\ M \in Nat /\ M <= Len(q)
    BY <1>1, <1>7 DEF Begun
  <2>2. q[M + 1].token[1] = o /\ q[M + 1] \in Message BY <2>1, <1>1 DEF QueueOK, Of
  <2>3. PICK k \in 1..Tokens : q[M + 1].token = <<o, k>> BY <2>1, <2>2 DEF Message, Token
  <2>4. ~ (Full(B) <= M)
    <3> SUFFICES ASSUME Full(B) <= M PROVE FALSE OBVIOUS
    <3>1. PICK j \in 1..M : q[j].token = <<o, k>> BY <2>1, <2>3, <1>2 DEF Among
    <3>2. j \in 1..Len(q) /\ j # M + 1 BY <2>1
    <3> QED BY <3>1, <3>2, <2>1, <2>3 DEF QueueOK, Distinct
  <2> QED BY <2>1, <2>4, <1>1, <1>4
<1> QED BY <1>5, <1>6, <1>7

\* The queues have room for what a call of work() has yet to post.
LEMMA RoomLeft ==
  ASSUME Hypotheses, Paced, MInv, NEW o \in Outputs, pc[Owner[o]] = "work", burst[o] < Burst[o],
         NEW i \in Subscribers[o]
  PROVE  Len(Queue(in, o, i)) < MaxQueueCapacity
<1>1. Posting(in, pc, burst, o) /\ InputsOK(in) BY DEF MInv, IInv
<1>2. Burst[o] \in Nat \ {0} /\ burst[o] \in Nat /\ Tokens \in Nat \ {0} /\ MaxQueueCapacity \in Nat
  BY <1>1 DEF Posting, Hypotheses, BoundsAssumption
<1>3. /\ QueueOK(Queue(in, o, i), o, Burst[o])
      /\ burst[o] > 0 => Begun(Queue(in, o, i), burst[o])
      /\ burst[o] = 0 => FreeTokens(in, o) # {}
  BY <1>1 DEF Posting
<1>4. (Tokens + 1) * Burst[o] - 1 <= MaxQueueCapacity BY DEF Paced
<1>5. ASSUME burst[o] = 0
      PROVE  \E k \in 1..Tokens : \A j \in 1..Len(Queue(in, o, i)) : Queue(in, o, i)[j].token # <<o, k>>
  <2>1. PICK k \in FreeTokens(in, o) : TRUE BY <1>3, <1>5
  <2> QED BY <2>1, <1>1, FreeFacts
<1> QED BY <1>2, <1>3, <1>4, <1>5, ShortQueue

\* A queue of which at most the first entry was taken.
Taken(q, r) == r = q \/ (q # <<>> /\ r = Tail(q))

\* What a step that posts nothing leaves true.
LEMMA PostingStays ==
  ASSUME Hypotheses, NEW before, NEW after, InputsOK(before), InputsOK(after), NEW o \in Outputs,
         NEW where, NEW where2, NEW sent, NEW sent2, Posting(before, where, sent, o),
         \A i \in Subscribers[o] : Taken(before[i].messages, after[i].messages) /\ Taken(before[i].slots, after[i].slots),
         sent2[o] = sent[o] \/ (sent2[o] = 0 /\ where2[Owner[o]] = "idle"),
         \/ where2[Owner[o]] = where[Owner[o]]
         \/ where2[Owner[o]] \in {"post", "send"}
         \/ where2[Owner[o]] = "idle" /\ sent2[o] = 0
         \/ where2[Owner[o]] = "work" /\ where[Owner[o]] = "slots"
         \/ where2[Owner[o]] = "slots" /\ where[Owner[o]] = "idle" /\ FreeTokens(before, o) # {}
  PROVE  Posting(after, where2, sent2, o)
<1>1. Burst[o] \in Nat BY DEF Hypotheses, BoundsAssumption
<1>2. Subscribers[o] \subseteq Inputs BY DEF Hypotheses, PortsAssumption
<1>3. \A i \in Subscribers[o] : Queued(after, i) \subseteq Queued(before, i)
  <2> TAKE i \in Subscribers[o]
  <2>1. /\ before[i].messages \in Seq(Message) /\ before[i].slots \in Seq(Message)
        /\ Taken(before[i].messages, after[i].messages) /\ Taken(before[i].slots, after[i].slots)
    BY <1>2 DEF InputsOK, InputOK
  <2>2. ToSet(after[i].messages) \subseteq ToSet(before[i].messages) BY <2>1, TailMembers DEF Taken
  <2>3. ToSet(after[i].slots) \subseteq ToSet(before[i].slots) BY <2>1, TailMembers DEF Taken
  <2> QED BY <2>2, <2>3 DEF Queued
<1>4. FreeTokens(before, o) \subseteq FreeTokens(after, o) BY <1>3 DEF FreeTokens
<1>5. ASSUME NEW i \in Subscribers[o]
      PROVE  /\ QueueOK(Queue(after, o, i), o, Burst[o])
             /\ \A m \in Nat \ {0} : Begun(Queue(before, o, i), m) => Begun(Queue(after, o, i), m)
  <2>1. Taken(Queue(before, o, i), Queue(after, o, i)) BY DEF Queue
  <2>2. QueueOK(Queue(before, o, i), o, Burst[o]) BY DEF Posting
  <2> QED BY <2>1, <2>2, <1>1, TailOK DEF Taken
<1>6. sent[o] \in Nat BY <1>1 DEF Posting
<1> QED BY <1>1, <1>4, <1>5, <1>6 DEF Posting

\* The step of a block that posts nothing and may move on in workTask.
LEMMA QuietKeeps ==
  ASSUME Hypotheses, MInv, IInv', lost' = lost, DOMAIN burst' = Outputs, NEW b \in Blocks,
         \A i \in Inputs : Taken(in[i].messages, in'[i].messages) /\ Taken(in[i].slots, in'[i].slots),
         \A c \in Blocks \ {b} : pc'[c] = pc[c], \A o \in Outputs \ Outs(b) : burst'[o] = burst[o],
         \A o \in Outs(b) : burst'[o] = burst[o] \/ (burst'[o] = 0 /\ pc'[b] = "idle"),
         \/ pc'[b] = pc[b]
         \/ pc'[b] \in {"post", "send"}
         \/ pc'[b] = "idle" /\ \A o \in Outs(b) : burst'[o] = 0
         \/ pc'[b] = "work" /\ pc[b] = "slots"
         \/ pc'[b] = "slots" /\ pc[b] = "idle" /\ \A o \in Outs(b) : FreeTokens(in, o) # {}
  PROVE  MInv'
<1>1. ASSUME NEW o \in Outputs PROVE Posting(in', pc', burst', o)
  <2>1. InputsOK(in) /\ InputsOK(in') /\ Posting(in, pc, burst, o) BY DEF MInv, IInv
  <2>2. Subscribers[o] \subseteq Inputs /\ Owner[o] \in Blocks BY DEF Hypotheses, PortsAssumption
  <2>3. \A i \in Subscribers[o] : Taken(in[i].messages, in'[i].messages) /\ Taken(in[i].slots, in'[i].slots)
    BY <2>2
  <2>4. CASE Owner[o] # b
    <3>1. pc'[Owner[o]] = pc[Owner[o]] /\ burst'[o] = burst[o] BY <2>2, <2>4 DEF Outs
    <3> QED BY <2>1, <2>3, <3>1, PostingStays
  <2>5. CASE Owner[o] = b
    <3>1. o \in Outs(b) BY <2>5 DEF Outs
    <3>2. burst'[o] = burst[o] \/ (burst'[o] = 0 /\ pc'[Owner[o]] = "idle") BY <2>5, <3>1
    <3>3. \/ pc'[Owner[o]] = pc[Owner[o]]
          \/ pc'[Owner[o]] \in {"post", "send"}
          \/ pc'[Owner[o]] = "idle" /\ burst'[o] = 0
          \/ pc'[Owner[o]] = "work" /\ pc[Owner[o]] = "slots"
          \/ pc'[Owner[o]] = "slots" /\ pc[Owner[o]] = "idle" /\ FreeTokens(in, o) # {}
      BY <2>5, <3>1
    <3> QED BY <2>1, <2>3, <3>2, <3>3, PostingStays
  <2> QED BY <2>4, <2>5
<1>2. lost' = {} BY DEF MInv
<1> QED BY <1>1, <1>2 DEF MInv

\* A post that nobody takes changes no port and loses nothing.
LEMMA PostToNobody ==
  ASSUME NEW ports, NEW o \in Outputs, NEW id, Subscribers[o] = {}
  PROVE  (\A i \in Inputs : Post(ports, o, id)[i] = ports[i]) /\ PostLoses(ports, o) = {}
BY DEF Post, PostLoses

\* Queues that are the same, or without the first entry.
LEMMA SameIsTaken ==
  ASSUME SameQueues
  PROVE  \A i \in Inputs : Taken(in[i].messages, in'[i].messages) /\ Taken(in[i].slots, in'[i].slots)
BY DEF SameQueues, Taken

\* Steps of a block that leave the queues alone.
LEMMA StillKeeps ==
  ASSUME Hypotheses, MInv, NEW b \in Blocks,
         \/ SetActiveStateOn(b) \/ SetActiveStateOff(b) \/ WorkTaskInactive(b) \/ PreWorkBlocked(b)
         \/ PreWorkOutputs(b) \/ PreWorkInputs(b) \/ Work(b) \/ PostWorkInputs(b) \/ PostWorkDone(b)
         \/ \E o \in Outputs : PostWorkOutput(b, o)
  PROVE  MInv'
<1>1. IInv /\ Control /\ DOMAIN burst = Outputs BY DEF MInv, IInv
<1>2. \A o \in Outs(b) : Posting(in, pc, burst, o) /\ Owner[o] = b /\ o \in Outputs BY DEF MInv, Outs
<1>3. CASE SetActiveStateOn(b) \/ SetActiveStateOff(b) \/ WorkTaskInactive(b) \/ PreWorkBlocked(b)
  <2>1. in' = in /\ pc' = pc /\ burst' = burst /\ lost' = lost
    BY <1>3 DEF SetActiveStateOn, SetActiveStateOff, WorkTaskInactive, PreWorkBlocked
  <2>2. IInv' BY <1>1, <1>3, SetActiveKeeps, IdleTaskKeeps
  <2>3. SameQueues BY <2>1 DEF SameQueues
  <2> QED BY <2>1, <2>2, <2>3, <1>1, SameIsTaken, QuietKeeps
<1>4. CASE PreWorkOutputs(b)
  <2>1. in' = in /\ burst' = burst /\ lost' = lost /\ pc[b] = "idle" /\ pc' = [pc EXCEPT ![b] = "slots"]
        /\ \A o \in Outs(b) : FreeTokens(in, o) # {}
    BY <1>4 DEF PreWorkOutputs, OutputReady
  <2>2. IInv' BY <1>1, <1>4, PreWorkOutputsKeeps
  <2>3. SameQueues BY <2>1 DEF SameQueues
  <2>4. pc'[b] = "slots" /\ \A c \in Blocks \ {b} : pc'[c] = pc[c] BY <2>1, <1>1 DEF Control
  <2> QED BY <2>1, <2>2, <2>3, <2>4, <1>1, SameIsTaken, QuietKeeps
<1>5. CASE PreWorkInputs(b)
  <2>1. burst' = burst /\ lost' = lost /\ pc[b] = "slots" BY <1>5 DEF PreWorkInputs
  <2>2. pc' = [pc EXCEPT ![b] = "work"] \/ pc' = [pc EXCEPT ![b] = "idle"] BY <1>5 DEF PreWorkInputs
  <2>3. IInv' /\ SameQueues BY <1>1, <1>5, PreWorkInputsKeeps
  <2>4. pc'[b] \in {"work", "idle"} /\ \A c \in Blocks \ {b} : pc'[c] = pc[c] BY <2>2, <1>1 DEF Control
  <2>5. \A o \in Outs(b) : burst'[o] = 0 BY <2>1, <1>2 DEF Posting
  <2> QED BY <2>1, <2>3, <2>4, <2>5, <1>1, SameIsTaken, QuietKeeps
<1>6. CASE Work(b) \/ PostWorkInputs(b)
  <2>1. burst' = burst /\ lost' = lost BY <1>6 DEF Work, PostWorkInputs
  <2>2. pc' = [pc EXCEPT ![b] = "post"] \/ pc' = [pc EXCEPT ![b] = "send"]
    BY <1>6 DEF Work, PostWorkInputs
  <2>3. IInv' /\ SameQueues BY <1>1, <1>6, WorkKeeps, PostWorkInputsKeeps
  <2>4. pc'[b] \in {"post", "send"} /\ \A c \in Blocks \ {b} : pc'[c] = pc[c] BY <2>2, <1>1 DEF Control
  <2> QED BY <2>1, <2>3, <2>4, <1>1, SameIsTaken, QuietKeeps
<1>7. CASE PostWorkDone(b)
  <2>1. in' = in /\ lost' = lost /\ pc' = [pc EXCEPT ![b] = "idle"]
        /\ burst' = [o \in Outputs |-> IF o \in Outs(b) THEN 0 ELSE burst[o]]
    BY <1>7 DEF PostWorkDone
  <2>2. IInv' BY <1>1, <1>7, PostWorkDoneKeeps
  <2>3. SameQueues BY <2>1 DEF SameQueues
  <2>4. pc'[b] = "idle" /\ \A c \in Blocks \ {b} : pc'[c] = pc[c] BY <2>1, <1>1 DEF Control
  <2>5. DOMAIN burst' = Outputs /\ (\A o \in Outs(b) : burst'[o] = 0)
        /\ \A o \in Outputs \ Outs(b) : burst'[o] = burst[o]
    BY <2>1, <1>2
  <2> QED BY <2>1, <2>2, <2>3, <2>4, <2>5, SameIsTaken, QuietKeeps
<1>8. ASSUME NEW o \in Outputs, PostWorkOutput(b, o) PROVE MInv'
  <2>1. burst' = burst /\ lost' = lost /\ pc' = pc BY <1>8 DEF PostWorkOutput
  <2>2. IInv' /\ SameQueues BY <1>1, <1>8, PostWorkOutputKeeps
  <2> QED BY <2>1, <2>2, <1>1, SameIsTaken, QuietKeeps
<1> QED BY <1>3, <1>4, <1>5, <1>6, <1>7, <1>8

\* A message is taken by work().
LEMMA PopKeeps ==
  ASSUME Hypotheses, MInv, NEW b \in Blocks, NEW i \in Inputs, WorkPopMessage(b, i) PROVE MInv'
<1>1. IInv /\ InputsOK(in) /\ Control /\ DOMAIN burst = Outputs BY DEF MInv, IInv
<1>2. IInv' BY <1>1, WorkPopMessageKeeps
<1>3. burst' = burst /\ lost' = lost /\ in[i].messages # <<>> /\ pc' = [pc EXCEPT ![b] = "post"]
      /\ in' = [in EXCEPT ![i].messages = Tail(@), ![i].events = TRUE]
  BY DEF WorkPopMessage
<1>4. pc'[b] = "post" /\ \A c \in Blocks \ {b} : pc'[c] = pc[c] BY <1>1, <1>3 DEF Control
<1>5. ASSUME NEW j \in Inputs
      PROVE  Taken(in[j].messages, in'[j].messages) /\ Taken(in[j].slots, in'[j].slots)
  <2>1. CASE j # i BY <2>1, <1>1, <1>3 DEF Taken, InputsOK
  <2>2. CASE j = i
    <3>1. DOMAIN in[i] = InFields /\ DOMAIN in = Inputs BY <1>1 DEF InputsOK, InputOK
    <3>2. in'[i] = [in[i] EXCEPT !.messages = Tail(@), !.events = TRUE] BY <1>3, <3>1
    <3>3. in'[i].messages = Tail(in[i].messages) /\ in'[i].slots = in[i].slots
      BY <3>1, <3>2 DEF InFields
    <3> QED BY <2>2, <3>3, <1>3 DEF Taken
  <2> QED BY <2>1, <2>2
<1> QED BY <1>1, <1>2, <1>3, <1>4, <1>5, QuietKeeps

\* A slot call is served; the signal of a probe is connected to nothing.
LEMMA SlotCallKeeps ==
  ASSUME Hypotheses, Paced, MInv, NEW b \in Blocks, NEW i \in Inputs, HandleSlotCall(b, i) PROVE MInv'
<1> DEFINE popped == [in EXCEPT ![i].slots = Tail(@)]
<1>1. IInv /\ InputsOK(in) /\ Control /\ DOMAIN burst = Outputs BY DEF MInv, IInv
<1>2. IInv' BY <1>1, HandleSlotCallKeeps
<1>3. burst' = burst /\ pc' = pc /\ in[i].slots # <<>> BY DEF HandleSlotCall
<1>4. lost' = lost /\ \A j \in Inputs : in'[j] = popped[j]
  <2>1. CASE i \in DOMAIN Probes
    <3>1. Probes[i] \in Outputs /\ Subscribers[Probes[i]] = {}
      BY <2>1 DEF Paced, Hypotheses, PortsAssumption
    <3>2. in' = Post(popped, Probes[i], Head(in[i].slots).id)
          /\ lost' = lost \union PostLoses(popped, Probes[i])
      BY <2>1 DEF HandleSlotCall
    <3> HIDE DEF popped
    <3> QED BY <3>1, <3>2, PostToNobody
  <2>2. CASE i \notin DOMAIN Probes BY <2>2 DEF HandleSlotCall
  <2> QED BY <2>1, <2>2
<1>5. ASSUME NEW j \in Inputs
      PROVE  Taken(in[j].messages, in'[j].messages) /\ Taken(in[j].slots, in'[j].slots)
  <2>1. CASE j # i BY <2>1, <1>1, <1>4 DEF Taken, InputsOK
  <2>2. CASE j = i
    <3>1. DOMAIN in[i] = InFields /\ DOMAIN in = Inputs BY <1>1 DEF InputsOK, InputOK
    <3>2. in'[i] = [in[i] EXCEPT !.slots = Tail(@)] BY <1>4, <3>1
    <3>3. in'[i].slots = Tail(in[i].slots) /\ in'[i].messages = in[i].messages
      BY <3>1, <3>2 DEF InFields
    <3> QED BY <2>2, <3>3, <1>3 DEF Taken
  <2> QED BY <2>1, <2>2
<1> QED BY <1>1, <1>2, <1>3, <1>4, <1>5, QuietKeeps

\* A call from another thread reaches nobody's queue.
LEMMA CallSignalKeeps ==
  ASSUME Hypotheses, Paced, MInv, NEW o \in Outputs, CallSignal(o) PROVE MInv'
<1>1. IInv /\ DOMAIN burst = Outputs BY DEF MInv
<1>2. IInv' BY <1>1, PostActionsKeep
<1>3. burst' = burst /\ pc' = pc /\ in' = Post(in, o, posts + 1) /\ lost' = lost \union PostLoses(in, o)
      /\ o \in External
  BY DEF CallSignal
<1>4. Subscribers[o] = {} BY <1>3 DEF Paced
<1>5. lost' = lost /\ \A j \in Inputs : in'[j] = in[j] BY <1>3, <1>4, PostToNobody
<1>6. SameQueues BY <1>5 DEF SameQueues
<1>7. Owner[o] \in Blocks BY DEF Hypotheses, PortsAssumption
<1> QED BY <1>1, <1>2, <1>3, <1>5, <1>6, <1>7, SameIsTaken, QuietKeeps

\* What a post appends to a queue that has room.
LEMMA PostAppends ==
  ASSUME Hypotheses, NEW ports, InputsOK(ports), NEW o \in Outputs, NEW id \in 0..MaxMessages,
         NEW i \in Subscribers[o], Len(Queue(ports, o, i)) < MaxQueueCapacity
  PROVE  \E m \in Message :
           /\ Queue(Post(ports, o, id), o, i) = Append(Queue(ports, o, i), m)
           /\ FreeTokens(ports, o) # {} => m.token # NoToken
           /\ m.token # NoToken =>
                m.token[1] = o /\ \A j \in 1..Len(Queue(ports, o, i)) : Queue(ports, o, i)[j].token # m.token
<1> DEFINE free == FreeTokens(ports, o)
           k == CHOOSE x \in free : TRUE
           m == [id |-> id, token |-> IF free = {} THEN NoToken ELSE <<o, k>>]
<1>1. i \in Inputs BY DEF Hypotheses, PortsAssumption
<1>2. free # {} => k \in free OBVIOUS
<1>3. m.token = IF free = {} THEN NoToken ELSE <<o, k>> OBVIOUS
<1>4. m \in Message
  <2>1. CASE free = {} BY <2>1 DEF Message, Token
  <2>2. CASE free # {}
    <3>1. k \in 1..Tokens BY <2>2, <1>2 DEF FreeTokens
    <3>2. m = [id |-> id, token |-> <<o, k>>] BY <2>2
    <3> QED BY <3>1, <3>2 DEF Message, Token
  <2> QED BY <2>1, <2>2
<1>5. Post(ports, o, id)[i] = IF ToSlot(o, i) THEN [ports[i] EXCEPT !.slots = QueuePush(@, m)]
                              ELSE [ports[i] EXCEPT !.messages = QueuePush(@, m)]
  BY <1>1 DEF Post
<1> HIDE DEF m
<1>6. InputOK(i, ports[i]) BY <1>1 DEF InputsOK
<1>7. Queue(Post(ports, o, id), o, i) = QueuePush(Queue(ports, o, i), m)
  BY <1>5, <1>6 DEF Queue, InputOK, InFields
<1>8. Queue(ports, o, i) \in Seq(Message) BY <1>6 DEF Queue, InputOK
<1>9. QueuePush(Queue(ports, o, i), m) = Append(Queue(ports, o, i), m)
  BY <1>8 DEF QueuePush, Hypotheses, BoundsAssumption
<1>10. free # {} => <<o, k>> # NoToken /\ <<o, k>>[1] = o BY DEF NoToken
<1>11. free # {} => \A j \in 1..Len(Queue(ports, o, i)) : Queue(ports, o, i)[j].token # <<o, k>>
  BY <1>2, FreeFacts
<1> HIDE DEF k, free
<1>12. free # {} => m.token # NoToken BY <1>3, <1>10
<1>13. m.token # NoToken => m.token = <<o, k>> /\ free # {} BY <1>3
<1>14. m.token # NoToken =>
         m.token[1] = o /\ \A j \in 1..Len(Queue(ports, o, i)) : Queue(ports, o, i)[j].token # m.token
  BY <1>10, <1>11, <1>13
<1> QED BY <1>4, <1>7, <1>9, <1>12, <1>14 DEF free

\* A queue that has room loses nothing.
LEMMA RoomyPost ==
  ASSUME Hypotheses, NEW ports, InputsOK(ports), NEW o \in Outputs,
         \A i \in Subscribers[o] : Len(Queue(ports, o, i)) < MaxQueueCapacity
  PROVE  PostLoses(ports, o) = {}
<1>1. ASSUME NEW i \in Subscribers[o] PROVE Overflowed(Queue(ports, o, i)) = {}
  <2>1. i \in Inputs BY DEF Hypotheses, PortsAssumption
  <2>2. Queue(ports, o, i) \in Seq(Message) BY <2>1 DEF Queue, InputsOK, InputOK
  <2> QED BY <2>2 DEF Overflowed, Hypotheses, BoundsAssumption
<1>2. PostLoses(ports, o) = UNION {Overflowed(Queue(ports, o, i)) : i \in Subscribers[o]}
  BY DEF PostLoses, Queue
<1> QED BY <1>1, <1>2

\* A message is posted by work().
LEMMA WorkPostKeeps ==
  ASSUME Hypotheses, Paced, MInv, NEW b \in Blocks, NEW o \in Outputs, WorkPostMessage(b, o) PROVE MInv'
<1>1. IInv /\ InputsOK(in) /\ Control /\ DOMAIN burst = Outputs /\ lost = {} BY DEF MInv, IInv
<1>2. IInv' BY <1>1, PostActionsKeep
<1>3. InputsOK(in') BY <1>2 DEF IInv
<1>4. /\ pc[Owner[o]] = "work" /\ pc' = pc /\ burst[o] < Burst[o] /\ posts < MaxMessages
      /\ in' = Post(in, o, posts + 1) /\ lost' = lost \union PostLoses(in, o)
      /\ burst' = [burst EXCEPT ![o] = @ + 1]
  BY DEF WorkPostMessage, Outs
<1>5. posts + 1 \in 0..MaxMessages BY <1>1, <1>4 DEF Control, Hypotheses, BoundsAssumption
<1>6. \A i \in Subscribers[o] : Len(Queue(in, o, i)) < MaxQueueCapacity BY <1>4, RoomLeft
<1>7. lost' = {} BY <1>1, <1>4, <1>6, RoomyPost
<1>8. Posting(in, pc, burst, o) BY DEF MInv
<1>9. Burst[o] \in Nat /\ burst[o] \in Nat /\ burst'[o] = burst[o] + 1 /\ DOMAIN burst' = Outputs
  BY <1>1, <1>4, <1>8 DEF Posting, Hypotheses, BoundsAssumption
<1>10. ASSUME NEW i \in Subscribers[o]
       PROVE  QueueOK(Queue(in', o, i), o, Burst[o]) /\ Begun(Queue(in', o, i), burst[o] + 1)
  <2> DEFINE q == Queue(in, o, i)
  <2>1. PICK m \in Message :
           /\ Queue(in', o, i) = Append(q, m)
           /\ FreeTokens(in, o) # {} => m.token # NoToken
           /\ m.token # NoToken => m.token[1] = o /\ \A j \in 1..Len(q) : q[j].token # m.token
    BY <1>1, <1>4, <1>5, <1>6, PostAppends
  <2>2. QueueOK(q, o, Burst[o]) /\ (burst[o] > 0 => Begun(q, burst[o]))
        /\ (burst[o] = 0 => FreeTokens(in, o) # {})
    BY <1>4, <1>8 DEF Posting
  <2>3. burst[o] = 0 => m.token # NoToken BY <2>1, <2>2
  <2> HIDE DEF q
  <2> QED BY <2>1, <2>2, <2>3, <1>4, <1>9, AppendOK
<1>11. Posting(in', pc', burst', o)
  <2>1. burst'[o] \in 0..Burst[o] /\ burst'[o] > 0 /\ burst'[o] # 0 BY <1>4, <1>9
  <2> QED BY <2>1, <1>4, <1>9, <1>10 DEF Posting
<1>12. ASSUME NEW u \in Outputs, u # o PROVE Posting(in', pc', burst', u)
  <2>1. Subscribers[u] \cap Subscribers[o] = {} /\ Subscribers[u] \subseteq Inputs
    BY <1>12 DEF Paced, Hypotheses, PortsAssumption
  <2>2. \A i \in Inputs \ Subscribers[o] : in'[i] = in[i]
    BY <1>1, <1>4, <1>5, PostFacts DEF Hypotheses
  <2>3. \A i \in Subscribers[u] : Taken(in[i].messages, in'[i].messages) /\ Taken(in[i].slots, in'[i].slots)
    BY <2>1, <2>2 DEF Taken
  <2>4. burst'[u] = burst[u] /\ pc'[Owner[u]] = pc[Owner[u]] BY <1>1, <1>4, <1>12
  <2>5. Posting(in, pc, burst, u) BY DEF MInv
  <2> QED BY <2>3, <2>4, <2>5, <1>1, <1>3, PostingStays
<1> QED BY <1>2, <1>7, <1>9, <1>11, <1>12 DEF MInv

\* At first the queues are empty and no work() runs.
LEMMA InitPaced == ASSUME Hypotheses, Init PROVE MInv
<1>1. IInv BY InitInv
<1>2. lost = {} /\ burst = [o \in Outputs |-> 0] /\ pc = [b \in Blocks |-> "idle"] BY DEF Init
<1>3. ASSUME NEW o \in Outputs PROVE Posting(in, pc, burst, o)
  <2>1. Owner[o] \in Blocks /\ Burst[o] \in Nat /\ Subscribers[o] \subseteq Inputs
    BY DEF Hypotheses, PortsAssumption, BoundsAssumption
  <2>2. burst[o] = 0 /\ pc[Owner[o]] = "idle" BY <1>2, <2>1
  <2>3. ASSUME NEW i \in Subscribers[o] PROVE QueueOK(Queue(in, o, i), o, Burst[o])
    <3>1. Queue(in, o, i) = <<>> BY <2>1 DEF Init, Queue
    <3>2. <<>> \in Seq(Message) /\ Len(<<>>) = 0 /\ 1..0 = {} OBVIOUS
    <3> QED BY <3>1, <3>2 DEF QueueOK, Of, Distinct, Spaced
  <2> QED BY <2>1, <2>2, <2>3 DEF Posting
<1> QED BY <1>1, <1>2, <1>3 DEF MInv

\* Every step keeps the queues in order.
LEMMA NextPaced == ASSUME Hypotheses, Paced, MInv, [Next]_vars PROVE MInv'
<1>1. CASE UNCHANGED vars
  <2>1. IInv' BY <1>1, NextInv DEF MInv
  <2>2. in' = in /\ pc' = pc /\ burst' = burst /\ lost' = lost BY <1>1 DEF vars
  <2>3. \A o \in Outputs : Posting(in', pc', burst', o) BY <2>2 DEF MInv
  <2> QED BY <2>1, <2>2, <2>3 DEF MInv
<1>2. ASSUME NEW b \in Blocks, SetActiveStateOn(b) \/ SetActiveStateOff(b) PROVE MInv'
  BY <1>2, StillKeeps
<1>3. ASSUME NEW b \in Blocks, Worker(b) PROVE MInv'
  BY <1>3, StillKeeps, SlotCallKeeps, PopKeeps, WorkPostKeeps DEF Worker
<1>4. ASSUME NEW i \in Inputs, PushMessage(i) PROVE MInv'
  BY <1>4 DEF PushMessage, Paced
<1>5. ASSUME NEW o \in Outputs, CallSignal(o) PROVE MInv' BY <1>5, CallSignalKeeps
<1> QED BY <1>1, <1>2, <1>3, <1>4, <1>5 DEF Next

(* No queue reaches the capacity at which asyncMessagesPush and            *)
(* slotCallsPush throw away what it holds (InputPort.cpp), whatever the    *)
(* subscribers do, when its messages come from one output whose work()     *)
(* posts at most Burst messages and (Tokens + 1) * Burst - 1 fit in it: in *)
(* the code 60 messages, with 16 tokens and a capacity of 1024.            *)
THEOREM NoQueueOverflows ==
  ASSUME SlotsTakeSignals, Paced PROVE Spec => []NoMessageLost
<1> Hypotheses BY PortsAssumption, BoundsAssumption DEF Hypotheses
<1>1. Init => MInv BY InitPaced
<1>2. MInv /\ [Next]_vars => MInv' BY NextPaced
<1>3. MInv => NoMessageLost BY DEF MInv, NoMessageLost
<1> QED BY <1>1, <1>2, <1>3, PTL DEF Spec
=============================================================================
