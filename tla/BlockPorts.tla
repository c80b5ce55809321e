----------------------------- MODULE BlockPorts -----------------------------
(***************************************************************************)
(* The ports of a block: they are set up by name, found by name or by      *)
(* index, and made and deleted automatically for connections; calls and    *)
(* probes make slots and signals.                                          *)
(*                                                                         *)
(* A pointer to a port is the name of the port: it dangles when there is   *)
(* no port of that name.  A call that throws before it changes anything is *)
(* not a step.                                                             *)
(***************************************************************************)
EXTENDS Integers, Sequences, FiniteSets

CONSTANTS
  PortNames, Null,
  portNameToIndex,   \* the number that a name of digits is, or -1
  to_string,         \* the name of each number
  Private,           \* names that begin with an underscore
  MaxPorts, MaxPortCalls \* bounds

Sides == {"in", "out"}

(* A number has one name: "1", and not "01" as well, whose port would be   *)
(* given the same index.                                                   *)
PortsAssumption ==
  /\ Null \notin PortNames /\ portNameToIndex \in [PortNames -> Int]
  /\ DOMAIN to_string \subseteq Nat
  /\ \A i \in DOMAIN to_string : to_string[i] \in PortNames /\ portNameToIndex[to_string[i]] = i
  /\ \A m, n \in PortNames : portNameToIndex[m] = portNameToIndex[n] => m = n \/ portNameToIndex[m] < 0

VARIABLES
  ports,       \* per side: the kind of each port that there is
  indexed,     \* _indexedInputs, _indexedOutputs
  names,       \* _inputPortNames, _outputPortNames: in the order of allocation
  automatic,   \* automaticPorts
  pointers,    \* the length of workInfo.inputPointers, outputPointers
  subscribed,  \* the ports with subscribers
  slots,       \* automaticSlots
  portCalls,       \* names of _calls
  probes       \* _probes: the slot, the call and the signal of each

portVars == <<ports, indexed, names, automatic, pointers, subscribed, slots, portCalls, probes>>
registered == <<slots, portCalls, probes>>

PortsInit ==
  /\ ports = [s \in Sides |-> <<>>] /\ indexed = [s \in Sides |-> <<>>]
  /\ names = [s \in Sides |-> <<>>] /\ automatic = {} /\ pointers = [s \in Sides |-> 0]
  /\ subscribed = {} /\ slots = {} /\ portCalls = {} /\ probes = {}

Has(s, n) == n \in DOMAIN ports[s]
Index(n) == portNameToIndex[n]
Room(k) == Len(names["in"]) + Len(names["out"]) + k <= MaxPorts

-----------------------------------------------------------------------------
(* allocatePort, for one side: the maps after a port n was made.           *)
WithPort(p, n, kind) == [m \in DOMAIN p \union {n} |-> IF m = n THEN kind ELSE p[m]]

\* resize, with null pointers, so that there is a place for index i
Resized(v, i) ==
  [k \in 1..(IF i + 1 < Len(v) THEN Len(v) ELSE i + 1) |-> IF k <= Len(v) THEN v[k] ELSE Null]

WithIndexed(v, n) ==
  IF Index(n) < 0 THEN v
  ELSE [k \in DOMAIN Resized(v, Index(n)) |-> IF k = Index(n) + 1 THEN n ELSE Resized(v, Index(n))[k]]

\* updatePorts
PointersFor(v) == [d \in Sides |-> Len(v[d])]

\* allocatePort, then updatePorts.  A slot and a signal are ports that are marked.
Allocate(s, n, kind, auto) ==
  /\ Room(1)
  /\ ports' = [ports EXCEPT ![s] = WithPort(@, n, kind)]
  /\ indexed' = [indexed EXCEPT ![s] = WithIndexed(@, n)]
  /\ names' = [names EXCEPT ![s] = Append(@, n)]
  /\ automatic' = IF auto THEN automatic \union {<<s, n>>} ELSE automatic
  /\ pointers' = PointersFor(indexed')

Same == UNCHANGED <<ports, indexed, names, automatic, pointers>>

\* setupInput, setupOutput
Setup(s, n, dtype) ==
  /\ ~ Has(s, n) /\ Allocate(s, n, dtype, FALSE)
  /\ UNCHANGED <<subscribed, registered>>

RegisterSignal(n) ==
  ~ Has("out", n) /\ Allocate("out", n, "signal", FALSE) /\ UNCHANGED <<subscribed, registered>>

RegisterSlot(n) ==
  /\ n \notin slots /\ ~ Has("in", n) /\ Allocate("in", n, "slot", FALSE)
  /\ UNCHANGED <<subscribed, registered>>

\* registerCallable, of a call that returns nothing or something
RegisterCallable(n, returnVoid) ==
  /\ Cardinality(portCalls \union {n}) <= MaxPortCalls
  /\ portCalls' = portCalls \union {n}
  /\ IF n \notin Private /\ returnVoid /\ ~ Has("in", n)
     THEN Allocate("in", n, "slot", FALSE) /\ slots' = slots \union {n}
     ELSE Same /\ UNCHANGED slots
  /\ UNCHANGED <<subscribed, probes>>

(* registerProbe: the slot, the signal, and then the probe.                *)

\* registerSlot does nothing for the slot of a call
NewSlot(slot) == slot \notin slots

NoSignal(signal) == ~ Has("out", signal)

RegisterProbe(n, signal, slot) ==
  /\ Room(2)
  /\ NewSlot(slot) => ~ Has("in", slot)
  /\ NoSignal(signal)
  /\ LET p == IF NewSlot(slot) THEN WithPort(ports["in"], slot, "slot") ELSE ports["in"]
         v == IF NewSlot(slot) THEN WithIndexed(indexed["in"], slot) ELSE indexed["in"]
     IN  /\ ports' = [in |-> p, out |-> WithPort(ports["out"], signal, "signal")]
         /\ indexed' = [in |-> v, out |-> WithIndexed(indexed["out"], signal)]
         /\ names' = [in |-> IF NewSlot(slot) THEN Append(names["in"], slot) ELSE names["in"],
                      out |-> Append(names["out"], signal)]
  /\ pointers' = PointersFor(indexed')
  /\ probes' = {q \in probes : q[1] # slot} \union {<<slot, n, signal>>}
  /\ UNCHANGED <<automatic, subscribed, slots, portCalls>>

\* registerSignal throws: the slot stays, without a probe.
RegisterProbeThrows(n, signal, slot) ==
  /\ NewSlot(slot) /\ ~ Has("in", slot) /\ ~ NoSignal(signal)
  /\ Allocate("in", slot, "slot", FALSE)
  /\ UNCHANGED <<subscribed, registered>>

-----------------------------------------------------------------------------
(* Connections.                                                            *)
Lower(s, n) == {i \in DOMAIN to_string : i < Index(n) /\ Has(s, to_string[i])}

(* autoAllocatePort: with the type of the next lower port, which indexed   *)
(* has to have; it is a data port, also next to a slot or a signal.        *)
AutoAllocatePort(s, n) ==
  /\ Index(n) >= 0 /\ ~ Has(s, n) /\ Lower(s, n) # {}
  /\ LET i == CHOOSE j \in Lower(s, n) : \A k \in Lower(s, n) : k <= j
     IN  /\ i < Len(indexed[s]) /\ indexed[s][i + 1] # Null
         /\ Allocate(s, n, "data", TRUE)
  /\ UNCHANGED <<subscribed, registered>>

\* subscribeInput, subscribeOutput, which end with updatePorts.
Subscriptions(subscribers) ==
  /\ subscribed' = subscribers /\ pointers' = PointersFor(indexed)
  /\ UNCHANGED <<ports, indexed, names, automatic, registered>>

Subscribe(s, n) == Has(s, n) /\ Subscriptions(subscribed \union {<<s, n>>})

Unsubscribe(s, n) == <<s, n>> \in subscribed /\ Subscriptions(subscribed \ {<<s, n>>})

\* Mutant: the place of the port stays.
StillIndexed(v, n) == v

\* The place of the port is null, and null pointers at the end are stripped.
WithoutIndexed(v, n) ==
  LET w == [k \in DOMAIN v |-> IF k = Index(n) + 1 THEN Null ELSE v[k]]
      used == {k \in DOMAIN w : w[k] # Null}
  IN  SubSeq(w, 1, IF used = {} THEN 0 ELSE CHOOSE k \in used : \A j \in used : j <= k)

\* The list of names with the first n erased.
WithoutName(v, n) ==
  LET found == {k \in DOMAIN v : v[k] = n}
      k == CHOOSE k \in found : \A j \in found : k <= j
  IN  IF found = {} THEN v ELSE SubSeq(v, 1, k - 1) \o SubSeq(v, k + 1, Len(v))

\* autoDeletePort
AutoDeletePort(s, n) ==
  /\ Has(s, n) /\ <<s, n>> \notin subscribed /\ <<s, n>> \in automatic
  /\ automatic' = automatic \ {<<s, n>>}
  /\ indexed' = [indexed EXCEPT ![s] = WithoutIndexed(@, n)]
  /\ names' = [names EXCEPT ![s] = WithoutName(@, n)]
  /\ ports' = [ports EXCEPT ![s] = [m \in DOMAIN @ \ {n} |-> @[m]]]
  /\ UNCHANGED <<pointers, subscribed, registered>>

PortsNext ==
  \/ \E n \in PortNames :
       \/ RegisterSignal(n) \/ RegisterSlot(n)
       \/ \E returnVoid \in BOOLEAN : RegisterCallable(n, returnVoid)
       \/ \E s \in Sides :
            Setup(s, n, "data") \/ AutoAllocatePort(s, n) \/ Subscribe(s, n) \/ Unsubscribe(s, n)
              \/ AutoDeletePort(s, n)
  \/ \E n, signal, slot \in PortNames :
       RegisterProbe(n, signal, slot) \/ RegisterProbeThrows(n, signal, slot)

PortsSpec == PortsInit /\ [][PortsNext]_portVars

-----------------------------------------------------------------------------
\* inputPortInfo, outputPortInfo: of the ports that are found by the names.
PortInfos(s) == {[name |-> names[s][k], isSigSlot |-> ports[s][names[s][k]] # "data"] : k \in DOMAIN names[s]}

\* The variables have their types.
PortTypesOK ==
  /\ \A s \in Sides :
       /\ DOMAIN ports[s] \subseteq PortNames
       /\ \A n \in DOMAIN ports[s] : ports[s][n] \in {"data", "slot", "signal"}
       /\ indexed[s] \in Seq(PortNames \union {Null}) /\ names[s] \in Seq(PortNames) /\ pointers[s] \in Nat
  /\ automatic \subseteq Sides \X PortNames /\ subscribed \subseteq Sides \X PortNames
  /\ slots \subseteq PortNames /\ portCalls \subseteq PortNames /\ probes \subseteq PortNames \X PortNames \X PortNames

(* No pointer dangles when ports come and go: what is found by name, by    *)
(* index or as automatic is a port that there is, and the names are listed *)
(* once each.                                                              *)
NoDangling ==
  \A s \in Sides :
    /\ \A k \in DOMAIN names[s] : names[s][k] \in DOMAIN ports[s]
    /\ \A n \in DOMAIN ports[s] : \E k \in DOMAIN names[s] : names[s][k] = n
    /\ \A j, k \in DOMAIN names[s] : names[s][j] = names[s][k] => j = k
    /\ \A k \in DOMAIN indexed[s] : indexed[s][k] \in DOMAIN ports[s] \union {Null}
    /\ \A n \in PortNames : <<s, n>> \in automatic => n \in DOMAIN ports[s]

\* The infos that a topology resolves ports with list the ports that there are.
InfosComplete == \A s \in Sides : {info.name : info \in PortInfos(s)} = DOMAIN ports[s]

(* Each port of a number is found by its index (Block::input), also by     *)
(* autoAllocatePort, which does not look whether the pointer is null, and  *)
(* it is that port that is found.                                          *)
FoundByIndex ==
  \A s \in Sides : \A n \in DOMAIN ports[s] : Index(n) >= 0 =>
    Index(n) < Len(indexed[s]) /\ indexed[s][Index(n) + 1] = n

\* The work info has a pointer for each index: preWorkTasks writes them unchecked.
PointersCover ==
  \A s \in Sides : \A n \in DOMAIN ports[s] : Index(n) < pointers[s]

(* The slot and the signal of a probe are there as long as the probe is,   *)
(* and are no data ports.                                                  *)
ProbeWired ==
  \A q \in probes :
    /\ Has("in", q[1]) /\ ports["in"][q[1]] = "slot"
    /\ Has("out", q[3]) /\ ports["out"][q[3]] = "signal"
    /\ \A r \in probes : r # q => r[1] # q[1] /\ r[3] # q[3]

(* A Block's vectors, maps and names of ports tell of the same ports,      *)
(* whatever was set up and deleted, and a probe's slot and signal are      *)
(* wired to its call.                                                      *)
PortsSound == PortTypesOK /\ NoDangling /\ InfosComplete /\ FoundByIndex /\ PointersCover /\ ProbeWired

(* "A probe creates a special slot that will probe the registered call":   *)
(* no later registration takes it away.                                    *)
ProbesKept == [][probes \subseteq probes']_portVars
=============================================================================
