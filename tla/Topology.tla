------------------------------ MODULE Topology ------------------------------
(***************************************************************************)
(* Topologies: connect, disconnect and disconnectAll edit lists of flows,  *)
(* which may cross the ports of a hierarchy; commit flattens them, adds    *)
(* network blocks and copiers, and lets one sub-topology per environment   *)
(* subscribe, unsubscribe, install buffer managers and (de)activate.       *)
(*                                                                         *)
(* A port is <<object, name>>; a port of the topology itself (one without  *)
(* obj in the code) is one whose object is a topology.  A flow is          *)
(* <<source, destination>>.  Names are numbers, so every port of a block   *)
(* is indexed.  The order of the flows in a list is left out.              *)
(***************************************************************************)
EXTENDS Integers, Sequences, FiniteSets, FiniteSetsExt, SequencesExt

CONSTANTS
  Tops, Blocks, Envs,
  Env,            \* the environment of each block
  Committers,     \* the topologies on which commit is called
  Wires,          \* for each topology the flows that are ever connected in it
  RegisteredIn, RegisteredOut,  \* the ports a block sets up by itself
  Custom,         \* <<side, port>> with a buffer manager of its own
  Domain,         \* <<side, port>> to the domain, where it is not empty
  Rejects,        \* <<side, port, domain>>: PortDomainError
  MayFail,        \* blocks whose activate() may throw
  MaxCalls,       \* bound: calls of connect, disconnect and disconnectAll
  MaxCommits,     \* bound: calls of commit
  MaxFaults       \* bound: calls of activate() that throw

ASSUME TopologyAssumption ==
  /\ Env \in [Blocks -> Envs] /\ Committers \subseteq Tops /\ MayFail \subseteq Blocks
  /\ Tops \cap Blocks = {}
  /\ RegisteredIn \in [Blocks -> SUBSET Nat] /\ RegisteredOut \in [Blocks -> SUBSET Nat]
  /\ {MaxCalls, MaxCommits, MaxFaults} \subseteq Nat

VARIABLES
  flows,       \* the list of each topology
  inNames,     \* inputPortNames: how often each name is listed
  outNames,    \* outputPortNames
  ins, outs,   \* the input and output ports that exist on each block
  subs,        \* flows in the _subscribers of their output port
  pubs,        \* flows in the _subscribers of their input port
  managers,    \* the buffer manager installed on an output port
  active,      \* objects with activeState
  broken,      \* objects whose activate() threw when it was last called
  netCache,    \* keys of srcToNetgressCache of each topology
  remote,      \* the sub-topology of each environment
  commit,      \* the topology whose commit is running, or None
  flat,        \* activeFlatFlows of each topology
  result,      \* whether the last commit of each topology succeeded
  calls, commits, faults

vars == <<flows, inNames, outNames, ins, outs, subs, pubs, managers, active, broken,
          netCache, remote, commit, flat, result, calls, commits, faults>>
lists == <<flows, inNames, outNames>>
worker == <<subs, pubs, managers, active, broken>>

None == "none"

\* The elements of a set in some order.
Listing(S) == FoldSet(LAMBDA x, list : Append(list, x), <<>>, S)

Names == UNION {{f[1][2], f[2][2]} : f \in UNION {Wires[t] : t \in Tops}}
                  \union {0}
WirePorts == UNION {{f[1], f[2]} : f \in UNION {Wires[t] : t \in Tops}}

(* Blocks that commit makes: network blocks and copiers.                   *)
Made(kind, port, env, n) == [kind |-> kind, port |-> port, env |-> env, made |-> n]
EnvOf(o) == IF o \in Blocks THEN Env[o] ELSE o.env
Objs(F) == UNION {{f[1][1], f[2][1]} : f \in F}

\* outputPortNames and inputPortNames, given the ports of the blocks.
HasPort(p, names, ports) == IF p[1] \in Tops THEN names[p[1]][p[2]] > 0
                            ELSE p[1] \in Blocks => p[2] \in ports[p[1]]

(* What the variables hold.                                                *)
TypeOK ==
  /\ \A t \in Tops : flows[t] \subseteq Wires[t]
  /\ {inNames, outNames} \subseteq [Tops -> [Names -> Nat]]
  /\ {ins, outs} \subseteq [Blocks -> SUBSET Nat]
  /\ \A b \in Blocks : RegisteredIn[b] \subseteq ins[b] /\ RegisteredOut[b] \subseteq outs[b]
  /\ Objs(subs \union pubs) \cap Tops = {}
  /\ \A f \in subs : EnvOf(f[1][1]) = EnvOf(f[2][1])
  /\ commit \in Committers \union {None}
  /\ \A t \in Committers, e \in Envs :
       remote[t][e].pc \in {"idle", "add", "remove", "install", "activate", "done", "failed"}

Init ==
  /\ flows = [t \in Tops |-> {}]
  /\ inNames = [t \in Tops |-> [n \in Names |-> 0]] /\ outNames = inNames
  /\ ins = RegisteredIn /\ outs = RegisteredOut
  /\ subs = {} /\ pubs = {} /\ managers = <<>> /\ active = {} /\ broken = {}
  /\ netCache = [t \in Committers |-> {}]
  /\ remote = [t \in Committers |-> [e \in Envs |->
                 [flows |-> {}, active |-> {}, pc |-> "idle"]]]
  /\ commit = None /\ flat = [t \in Committers |-> {}]
  /\ result = [t \in Committers |-> TRUE]
  /\ calls = 0 /\ commits = 0 /\ faults = 0

-----------------------------------------------------------------------------
(* Automatic ports.  A missing index is allocated when a lower one exists; *)
(* an allocated one is deleted when nobody is subscribed to it.            *)
AutoAllocate(ports, p) ==
  IF p[1] \in Blocks /\ \E n \in ports[p[1]] : n < p[2]
  THEN [ports EXCEPT ![p[1]] = @ \union {p[2]}] ELSE ports

AutoDelete(ports, registered, p, subscribed) ==
  IF p[1] \in Blocks /\ p \notin subscribed /\ p[2] \notin registered[p[1]]
  THEN [ports EXCEPT ![p[1]] = @ \ {p[2]}] ELSE ports

AutoDeleteOut(ports, F) ==
  FoldLeft(LAMBDA q, f : AutoDelete(q, RegisteredOut, f[1], {s[1] : s \in subs}), ports, Listing(F))
AutoDeleteIn(ports, F) ==
  FoldLeft(LAMBDA q, f : AutoDelete(q, RegisteredIn, f[2], {s[2] : s \in pubs}), ports, Listing(F))

UserCall == commit = None /\ calls < MaxCalls /\ calls' = calls + 1

(* _connect.  The names of the hierarchy's ports are stored before the     *)
(* flow is looked up: they stay when it exists already and connect throws. *)
Listed(names, t, p) == IF p[1] = t THEN [names EXCEPT ![t][p[2]] = @ + 1] ELSE names

Connect(t, f) ==
  /\ UserCall /\ f \in Wires[t]
  /\ outs' = AutoAllocate(outs, f[1])
  /\ ins' = AutoAllocate(ins, f[2])
  /\ IF /\ f[1][1] # t => HasPort(f[1], outNames, outs')
        /\ f[2][1] # t => HasPort(f[2], inNames, ins')
     THEN /\ inNames' = Listed(inNames, t, f[1])
          /\ outNames' = Listed(outNames, t, f[2])
          /\ flows' = [flows EXCEPT ![t] = @ \union {f}]
     ELSE UNCHANGED lists
  /\ UNCHANGED <<worker, netCache, remote, commit, flat, result, commits, faults>>

(* _disconnect.  The port of the hierarchy is looked up among the outputs  *)
(* when it is the source of the flow, and among the inputs when it is the  *)
(* destination, and its name is erased there.                              *)
Erased(names, t, p) == IF p[1] = t THEN [names EXCEPT ![t][p[2]] = @ - 1] ELSE names

Disconnect(t, f) ==
  /\ UserCall /\ f \in Wires[t]
  /\ HasPort(f[1], outNames, outs) /\ HasPort(f[2], inNames, ins)
  /\ outNames' = Erased(outNames, t, f[1])
  /\ inNames' = Erased(inNames, t, f[2])
  /\ flows' = [flows EXCEPT ![t] = @ \ {f}]
  /\ outs' = AutoDeleteOut(outs, {f} \cap flows[t])
  /\ ins' = AutoDeleteIn(ins, {f} \cap flows[t])
  /\ UNCHANGED <<worker, netCache, remote, commit, flat, result, commits, faults>>

(* disconnectAll.  Sub-topologies are told to disconnect what is their own.*)
DisconnectAll(t, recursive) ==
  LET cleared == {t} \union IF recursive THEN Objs(flows[t]) \cap Tops ELSE {}
      dropped == UNION {flows[u] : u \in cleared}
  IN  /\ UserCall /\ flows[t] # {}
      /\ flows' = [u \in Tops |-> IF u \in cleared THEN {} ELSE flows[u]]
      /\ outs' = AutoDeleteOut(outs, dropped)
      /\ ins' = AutoDeleteIn(ins, dropped)
      /\ UNCHANGED <<inNames, outNames, worker, netCache, remote, commit, flat, result,
                     commits, faults>>

-----------------------------------------------------------------------------
(* Flattening.  resolvePorts follows a port of a sub-topology inwards to   *)
(* the ports of blocks, or to the far port of a flow that passes through.  *)
ResolvePorts(port, isSource) ==
  LET near == IF isSource THEN 2 ELSE 1
      far == IF isSource THEN 1 ELSE 2
      resolve[d \in 0..Cardinality(Tops), p \in WirePorts] ==
        IF p[1] \notin Tops THEN <<p>>
        ELSE LET next == Listing({f[far] : f \in {g \in flows[p[1]] : g[near] = p}})
             IN  FlattenSeq([k \in DOMAIN next |->
                   IF next[k][1] = p[1] THEN <<next[k]>>
                   ELSE IF d = 0 THEN <<>> ELSE resolve[d - 1, next[k]]])
  IN  resolve[Cardinality(Tops), port]

Pairs(srcs, dsts) == FlattenSeq([i \in DOMAIN srcs |-> [j \in DOMAIN dsts |-> <<srcs[i], dsts[j]>>]])

(* squashFlows: the flows of the topology between what its ports resolve   *)
(* to, the flows of each sub-topology, and the flows that pass through.    *)
SquashFlows(top) ==
  LET squash[d \in 0..Cardinality(Tops), t \in Tops] ==
        LET inner == Listing({f \in flows[t] : t \notin {f[1][1], f[2][1]}})
            below == Listing((Objs(flows[t]) \cap Tops) \ {t})
        IN  FlattenSeq([k \in DOMAIN inner |-> Pairs(ResolvePorts(inner[k][1], TRUE),
                                                     ResolvePorts(inner[k][2], FALSE))])
            \o FlattenSeq([k \in DOMAIN below |-> IF d = 0 THEN <<>> ELSE squash[d - 1, below[k]]])
            \o Listing({f \in flows[t] : f[1][1] = t /\ f[2][1] = t})
  IN  squash[Cardinality(Tops), top]

\* Mutant: flows that pass through are not completed.
CompleteFlowsOnly(list) == SelectSeq(list, LAMBDA f : f[1][1] \notin Tops /\ f[2][1] \notin Tops)

(* completePassThroughFlows: a flow that passes through joins every flow   *)
(* that ends at its destination to every flow that starts at its source.   *)
Column(list, k) == [i \in DOMAIN list |-> list[i][k]]
CompletePassThroughFlows(list) ==
  LET Passes(f) == f[1][1] \in Tops /\ f[2][1] \in Tops
      Complete(f) == f[1][1] \notin Tops /\ f[2][1] \notin Tops
      Heads(p) == SelectSeq(list, LAMBDA f : f[1][1] \notin Tops /\ f[2] = p)
      Tails(p) == SelectSeq(list, LAMBDA f : f[2][1] \notin Tops /\ f[1] = p)
      through == SelectSeq(list, Passes)
  IN  FlattenSeq([k \in DOMAIN through |->
        Pairs(Column(Heads(through[k][2]), 1), Column(Tails(through[k][1]), 2))])
      \o SelectSeq(list, Complete)

(* createNetworkFlows: one pair of network blocks for a source port and    *)
(* the environment of its destinations; the pairs are kept in a cache.     *)
Crosses(f) == EnvOf(f[1][1]) # EnvOf(f[2][1])
NetKey(f) == <<f[1], EnvOf(f[2][1])>>
NetSink(key, n) == <<Made("network_sink", key, EnvOf(key[1][1]), n), 0>>
NetSource(key, n) == <<Made("network_source", key, key[2], n), 0>>

\* Mutant: every commit makes new network blocks.
GenerationAlwaysNew(cache, key, n) == n

\* The generation of a pair: the commit at which it was made.
Generation(cache, key, n) ==
  IF \E c \in cache : c[1] = key THEN (CHOOSE c \in cache : c[1] = key)[2] ELSE n

CacheAfter(cache, list, n) ==
  {<<NetKey(f), Generation(cache, NetKey(f), n)>> : f \in {g \in ToSet(list) : Crosses(g)}}
     \union cache

CreateNetworkFlows(cache, list, n) ==
  LET crossing == SelectSeq(list, Crosses)
      keys == Listing({NetKey(f) : f \in ToSet(crossing)})
      Gen(key) == Generation(cache, key, n)
  IN  SelectSeq(list, LAMBDA f : ~ Crosses(f))
      \o [k \in DOMAIN keys |-> <<keys[k][1], NetSink(keys[k], Gen(keys[k]))>>]
      \o [k \in DOMAIN crossing |->
           <<NetSource(NetKey(crossing[k]), Gen(NetKey(crossing[k]))), crossing[k][2]>>]

-----------------------------------------------------------------------------
(* Memory domains.  getBufferMode asks a port for a manager of its own,    *)
(* given the domain of the other side; blocks that commit made abdicate.   *)
Other(side) == IF side = "in" THEN "out" ELSE "in"
DomainOf(side, p) == IF <<side, p>> \in DOMAIN Domain THEN Domain[<<side, p>>] ELSE ""
GetBufferMode(side, p, domain) ==
  IF <<side, p, domain>> \in Rejects THEN "ERROR"
  ELSE IF <<side, p>> \in Custom THEN "CUSTOM" ELSE "ABDICATE"

\* Mutant: what the other ports want is not asked.
AcceptableAlone(side, p, others) ==
  Cardinality({DomainOf(Other(side), q) : q \in others}) = 1

(* isDomainCrossingAcceptable between a port and what it is connected to.  *)
IsDomainCrossingAcceptable(side, p, others) ==
  LET domains == {DomainOf(Other(side), q) : q \in others}
      mode == GetBufferMode(side, p, CHOOSE d \in domains : TRUE)
  IN  /\ Cardinality(domains) = 1
      /\ mode # "ERROR"
      /\ mode = "CUSTOM" =>
           /\ side = "in" => Cardinality(others) = 1
           /\ \A q \in others : GetBufferMode(Other(side), q, DomainOf(side, p)) = "ABDICATE"

Dsts(F, p) == {f[2] : f \in {g \in F : g[1] = p}}
Srcs(F, p) == {f[1] : f \in {g \in F : g[2] = p}}

(* getCopierForDomainCrossing makes a new copier at every commit; the one  *)
(* for the destination is preferred.                                       *)
Copiers(F, f, n) ==
  IF ~ IsDomainCrossingAcceptable("in", f[2], Srcs(F, f[2]))
  THEN {<<Made("copier", <<"in", f[2]>>, EnvOf(f[2][1]), n), 0>>}
  ELSE IF ~ IsDomainCrossingAcceptable("out", f[1], Dsts(F, f[1]))
  THEN {<<Made("copier", <<"out", f[1]>>, EnvOf(f[1][1]), n), 0>>}
  ELSE {}

RectifyDomainFlows(F, n) ==
  UNION {IF Copiers(F, f, n) = {} THEN {f}
         ELSE UNION {{<<f[1], c>>, <<c, f[2]>>} : c \in Copiers(F, f, n)} : f \in F}

-----------------------------------------------------------------------------
(* commit, up to the sub-commits.  Domain inspection throws when a port is *)
(* gone; loading the sub-topologies throws at the second copy of a flow.   *)
Complete(t) == CompletePassThroughFlows(SquashFlows(t))
Networked(t, n) == CreateNetworkFlows(netCache[t], Complete(t), n)
Repeated(list) == {f \in ToSet(list) : Cardinality({k \in DOMAIN list : list[k] = f}) > 1}

CommitThrows(t) ==
  LET n == commits + 1
      F == ToSet(Networked(t, n))
  IN  \/ \E f \in F : ~ HasPort(f[1], outNames, outs) \/ ~ HasPort(f[2], inNames, ins)
      \/ \E f \in Repeated(Networked(t, n)) : Copiers(F, f, n) = {}

CommitFails(t) ==
  /\ commit = None /\ t \in Committers /\ commits < MaxCommits
  /\ CommitThrows(t)
  /\ commits' = commits + 1
  /\ result' = [result EXCEPT ![t] = FALSE]
  /\ netCache' = [netCache EXCEPT ![t] = CacheAfter(@, Complete(t), commits + 1)]
  /\ UNCHANGED <<lists, ins, outs, worker, remote, commit, flat, calls, faults>>

(* disconnectAll and connect of the sub-topologies delete the automatic    *)
(* ports that nobody uses and allocate those of the new flows again.       *)
CommitStart(t) ==
  /\ commit = None /\ t \in Committers /\ commits < MaxCommits
  /\ ~ CommitThrows(t)
  /\ commits' = commits + 1
  /\ commit' = t
  /\ netCache' = [netCache EXCEPT ![t] = CacheAfter(@, Complete(t), commits + 1)]
  /\ LET F == RectifyDomainFlows(ToSet(Networked(t, commits + 1)), commits + 1)
         old == UNION {remote[t][e].flows : e \in Envs}
     IN  /\ remote' = [remote EXCEPT ![t] = [e \in Envs |->
                         [flows |-> {f \in F : EnvOf(f[1][1]) = e},
                          active |-> remote[t][e].active, pc |-> "add"]]]
         /\ outs' = FoldLeft(LAMBDA q, f : AutoAllocate(q, f[1]), AutoDeleteOut(outs, old), Listing(F))
         /\ ins' = FoldLeft(LAMBDA q, f : AutoAllocate(q, f[2]), AutoDeleteIn(ins, old), Listing(F))
  /\ UNCHANGED <<lists, worker, flat, result, calls, faults>>

-----------------------------------------------------------------------------
(* topologySubCommit of the environments, concurrently.  The subscriptions *)
(* of one list are made by as many threads and all are waited for.         *)
NewFlows(t, e) == remote[t][e].flows \ remote[t][e].active
OldFlows(t, e) == remote[t][e].active \ remote[t][e].flows
At(t, e, pc) == commit = t /\ remote[t][e].pc = pc
Goto(t, e, pc) == remote' = [remote EXCEPT ![t][e].pc = pc]
quiet == <<lists, ins, outs, netCache, commit, flat, result, calls, commits>>

\* subscribePort "add": throws where the subscription exists.
SubAdd(t, e) ==
  LET new == NewFlows(t, e)
  IN  /\ At(t, e, "add")
      /\ subs' = subs \union new
      /\ pubs' = pubs \union {f \in new : f \notin subs}
      /\ Goto(t, e, IF new \cap (subs \union pubs) = {} THEN "remove" ELSE "failed")
      /\ UNCHANGED <<quiet, managers, active, broken, faults>>

(* subscribePort "remove".  An output without subscribers gets a manager   *)
(* from its own block.                                                     *)
Local(p) == IF <<"out", p>> \in Custom THEN <<"out", p>> ELSE <<"generic", p>>

SubRemove(t, e) ==
  LET old == OldFlows(t, e)
      left == subs \ old
      free == {f[1] : f \in old \cap subs} \ {f[1] : f \in left}
  IN  /\ At(t, e, "remove")
      /\ subs' = left
      /\ pubs' = pubs \ (old \cap subs)
      /\ managers' = [p \in free |-> Local(p)] @@ managers
      /\ Goto(t, e, IF old \subseteq subs \cap pubs THEN "install" ELSE "failed")
      /\ UNCHANGED <<quiet, active, broken, faults>>

(* installBufferManagers looks at the new flows only; one destination of   *)
(* each source is taken as the first.  An exception leaves the managers    *)
(* of the sources that came earlier installed.                             *)
SourceMode(p, dst) == GetBufferMode("out", p, DomainOf("in", dst))
DestMode(p, dst) == GetBufferMode("in", dst, DomainOf("out", p))
Unsupported(F, p, dst) ==
  /\ SourceMode(p, dst) # "CUSTOM" /\ DestMode(p, dst) = "CUSTOM"
  /\ \E q \in Dsts(F, p) \ {dst} : DestMode(p, q) # "ABDICATE" /\ DomainOf("in", q) # ""
ManagerFor(p, dst) ==
  IF SourceMode(p, dst) = "CUSTOM" THEN <<"out", p>>
  ELSE IF DestMode(p, dst) = "CUSTOM" THEN <<"in", dst>> ELSE <<"generic", p>>

SubInstall(t, e) ==
  LET new == NewFlows(t, e)
      srcs == {f[1] : f \in new}
  IN  /\ At(t, e, "install")
      /\ \E first \in [srcs -> {f[2] : f \in new}] :
           /\ \A p \in srcs : first[p] \in Dsts(new, p)
           /\ LET bad == {p \in srcs : Unsupported(new, p, first[p])}
              IN  \E set \in IF bad = {} THEN {srcs} ELSE SUBSET (srcs \ bad) :
                    /\ managers' = [p \in set |-> ManagerFor(p, first[p])] @@ managers
                    /\ Goto(t, e, IF bad = {} THEN "activate" ELSE "failed")
      /\ UNCHANGED <<quiet, subs, pubs, active, broken, faults>>

(* getObjSetFromFlowList: the blocks of some flows that others do not use. *)
ObjSet(F, excludes) == Objs(F) \ Objs(excludes)

(* Activation.  The active flows of the sub-topology are updated whether   *)
(* or not every activate() succeeds.                                       *)
SubActivate(t, e) ==
  LET new == ObjSet(NewFlows(t, e), remote[t][e].active)
      old == ObjSet(OldFlows(t, e), remote[t][e].flows)
  IN  /\ At(t, e, "activate")
      /\ \E failing \in SUBSET (new \cap MayFail) :
           /\ faults + Cardinality(failing) <= MaxFaults
           /\ faults' = faults + Cardinality(failing)
           /\ active' = (active \union (new \ failing)) \ old
           /\ broken' = ((broken \ new) \union failing) \ old
           /\ remote' = [remote EXCEPT ![t][e] =
                [flows |-> @.flows, active |-> @.flows,
                 pc |-> IF failing = {} THEN "done" ELSE "failed"]]
      /\ UNCHANGED <<quiet, subs, pubs, managers>>

(* commit, after the sub-commits: an error leaves the flat flows and the   *)
(* cache as they were.                                                     *)
CommitEnd(t) ==
  LET ok == \A e \in Envs : remote[t][e].pc = "done"
  IN  /\ commit = t
      /\ \A e \in Envs : remote[t][e].pc \in {"done", "failed"}
      /\ commit' = None
      /\ result' = [result EXCEPT ![t] = ok]
      /\ flat' = IF ok THEN [flat EXCEPT ![t] = UNION {remote[t][e].flows : e \in Envs}] ELSE flat
      /\ netCache' = IF ok THEN [netCache EXCEPT ![t] =
                        {c \in @ : \E f \in ToSet(Complete(t)) : NetKey(f) = c[1]}] ELSE netCache
      /\ remote' = [remote EXCEPT ![t] = [e \in Envs |-> [@[e] EXCEPT !.pc = "idle"]]]
      /\ UNCHANGED <<lists, ins, outs, worker, calls, commits, faults>>

SubCommit(t, e) ==
  SubAdd(t, e) \/ SubRemove(t, e) \/ SubInstall(t, e) \/ SubActivate(t, e)

Next ==
  \/ \E t \in Tops : \E f \in Wires[t] : Connect(t, f) \/ Disconnect(t, f)
  \/ \E t \in Tops, r \in BOOLEAN : DisconnectAll(t, r)
  \/ \E t \in Committers : CommitFails(t) \/ CommitStart(t) \/ CommitEnd(t)
  \/ \E t \in Committers, e \in Envs : SubCommit(t, e)

Spec == Init /\ [][Next]_vars

-----------------------------------------------------------------------------
(* What the hierarchy means: data flows from a block's output to a block's *)
(* input if flows of the topologies in use lead from one to the other.     *)
InUse(top) ==
  LET within[d \in 0..Cardinality(Tops)] ==
        IF d = 0 THEN {top}
        ELSE within[d - 1] \union (Objs(UNION {flows[t] : t \in within[d - 1]}) \cap Tops)
  IN  within[Cardinality(Tops)]

SourceNode(t, p) == <<IF p[1] = t THEN "in" ELSE "out", p>>
DestNode(t, p) == <<IF p[1] = t THEN "out" ELSE "in", p>>
Edges(top) == UNION {{<<SourceNode(t, f[1]), DestNode(t, f[2])>> : f \in flows[t]} : t \in InUse(top)}

Connections(top) ==
  LET edges == Edges(top)
      reach[d \in 0..Cardinality(WirePorts), n \in {"in", "out"} \X WirePorts] ==
        LET next == {g[2] : g \in {h \in edges : h[1] = n}}
        IN  next \union IF d = 0 THEN {} ELSE UNION {reach[d - 1, m] : m \in next}
  IN  {<<p, q>> \in WirePorts \X WirePorts :
         /\ p[1] \in Blocks /\ q[1] \in Blocks
         /\ <<"in", q>> \in reach[Cardinality(WirePorts), <<"out", p>>]}

(* What the subscriptions carry: network blocks and copiers pass data on.  *)
PassedOn(p) == IF p[1].kind = "network_sink" THEN <<[p[1] EXCEPT !.kind = "network_source",
                                                               !.env = p[1].port[2]], 0>> ELSE p
Carried(S) ==
  LET from[d \in 0..4, p \in {f[1] : f \in S}] ==
        UNION {IF q[1] \in Blocks THEN {q}
               ELSE IF d = 0 \/ Dsts(S, PassedOn(q)) = {} THEN {} ELSE from[d - 1, PassedOn(q)]
               : q \in Dsts(S, p)}
  IN  UNION {{<<p, q>> : q \in from[4, p]} : p \in {f[1] : f \in S} \cap WirePorts}

(* A commit that returns has made exactly the connections that the flows   *)
(* of the hierarchy describe, on both ends, through the network blocks and *)
(* copiers it needs (Topology::commit).                                    *)
CommitMakesConnections ==
  [][\A t \in Committers : commit = t /\ commit' = None /\ result'[t] =>
       Carried(subs) = Connections(t) /\ pubs = subs]_vars

(* A connection that was there before a commit and is still wanted is not  *)
(* interrupted by it, whatever the order in which the sub-topologies work. *)
ConnectionsKept ==
  [][commit # None => Carried(subs) \cap Connections(commit) \subseteq Carried(subs')]_vars

(* After a successful commit the active blocks are the ones with flows,    *)
(* except those whose activate() threw.                                    *)
ActiveIffConnected ==
  commit = None /\ (\A t \in Committers : result[t]) =>
    active \intersect broken = {} /\ active \union broken = Objs(subs)

(* installBufferManagers: the modes are the ones that rectifyDomainFlows   *)
(* was to provide ("this must be true if the previous logic was good").    *)
ModesRectified ==
  \A t \in Committers, e \in Envs : At(t, e, "install") =>
    \A f \in NewFlows(t, e) :
      /\ ~ Unsupported(NewFlows(t, e), f[1], f[2])
      /\ "ERROR" \notin {SourceMode(f[1], f[2]), DestMode(f[1], f[2])}
=============================================================================
