---------------------------- MODULE TopologyJSON ----------------------------
(***************************************************************************)
(* What a topology is made from and dumped to.                             *)
(*                                                                         *)
(* Topology::make from a JSON description, and the two callers that change *)
(* the globals of the description before: the factory of a JSON topology   *)
(* with its arguments, and --run-topology with --vars.                     *)
(*                                                                         *)
(* An expression is a number or a name; its value is the number, the value *)
(* of the variable with that name, or the text of the name when there is   *)
(* no such variable.                                                       *)
(*                                                                         *)
(* Topology::dumpJSON in mode "flat".  The dump of the hierarchy is a tree *)
(* of blocks and connections; flattenDump replaces the topologies at the   *)
(* top by what is in them, until there are none.  A block has one port on  *)
(* each side, a topology may have several.  The port of a flow is an       *)
(* object and a name, as in the code; whether it is an input or an output  *)
(* follows from its place in the flow.                                     *)
(***************************************************************************)
EXTENDS Naturals, Sequences, FiniteSets

CONSTANTS
  Documents,  \* descriptions, see below
  Starts,     \* <<"make">>, <<"factory", values>> or <<"run", <<<<name, expression>>, ...>>>>
  Factories,  \* the registered paths of blocks; others fail
  Top,         \* the topology that is dumped
  Hiers,       \* the topologies below it
  Hierarchies  \* the flows each topology may have: <<<<object, name>>, <<object, name>>>>

DumpAssumption == Top \notin Hiers /\ \A fs \in Hierarchies : DOMAIN fs = Hiers \union {Top}

(* pools: a set of names; form: "absent", "array" or "object" (or "null"   *)
(* after the factory looked for it); globals, and locals of a block: pairs *)
(* <<name, expression>>, in the order of the array or by name; blocks:     *)
(* records [id, path, locals, args, pool]; connections: tuples <<id, port, *)
(* id, port>>.                                                             *)
VARIABLES
  doc0,      \* the document that is read
  start,     \* who reads it
  doc,       \* topObj
  stage,     \* "overlay", "globals", "blocks", "connections", "done" or "thrown"
  blocks,    \* the blocks made: the index of the entry, the values of the arguments, the thread pool
  ids,       \* of each id used so far, the index in blocks; 0 is the topology
  flows,     \* of the topology: <<index in blocks, port, index in blocks, port>>
  dumpFlows,    \* of each topology of a hierarchy
  dumpBlocks,   \* topObj["blocks"] of its dump
  connections,  \* topObj["connections"] of it
  dumpFlat      \* has flattenDump found no topology?

makeVars == <<doc0, start, doc, stage, blocks, ids, flows>>
dumpVars == <<dumpFlows, dumpBlocks, connections, dumpFlat>>

Named(d) == {d.blocks[i].id : i \in DOMAIN d.blocks} \union {"self", "this", ""}
Connected(d) == UNION {{d.connections[i][1], d.connections[i][3]} : i \in DOMAIN d.connections}
Unused == 99

MakeInit ==
  /\ doc0 \in Documents /\ start \in Starts /\ doc = doc0 /\ stage = "overlay"
  /\ blocks = <<>> /\ flows = <<>>
  /\ ids = [i \in Named(doc0) \union Connected(doc0) |-> IF i \in {"self", "this", ""} THEN 0 ELSE Unused]

Throw == stage' = "thrown" /\ UNCHANGED <<doc, blocks, ids, flows>>

-----------------------------------------------------------------------------
\* toString, and the string in the JSON document: what is written is read as an expression.
Text(v) == IF v[1] = "num" THEN v ELSE <<"name", v[2]>>

\* opaqueJSONTopologyFactory: the first globals get the arguments for values.
FactoryOverlay ==
  LET args == start[2]
      found == IF doc.form = "absent" THEN "null" ELSE doc.form  \* topObj["globals"]
  IN  /\ stage = "overlay" /\ start[1] = "factory"
      /\ IF Len(args) > Len(doc.globals) \/ (found = "object" /\ args # <<>>) THEN Throw
         ELSE /\ doc' = [doc EXCEPT !.form = found,
                           !.globals = [i \in DOMAIN @ |-> IF i > Len(args) THEN @[i] ELSE <<@[i][1], Text(args[i])>>]]
              /\ stage' = "globals" /\ UNCHANGED <<blocks, ids, flows>>
      /\ UNCHANGED <<doc0, start>>

Overridden(globals, v) ==
  LET same == {i \in DOMAIN globals : globals[i][1] = v[1]}
  IN  IF same = {} THEN Append(globals, v)
      ELSE [globals EXCEPT ![CHOOSE i \in same : \A j \in same : i <= j] = v]

RECURSIVE AllOverridden(_, _)
AllOverridden(globals, vs) ==
  IF vs = <<>> THEN globals ELSE AllOverridden(Overridden(globals, vs[1]), Tail(vs))

\* runTopology: a variable overrides the global of that name, or is added.
RunOverlay ==
  /\ stage = "overlay" /\ start[1] = "run"
  /\ IF doc.form = "object" /\ start[2] # <<>> THEN Throw  \* an entry of the object is not an object
     ELSE /\ doc' = [doc EXCEPT !.form = IF @ = "absent" THEN "array" ELSE @,
                                !.globals = AllOverridden(@, start[2])]
          /\ stage' = "globals" /\ UNCHANGED <<blocks, ids, flows>>
  /\ UNCHANGED <<doc0, start>>

NoOverlay ==
  stage = "overlay" /\ start[1] = "make" /\ stage' = "globals" /\ UNCHANGED <<doc0, start, doc, blocks, ids, flows>>

\* extractVariableMap of the globals.
Globals ==
  /\ stage = "globals"
  /\ IF doc.form = "null" THEN Throw ELSE stage' = "blocks" /\ UNCHANGED <<doc, blocks, ids, flows>>
  /\ UNCHANGED <<doc0, start>>

-----------------------------------------------------------------------------
Declared(globals, locals) == globals \o locals

\* evalExpression, where env is a sequence of pairs <<name, value>>; the last of a name counts.
evalExpression(env, e) ==
  LET named == {i \in DOMAIN env : env[i][1] = e[2]}
  IN  IF e[1] = "num" THEN e
      ELSE IF named = {} THEN <<"text", e[2]>>
      ELSE env[CHOOSE i \in named : \A j \in named : j <= i][2]

RECURSIVE Environment(_, _)
Environment(env, vs) ==
  IF vs = <<>> THEN env
  ELSE Environment(Append(env, <<vs[1][1], evalExpression(env, vs[1][2])>>), Tail(vs))

PoolFor(pools, name) == IF name \in pools THEN name ELSE "none"

\* makeBlock, and the thread pool.
MakeBlock ==
  LET i == Len(blocks) + 1
      block == doc.blocks[i]
      env == Environment(<<>>, Declared(doc.globals, block.locals))
  IN  /\ stage = "blocks" /\ i <= Len(doc.blocks)
      /\ IF block.path \notin Factories \/ (block.pool \notin doc.pools /\ block.pool # "") THEN Throw
         ELSE /\ blocks' = Append(blocks, [entry |-> i, pool |-> PoolFor(doc.pools, block.pool),
                                    args |-> [a \in DOMAIN block.args |-> evalExpression(env, block.args[a])]])
              /\ ids' = [ids EXCEPT ![block.id] = i]
              /\ UNCHANGED <<doc, stage, flows>>
      /\ UNCHANGED <<doc0, start>>

BlocksMade ==
  /\ stage = "blocks" /\ Len(blocks) = Len(doc.blocks) /\ stage' = "connections"
  /\ UNCHANGED <<doc0, start, doc, blocks, ids, flows>>

Missing(flow) == Unused \in {flow[1], flow[3]}

\* An id that is not there, or Topology::connect of a flow that exists.
Connect ==
  LET i == Len(flows) + 1
      conn == doc.connections[i]
      flow == <<ids[conn[1]], conn[2], ids[conn[3]], conn[4]>>
  IN  /\ stage = "connections" /\ i <= Len(doc.connections)
      /\ IF Missing(flow) \/ \E j \in DOMAIN flows : flows[j] = flow THEN Throw
         ELSE flows' = Append(flows, flow) /\ UNCHANGED <<doc, stage, blocks, ids>>
      /\ UNCHANGED <<doc0, start>>

Return ==
  /\ stage = "connections" /\ Len(flows) = Len(doc.connections) /\ stage' = "done"
  /\ UNCHANGED <<doc0, start, doc, blocks, ids, flows>>

MakeNext ==
  \/ FactoryOverlay \/ RunOverlay \/ NoOverlay \/ Globals
  \/ MakeBlock \/ BlocksMade \/ Connect \/ Return

MakeSpec == MakeInit /\ [][MakeNext]_makeVars

-----------------------------------------------------------------------------
\* What the document says of the variables, with the values that the caller gives for the globals.
Given(n) ==
  IF start[1] = "factory" /\ \E i \in 1 .. Len(start[2]) : doc0.globals[i][1] = n
  THEN {start[2][CHOOSE i \in 1 .. Len(start[2]) : doc0.globals[i][1] = n]}
  ELSE IF start[1] = "run" /\ \E i \in DOMAIN start[2] : start[2][i][1] = n
  THEN {start[2][CHOOSE i \in DOMAIN start[2] : start[2][i][1] = n][2]}
  ELSE {}

(* A number that the caller gives for a global is the value of every       *)
(* argument that names it, in every block without a local of that name;    *)
(* and the pool of a block is the one it names, or the one without a name. *)
GivenUsed ==
  \A k \in DOMAIN blocks : LET block == doc0.blocks[blocks[k].entry] IN
    /\ blocks[k].pool = IF block.pool \in doc0.pools THEN block.pool ELSE "none"
    /\ \A a \in DOMAIN block.args : \A v \in Given(block.args[a][2]) :
         block.args[a][1] = "name" /\ v[1] = "num" /\ (\A l \in DOMAIN block.locals : block.locals[l][1] # block.args[a][2])
           => blocks[k].args[a] = v

\* A local is seen by its own block, whatever the globals are.
LocalsUsed ==
  \A k \in DOMAIN blocks : LET block == doc0.blocks[blocks[k].entry] IN
    \A a \in DOMAIN block.args : \A l \in DOMAIN block.locals :
      block.args[a] = <<"name", block.locals[l][1]>> /\ block.locals[l][2][1] = "num" => blocks[k].args[a] = block.locals[l][2]

\* Nothing that the document names is missing, and no flow is there twice.
Complete(d) ==
  /\ \A i \in DOMAIN d.blocks : d.blocks[i].path \in Factories /\ d.blocks[i].pool \in d.pools \union {""}
  /\ Connected(d) \subseteq Named(d)
  /\ \A i, j \in DOMAIN d.connections : d.connections[i] = d.connections[j] => i = j

(* A topology is returned for every complete description and for no other, *)
(* and with all of its flows.                                              *)
MadeIfComplete ==
  /\ stage = "done" => Complete(doc0) /\ Len(flows) = Len(doc0.connections)
  /\ stage = "thrown" /\ start[1] # "factory" => ~ Complete(doc0)

\* The globals are optional: what make accepts the factory accepts.
GlobalsOptional ==
  start = <<"factory", <<>>>> /\ stage = "thrown" => ~ Complete(doc0)

\* The ids of the blocks of a topology are unique: a flow names one of them.
IdsUnique ==
  stage = "done" => \A i, j \in DOMAIN doc0.blocks : doc0.blocks[i].id = doc0.blocks[j].id => i = j

-----------------------------------------------------------------------------
(* The dump.                                                               *)
src(c) == c[1]
dst(c) == c[2]
Id(p) == p[1]

\* getObjSetFromFlowList: a topology is not among the objects of its own flows.
BlocksOf(h) == {Id(p) : p \in UNION {{src(f), dst(f)} : f \in dumpFlows[h]}} \ {h}

blockIsHier(b) == b \in Hiers

\* dumpJSON, before it is flattened.
DumpInit ==
  /\ dumpFlows \in Hierarchies
  /\ dumpBlocks = BlocksOf(Top) /\ connections = dumpFlows[Top] /\ dumpFlat = FALSE

resolveSrc(p) ==
  IF Id(p) \notin dumpBlocks THEN {}
  ELSE IF ~ blockIsHier(Id(p)) THEN {p}
  ELSE {src(f) : f \in {g \in dumpFlows[Id(p)] : dst(g) = p /\ Id(src(g)) # Id(p)}}

resolveDst(p) ==
  IF Id(p) \notin dumpBlocks THEN {}
  ELSE IF ~ blockIsHier(Id(p)) THEN {p}
  ELSE {dst(f) : f \in {g \in dumpFlows[Id(p)] : src(g) = p /\ Id(dst(g)) # Id(p)}}

FlatBlocks == UNION {IF blockIsHier(b) THEN BlocksOf(b) ELSE {b} : b \in dumpBlocks}

Resolved == UNION {resolveSrc(src(c)) \X resolveDst(dst(c)) : c \in connections}

\* Mutant: connections that stay inside of a topology are forgotten.
NoInternal(h) == {}

Internal(h) == {f \in dumpFlows[h] : Id(src(f)) # h /\ Id(dst(f)) # h}

PassThrough(h) ==
  {<<src(x[2]), dst(x[3])>> : x \in
    {y \in dumpFlows[h] \X connections \X connections :
       /\ Id(src(y[1])) = h /\ Id(dst(y[1])) = h
       /\ dst(y[2]) = src(y[1]) /\ src(y[3]) = dst(y[1])}}

flattenDump ==
  /\ ~ dumpFlat
  /\ connections' = Resolved \union
       UNION {Internal(h) \union PassThrough(h) : h \in dumpBlocks \intersect Hiers}
  /\ dumpBlocks' = FlatBlocks /\ dumpFlat' = (dumpBlocks \intersect Hiers = {})
  /\ UNCHANGED dumpFlows

DumpNext == flattenDump
DumpSpec == DumpInit /\ [][DumpNext]_dumpVars

-----------------------------------------------------------------------------
(* What the hierarchy describes.  A port of a topology is left on its      *)
(* other side: an input of h is the source of flows in h, and an output of *)
(* h the source of flows in the topology that h is in.                     *)
Below == UNION {{<<h, f>> : f \in dumpFlows[h]} : h \in Hiers \union {Top}}

RECURSIVE Inside(_)
Inside(s) ==
  LET t == s \union UNION {BlocksOf(h) : h \in s \intersect (Hiers \union {Top})}
  IN  IF t = s THEN s ELSE Inside(t)
Used == Inside({Top})

\* The flows that go on where <<level, flow>> arrives.
After(x) ==
  LET o == Id(dst(x[2]))
  IN  {y \in Below : src(y[2]) = dst(x[2]) /\
         IF o = x[1] THEN y[1] # o   \* out of the topology
         ELSE o \in Hiers /\ y[1] = o}

RECURSIVE Reached(_)
Reached(s) == LET t == s \union UNION {After(x) : x \in s} IN IF t = s THEN s ELSE Reached(t)

HierConnections ==
  UNION {{<<src(x[2]), dst(y[2])>> : y \in {z \in Reached({x}) : Id(dst(z[2])) \notin Hiers \union {Top}}} :
           x \in {z \in Below : z[1] \in Used /\ Id(src(z[2])) \notin Hiers \union {Top}}}

(* The flat dump has the processing blocks of the hierarchy and the        *)
(* connections between them that it describes, and only them, also those   *)
(* that cross several topologies on their way.                             *)
FlatExact ==
  dumpFlat => connections = HierConnections /\ dumpBlocks = Used \ (Hiers \union {Top})
=============================================================================
