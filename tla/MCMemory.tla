------------------------------ MODULE MCMemory ------------------------------
(* The reader-writer lock and the tables it protects, the ring, the buffer *)
(* managers and the chunks that refer to their buffers, shared and mapped  *)
(* memory, and the conversion of chunks with what it is compiled for.      *)
(* They have no state in common: part says which of them runs, and the     *)
(* others stay in their initial states, or have none.                      *)
EXTENDS SpinLockRW, BufferManagers, RingDeque, BufferChunks, TypeRegistries, TLC

CONSTANT Parts

VARIABLES
  part,
  memory, mutex, circPc, try, cont, faults,
  buffer, parent,
  system, file, impl, lost, changes, space, mapPc, own, wasted, failures,
  types, maps, isa, source, asked, result,
  platform, cpu, header, supported, chosen

\* Nobody else maps memory: two threads and every fault.
Circular == INSTANCE CircularContainer WITH
  Threads <- {"t1", "t2"}, Others <- {}, None <- Nothing, Pages <- 8, Half <- 2,
  NumRetries <- 3, MaxFaults <- 4, pc <- circPc
\* Another part of the process maps memory without the mutex.
Crowded == INSTANCE CircularContainer WITH
  Threads <- {"t1", "t2"}, Others <- {"o"}, None <- Nothing, Pages <- 5, Half <- 1,
  NumRetries <- 2, MaxFaults <- 1, pc <- circPc

\* One thread has a place for a chunk, the other three.
MCSlots == "t1" :> {1} @@ "t2" :> {1, 2, 3}

Mapped == INSTANCE MappedMemory WITH
  Systems <- {"unix", "windows"}, Sizes <- {0, 1, 2}, Threads <- {"t1", "t2"}, Others <- {"o"},
  None <- Nothing, Regions <- 6, RegionSize <- 2, Requests <- {0, 1, 3}, MaxFaults <- 2, MaxChanges <- 2,
  Word <- 32, Base <- 3, N <- 4, MaxEnd <- 20, memory <- space, pc <- mapPc

(* An instruction set with few conversions of its own, and one with all,   *)
(* the 64-bit ones through floating point among them.                      *)
Narrow == [
  fast |-> [b \in {1, 2, 4, 8} |-> 2],
  simd |-> {<<FALSE, 1>>, <<FALSE, 2>>, <<FALSE, 4>>, <<TRUE, 4>>}, conversions |-> {}]
Wide == [
  fast |-> [b \in {1, 2, 4, 8} |-> IF b < 8 THEN 4 ELSE 2], simd |-> BOOLEAN \X {1, 2, 4, 8},
  conversions |-> {"int64 to float", "float to int64", "float to uint64", "float to uint32"} \X {4, 8}]
Converting == INSTANCE BufferConvert WITH
  LongBytes <- 8, Isas <- {Narrow, Wide}, Dimensions <- {1, 2}, Elements <- {0, 5}, Nums <- {0, 3},
  Junk <- -1, Zero <- -2, Unknown <- -1, NoDim <- 0, chunk <- source

MCPlatforms == {"x86", "arm", "arm64", "ppc", "mips", "none"}
MCBuilds(p) ==
  CASE p = "x86" ->
         {<<>>, << <<"x86_avx2">>, <<"x86_fma4">> >>,
          << <<"x86_sse2">>, <<"x86_sse2", "x86_sse3">>, <<"x86_sse2", "x86_sse3", "x86_popcnt", "x86_avx">>,
             <<"x86_avx512f">> >>}
    [] p \in {"arm", "arm64"} -> {<< <<"neon">>, <<"neon", "neonfltsp">> >>}
    [] p = "ppc" -> {<< <<"power_altivec">>, <<"power_vsx_206">>, <<"power_vsx_207">> >>}
    [] p = "mips" -> {<< <<"mips_msa">> >>}
    [] OTHER -> {<<>>}
Dispatch == INSTANCE SIMDDispatch WITH
  Platforms <- MCPlatforms, Bits <- (0..6) \union {8, 10}, Separator <- "__",
  Builds <- [p \in MCPlatforms |-> MCBuilds(p)],
  Functions <- {[name |-> "clamp", paramTypes |-> <<>>], [name |-> "convert", paramTypes |-> <<"In", "Out">>]}

-----------------------------------------------------------------------------
(* Three scenes around the tables of types: texts of a list and of a box   *)
(* with something inside; comparisons of boxes by what is inside, by       *)
(* numbers over a conversion in between and without a function, with       *)
(* events of two threads; and containers of proxies, some of another       *)
(* environment, hash codes, and a function with another signature.         *)
Function(path, table, returns, args) ==
  [path |-> path, table |-> table, object |-> "callable", returns |-> returns, args |-> args,
   env |-> "managed", class |-> Nothing, calls |-> <<>>, container |-> "no", items |-> <<>>, text |-> <<path>>]
Operation(table, a, b) == [table |-> table, a |-> a, b |-> b, foreign |-> FALSE]
Calling(function, calls) == [function EXCEPT !.calls = calls]
Converter(function, container, items) == [function EXCEPT !.container = container, !.items = items]
Pair(path, env, class) ==
  [Function(path, "local", "object", <<"proxy">>) EXCEPT !.object = "pair", !.env = env, !.class = class]

MCTexts == [
  plugins |-> {
    Calling(Function("box", "tostring", "string", <<"box">>), <<Operation("tostring", "unit", Nothing)>>),
    Function("unit", "tostring", "string", <<"unit">>),
    Function("list", "convert", "objects", <<"list">>)},
  ops |-> {Operation("tostring", x, Nothing) : x \in {"list", "box"}},
  readers |-> {"r1", "r2"}, senders |-> {"h1"}, events |-> 1, missing |-> 3]
MCOrders == [
  plugins |-> {
    Calling(Function("boxes", "compare", "int", <<"box", "box">>), <<Operation("compare", "unit", "unit")>>),
    Function("units", "compare", "int", <<"unit", "unit">>),
    Function("number", "convert", "double", <<"unit">>),
    Function("inside", "convert", "unit", <<"box">>)},
  ops |-> {Operation("compare", "box", "box")},
  readers |-> {"r1"}, senders |-> {"h1", "h2"}, events |-> 2, missing |-> 2]
MCProxies == [
  plugins |-> {
    Converter(Function("vector", "convert", "objects", <<"proxies">>), "objects", <<"unit", "box">>),
    Converter(Function("back", "convert", "proxies", <<"objects">>), "proxies", <<"unit", "unit">>),
    Pair("unit", "managed", "unit"),
    Calling(Pair("far", "python", "unit"), <<Operation("proxy", "managed", "unit")>>),
    Function("to", "proxy", "proxy", <<"env", "unit">>),
    Function("hash", "hash", "size", <<"unit">>),
    Function("odd", "hash", "int", <<"unit">>)},
  ops |-> {Operation("hash", "unit", Nothing),
           Operation("convert", "proxies", "objects"), Operation("convert", "objects", "proxies"),
           [Operation("local", "managed", "unit") EXCEPT !.foreign = TRUE]},
  readers |-> {"r1"}, senders |-> {"h1"}, events |-> 1, missing |-> 1]

Obj(type, value, imag, items) == [type |-> type, value |-> value, imag |-> imag, items |-> items]
Flat(type, value) == Obj(type, value, 0, <<>>)
Box(type, items) == Obj(type, 0, 0, items)
s1 == Flat("string", 1)
s2 == Flat("string", 2)
n1 == Flat("number", 1)
unit == Flat("unit", 0)
Flats ==
  {Flat("bool", 0), Flat("bool", 1), s1, s2, n1, Flat("number", -2), unit, Flat("complex", 2)}
    \union {Obj("complex", 1, 2, <<>>), Obj("complex", 1, -2, <<>>), Obj("complex", 0, 2, <<>>)}
Boxes ==
  {Box(type, items) : type \in {"vector", "set"},
     items \in {<<>>, <<n1>>, <<s2>>, <<n1, s2>>, <<Flat("bool", 1), s1>>, <<unit>>, <<unit, n1>>}}
    \union {Box("map", items) : items \in {<<>>, <<s1, n1>>, <<n1, s1, s2, Obj("complex", 1, 2, <<>>)>>}}
MCObjects == Flats \union Boxes \union
  {Box("vector", <<o, p>>) : o, p \in {Box("vector", <<>>), Box("set", <<n1>>)}}
MCScenes == {MCTexts, MCOrders, MCProxies}
MCElements == [x \in {"number", "unit", "box", "list"} |-> IF x = "list" THEN <<"number", "unit">> ELSE <<>>]
MCForeign == "managed" :> "python"
MCStrings == <<"1", "true">>

-----------------------------------------------------------------------------
ASSUME PartsAssumption ==
  /\ ManagerAssumption /\ RingAssumption
  /\ Circular!CircAssumption /\ Crowded!CircAssumption
  /\ ChunksAssumption /\ Mapped!MappedAssumption /\ Converting!ConvertAssumption
  /\ Dispatch!DispatchAssumption /\ RegistriesAssumption

circular == <<memory, mutex, circPc, try, cont, faults>>
mapped == <<system, file, impl, lost, changes, space, mapPc, own, wasted, failures, buffer, parent>>
converting == <<types, maps, isa, source, asked, result>>
dispatch == <<platform, cpu, header, supported, chosen>>
small == <<vars, mgrVars, ring, circular>>
large == <<chunkVars, mapped, converting, dispatch, tableVars>>
all == <<part, small, large>>

\* The parts that have no state unless they run.
NoConverting ==
  /\ types = Nothing /\ maps = Nothing /\ isa = Nothing /\ source = Nothing /\ asked = Nothing
  /\ result = Nothing
NoDispatch ==
  /\ platform = Nothing /\ cpu = Nothing /\ header = Nothing /\ supported = Nothing /\ chosen = Nothing
\* Buffers and tables that exist from the start, and that nobody uses.
NoChunks == ChunksInit /\ ~ looped
NoTables == TablesInit /\ scene = MCTexts /\ registered = {}

MCInit ==
  /\ part \in Parts /\ Init /\ RingInit
  /\ IF part = "managers" THEN MgrInit
     ELSE mgr = GenericInit /\ live = {} /\ written = 0
  /\ IF part = "crowded" THEN Crowded!Init ELSE Circular!Init
  /\ Mapped!Init /\ (part # "files" => system = "windows" /\ file = Mapped!NoFile)
  /\ (part # "sub" => buffer = Mapped!PlainBuffer)
  /\ IF part = "chunks" THEN ChunksInit ELSE NoChunks
  /\ IF part = "converting" THEN Converting!Init ELSE NoConverting
  /\ IF part = "dispatch" THEN Dispatch!Init ELSE NoDispatch
  /\ IF part = "tables" THEN TablesInit ELSE NoTables

MCNext ==
  \/ part = "lock" /\ Next /\ UNCHANGED <<part, mgrVars, ring, circular, large>>
  \/ part = "managers" /\ MgrNext /\ UNCHANGED <<part, vars, ring, circular, large>>
  \/ part = "ring" /\ RingNext /\ UNCHANGED <<part, vars, mgrVars, circular, large>>
  \/ part = "circular" /\ Circular!Next /\ UNCHANGED <<part, vars, mgrVars, ring, large>>
  \/ part = "crowded" /\ Crowded!Next /\ UNCHANGED <<part, vars, mgrVars, ring, large>>
  \/ part = "sub" /\ Mapped!SubNext /\ UNCHANGED <<part, small, chunkVars, converting, dispatch, tableVars>>
  \/ part = "chunks" /\ ChunksNext /\ UNCHANGED <<part, small, mapped, converting, dispatch, tableVars>>
  \/ part = "files" /\ Mapped!FileNext /\ UNCHANGED <<part, buffer, parent, small, chunkVars, converting, dispatch, tableVars>>
  \/ part = "windows" /\ Mapped!MemoryNext /\ UNCHANGED <<part, buffer, parent, small, chunkVars, converting, dispatch, tableVars>>
  \/ part = "converting" /\ Converting!Next /\ UNCHANGED <<part, small, chunkVars, mapped, dispatch, tableVars>>
  \/ part = "dispatch" /\ Dispatch!Next /\ UNCHANGED <<part, small, chunkVars, mapped, converting, tableVars>>
  \/ part = "tables" /\ TablesNext /\ UNCHANGED <<part, small, chunkVars, mapped, converting, dispatch>>

MCSpec == MCInit /\ [][MCNext]_all

-----------------------------------------------------------------------------
(* makeCirc maps both halves of a buffer to the same pages, on Unix and on *)
(* Windows; an attempt that failed leaves nothing, and takes nothing that  *)
(* others have mapped; a mapped file is as long as its container says, and *)
(* a constructor that throws leaves it and every handle closed; and        *)
(* SharedBuffers made from SharedBuffers keep the distance of their alias  *)
(* and, when not circular, stay inside of the one they are made from.      *)
SharedMemorySound ==
  /\ [](part = "circular" => Circular!TypeOK /\ Circular!DoubleMapped /\ Circular!CleanedUp)
  /\ [](part = "crowded" => Crowded!TypeOK /\ Crowded!CleanedUp)
  /\ Crowded!OthersKept
  /\ [](part = "sub" => Mapped!AliasApart /\ Mapped!PlainInside)
  /\ [](part = "files" => Mapped!FailuresRelease /\ Mapped!ViewInFile)
  /\ [](part = "windows" => Mapped!HalvesAlike /\ Mapped!NothingLeft)
  /\ Mapped!AliensKept

(* A DType says what it was made of; a chunk is converted element by       *)
(* element, the frames of the vector unit and the rest, by one converter   *)
(* for each pair of types, or refused; and the function that the           *)
(* dispatcher chooses is the best one that the processor can run.  Texts,  *)
(* orders and hash codes tell objects apart.                               *)
ConversionsRight ==
  /\ part = "converting" =>
       /\ Converting!DTypeFaithful /\ Converting!OneOverload
       /\ Converting!ElementsConverted /\ Converting!ThrowsWhenImpossible
  /\ part = "dispatch" => Dispatch!OptimalRunnable /\ Dispatch!HeaderCloses
  /\ part = "tables" => TextsTell /\ KeysKept /\ OrderSound
=============================================================================
