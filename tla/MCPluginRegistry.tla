-------------------------- MODULE MCPluginRegistry --------------------------
(* The plugin registry, the loading of modules and of configurations into  *)
(* it, the JIT compiler, and what the plugins are made of: classes and     *)
(* calls, objects, conversions, archives and logs.  They have no state in  *)
(* common: part says which of them runs, and the others stay in their      *)
(* initial states.                                                         *)
EXTENDS PluginRegistry, ObjectRefs, Logger, TLC

CONSTANTS Parts, Nothing

VARIABLES
  part,
  time, cache, fileLock, copy, main, library, loadPc, loadedAs, loadedModules, conf, loadRegistry,
  hasty, left, confPaths, loadFaults,
  jitRegistry, docs, handle, handles, terminated, mutex, jitLock, source, jitLibrary, built, reads, jitPc, path,
  current, loads, edits, jitCalls, failures,
  committed, converters, classMap, convertMap, last, builder,
  from, to, isVec, input, at, cur, out, numPc,
  callee, boundArgs, inputs, result,
  type, item, value, bytes, pos, bits, shift, archivePc, entryMap, wire, sent, outcome

-----------------------------------------------------------------------------
(* The conversions with one converter of the runtime library, one of a     *)
(* module that also brings a handler, one of a user; and a handler and a   *)
(* plugin below it that two users add.                                     *)
convert == <<"convert">>
intFloat == <<"convert", "int_float">>
floatText == <<"convert", "float_text">>
textInt == <<"convert", "text_int">>
ext == <<"ext">>
tool == <<"ext", "tool">>
toolPlugin == <<"ext", "tool", "plugin">>

MCPaths == {convert, intFloat, floatText, textInt, ext, tool, toolPlugin}
MCHandlers == {convert, ext, tool}
MCCore == {convert, intFloat}
MCKeys == [p \in MCPaths |->
  CASE p = intFloat -> {"if"} [] p = floatText -> {"ft", "tf"} [] p = textInt -> {"ti"}
    [] p = toolPlugin -> {"tool"} [] OTHER -> {}]
MCStatics == [m \in {"m", "broken"} |-> IF m = "m" THEN <<floatText, ext>> ELSE <<>>]
MCUsers == [t \in {"t1", "t2"} |-> IF t = "t1" THEN {textInt, tool} ELSE {toolPlugin}]

-----------------------------------------------------------------------------
(* Two processes and two modules.  The new version of m1 ends any process  *)
(* that loads it.                                                          *)
MCEscape == "m1" :> "_m1_so" @@ "m2" :> "_m2_so" @@ "lib" :> "_lib_so"
MCMaxTime == "m1" :> 1 @@ "m2" :> 0
Load == INSTANCE Loading WITH
  Procs <- {"p1", "p2"}, Modules <- {"m1", "m2"}, Confs <- {}, None <- Nothing, Library <- "lib",
  Escape <- MCEscape, LoaderOf <- <<>>, Destructive <- {<<"m1", 1, 0>>, <<"m1", 1, 1>>},
  MaxTime <- MCMaxTime, MaxLibraryTime <- 1, MaxFaults <- 1,
  pc <- loadPc, modules <- loadedModules, registry <- loadRegistry, faults <- loadFaults

(* A process with two configuration files, one with a loader of the        *)
(* runtime library and one with a loader of a module.                      *)
Configs == INSTANCE Loading WITH
  Procs <- {"p1"}, Modules <- {"m1", "m2"}, Confs <- {"c1", "c2"}, None <- Nothing, Library <- "lib",
  Escape <- MCEscape, LoaderOf <- "c1" :> "lib" @@ "c2" :> "m2", Destructive <- {<<"m1", 1, 0>>, <<"m1", 1, 1>>},
  MaxTime <- MCMaxTime, MaxLibraryTime <- 1, MaxFaults <- 2,
  pc <- loadPc, modules <- loadedModules, registry <- loadRegistry, faults <- loadFaults

\* A unit of two factories, the path of one of which may be taken.
JIT == INSTANCE JITCompiler WITH
  Factories <- <<"f", "g">>, Taken <- {"g"}, Threads <- {"t1", "t2"}, None <- Nothing, Other <- "other",
  MayFail <- TRUE, MaxEdits <- 2, MaxCalls <- 4, MaxCompiles <- 1,
  registry <- jitRegistry, fileLock <- jitLock, library <- jitLibrary, pc <- jitPc, calls <- jitCalls

(* A class D with bases A and B.  D converts from int (a constructor with  *)
(* one argument), A overloads f, a body of which throws, and B has an      *)
(* opaque g.                                                               *)
Class(bases, ctors, f, g, opaque, throws) ==
  [bases |-> bases, constructors |-> ctors, methods |-> [f |-> f, g |-> g],
   opaque |-> opaque, wildcard |-> FALSE, throws |-> throws]
MCRegistration ==
  [A |-> Class(<<>>, << <<>> >>, << <<"int">>, <<"double">> >>, <<>>, {}, {2}),
   B |-> Class(<<>>, << <<>> >>, << <<"double">> >>, << <<"int">> >>, {"g"}, {}),
   D |-> Class(<<"A", "B">>, << <<"int">>, <<"double">> >>, <<>>, << <<"D">> >>, {}, {})]
Classes == INSTANCE Managed WITH
  Plain <- {"int", "double", "float"}, Classes <- {"A", "B", "D"}, Registration <- MCRegistration,
  Paths <- {"P", "Q", "R"}, Conversions <- {<<"int", "double">>, <<"float", "int">>},
  Hash <- [int |-> 1, double |-> 2, float |-> 3, A |-> 4, B |-> 5, D |-> 6],
  Calls <- ({"A", "D"} \X {"f"} \X {<<"int">>, <<"float">>, <<"double">>}) \union ({"D"} \X {"g"} \X {<<>>, <<"int">>}),
  Built <- {"A", "B"}, MaxEntries <- 4, BasesFirst <- TRUE

(* int of 3 bits, long long of 5, float of 2 digits, double of 3: as in    *)
(* the code a double holds every int and not every long long, a float not  *)
(* every int.                                                              *)
Whole(n, size, lo, hi) ==
  [name |-> n, int |-> TRUE, complex |-> FALSE, size |-> size, lowest |-> lo, max |-> hi, precision |-> 0]
Floating(n, c, size, p, hi) ==
  [name |-> n, int |-> FALSE, complex |-> c, size |-> size, lowest |-> -hi, max |-> hi, precision |-> p]
sint == Whole("sint", 4, -4, 3)
uint == Whole("uint", 4, 0, 7)
sllong == Whole("sllong", 8, -16, 15)
ullong == Whole("ullong", 8, 0, 31)
float == Floating("float", FALSE, 4, 2, 96)
double == Floating("double", FALSE, 8, 3, 224)
cfloat == Floating("cfloat", TRUE, 8, 2, 96)
cdouble == Floating("cdouble", TRUE, 16, 3, 224)
MCTypes == {sint, uint, sllong, ullong, float, double, cfloat, cdouble}
MCInterm == [y \in MCTypes |->
  CASE y \in {sint, sllong} -> sllong [] y \in {uint, ullong} -> ullong
    [] y \in {float, double} -> double [] OTHER -> cdouble]
MCDirect == {<<x, y>> \in MCTypes \X MCTypes : x # y /\ (MCInterm[x] = x \/ MCInterm[x] = y)}
(* All pairs of types but those that may give a value at the limit of a    *)
(* 64-bit type, or one too large for a complex float.                      *)
MCPairs == {<<x, y>> \in MCTypes \X MCTypes :
              /\ x # y
              /\ ~ (x \in {ullong, float, double, cfloat, cdouble} /\ y \in {sllong, ullong})
              /\ ~ (x \in {double, cdouble} /\ y = cfloat)}
Numbers == INSTANCE NumericConvert WITH
  DoublePrecision <- 3, Interm <- MCInterm, Direct <- MCDirect, Pairs <- MCPairs,
  Reals <- -17 .. 34 \cup {64, 96, 224, -224, 1000}, Imags <- {0, 1}, Infinity <- 1000, NaN <- 5000,
  MaxLen <- 2, pc <- numPc

\* Three arguments, the second of which takes one of the two objects only.
Calling == INSTANCE Callable WITH
  NumArgs <- 3, MaxArgNo <- 4, MaxInputs <- 4, Values <- {"v1", "v2"}, Null <- Nothing,
  Fits <- <<{"v1", "v2"}, {"v1"}, {"v1", "v2"}>>

\* Bytes of 3+1 bits, int of 8 bits, long of 12, short of 2 bytes; no long signed type.
Archived(n, s, b, sh) == [name |-> n, signed |-> s, bits |-> b, short |-> sh]
int == Archived("int", TRUE, 8, FALSE)

(* Objects in objects: null, in lists, maps, labels and packets, behind a  *)
(* proxy.  The receiver has for a hash of a type a number that the sender  *)
(* has for another type.                                                   *)
Obj(e, v) == [type |-> e, value |-> v]
bitSet == Obj("set", {<<TRUE, <<1, 0>>>>, <<FALSE, <<0, 0>>>>})
list == Obj("list", <<bitSet, Nothing, Obj("list", <<>>)>>)
proxy == Obj("proxy", [env |-> <<1, 1>>, obj |-> list])
packet(c, m, l) == Obj("packet", <<c, m, l>>)
chunk == [buffer |-> <<5, 6, 7>>, dtype |-> <<3, 1, 1>>]
MCObjects == {bitSet, list, proxy, Nothing,
  packet(Nothing, <<>>, <<>>),
  packet(chunk, <<1>> :> list @@ <<1, 2>> :> proxy, << <<<<4>>, bitSet, 2, 1>>, <<<<>>, Nothing, 0, 1>> >>)}

Archive == INSTANCE ArchiveNumbers WITH
  Sender <- "p1", Receiver <- "p2", Entries <- {"set", "list", "proxy", "packet"},
  ValueType <- [set |-> <<"set", <<"pair", <<"bool">>, <<"complex">>>>>>,
                list |-> <<"vector", <<"object">>>>, proxy |-> <<"proxy">>, packet |-> <<"packet">>],
  TypeHash <- [p1 |-> [set |-> 11, list |-> 12, proxy |-> 13, packet |-> 14],
               p2 |-> [set |-> 12, list |-> 11, proxy |-> 14, packet |-> 15]],
  IdHash <- [set |-> 21, list |-> 22, proxy |-> 23, packet |-> 24],
  Unsigned <- 256, Objects <- MCObjects, Null <- Nothing, MaxSent <- 2,
  Payload <- 3, IntBits <- 8,
  Types <- {int, Archived("uint", FALSE, 8, FALSE),
            Archived("ulong", FALSE, 12, FALSE), Archived("short", TRUE, 8, TRUE),
            Archived("ushort", FALSE, 8, TRUE)},
  t <- bits, pc <- archivePc

ASSUME PartsAssumption ==
  /\ Load!LoadingAssumption /\ Configs!LoadingAssumption /\ JIT!JITAssumption /\ Calling!CallableAssumption
  /\ Archive!WidthsAssumption /\ Archive!ObjectsAssumption /\ LoggerAssumption /\ Separate

-----------------------------------------------------------------------------
loadVars == <<time, cache, fileLock, copy, main, library, loadPc, loadedAs, loadedModules, conf,
              loadRegistry, hasty, left, confPaths, loadFaults>>
jitVars == <<jitRegistry, docs, handle, handles, terminated, mutex, jitLock, source, jitLibrary, built, reads, jitPc,
             path, current, loads, edits, jitCalls, failures>>
classVars == <<committed, converters, classMap, convertMap, last>>
numVars == <<from, to, isVec, input, at, cur, out, numPc>>
callVars == <<callee, boundArgs, inputs, result>>
numberVars == <<type, item, value, bytes, pos, bits, shift, archivePc>>
objectVars == <<entryMap, wire, sent, outcome>>
archiveVars == <<numberVars, objectVars>>
plugins == <<vars, loadVars, jitVars, builder>>
values == <<classVars, numVars, callVars, refVars, archiveVars, logVars>>
all == <<part, plugins, values>>

\* A part that does not run is in one of the states it may start in.
MCInit ==
  /\ part \in Parts
  /\ Init /\ (part # "registry" => Head(todo[Main]) = Job("add", convert))
  /\ part # "jit" => jitRegistry = [p \in {"f", "g"} |-> "none"]
  /\ IF part = "configs" THEN Configs!Init ELSE Load!Init
  /\ JIT!Init /\ Classes!Init /\ Classes!BuildInit /\ Calling!Init /\ RefsInit /\ LogInit
  /\ part # "numbers" => from = sint /\ to = uint /\ isVec = FALSE /\ input = <<<<0, 0>>>>
  /\ Numbers!Init
  /\ part # "archive" => type = int /\ item = 0
  /\ Archive!Init /\ Archive!ObjectsInit

MCNext ==
  \/ part = "registry" /\ Next /\ UNCHANGED <<part, loadVars, jitVars, builder, values>>
  \/ part = "loading" /\ Load!Next /\ UNCHANGED <<part, vars, jitVars, builder, values>>
  \/ part = "configs" /\ Configs!Next /\ UNCHANGED <<part, vars, jitVars, builder, values>>
  \/ part = "jit" /\ JIT!Next /\ UNCHANGED <<part, vars, loadVars, builder, values>>
  \/ part = "classes" /\ Classes!Next
     /\ UNCHANGED <<part, plugins, numVars, callVars, refVars, archiveVars, logVars>>
  \/ part = "registration" /\ Classes!BuildNext /\ UNCHANGED <<part, vars, loadVars, jitVars, values>>
  \/ part = "numbers" /\ Numbers!Next
     /\ UNCHANGED <<part, plugins, classVars, callVars, refVars, archiveVars, logVars>>
  \/ part = "calls" /\ Calling!Next
     /\ UNCHANGED <<part, plugins, classVars, numVars, refVars, archiveVars, logVars>>
  \/ part = "refs" /\ RefsNext
     /\ UNCHANGED <<part, plugins, classVars, numVars, callVars, archiveVars, logVars>>
  \/ part = "archive" /\ Archive!Next
     /\ UNCHANGED <<part, plugins, classVars, numVars, callVars, refVars, objectVars, logVars>>
  \/ part = "objects" /\ Archive!ObjectsNext
     /\ UNCHANGED <<part, plugins, classVars, numVars, callVars, refVars, numberVars, logVars>>
  \/ ((part = "logs" /\ (SetupNext \/ StreamNext)) \/ (part = "listener" /\ (SetupNext \/ StopNext)))
     /\ UNCHANGED <<part, plugins, classVars, numVars, callVars, refVars, archiveVars>>

MCSpec == MCInit /\ [][MCNext]_all

-----------------------------------------------------------------------------
(* ModuleLoader does not load again what ended a process, forgets no mark  *)
(* of a success that others rely on, and deinit leaves no plugin without   *)
(* the code of its loader.  In the JIT loader one thread of all processes  *)
(* compiles, nobody loads a library that is being written, and what is     *)
(* loaded is as new as the sources were.                                   *)
LoadingSound ==
  /\ [](IF part = "configs"
        THEN Configs!TypeOK /\ Configs!NoDestructiveLoad /\ Configs!CodeOfPlugins /\ Configs!EntriesRemoved
        ELSE Load!TypeOK /\ Load!NoDestructiveLoad)
  /\ Load!MarksKept
  /\ [](JIT!TypeOK /\ JIT!OneCompiles /\ JIT!NoMixture) /\ JIT!LoadedFresh

(* A call of a managed class finds a method if there is one that takes the *)
(* arguments, and runs one body once; what is registered of a class is of  *)
(* that class; a Callable puts bound and given arguments in their places.  *)
CallsSound ==
  /\ Classes!TablesFollow /\ Classes!FoundIfAny /\ Classes!RunsOnce /\ Classes!OfOneClass
  /\ Classes!BlockCallFound
  /\ Calling!Described /\ Calling!CallPlaces

(* Conversions of numbers keep the value or throw, and throw only for what *)
(* does not fit; a number is loaded from an archive as it was saved, and   *)
(* no shorter archive of it would do; an object is received as it was sent *)
(* to a process that knows the types in it.                                *)
NumbersKept ==
  /\ Numbers!ValueKept /\ Numbers!OnlyMisfitsThrow
  /\ Archive!RoundTrip /\ Archive!Shortest /\ Archive!ObjectsArrive
=============================================================================
