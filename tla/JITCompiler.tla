---------------------------- MODULE JITCompiler ----------------------------
(***************************************************************************)
(* The JIT compiler's configuration loader.  It registers a factory for    *)
(* each path of a compilation unit; the first call of one compiles the     *)
(* sources, unless the library on disk is newer, removes all registrations *)
(* of the unit and loads the library, which registers the paths again.     *)
(*                                                                         *)
(* Threads call factories at the same time; another process may compile    *)
(* the same unit.  The sources may be edited at any time, also while they  *)
(* are compiled: the compiler reads them first, and the library gets its   *)
(* time when it is written.  Times are counted in edits.                   *)
(***************************************************************************)
EXTENDS Naturals, Sequences, FiniteSets, SequencesExt

CONSTANTS
  Factories,  \* the factory paths of the unit, in order
  Taken,      \* the paths that another plugin may have registered before
  Threads, None,
  Other,      \* the other process
  MayFail,  \* may the loading of a library fail?
  MaxEdits, MaxCalls, MaxCompiles   \* bounds: edits of the sources, calls, failed compilations

UnitPaths == Range(Factories)
NoLibrary == 0

JITAssumption ==
  /\ Taken \subseteq UnitPaths /\ IsInjective(Factories)
  /\ None \notin Threads \union {Other} /\ Other \notin Threads

VARIABLES
  registry,   \* who registered each factory path: "none", "other", "jit" or "module"
  docs,       \* the paths with a registered description
  handle,     \* the RegistryJITResult: factories, the module's version, saved exception
  handles,    \* is the handle in the registry?
  terminated, \* an exception left a destructor
  mutex, fileLock,
  source, library, \* the times of the sources and of the library on disk
  built,      \* the time of the sources that the library was compiled of
  reads,      \* the time of the sources that each compiler has read
  pc, path,   \* where a thread's call is, and which factory it calls
  current,    \* history: the sources when a thread looked whether to compile
  loads,      \* how often the library was loaded
  edits, calls, failures

files == <<fileLock, source, library, built, reads>>
bounds == <<edits, calls, failures>>
vars == <<registry, docs, handle, handles, terminated, mutex, files, pc, path, current, loads, bounds>>

NewHandle == [factories |-> {}, module |-> NoLibrary, exception |-> FALSE]

Init ==
  /\ registry \in [UnitPaths -> {"none", "other"}] /\ \A p \in UnitPaths \ Taken : registry[p] = "none"
  /\ docs = {} /\ handle = NewHandle /\ handles = FALSE /\ terminated = FALSE
  /\ mutex = None /\ fileLock = None /\ source = 1 /\ library = NoLibrary
  /\ built = NoLibrary /\ reads = [x \in Threads \union {Other} |-> 0]
  /\ pc = [t \in Threads |-> "idle"] /\ path = [t \in Threads |-> None]
  /\ current = [t \in Threads |-> 0]
  /\ loads = 0 /\ edits = 0 /\ calls = 0 /\ failures = 0

-----------------------------------------------------------------------------
(* JITCompilerLoader.                                                      *)

Unregistered(reg, removed) == [p \in UnitPaths |-> IF p \in removed THEN "none" ELSE reg[p]]

LoadConf ==
  /\ ~ handles /\ docs = {} /\ ~ terminated /\ \A p \in UnitPaths : registry[p] = "none"
  /\ registry' = [p \in UnitPaths |-> "jit"] /\ docs' = UnitPaths /\ handles' = TRUE
  /\ handle' = [NewHandle EXCEPT !.factories = UnitPaths]
  /\ UNCHANGED <<terminated, mutex, files, pc, path, current, loads, bounds>>

(* A path is taken: addCall throws and the handle is destroyed, which      *)
(* removes the registrations of all its factories, in order; to remove one *)
(* that is not there is an exception in the destructor.                    *)
LoadConfFails ==
  /\ ~ handles /\ docs = {} /\ ~ terminated
  /\ \E i \in DOMAIN Factories :
       /\ registry[Factories[i]] # "none"
       /\ \A j \in 1..(i - 1) : registry[Factories[j]] = "none"
       /\ LET absent == {j \in DOMAIN Factories : j > i /\ registry[Factories[j]] = "none"}
              upTo == IF absent = {} THEN Len(Factories) ELSE (CHOOSE j \in absent : \A k \in absent : j <= k)
          IN  /\ registry' = Unregistered(registry, {Factories[j] : j \in 1..upTo})
              /\ terminated' = (absent # {})
  /\ docs' = UnitPaths
  /\ UNCHANGED <<handle, handles, mutex, files, pc, path, current, loads, bounds>>

\* unloadConfFiles: the entries are removed, and with the handle its factories or its module.
UnloadConf ==
  /\ handles /\ \A t \in Threads : pc[t] = "idle"
  /\ handles' = FALSE /\ docs' = {}
  /\ registry' = Unregistered(registry, IF handle.module = NoLibrary THEN handle.factories ELSE UnitPaths)
  /\ handle' = NewHandle /\ loads' = 0
  /\ UNCHANGED <<terminated, mutex, files, pc, path, current, bounds>>

-----------------------------------------------------------------------------
(* A call of BlockRegistry::make and opaqueJITCompilerFactory.             *)

Goto(t, from, to) == pc[t] = from /\ pc' = [pc EXCEPT ![t] = to]

\* PluginRegistry::get of the factory, which throws if there is none.
Call(t, p) ==
  /\ handles /\ calls < MaxCalls /\ calls' = calls + 1
  /\ Goto(t, "idle", CASE registry[p] = "jit" -> "lock"
                       [] registry[p] = "none" -> "missing"
                       [] OTHER -> "made")
  /\ path' = [path EXCEPT ![t] = p]
  /\ UNCHANGED <<registry, docs, handle, handles, terminated, mutex, files, current, loads, edits, failures>>

Lock(t) ==
  /\ Goto(t, "lock", IF handle.exception THEN "unlock" ELSE "fileLock")
  /\ mutex = None /\ mutex' = t
  /\ UNCHANGED <<registry, docs, handle, handles, terminated, files, path, current, loads, bounds>>

FileLockFree == fileLock = None

LockFile(t) ==
  /\ Goto(t, "fileLock", "check") /\ FileLockFree /\ fileLock' = t
  /\ UNCHANGED <<registry, docs, handle, handles, terminated, mutex, source, library, built, reads, path, current, loads, bounds>>

\* Mutant: any library will do.
IfMissing == library = NoLibrary

Recompile == library < source

\* compilationHelper: is the library older than the sources?
Check(t) ==
  /\ Goto(t, "check", IF Recompile THEN "compile" ELSE "load")
  /\ current' = [current EXCEPT ![t] = source]
  /\ UNCHANGED <<registry, docs, handle, handles, terminated, mutex, files, path, loads, bounds>>

\* compileCppModule into a temporary file, which is then moved.
ReadSources(x) == reads' = [reads EXCEPT ![x] = source] /\ UNCHANGED <<library, built>>
WriteLibrary(x) == library' = source /\ built' = reads[x] /\ reads' = [reads EXCEPT ![x] = 0]

Compile(t) ==
  /\ Goto(t, "compile", "compiling") /\ ReadSources(t)
  /\ UNCHANGED <<registry, docs, handle, handles, terminated, mutex, fileLock, source, path, current, loads, bounds>>

Compiled(t) ==
  /\ Goto(t, "compiling", "load") /\ WriteLibrary(t)
  /\ UNCHANGED <<registry, docs, handle, handles, terminated, mutex, fileLock, source, path, current, loads, bounds>>

CompileFails(t) ==
  /\ Goto(t, "compiling", "unlock") /\ failures < MaxCompiles /\ failures' = failures + 1
  /\ handle' = [handle EXCEPT !.exception = TRUE] /\ reads' = [reads EXCEPT ![t] = 0]
  /\ UNCHANGED <<registry, docs, handles, terminated, mutex, fileLock, source, library, built, path, current, loads, edits, calls>>

NotLoaded == handle.module = NoLibrary

\* removeRegistrations, if the module is still to be loaded.
RemoveRegistrations(t) ==
  /\ Goto(t, "load", IF NotLoaded THEN "loading" ELSE "get")
  /\ IF NotLoaded
     THEN /\ registry' = Unregistered(registry, handle.factories)
          /\ handle' = [handle EXCEPT !.factories = {}]
     ELSE UNCHANGED <<registry, handle>>
  /\ UNCHANGED <<docs, handles, terminated, mutex, files, path, current, loads, bounds>>

\* PluginModule(outPath): the library registers its factories.
LoadModule(t) ==
  /\ Goto(t, "loading", "get")
  /\ handle' = [handle EXCEPT !.module = built] /\ loads' = loads + 1
  /\ registry' = [p \in UnitPaths |-> IF registry[p] = "none" THEN "module" ELSE registry[p]]
  /\ UNCHANGED <<docs, handles, terminated, mutex, files, path, current, bounds>>

LoadThrows(t) ==
  /\ MayFail /\ Goto(t, "loading", "unlock")
  /\ UNCHANGED <<registry, docs, handle, handles, terminated, mutex, files, path, current, loads, bounds>>

\* The factory of the module is looked up and called.
Get(t) ==
  /\ Goto(t, "get", "unlock")
  /\ UNCHANGED <<registry, docs, handle, handles, terminated, mutex, files, path, current, loads, bounds>>

FileUnlocked(t) == fileLock' = IF fileLock = t THEN None ELSE fileLock

\* The guards release the file and the mutex, also when an exception passes.
Unlock(t) ==
  /\ Goto(t, "unlock", "made") /\ FileUnlocked(t) /\ mutex' = None
  /\ UNCHANGED <<registry, docs, handle, handles, terminated, source, library, built, reads, path, current, loads, bounds>>

Return(t) ==
  /\ pc[t] \in {"made", "missing"} /\ pc' = [pc EXCEPT ![t] = "idle"]
  /\ path' = [path EXCEPT ![t] = None] /\ current' = [current EXCEPT ![t] = 0]
  /\ UNCHANGED <<registry, docs, handle, handles, terminated, mutex, files, loads, bounds>>

-----------------------------------------------------------------------------
\* The sources are edited.
Edit ==
  /\ edits < MaxEdits /\ edits' = edits + 1 /\ source' = source + 1
  /\ UNCHANGED <<registry, docs, handle, handles, terminated, mutex, fileLock, library, built, reads>>
  /\ UNCHANGED <<pc, path, current, loads, calls, failures>>

\* Another process locks the file, compiles what it has to, and unlocks.
OtherLocks ==
  /\ FileLockFree /\ Recompile /\ fileLock' = Other /\ ReadSources(Other)
  /\ UNCHANGED <<registry, docs, handle, handles, terminated, mutex, source, pc, path, current, loads, bounds>>
OtherCompiles ==
  /\ fileLock = Other /\ fileLock' = None /\ WriteLibrary(Other)
  /\ UNCHANGED <<registry, docs, handle, handles, terminated, mutex, source, pc, path, current, loads, bounds>>

InCall(t) ==
  \/ Lock(t) \/ LockFile(t) \/ Check(t) \/ Compile(t) \/ Compiled(t) \/ CompileFails(t)
  \/ RemoveRegistrations(t) \/ LoadModule(t) \/ LoadThrows(t) \/ Get(t) \/ Unlock(t) \/ Return(t)

Next ==
  \/ LoadConf \/ LoadConfFails \/ UnloadConf \/ Edit \/ OtherLocks \/ OtherCompiles
  \/ \E t \in Threads : InCall(t) \/ \E p \in UnitPaths : Call(t, p)

Spec == Init /\ [][Next]_vars

-----------------------------------------------------------------------------
\* The variables have their types.
TypeOK ==
  /\ registry \in [UnitPaths -> {"none", "other", "jit", "module"}] /\ docs \subseteq UnitPaths
  /\ handle.factories \subseteq UnitPaths /\ handle.module \in 0..source
  /\ mutex \in Threads \union {None} /\ fileLock \in Threads \union {Other, None}
  /\ loads \in 0..1

(* No two compile the unit at once, in one process or in two: what is      *)
(* moved into place is never moved over a library that somebody loads.     *)
Compiling == {t \in Threads : pc[t] \in {"compile", "compiling", "load", "loading"}}
OneCompiles == Cardinality(Compiling \union (IF fileLock = Other THEN {Other} ELSE {})) <= 1

(* The library a call loads is compiled from the sources that the call     *)
(* found, or newer ones, whoever compiled it: unless they were edited      *)
(* while it was compiled, which makes it look newer than it is.            *)
LoadedFresh ==
  [][\A t \in Threads :
       pc[t] = "loading" /\ pc'[t] = "get" /\ built = library => handle'.module >= current[t]]_vars

(* The paths of a unit are all registered by the same, factories that      *)
(* compile or those of the module, whatever calls are under way and        *)
(* whichever step of the first of them failed.                             *)
NoMixture ==
  handles /\ (\A t \in Threads : pc[t] # "loading") =>
    \A p, q \in UnitPaths :
      registry[p] = registry[q] /\ (handle.module # NoLibrary => registry[p] = "module")

(* A registered factory can be called: the registration that compiles is   *)
(* replaced by that of the compiled module.                                *)
FactoryThere == \A t \in Threads : pc[t] # "missing"

\* The plugins of others are not removed, whether or not the configuration can be loaded.
OthersKept == [][\A p \in UnitPaths : registry[p] = "other" => registry'[p] = "other"]_vars
=============================================================================
