------------------------------ MODULE Loading ------------------------------
(***************************************************************************)
(* Pothos::init and deinit: the modules are loaded in futures, each tested *)
(* in a process of its own first unless the cache file says that this was  *)
(* done before; then the configuration files are loaded in futures, with   *)
(* loaders from the runtime library or from the modules.                   *)
(*                                                                         *)
(* The cache is a property file that all processes share.  The mutex of a  *)
(* process and the lock on the file are always taken together, so one      *)
(* variable stands for both; the system frees the lock of a process that   *)
(* dies.  The modification time of a file stands for its contents.         *)
(*                                                                         *)
(* A loader registers its plugins one by one: one that throws after the    *)
(* first leaves them, and nobody has a list of them to remove.  A module   *)
(* may be replaced at any time, also between its test and its loading.     *)
(***************************************************************************)
EXTENDS Naturals, FiniteSets

CONSTANTS
  Procs, Modules, Confs,
  None,
  Library,        \* the runtime library, which tests and loads depend on
  Escape,         \* the key of each file in the cache (two paths may have one key)
  LoaderOf,       \* the module, or the Library, with the loader of a configuration
  Destructive,    \* <<module, its time, time of the library>> that end the process
  MaxTime, MaxLibraryTime, MaxFaults   \* bounds: replacements of each module and of the
                                      \* library; crashes, failed saves and loaders that throw

Files == Modules \union {Library}
CacheKeys == {Escape[f] : f \in Files}

LoadingAssumption ==
  /\ Library \notin Modules /\ DOMAIN Escape = Files
  /\ LoaderOf \in [Confs -> Files]

VARIABLES
  time,      \* getLastModified of each file
  cache,     \* ModuleLoader.cache
  fileLock,  \* who holds the locks of the cache: a future <<p, m>>, or None
  copy,      \* the properties that a future will save to mark its module
  hasty,     \* history: the modules, with their times, that were installed
             \* while a process was between testing and loading that module
  main,      \* where init and deinit are
  library,   \* the time of the library that a process runs with
  pc,        \* where the future of each module is
  loadedAs,  \* the time of the module that was loaded
  modules,   \* InitSingleton::modules
  conf,      \* where the future of each configuration file is
  registry,  \* the configurations of which plugins are registered
  left,      \* history: those whose loaders threw after they registered some
  confPaths, \* InitSingleton::confLoadedPaths
  faults

files == <<time, cache, fileLock, copy, hasty>>
loads == <<pc, loadedAs, modules>>
confs == <<conf, registry, left, confPaths>>
vars == <<files, main, library, loads, confs, faults>>

Futures == Procs \X Modules
NoProperties == [k \in CacheKeys |-> None]
Times == UNION {0..MaxTime[m] : m \in Modules} \union 0..MaxLibraryTime

Init ==
  /\ time = [f \in Files |-> 0] /\ cache = NoProperties
  /\ fileLock = None /\ copy = [x \in Futures |-> NoProperties] /\ hasty = {}
  /\ main = [p \in Procs |-> "gone"] /\ library = [p \in Procs |-> 0]
  /\ pc = [p \in Procs |-> [m \in Modules |-> "idle"]]
  /\ loadedAs = [p \in Procs |-> [m \in Modules |-> None]]
  /\ modules = [p \in Procs |-> {}]
  /\ conf = [p \in Procs |-> [c \in Confs |-> "idle"]]
  /\ registry = [p \in Procs |-> {}] /\ left = [p \in Procs |-> {}]
  /\ confPaths = [p \in Procs |-> {}] /\ faults = 0

Fault == faults < MaxFaults /\ faults' = faults + 1
Goto(p, from, to) == main[p] = from /\ main' = [main EXCEPT ![p] = to]
FutureGoto(p, m, from, to) == pc[p][m] = from /\ pc' = [pc EXCEPT ![p][m] = to]

-----------------------------------------------------------------------------
(* The cache.                                                              *)

\* What the cache says of a module, for the files as they are.
Marked(m) == cache[Escape[Library]] = time[Library] /\ cache[Escape[m]] = time[m]
previousLoadWasSuccessful(m) == Marked(m)

\* Mutant: only the lock on the file, which the threads of a process share.
FileLockOnly(p) == fileLock \in {None} \union ({p} \X Modules)

\* getLoaderMutex and getLoaderFileLock can be locked by a thread of p.
LocksFree(p) == fileLock = None

Check(p, m) ==
  /\ LocksFree(p)
  /\ FutureGoto(p, m, "check", IF previousLoadWasSuccessful(m) THEN "load" ELSE "test")
  /\ UNCHANGED <<files, main, library, loadedAs, modules, confs, faults>>

\* PothosUtil --load-module, in a process that runs with the library of the disk.
Test(p, m) ==
  /\ FutureGoto(p, m, "test",
       IF <<m, time[m], time[Library]>> \in Destructive THEN "failed" ELSE "mark")
  /\ UNCHANGED <<files, main, library, loadedAs, modules, confs, faults>>

\* The properties that are saved: of the library and of the module, as they are now.
MarkedProperties(m) == [cache EXCEPT ![Escape[Library]] = time[Library], ![Escape[m]] = time[m]]

\* markCurrentLoadSuccessful: lock, load the cache, and look at the files' times.
MarkLoad(p, m) ==
  /\ LocksFree(p) /\ FutureGoto(p, m, "mark", "save")
  /\ fileLock' = <<p, m>> /\ copy' = [copy EXCEPT ![<<p, m>>] = MarkedProperties(m)]
  /\ UNCHANGED <<time, cache, hasty, main, library, loadedAs, modules, confs, faults>>

Unlock(p, m) == fileLock' = None /\ copy' = [copy EXCEPT ![<<p, m>>] = NoProperties]

\* A file whose writing ended early has some of the properties.
Partial(props) == {[k \in CacheKeys |-> IF k \in kept THEN props[k] ELSE None] : kept \in SUBSET CacheKeys}

\* markCurrentLoadSuccessful: save and unlock.  A failure to save is ignored.
MarkSave(p, m) ==
  /\ FutureGoto(p, m, "save", "load")
  /\ cache' = copy[<<p, m>>] /\ Unlock(p, m)
  /\ UNCHANGED <<time, hasty, main, library, loadedAs, modules, confs, faults>>

MarkSaveFails(p, m) ==
  /\ Fault /\ FutureGoto(p, m, "save", "load")
  /\ cache' \in Partial(copy[<<p, m>>]) /\ Unlock(p, m)
  /\ UNCHANGED <<time, hasty, main, library, loadedAs, modules, confs>>

\* PluginModule(path), with the library that this process runs with.
Load(p, m) ==
  /\ FutureGoto(p, m, "load", "loaded")
  /\ loadedAs' = [loadedAs EXCEPT ![p][m] = time[m]]
  /\ UNCHANGED <<files, main, library, modules, confs, faults>>

-----------------------------------------------------------------------------
(* init and deinit.                                                        *)
Start(p) ==
  /\ Goto(p, "gone", "out") /\ library' = [library EXCEPT ![p] = time[Library]]
  /\ UNCHANGED <<files, loads, confs, faults>>

\* InitSingleton::load does nothing when there are modules; else a future per module.
BeginInit(p) ==
  /\ modules[p] = {} /\ (Goto(p, "out", "modules") \/ Goto(p, "in", "modules"))
  /\ pc' = [pc EXCEPT ![p] = [m \in Modules |-> "check"]]
  /\ UNCHANGED <<files, library, loadedAs, modules, confs, faults>>

\* loadModules returns what was loaded; a future per configuration file.
BeginConfs(p) ==
  /\ Goto(p, "modules", "confs")
  /\ \A m \in Modules : pc[p][m] \in {"loaded", "failed"}
  /\ modules' = [modules EXCEPT ![p] = {m \in Modules : pc[p][m] = "loaded"}]
  /\ conf' = [conf EXCEPT ![p] = [c \in Confs |-> "run"]]
  /\ UNCHANGED <<files, library, pc, loadedAs, registry, left, confPaths, faults>>

\* loadConfFile: the loader must exist, and what it registers must not.
Loadable(p, c) == LoaderOf[c] \in modules[p] \union {Library} /\ c \notin registry[p]

LoadConfFile(p, c) ==
  /\ conf[p][c] = "run"
  /\ conf' = [conf EXCEPT ![p][c] = IF Loadable(p, c) THEN "ok" ELSE "error"]
  /\ registry' = [registry EXCEPT ![p] = IF Loadable(p, c) THEN @ \union {c} ELSE @]
  /\ UNCHANGED <<files, main, library, loads, left, confPaths, faults>>

\* The loader throws after it has registered some: an error, without their paths.
LoaderThrows(p, c) ==
  /\ Fault /\ conf[p][c] = "run" /\ Loadable(p, c)
  /\ conf' = [conf EXCEPT ![p][c] = "error"]
  /\ registry' = [registry EXCEPT ![p] = @ \union {c}] /\ left' = [left EXCEPT ![p] = @ \union {c}]
  /\ UNCHANGED <<files, main, library, loads, confPaths>>

EndInit(p) ==
  /\ Goto(p, "confs", "in") /\ \A c \in Confs : conf[p][c] \in {"ok", "error"}
  /\ confPaths' = [confPaths EXCEPT ![p] = {c \in Confs : conf[p][c] = "ok"}]
  /\ UNCHANGED <<files, library, loads, conf, registry, left, faults>>

\* InitSingleton::unload, second half: modules.clear() unloads the libraries.
ModulesGone(p) ==
  /\ pc' = [pc EXCEPT ![p] = [m \in Modules |-> "idle"]]
  /\ loadedAs' = [loadedAs EXCEPT ![p] = [m \in Modules |-> None]]
  /\ modules' = [modules EXCEPT ![p] = {}]

\* First half: the plugins of the configurations.
RemoveConfs(p) ==
  /\ Goto(p, "in", "clear")
  /\ registry' = [registry EXCEPT ![p] = @ \ confPaths[p]]
  /\ confPaths' = [confPaths EXCEPT ![p] = {}]
  /\ conf' = [conf EXCEPT ![p] = [c \in Confs |-> "idle"]]
  /\ UNCHANGED <<files, library, loads, left, faults>>

ClearModules(p) ==
  /\ Goto(p, "clear", "out") /\ ModulesGone(p)
  /\ UNCHANGED <<files, library, confs, faults>>

\* The process ends, or is killed: perhaps in the middle of the writing of the cache.
End(p) ==
  /\ main[p] # "gone" /\ main' = [main EXCEPT ![p] = "gone"]
  /\ fileLock' = IF fileLock \in {p} \X Modules THEN None ELSE fileLock
  /\ copy' = [x \in Futures |-> IF x[1] = p THEN NoProperties ELSE copy[x]]
  /\ ModulesGone(p)
  /\ conf' = [conf EXCEPT ![p] = [c \in Confs |-> "idle"]]
  /\ registry' = [registry EXCEPT ![p] = {}] /\ left' = [left EXCEPT ![p] = {}]
  /\ confPaths' = [confPaths EXCEPT ![p] = {}]
  /\ UNCHANGED <<time, hasty, library>>

Exit(p) == main[p] = "out" /\ End(p) /\ UNCHANGED <<cache, faults>>

Crash(p) ==
  /\ Fault /\ main[p] # "out" /\ End(p)
  /\ cache' \in {cache} \union
       UNION {Partial(copy[<<p, m>>]) : m \in {n \in Modules : pc[p][n] = "save"}}

-----------------------------------------------------------------------------
(* Installation: of a module at any time, of the library while no process  *)
(* runs.                                                                   *)
BetweenTestAndLoad(m) == \E p \in Procs : pc[p][m] \in {"mark", "save", "load"}

Replace(m) ==
  /\ time[m] < MaxTime[m] /\ time' = [time EXCEPT ![m] = @ + 1]
  /\ hasty' = IF BetweenTestAndLoad(m) THEN hasty \union {<<m, time[m] + 1>>} ELSE hasty
  /\ UNCHANGED <<cache, fileLock, copy, main, library, loads, confs, faults>>

Upgrade ==
  /\ time[Library] < MaxLibraryTime /\ \A p \in Procs : main[p] = "gone"
  /\ time' = [time EXCEPT ![Library] = @ + 1]
  /\ UNCHANGED <<cache, fileLock, copy, hasty, main, library, loads, confs, faults>>

Future(p, m) == Check(p, m) \/ Test(p, m) \/ MarkLoad(p, m) \/ MarkSave(p, m) \/ Load(p, m)

Process(p) ==
  \/ Start(p) \/ BeginInit(p) \/ BeginConfs(p) \/ EndInit(p) \/ RemoveConfs(p) \/ ClearModules(p)
  \/ Exit(p) \/ Crash(p)
  \/ \E m \in Modules : Future(p, m) \/ MarkSaveFails(p, m)
  \/ \E c \in Confs : LoadConfFile(p, c) \/ LoaderThrows(p, c)

Next == (\E p \in Procs : Process(p)) \/ (\E m \in Modules : Replace(m)) \/ Upgrade

Spec == Init /\ [][Next]_vars

-----------------------------------------------------------------------------
\* The variables have their types.
TypeOK ==
  /\ time \in [Files -> Times] /\ cache \in [CacheKeys -> Times \union {None}]
  /\ fileLock \in Futures \union {None}
  /\ main \in [Procs -> {"gone", "out", "modules", "confs", "in", "clear"}]
  /\ pc \in [Procs -> [Modules -> {"idle", "check", "test", "mark", "save", "load", "loaded", "failed"}]]
  /\ \A p \in Procs : confPaths[p] \subseteq Confs /\ modules[p] \subseteq Modules /\ left[p] \subseteq registry[p]

(* A module that would end the process is not loaded into it (safeLoad):   *)
(* what the cache vouches for was tested, with these contents, by some     *)
(* process, whoever crashed, failed to save or replaced files since:       *)
(* unless it was installed between some process's test of the module and   *)
(* its loading (markCurrentLoadSuccessful looks at the file again).        *)
NoDestructiveLoad ==
  \A p \in Procs, m \in Modules :
    pc[p][m] = "loaded" /\ <<m, loadedAs[p][m]>> \notin hasty =>
      <<m, loadedAs[p][m], library[p]>> \notin Destructive

(* What one process marks, another does not take back by saving what it    *)
(* has loaded before (markCurrentLoadSuccessful): only a failed save, a    *)
(* crash, or a new version of a file makes a module be tested again.       *)
MarksKept ==
  [][\A m \in Modules : faults' = faults /\ time' = time /\ Marked(m) => Marked(m)']_vars

(* The code of a plugin that a configuration file registered is there as   *)
(* long as the plugin is (unload: the configurations before the modules),  *)
(* unless its loader threw half-way.                                       *)
CodeOfPlugins ==
  \A p \in Procs : \A c \in registry[p] \ left[p] :
    LoaderOf[c] = Library \/ pc[p][LoaderOf[c]] = "loaded"

(* After deinit no plugin is left of the configuration files that init     *)
(* loaded, unless their loader threw half-way, in this init or in one      *)
(* before it.                                                              *)
EntriesRemoved == \A p \in Procs : main[p] = "out" => registry[p] \subseteq left[p]
=============================================================================
