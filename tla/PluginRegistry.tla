--------------------------- MODULE PluginRegistry ---------------------------
(***************************************************************************)
(* The plugin registry, the tables its event handlers keep (conversions,   *)
(* comparisons, hashes, strings, managed classes) and the modules whose    *)
(* static blocks fill it.                                                  *)
(*                                                                         *)
(* A plugin path is the sequence of its node names.  What a path holds is  *)
(* fixed: an event handler, or an object with the keys under which a       *)
(* handler files it.  A thread's calls are the sequence todo of what it    *)
(* has yet to do; one step is done between two uses of a lock.             *)
(***************************************************************************)
EXTENDS Naturals, Sequences, FiniteSets, SequencesExt

CONSTANTS
  Threads, Main,   \* Main runs the static blocks of the runtime library
  Paths,
  Handlers,        \* paths that hold an event handler
  Keys,            \* the table keys of what the other paths hold
  Core,            \* paths added by the runtime library
  Modules, Broken, \* the loadable modules; those that fail to load
  Statics,         \* the paths a module's static blocks add, in order
  Users,           \* the paths that each thread adds and removes itself
  Apart,           \* nothing else runs while a module is loaded or unloaded
  MaxOps, MaxCopies   \* bounds: operations begun; copies of a PluginModule

NoModule == "nomodule"
NoPlugin == "noplugin"
Absent == <<"absent">>
Null == <<"null">>

ASSUME RegistryAssumption ==
  /\ Main \in Threads /\ Handlers \subseteq Paths /\ Core \subseteq Paths
  /\ IsFiniteSet(Threads) /\ IsFiniteSet(Core)
  /\ \A p \in Paths : p \in Seq(STRING) /\ p # <<>>
  /\ {Absent, Null} \intersect Paths = {} /\ {NoModule, NoPlugin} \intersect Modules = {}
  /\ \A t \in Threads : Users[t] \subseteq Paths
  /\ \A m \in Modules : Statics[m] \in Seq(Paths)
  /\ Broken \subseteq Modules /\ Apart \in BOOLEAN
  /\ MaxOps \in Nat /\ MaxCopies \in Nat \ {0}

(* Everybody adds and removes paths of their own (the runtime library,     *)
(* each module and each thread), no key of a table has two plugins, and    *)
(* modules are loaded and unloaded while nothing else runs: add attaches   *)
(* what any thread adds to the module that is loading.                     *)
Separate ==
  /\ Apart
  /\ \A p, q \in Paths : p # q => Keys[p] \intersect Keys[q] = {}
  /\ \A t \in Threads : Users[t] \intersect Core = {}
  /\ \A t, u \in Threads : t # u => Users[t] \intersect Users[u] = {}
  /\ \A m \in Modules : /\ ToSet(Statics[m]) \intersect Core = {}
                        /\ \A t \in Threads : ToSet(Statics[m]) \intersect Users[t] = {}
                        /\ \A n \in Modules : m # n => ToSet(Statics[m]) \intersect ToSet(Statics[n]) = {}

VARIABLES
  plugin,       \* what the tree has at a path: the module of the plugin, or NoPlugin
  ordered,      \* nodeNamesOrdered of all nodes: the nodes in the order of their first add
  table,        \* the map of each handler: key -> path of the plugin, Null or Absent
  active,       \* getActiveModuleLoading
  association,  \* getModulePathsMap
  moduleMutex,
  module,       \* the state of each module
  copies,       \* use count of its Impl
  pluginPaths,  \* Impl::pluginPaths
  todo,         \* what each thread has yet to do
  started,      \* the static blocks of the runtime library have run
  ops

registry == <<plugin, ordered, table, association>>
modules == <<active, moduleMutex, module, copies, pluginPaths>>
vars == <<registry, modules, todo, started, ops>>

AllKeys == UNION {Keys[p] : p \in Paths}

Job(do, path) == [do |-> do, path |-> path]
Jobs(do, paths) == [i \in DOMAIN paths |-> Job(do, paths[i])]
Does(t, do) == todo[t] # <<>> /\ Head(todo[t]).do = do
Continue(t, more) == todo' = [todo EXCEPT ![t] = more \o Tail(@)]

\* The elements of seq that are in S, in their order
Filter(seq, S) ==
  LET kept[i \in 0..Len(seq)] ==
        IF i = 0 THEN <<>> ELSE kept[i - 1] \o (IF seq[i] \in S THEN <<seq[i]>> ELSE <<>>)
  IN  kept[Len(seq)]

Init ==
  /\ plugin = [p \in Paths |-> NoPlugin] /\ ordered = <<>>
  /\ table = [h \in Handlers |-> [k \in AllKeys |-> Absent]]
  /\ active = NoModule /\ association = [m \in Modules \union {NoModule} |-> <<>>]
  /\ moduleMutex = FALSE /\ module = [m \in Modules |-> "out"]
  /\ copies = [m \in Modules |-> 0] /\ pluginPaths = [m \in Modules |-> <<>>]
  /\ \E order \in SetToSeqs(Core) :
       todo = [t \in Threads |-> IF t = Main THEN Jobs("add", order) \o <<Job("started", <<>>)>>
                                 ELSE <<>>]
  /\ started = FALSE /\ ops = 0

-----------------------------------------------------------------------------
(* The tree.                                                               *)
NodesOf(p) == [i \in DOMAIN p |-> SubSeq(p, 1, i)]
Above(p) == SubSeq(p, 1, Len(p) - 1)

\* getNumPlugins # 0
HasPlugins(n) == \E p \in Paths : IsPrefix(n, p) /\ plugin[p] # NoPlugin

\* list: the child nodes that hold plugins, in the order they were added.
List(n) == Filter(ordered, {c \in ToSet(ordered) : Above(c) = n /\ HasPlugins(c)})

\* handlePluginEvent: the handlers above p, from the nearest to the root.
ParentHandlers(p) ==
  Filter(Reverse(NodesOf(Above(p))), {h \in Handlers : plugin[h] # NoPlugin})

EventJob(event, p) == [do |-> "event", path |-> p, event |-> event]
CallJob(h, p, event) == [do |-> "call", path |-> p, event |-> event, handler |-> h]
WalkJob(do, h, n) == [do |-> do, path |-> n, handler |-> h]

\* Mutant: a new handler is not told of what was added before it.
NoMissedEvents(p) == <<>>

\* handleMissedSubTreeEvents; for an object that is no handler it has no effect.
MissedSubTreeEvents(p) == IF p \in Handlers THEN <<WalkJob("list", p, p)>> ELSE <<>>

\* The nodes on the way to p whose names are not yet in nodeNamesOrdered.
NodesToNote(p) == Filter(NodesOf(p), ToSet(NodesOf(p)) \ ToSet(ordered))

(* add: under the lock the names are noted, the plugin is stored with the  *)
(* module that is loading, and its path associated with that; the events   *)
(* come after.  A path that is taken makes add throw: the static block, or *)
(* the user, is told.                                                      *)
AddPlugin(t) ==
  /\ Does(t, "add")
  /\ LET p == Head(todo[t]).path
     IN  /\ ordered' = ordered \o NodesToNote(p)
         /\ IF plugin[p] # NoPlugin
            THEN Continue(t, <<>>) /\ UNCHANGED <<plugin, association>>
            ELSE /\ plugin' = [plugin EXCEPT ![p] = active]
                 /\ association' = [association EXCEPT ![active] = Append(@, p)]
                 /\ Continue(t, <<EventJob("add", p)>> \o MissedSubTreeEvents(p))
  /\ UNCHANGED <<table, modules, started, ops>>

RemoveEvents(p) == <<EventJob("remove", p)>>

\* getModule: the plugin's pointer to its module is weak.
Owner(p) ==
  IF plugin[p] \in Modules /\ (active = plugin[p] \/ copies[plugin[p]] > 0)
  THEN plugin[p] ELSE NoModule

(* remove; it throws when nothing is there: to a user, never (it would end *)
(* the process) to the destructor of a module.                             *)
RemovePlugin(t) ==
  /\ Does(t, "remove")
  /\ LET p == Head(todo[t]).path
     IN  /\ plugin[p] # NoPlugin
         /\ plugin' = [plugin EXCEPT ![p] = NoPlugin]
         /\ association' = [association EXCEPT ![Owner(p)] = Filter(@, ToSet(@) \ {p})]
         /\ Continue(t, RemoveEvents(p))
  /\ UNCHANGED <<ordered, table, modules, started, ops>>

RemoveThrows(t) ==
  /\ Does(t, "remove") /\ plugin[Head(todo[t]).path] = NoPlugin
  /\ Tail(todo[t]) = <<>> /\ Continue(t, <<>>)
  /\ UNCHANGED <<registry, modules, started, ops>>

\* handlePluginEvent: the parents are copied under the shared lock and called after it.
Event(t) ==
  /\ Does(t, "event")
  /\ LET e == Head(todo[t])
         hs == ParentHandlers(e.path)
     IN  Continue(t, [i \in DOMAIN hs |-> CallJob(hs[i], e.path, e.event)])
  /\ UNCHANGED <<registry, modules, started, ops>>

\* handleConvertPluginEvent and its likes: the keys are set, or nulled.
Call(t) ==
  /\ Does(t, "call")
  /\ LET e == Head(todo[t])
     IN  table' = [table EXCEPT ![e.handler] =
           [k \in AllKeys |-> IF k \notin Keys[e.path] THEN @[k]
                              ELSE IF e.event = "add" THEN e.path ELSE Null]]
  /\ Continue(t, <<>>)
  /\ UNCHANGED <<plugin, ordered, association, modules, started, ops>>

\* The walk of handleMissedSubTreeEvents: list a node, get each plugin below it.
ListNode(t) ==
  /\ Does(t, "list")
  /\ LET w == Head(todo[t])
         names == List(w.path)
     IN  Continue(t, [i \in 1..(2 * Len(names)) |->
           WalkJob(IF i % 2 = 1 THEN "get" ELSE "list", w.handler, names[(i + 1) \div 2])])
  /\ UNCHANGED <<registry, modules, started, ops>>

GetNode(t) ==
  /\ Does(t, "get")
  /\ LET w == Head(todo[t])
     IN  Continue(t, IF w.path \in Paths /\ plugin[w.path] # NoPlugin
                     THEN <<CallJob(w.handler, w.path, "add")>> ELSE <<>>)
  /\ UNCHANGED <<registry, modules, started, ops>>

Started(t) ==
  /\ Does(t, "started") /\ started' = TRUE /\ Continue(t, <<>>)
  /\ UNCHANGED <<registry, modules, ops>>

-----------------------------------------------------------------------------
(* What the threads begin.                                                 *)
Alone(t) == \A u \in Threads \ {t} : todo[u] = <<>>
Reloading ==
  \E t \in Threads : \E i \in DOMAIN todo[t] : todo[t][i].do \in {"loaded", "drop", "unload"}

Begin(t, jobs) ==
  /\ started /\ todo[t] = <<>> /\ ops < MaxOps /\ ops' = ops + 1
  /\ Apart => ~ Reloading
  /\ todo' = [todo EXCEPT ![t] = jobs]
  /\ UNCHANGED <<registry, started>>

UserAdd(t, p) == Begin(t, <<Job("add", p)>>) /\ UNCHANGED modules
UserRemove(t, p) == Begin(t, <<Job("remove", p)>>) /\ UNCHANGED modules

\* PluginModule(path): the library's static blocks run while the module is active.
LoadModule(t, m) ==
  /\ ~ moduleMutex /\ module[m] = "out" /\ m \notin Broken
  /\ Apart => Alone(t)
  /\ Begin(t, Jobs("add", Statics[m]) \o <<Job("loaded", <<m>>)>>)
  /\ moduleMutex' = TRUE /\ active' = m /\ module' = [module EXCEPT ![m] = "loading"]
  /\ UNCHANGED <<copies, pluginPaths>>

\* A library that does not load: the active module is not reset.
LoadFails(t, m) ==
  /\ ~ moduleMutex /\ m \in Broken
  /\ Begin(t, <<>>)
  /\ active' = m
  /\ UNCHANGED <<moduleMutex, module, copies, pluginPaths>>

ActiveAfterLoad(m) == NoModule

Loaded(t) ==
  /\ Does(t, "loaded")
  /\ LET m == Head(todo[t]).path[1]
     IN  /\ active' = ActiveAfterLoad(m) /\ moduleMutex' = FALSE
         /\ pluginPaths' = [pluginPaths EXCEPT ![m] = association[m]]
         /\ module' = [module EXCEPT ![m] = "loaded"] /\ copies' = [copies EXCEPT ![m] = 1]
  /\ Continue(t, <<>>)
  /\ UNCHANGED <<registry, started, ops>>

\* blockRegistryMake: a block made by a plugin of m holds the module.
CopyModule(t, m) ==
  /\ \E p \in Paths : plugin[p] = m
  /\ copies[m] \in 1..(MaxCopies - 1)
  /\ Begin(t, <<>>) /\ copies' = [copies EXCEPT ![m] = @ + 1]
  /\ UNCHANGED <<active, moduleMutex, module, pluginPaths>>

\* The copies that some thread is about to destroy.
Dropping(m) ==
  Cardinality({t \in Threads : \E i \in DOMAIN todo[t] :
                 todo[t][i].do \in {"drop", "decrement", "unload"} /\ todo[t][i].path = <<m>>})

DropCopy(t, m) ==
  /\ module[m] = "loaded" /\ Dropping(m) < copies[m]
  /\ Apart => Alone(t) \/ Dropping(m) < copies[m] - 1
  /\ Begin(t, <<Job("drop", <<m>>)>>) /\ UNCHANGED modules

Unique(m) == copies[m] = 1

(* ~PluginModule: the last copy removes the plugins, one by one, and       *)
(* unloads the library; the use count falls after the test of unique().    *)
Drop(t) ==
  /\ Does(t, "drop")
  /\ LET m == Head(todo[t]).path[1]
     IN  Continue(t, IF Unique(m) THEN Jobs("remove", pluginPaths[m]) \o <<Job("unload", <<m>>)>>
                     ELSE <<Job("decrement", <<m>>)>>)
  /\ UNCHANGED <<registry, modules, started, ops>>

Decrement(t) ==
  /\ Does(t, "decrement")
  /\ copies' = [copies EXCEPT ![Head(todo[t]).path[1]] = @ - 1]
  /\ Continue(t, <<>>)
  /\ UNCHANGED <<registry, active, moduleMutex, module, pluginPaths, started, ops>>

Unload(t) ==
  /\ Does(t, "unload")
  /\ LET m == Head(todo[t]).path[1]
     IN  module' = [module EXCEPT ![m] = "out"] /\ copies' = [copies EXCEPT ![m] = @ - 1]
  /\ Continue(t, <<>>)
  /\ UNCHANGED <<registry, active, moduleMutex, pluginPaths, started, ops>>

Operation(t) ==
  \/ \E p \in Users[t] : UserAdd(t, p) \/ UserRemove(t, p)
  \/ \E m \in Modules : LoadModule(t, m) \/ LoadFails(t, m) \/ CopyModule(t, m) \/ DropCopy(t, m)

Step(t) ==
  \/ AddPlugin(t) \/ RemovePlugin(t) \/ RemoveThrows(t) \/ Event(t) \/ Call(t) \/ ListNode(t) \/ GetNode(t)
  \/ Started(t) \/ Loaded(t) \/ Drop(t) \/ Decrement(t) \/ Unload(t)

Next == \E t \in Threads : Operation(t) \/ Step(t)

Spec == Init /\ [][Next]_vars

-----------------------------------------------------------------------------
Quiet == started /\ \A t \in Threads : todo[t] = <<>>
Below(h) == {p \in Paths : p # h /\ IsPrefix(h, p)}

\* The state is what the declarations say, and no path is noted twice.
TypeOK ==
  /\ plugin \in [Paths -> Modules \union {NoModule, NoPlugin}]
  /\ IsInjective(ordered) /\ {p \in Paths : plugin[p] # NoPlugin} \subseteq ToSet(ordered)
  /\ table \in [Handlers -> [AllKeys -> Paths \union {Null, Absent}]]
  /\ active \in Modules \union {NoModule} /\ moduleMutex \in BOOLEAN
  /\ module \in [Modules -> {"out", "loading", "loaded"}]
  /\ copies \in [Modules -> 0..MaxCopies] /\ started \in BOOLEAN /\ ops \in 0..MaxOps
  /\ \A m \in Modules : IsInjective(pluginPaths[m])

(* Whenever no add or remove is under way, the table of a registered       *)
(* handler has the plugins registered below it, whichever of the handler   *)
(* and the plugin came first and whichever threads added them at the same  *)
(* time (handlePluginEvent, handleMissedSubTreeEvents); the table of a     *)
(* handler of the runtime library has no others.                           *)
HandlersInSync ==
  Quiet => \A h \in Handlers : plugin[h] # NoPlugin =>
    /\ \A p \in Below(h) : plugin[p] # NoPlugin => \A k \in Keys[p] : table[h][k] = p
    /\ h \in Core => \A k \in AllKeys :
         table[h][k] \in {Null, Absent} \union {p \in Below(h) : plugin[p] # NoPlugin}

(* When the library of a module is out, nobody holds a copy of the module  *)
(* (a block that it made) and neither the tree nor the table of a handler  *)
(* of the runtime library has an object of it (~PluginModule).             *)
NoDanglingCode ==
  \A m \in Modules : module[m] = "out" =>
    /\ copies[m] = 0
    /\ \A p \in Paths : plugin[p] = m => m \in Broken
    /\ \A h \in Handlers \intersect Core : \A k \in AllKeys : table[h][k] \notin ToSet(Statics[m])

(* getPluginPaths names what the static blocks of the module added and     *)
(* nothing else, so that its unloading removes no plugin of anyone else;   *)
(* a load that failed in between changes nothing of that.                  *)
OwnPaths ==
  \A m \in Modules : module[m] = "loaded" =>
    ToSet(pluginPaths[m]) \union {p \in Paths : plugin[p] = m} \subseteq ToSet(Statics[m])

(* The tables of the event handlers follow the registry, no plugin is left *)
(* of a module that was unloaded, and a module removes its own paths only. *)
RegistrySound == TypeOK /\ HandlersInSync /\ NoDanglingCode /\ OwnPaths
=============================================================================
