--------------------------- MODULE TypeRegistries ---------------------------
(***************************************************************************)
(* The tables that plugins fill with functions of types: the texts, the    *)
(* comparisons and the hash codes of objects, their conversions, and the   *)
(* conversions between objects and proxies of an environment.  A handler   *)
(* of plugin events writes a table under its lock; toString, compareTo,    *)
(* hashCode and the conversions look a function up under the shared lock,  *)
(* and keep it while they call the function, which may use the tables too. *)
(* The registry sends an event after it has unlocked itself, in the thread *)
(* that adds or removes: events of one plugin may overtake each other.     *)
(*                                                                         *)
(* A call is a stack of frames.  An operation is [table, a, b, foreign]:   *)
(* a and b are the types it is about, or the environment and the type.     *)
(***************************************************************************)
EXTENDS Integers, Sequences, FiniteSets, SequencesExt

CONSTANTS
  Callers,     \* threads that call operations
  Senders,     \* threads that add and remove plugins
  Scenes,      \* plugins, the operations that are called, and by whom: [plugins, ops, readers, senders, events, missing]
  PlainTypes,  \* types with a text of their own
  Elements,    \* of a type: the types of the elements of an object of it
  Foreign,     \* of an environment: the one from which its proxies are brought
  Null, Nothing,
  Shown,       \* objects whose texts are checked, with all of their elements
  Strings      \* strings in their order: the value of a string object is an index

Tables == {"tostring", "compare", "hash", "convert", "proxy", "local"}

\* Of what can be asked for its text it is known what it has inside.
IsOperation(op) ==
  /\ op.table \in Tables
  /\ op.table \in {"tostring", "compare"} => op.a \in DOMAIN Elements
  /\ op.table = "compare" => op.b \in DOMAIN Elements
IsSequence(x) == x \in Seq(ToSet(x))

(* path, table; object: what the plugin holds; returns, args: the          *)
(* signature; env and class: from the path, and of a ProxyConvertPair;     *)
(* calls: the operations that the function calls; container: is it one of  *)
(* the conversions of containers, and of which element types; text: what a *)
(* toString function returns, a sequence of tokens.  The bounds of a scene *)
(* are its number of events, and of plugins not there at the beginning.    *)
RegistriesAssumption ==
  /\ Elements \in [DOMAIN Elements -> Seq(DOMAIN Elements)]
  /\ \A s \in Scenes :
       /\ {Null, Nothing} \cap s.plugins = {}
       /\ \A op \in s.ops : IsOperation(op)
       /\ \A p \in s.plugins :
            /\ p.table \in Tables /\ IsSequence(p.calls) /\ IsSequence(p.items)
            /\ \A i \in DOMAIN p.calls : IsOperation(p.calls[i])
  /\ \A o \in Shown : \A i \in DOMAIN o.items : o.items[i] \in Shown

VARIABLES
  scene,
  registered,  \* plugins in the registry, below the paths of the tables
  entries,     \* of every table, a function of its keys
  words,       \* of every table: the readers of its SpinLockRW, or -1 for the writer
  event,       \* of every sender: the event that a handler works on
  overlapped,  \* history: plugins with an event that began before the one before it had ended
  events,
  stack

tableVars == <<scene, registered, entries, words, event, overlapped, events, stack>>

-----------------------------------------------------------------------------
(* The keys.                                                               *)

(* hashIt: the hashes of the two names with exclusive or, here the names   *)
(* that are in one of the two.                                             *)
HashIt(name, type) == ({name} \ {type}) \union ({type} \ {name})

Key(table, a, b) ==
  CASE table \in {"tostring", "hash"} -> <<a>>
    [] table \in {"compare", "convert"} -> <<a, b>>
    [] OTHER -> HashIt(a, b)

\* The handlers check the signature.
Accepts(p) ==
  CASE p.table = "tostring" -> p.object = "callable" /\ p.returns = "string" /\ Len(p.args) = 1
    [] p.table = "compare" -> p.object = "callable" /\ p.returns = "int" /\ Len(p.args) = 2
    [] p.table = "hash" -> p.object = "callable" /\ p.returns = "size" /\ Len(p.args) = 1
    [] p.table = "convert" -> p.object = "callable" /\ p.returns # "void" /\ Len(p.args) = 1
    [] p.table = "local" -> p.object = "pair" /\ p.args = <<"proxy">>
    [] OTHER -> p.object = "callable" /\ p.returns = "proxy" /\ Len(p.args) = 2 /\ p.args[1] = "env"

\* The key of a plugin that is accepted.
KeyOf(p) ==
  CASE p.table \in {"tostring", "hash"} -> Key(p.table, p.args[1], Nothing)
    [] p.table = "compare" -> Key(p.table, p.args[1], p.args[2])
    [] p.table = "convert" -> Key(p.table, p.args[1], p.returns)
    [] p.table = "local" -> Key(p.table, p.env, p.class)
    [] OTHER -> Key(p.table, p.env, p.args[2])

Entry(table, key) == IF key \in DOMAIN entries[table] THEN entries[table][key] ELSE Nothing

-----------------------------------------------------------------------------
(* The handlers of events.                                                 *)
NoEvent == [kind |-> "none", plugin |-> Nothing, at |-> "none"]

InProgress(p) == \E s \in Senders : event[s].plugin = p

\* The registry changes first, under its own lock.
Notify(s, kind, p) ==
  /\ s \in scene.senders /\ event[s] = NoEvent /\ events < scene.events /\ events' = events + 1
  /\ (p \in registered) = (kind = "remove")
  /\ registered' = IF kind = "add" THEN registered \union {p} ELSE registered \ {p}
  /\ event' = [event EXCEPT ![s] = [kind |-> kind, plugin |-> p, at |-> "check"]]
  /\ overlapped' = IF InProgress(p) THEN overlapped \union {p} ELSE overlapped \ {p}
  /\ UNCHANGED <<scene, entries, words, stack>>

Check(s) ==
  /\ event[s].at = "check"
  /\ event' = [event EXCEPT ![s] = IF Accepts(@.plugin) THEN [@ EXCEPT !.at = "lock"] ELSE NoEvent]
  /\ UNCHANGED <<scene, registered, entries, words, overlapped, events, stack>>

LockExclusive(s) ==
  /\ event[s].at = "lock" /\ words[event[s].plugin.table] = 0
  /\ words' = [words EXCEPT ![event[s].plugin.table] = -1]
  /\ event' = [event EXCEPT ![s].at = "store"]
  /\ UNCHANGED <<scene, registered, entries, overlapped, events, stack>>

\* Either event assigns to the key: a removal leaves an empty plugin there.
Stored(s) == IF event[s].kind = "add" THEN event[s].plugin ELSE Null

Store(s) ==
  LET p == event[s].plugin
      k == KeyOf(p)
  IN  /\ event[s].at = "store"
      /\ entries' = [entries EXCEPT ![p.table] =
           [x \in DOMAIN @ \union {k} |-> IF x = k THEN Stored(s) ELSE @[x]]]
      /\ words' = [words EXCEPT ![p.table] = 0] /\ event' = [event EXCEPT ![s] = NoEvent]
      /\ UNCHANGED <<scene, registered, overlapped, events, stack>>

-----------------------------------------------------------------------------
(* The operations.                                                         *)
Op(table, a, b) == [table |-> table, a |-> a, b |-> b, foreign |-> FALSE]

\* What is called before the lookup: for the text of a container, and for a proxy of another environment.
Before(op) ==
  CASE op.table = "tostring" /\ Elements[op.a] # <<>> ->
         <<Op("convert", op.a, "objects")>> \o
         [i \in DOMAIN Elements[op.a] |-> Op("tostring", Elements[op.a][i], Nothing)]
    [] op.table = "local" /\ op.foreign ->
         <<Op("local", Foreign[op.a], op.b), Op("proxy", op.a, op.b)>>
    [] OTHER -> <<>>

\* Without a comparison both objects are converted to numbers, and without that described.
Numbers(op) == <<Op("convert", op.a, "double"), Op("convert", op.b, "double")>>
Texts(op) == <<Op("tostring", op.a, Nothing), Op("tostring", op.b, Nothing)>>

Frame(op) ==
  [op |-> op, at |-> IF Before(op) = <<>> THEN "lock" ELSE "before", plugins |-> {}, todo |-> Before(op)]

Top(t) == Last(stack[t])
OnTop(t, f) == stack' = [stack EXCEPT ![t] = Append(Front(@), f)]
Go(t, at, todo) == OnTop(t, [Top(t) EXCEPT !.at = at, !.todo = todo])
Same == UNCHANGED <<scene, registered, entries, event, overlapped, events>>

\* An ObjectConvertError, and any other exception.
Errors == {"noconvert", "error"}

(* What a caller makes of an exception that reaches it.  toString catches  *)
(* all of them while it looks for a container; compareTo catches only that *)
(* an object cannot be converted to a number.                              *)
Caught(f, out) ==
  CASE f.at = "before" /\ f.op.table = "tostring" -> [f EXCEPT !.at = "lock", !.todo = <<>>]
    [] f.at = "before" /\ f.op.table # "tostring" ->
         [f EXCEPT !.at = IF out = "error" THEN "throw" ELSE "throwConvert", !.todo = <<>>]
    [] f.at = "numbers" /\ out = "noconvert" -> [f EXCEPT !.at = "texts", !.todo = Texts(f.op)]
    [] OTHER -> [f EXCEPT !.at = out, !.todo = <<>>]

Return(t, out) ==
  IF Len(stack[t]) = 1
  THEN stack' = [stack EXCEPT ![t] = <<>>]
  ELSE LET below == Front(stack[t])
       IN  stack' = [stack EXCEPT ![t] =
             IF out \in Errors THEN Append(Front(below), Caught(Last(below), out)) ELSE below]

BeginCall(t, op) ==
  /\ stack[t] = <<>> /\ stack' = [stack EXCEPT ![t] = <<Frame(op)>>]
  /\ Same /\ UNCHANGED words

IsPlain(f) == f.op.table = "tostring" /\ f.op.a \in PlainTypes

\* Booleans, strings and numbers need no table.
PlainText(t) == IsPlain(Top(t)) /\ Return(t, "value") /\ Same /\ UNCHANGED words

Descend(t) ==
  /\ Top(t).todo # <<>>
  /\ stack' = [stack EXCEPT ![t] =
       Append(Append(Front(@), [Top(t) EXCEPT !.todo = Tail(@)]), Frame(Head(Top(t).todo)))]
  /\ Same /\ UNCHANGED words

\* Mutant: a waiting writer goes first.
NoWriterWaits(table) == words[table] # -1 /\ ~ \E s \in Senders : event[s].at = "lock" /\ event[s].plugin.table = table

\* lock_shared does not wait for writers that wait.
MayShare(table) == words[table] # -1

LockShared(t) ==
  /\ Top(t).at = "lock" /\ ~ IsPlain(Top(t)) /\ MayShare(Top(t).op.table)
  /\ words' = [words EXCEPT ![Top(t).op.table] = @ + 1] /\ Go(t, "find", <<>>) /\ Same

(* The conversions of containers convert each element, in order: to        *)
(* objects in the environment of its proxy, or to proxies in the managed   *)
(* environment; numbers need no table.                                     *)
ToObjects(p) == [i \in DOMAIN p.items |-> Op("local", p.env, p.items[i])]
ToProxies(p) == [i \in DOMAIN p.items |-> Op("proxy", p.env, p.items[i])]
Calls(p) ==
  CASE p.container = "objects" -> ToObjects(p)
    [] p.container = "proxies" -> ToProxies(p)
    [] OTHER -> p.calls

\* getConvertIoMap: the types to which a type is converted.
Outputs(a) == {k[2] : k \in {x \in DOMAIN entries["convert"] : x[1] = a /\ entries["convert"][x] # Null}}

(* Without a conversion from a to b the two of one in between are called,  *)
(* whichever comes first in the order of the hashes.                       *)
Between(op) ==
  IF op.table = "convert" THEN {m \in Outputs(op.a) : <<m, op.b>> \in DOMAIN entries["convert"]} ELSE {}

FunctionsFor(op) ==
  IF Between(op) = {} \/ Entry(op.table, Key(op.table, op.a, op.b)) # Nothing
  THEN {<<Entry(op.table, Key(op.table, op.a, op.b))>>}
  ELSE {<<entries["convert"][<<op.a, m>>], entries["convert"][<<m, op.b>>]>> : m \in Between(op)}

\* What is thrown, or done, when there is no function.
Missing(op) ==
  CASE op.table \in {"tostring", "hash"} -> "fallback"
    [] op.table = "compare" -> "numbers"
    [] op.table = "convert" -> "noconvert"
    [] OTHER -> "error"

\* The object of an empty plugin is no Callable: extract throws an ObjectConvertError.
Find(t) ==
  LET op == Top(t).op
  IN  /\ Top(t).at = "find"
      /\ \E fs \in FunctionsFor(op) :
           \/ fs[1] = Nothing /\ Go(t, Missing(op), IF op.table = "compare" THEN Numbers(op) ELSE <<>>)
           \/ Null \in ToSet(fs) /\ Go(t, "noconvert", <<>>)
           \/ /\ {Nothing, Null} \cap ToSet(fs) = {}
              /\ OnTop(t, [Top(t) EXCEPT !.at = "call", !.plugins = ToSet(fs),
                    !.todo = IF Len(fs) = 1 THEN Calls(fs[1]) ELSE Calls(fs[1]) \o Calls(fs[2])])
      /\ Same /\ UNCHANGED words

\* A function may throw on its own account.
Throw(t) == Top(t).at = "call" /\ (\E out \in Errors : Go(t, out, <<>>)) /\ Same /\ UNCHANGED words

\* All that a frame had to call has returned.
Called(t) ==
  /\ Top(t).todo = <<>>
  /\ \/ Top(t).at \in {"call", "numbers"} /\ Go(t, "value", <<>>)
     \/ Top(t).at = "texts" /\ Go(t, "error", <<>>)
     \/ Top(t).at = "before" /\ Top(t).op.table = "tostring" /\ Return(t, "value")
     \/ Top(t).at = "before" /\ Top(t).op.table = "local" /\ Go(t, "lock", <<>>)
     \/ Top(t).at = "throw" /\ Return(t, "error")
     \/ Top(t).at = "throwConvert" /\ Return(t, "noconvert")
  /\ Same /\ UNCHANGED words

\* The destructor of SharedLock, also when an exception passes.
Unshare(t) ==
  /\ Top(t).at \in {"value", "fallback"} \union Errors
  /\ words' = [words EXCEPT ![Top(t).op.table] = @ - 1] /\ Return(t, Top(t).at) /\ Same

Reader(t) ==
  \/ t \in scene.readers /\ \E op \in scene.ops : BeginCall(t, op)
  \/ /\ stack[t] # <<>>
     /\ PlainText(t) \/ Descend(t) \/ LockShared(t) \/ Find(t) \/ Throw(t) \/ Called(t) \/ Unshare(t)

Handler(s) ==
  \/ \E p \in scene.plugins : Notify(s, "add", p) \/ Notify(s, "remove", p)
  \/ Check(s) \/ LockExclusive(s) \/ Store(s)

\* The plugins that are there at the beginning are in the tables.
TablesInit ==
  /\ scene \in Scenes
  /\ registered \in {S \in SUBSET scene.plugins : Cardinality(scene.plugins \ S) <= scene.missing}
  /\ entries = [tb \in Tables |->
       LET ps == {p \in registered : p.table = tb /\ Accepts(p)}
       IN  [k \in {KeyOf(p) : p \in ps} |-> CHOOSE p \in ps : KeyOf(p) = k]]
  /\ words = [tb \in Tables |-> 0] /\ event = [s \in Senders |-> NoEvent] /\ overlapped = {} /\ events = 0
  /\ stack = [t \in Callers |-> <<>>]

TablesNext == (\E s \in Senders : Handler(s)) \/ \E t \in Callers : Reader(t)

TablesSpec == TablesInit /\ [][TablesNext]_tableVars

-----------------------------------------------------------------------------
(* Texts and containers.  A text is a sequence of tokens.                  *)

\* Mutant: a string is printed as it is.
Bare(v) == <<v>>

Quoted(v) == <<"'", v, "'">>

\* std::to_string of a number.
Number(n) == <<ToString(n)>>

Complex(re, im) ==
  CASE im = 0 -> Number(re)
    [] re = 0 /\ im # 0 -> Number(im) \o <<"j">>
    [] re # 0 /\ im < 0 -> Number(re) \o <<"-">> \o Number(-im) \o <<"j">>
    [] OTHER -> Number(re) \o <<"+">> \o Number(im) \o <<"j">>

\* A separator is added when something was added before it.
Joined(out, text) == (IF Len(out) > 1 THEN Append(out, ", ") ELSE out) \o text

Listed(open, texts, close) == Append(FoldLeft(Joined, <<open>>, texts), close)

IsContainer(o) == o.type \in {"vector", "map", "set"}
Brackets == [vector |-> <<"[", "]">>, map |-> <<"{", "}">>, set |-> <<"(", ")">>]

(* The key and the value of an entry of a map follow each other in items.  *)
Items(o, texts) ==
  IF o.type = "map"
  THEN [i \in 1..(Len(texts) \div 2) |-> texts[2 * i - 1] \o <<": ">> \o texts[2 * i]]
  ELSE texts

\* The registered function, or the name of the type; an empty plugin throws.
Registered(o) ==
  LET p == Entry("tostring", <<o.type>>)
  IN  IF p = Nothing THEN <<"<", o.type, ">">> ELSE IF p = Null THEN Null ELSE p.text

toString[o \in Shown] ==
  LET texts == [i \in DOMAIN o.items |-> toString[o.items[i]]]
  IN  CASE o.type = "bool" -> <<IF o.value = 1 THEN "true" ELSE "false">>
        [] o.type = "string" -> Quoted(Strings[o.value])
        [] o.type = "number" -> Number(o.value)
        [] o.type = "complex" -> Complex(o.value, o.imag)
        [] IsContainer(o) /\ (\A i \in DOMAIN texts : texts[i] # Null) ->
             Listed(Brackets[o.type][1], Items(o, texts), Brackets[o.type][2])
        [] OTHER -> Registered(o)

(* compareTo and hashCode of plain objects: a string is converted to a     *)
(* number like any other, and is zero when it is none.  Hash functions are *)
(* of one type.                                                            *)
IsPlainObject(o) == o.type \in {"string", "number", "complex", "bool"}
AsDouble(o) == IF o.type \in {"number", "bool"} THEN o.value ELSE 0
Sign(n) == IF n < 0 THEN -1 ELSE IF n > 0 THEN 1 ELSE 0
compareTo(o, p) ==
  IF o.type = "string" /\ p.type = "string"
  THEN Sign(o.value - p.value) ELSE Sign(AsDouble(o) - AsDouble(p))
hashCode(o) == <<o.type, o.value>>

equals(o, p) == compareTo(o, p) = 0
Less(o, p) == compareTo(o, p) < 0

\* convertObjectMapToObjectKwargs: the keys are texts, of equal ones the first is kept.
KwargsKeys(keys) == {toString[k] : k \in keys}

-----------------------------------------------------------------------------
Frames(t) == {stack[t][i] : i \in DOMAIN stack[t]}
Holding == {"find", "call", "numbers", "texts", "value", "fallback", "error", "noconvert"}
HeldBy(t, tb) == {i \in DOMAIN stack[t] : stack[t][i].at \in Holding /\ stack[t][i].op.table = tb}
Held(tb) == UNION {{t} \X HeldBy(t, tb) : t \in Callers}

(* While a function of a plugin is called, the plugin stays: the handler   *)
(* that removes it cannot return, whatever tables the function uses.  Only *)
(* a plugin with events that overlapped may be called when it is gone.     *)
Removing(p) == \E s \in Senders : event[s].kind = "remove" /\ event[s].plugin = p
Live == registered \union overlapped \union {p \in scene.plugins : Removing(p)}
NoCallOfRemoved ==
  \A t \in Callers : \A f \in Frames(t) : f.at = "call" => f.plugins \subseteq Live

(* The shared locks that are counted are those of the frames on the        *)
(* stacks: every way out of an operation, by an exception too, gives one   *)
(* back, and a writer is alone.                                            *)
Writes(s, tb) == event[s].at = "store" /\ event[s].plugin.table = tb
LocksBalanced ==
  \A tb \in Tables :
    IF \E s \in Senders : Writes(s, tb) THEN words[tb] = -1 /\ Held(tb) = {}
    ELSE words[tb] = Cardinality(Held(tb))

(* Nobody waits for good: not a function that looks up another function    *)
(* while a handler waits for the first to end.                             *)
ReaderCanMove(t) ==
  stack[t] # <<>> /\ (Top(t).at = "lock" /\ ~ IsPlain(Top(t)) => MayShare(Top(t).op.table))
HandlerCanMove(s) == event[s] # NoEvent /\ (event[s].at = "lock" => words[event[s].plugin.table] = 0)
NeverStuck ==
  ((\E s \in Senders : event[s] # NoEvent) \/ \E t \in Callers : stack[t] # <<>>) =>
    (\E s \in Senders : HandlerCanMove(s)) \/ \E t \in Callers : ReaderCanMove(t)

(* After its events a plugin with a key of its own is in its table exactly *)
(* when it is registered, unless its events overlapped; and no table holds *)
(* another plugin that is not registered.                                  *)
Alone(p) == \A q \in scene.plugins : q # p /\ q.table = p.table /\ Accepts(q) => KeyOf(q) # KeyOf(p)
TablesFollow ==
  \A p \in scene.plugins \ overlapped : Accepts(p) /\ ~ InProgress(p) =>
    /\ Entry(p.table, KeyOf(p)) = p => p \in registered
    /\ p \in registered /\ Alone(p) => Entry(p.table, KeyOf(p)) = p

(* No function of a type is called after its plugin was removed, every way *)
(* out of an operation gives its shared lock back, functions that use the  *)
(* tables themselves never wait for a handler that waits for them, and the *)
(* tables hold what is registered, but for plugins with overlapping events.*)
TypeTablesSound == NoCallOfRemoved /\ LocksBalanced /\ NeverStuck /\ TablesFollow

(* Different objects of the same type have different texts, when no        *)
(* element is printed as nothing and none is of a type without a text; and *)
(* different keys of a map become different keys of the named arguments.   *)
HasText(o) == toString[o] \notin {<<>>, Null}
Described(o) == IsPlainObject(o) \/ (IsContainer(o) /\ \A i \in DOMAIN o.items : IsPlainObject(o.items[i]))
Quiet == (\A s \in Senders : event[s] = NoEvent) /\ \A t \in Callers : stack[t] = <<>>
TextsTell ==
  Quiet => \A o, p \in {x \in Shown : Described(x)} : o # p /\ o.type = p.type => toString[o] # toString[p]
KeysKept ==
  LET keys == {o \in Shown : o.type \in {"bool", "string", "number"}}
  IN  Quiet => Cardinality(KwargsKeys(keys)) = Cardinality(keys)

(* Of objects of one type < is a strict order with equals as its ties, and *)
(* equal ones have equal hash codes.                                       *)
OrderSound ==
  Quiet => \A o, p \in {x \in Shown : x.type \in {"string", "number", "bool"}} : o.type = p.type =>
    /\ equals(o, p) => hashCode(o) = hashCode(p)
    /\ Less(o, p) => ~ Less(p, o)
    /\ equals(o, p) = (~ Less(o, p) /\ ~ Less(p, o))
=============================================================================
