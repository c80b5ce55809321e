------------------------------ MODULE Managed ------------------------------
(***************************************************************************)
(* Managed classes: their registration in the plugin tree with the         *)
(* conversions that their constructors give, the tables of classes and     *)
(* conversions that the plugin handlers keep, and the dispatch of a call   *)
(* on an object over overloads, opaque and wildcard handlers and base      *)
(* classes.                                                                *)
(*                                                                         *)
(* A type is a class or a plain type.  An entry of a table is "none" when  *)
(* there was never one, "null" after a removal (an empty plugin), and      *)
(* "there" otherwise.                                                      *)
(***************************************************************************)
EXTENDS Naturals, Sequences, FiniteSetsExt, TLC

CONSTANTS
  Plain,         \* types that are not classes
  Classes,
  Registration,  \* of each class, see below
  Paths,         \* class paths below /managed
  Conversions,   \* pairs of types: plugins below /object/convert that are no constructors
  Hash,          \* of each type: the order of the set of intermediate types
  Calls,         \* the calls that are made: <<class, name, argument types>>
  Built,         \* the classes that register what they consist of
  MaxEntries,    \* bound: the entries of a class that is registered
  BasesFirst     \* are base classes committed before, and unloaded after, the derived ones?

(* bases: a sequence of classes; constructors: a sequence of argument      *)
(* lists; methods: of each name, a sequence of argument lists; opaque: the *)
(* names of the opaque methods; wildcard: is there one?; throws: the       *)
(* indices of methods whose body throws.                                   *)
Types == Plain \union Classes

VARIABLES
  committed,   \* /managed/...: of each path, the class or "none"
  converters,  \* the pairs with a plugin below /object/convert
  classMap,    \* getClassMap
  convertMap,  \* getConvertMap; getConvertIoMap holds the entries that are "there"
  last,        \* the last call: what was asked, its outcome, and the bodies that ran
  builder      \* a ManagedClass while it is registered, before commit

vars == <<committed, converters, classMap, convertMap, last>>
NoCall == [out |-> "none", ran |-> <<>>]

Init ==
  /\ committed = [p \in Paths |-> "none"] /\ converters = {}
  /\ classMap = [c \in Classes |-> "none"] /\ convertMap = [p \in Types \X Types |-> "none"]
  /\ last = NoCall

-----------------------------------------------------------------------------
\* The constructors of a class that take one argument, in their order.
Converting(c) == SelectSeq(Registration[c].constructors, LAMBDA args : Len(args) = 1)
\* The pairs of the first n of them.
Pairs(c, n) == {<<Converting(c)[i][1], c>> : i \in 1 .. n}

\* handleConvertPluginEvent, for a set of plugins.
ConvertEvent(pairs, entry) == convertMap' = [p \in Types \X Types |-> IF p \in pairs THEN entry ELSE convertMap[p]]

\* How many of the conversions of c are added until one is there already.
Fresh(c) == CHOOSE n \in 0 .. Len(Converting(c)) :
              /\ \A i \in 1 .. n : <<Converting(c)[i][1], c>> \notin converters
              /\ n = Len(Converting(c)) \/ <<Converting(c)[n + 1][1], c>> \in converters

ClassAdded(c) == classMap' = [classMap EXCEPT ![c] = "there"]

Bases(c) == {Registration[c].bases[i] : i \in DOMAIN Registration[c].bases}
IsCommitted(c) == \E p \in Paths : committed[p] = c

Commit(c, p) ==
  /\ ~ IsCommitted(c) /\ (BasesFirst => \A b \in Bases(c) : IsCommitted(b))
  /\ committed[p] = "none" /\ Fresh(c) = Len(Converting(c))
  /\ converters' = converters \union Pairs(c, Fresh(c)) /\ ConvertEvent(Pairs(c, Fresh(c)), "there")
  /\ committed' = [committed EXCEPT ![p] = c] /\ ClassAdded(c)
  /\ last' = NoCall

\* A plugin that is there already: what was added before it stays.
CommitThrows(c, p) ==
  /\ ~ IsCommitted(c) /\ ~ (committed[p] = "none" /\ Fresh(c) = Len(Converting(c)))
  /\ converters' = converters \union Pairs(c, Fresh(c)) /\ ConvertEvent(Pairs(c, Fresh(c)), "there")
  /\ last' = NoCall /\ UNCHANGED <<committed, classMap>>

Unload(p) ==
  LET c == committed[p] IN
  /\ c # "none" /\ (BasesFirst => \A d \in Classes : c \in Bases(d) => ~ IsCommitted(d))
  /\ converters' = converters \ Pairs(c, Len(Converting(c)))
  /\ ConvertEvent(Pairs(c, Len(Converting(c))), "null")
  /\ committed' = [committed EXCEPT ![p] = "none"] /\ classMap' = [classMap EXCEPT ![c] = "null"]
  /\ last' = NoCall

AddConverter(pair) ==
  /\ pair \notin converters /\ converters' = converters \union {pair} /\ ConvertEvent({pair}, "there")
  /\ last' = NoCall /\ UNCHANGED <<committed, classMap>>

RemoveConverter(pair) ==
  /\ pair \in converters /\ converters' = converters \ {pair} /\ ConvertEvent({pair}, "null")
  /\ last' = NoCall /\ UNCHANGED <<committed, classMap>>

-----------------------------------------------------------------------------
\* The types on the way from s to d, and the one that is found first.
Intermediate(s, d) == {i \in Types : convertMap[<<s, i>>] = "there" /\ convertMap[<<i, d>>] # "none"}
Between(s, d) == CHOOSE i \in Intermediate(s, d) : \A j \in Intermediate(s, d) : Hash[i] <= Hash[j]

canConvert(s, d) == s = d \/ convertMap[<<s, d>>] # "none" \/ Intermediate(s, d) # {}

\* Does convert return, and not throw?
Converts(s, d) ==
  \/ s = d \/ convertMap[<<s, d>>] = "there"
  \/ convertMap[<<s, d>>] = "none" /\ Intermediate(s, d) # {} /\ convertMap[<<Between(s, d), d>>] = "there"

Matches(calls, args) ==
  {i \in DOMAIN calls : /\ Len(calls[i]) = Len(args)
                        /\ \A a \in DOMAIN args : canConvert(args[a], calls[i][a])}

\* Mutant: an opaque call is only looked for when there are no overloads.
ChosenByName(calls, opaque, wildcard, args) ==
  IF Matches(calls, args) # {} THEN <<"call", Max(Matches(calls, args))>>
  ELSE IF calls = <<>> /\ opaque THEN <<"opaque", 0>> ELSE IF calls = <<>> /\ wildcard THEN <<"wildcard", 0>> ELSE <<"none", 0>>

\* The call that is made, of the overloads that can take the arguments the last one.
Chosen(calls, opaque, wildcard, args) ==
  IF Matches(calls, args) # {} THEN <<"call", Max(Matches(calls, args))>>
  ELSE IF opaque THEN <<"opaque", 0>> ELSE IF wildcard THEN <<"wildcard", 0>> ELSE <<"none", 0>>

Outcome(thrown) == IF thrown THEN "message" ELSE "ok"

\* Step 4: conversion of the arguments, and the body.
Invoke(c, calls, choice, throws, args) ==
  IF choice[1] = "call" /\ \E a \in DOMAIN args : ~ Converts(args[a], calls[choice[2]][a])
  THEN [out |-> "message", ran |-> <<>>]
  ELSE [out |-> Outcome(choice[2] \in throws), ran |-> <<<<c, choice>>>>]

RECURSIVE CallMethod(_, _, _)
RECURSIVE CallBases(_, _, _)
\* The first base class whose call does not end with a ProxyHandleCallError.
CallBases(bases, name, args) ==
  IF bases = <<>> THEN [out |-> "callError", ran |-> <<>>]
  ELSE LET first == CallMethod(bases[1], name, args)
           rest == CallBases(Tail(bases), name, args)
       IN  IF first.out # "callError" THEN first
           ELSE [rest EXCEPT !.ran = first.ran \o rest.ran]

\* ManagedProxyHandle::call on an object of class c.
CallMethod(c, name, args) ==
  LET r == Registration[c]
      choice == Chosen(r.methods[name], name \in r.opaque, r.wildcard, args)
      bases == IF choice[1] = "none" \/ r.wildcard THEN CallBases(r.bases, name, args)
               ELSE [out |-> "callError", ran |-> <<>>]
      own == Invoke(c, r.methods[name], choice, r.throws, args)
  IN  IF classMap[c] = "none" THEN [out |-> "lookupError", ran |-> <<>>]
      ELSE IF classMap[c] = "null" THEN [out |-> "convertError", ran |-> <<>>]
      ELSE IF choice[1] = "none" \/ bases.out # "callError" THEN bases
      ELSE [own EXCEPT !.ran = bases.ran \o own.ran]

Call(c, name, args) ==
  /\ last' = [cls |-> c, name |-> name, args |-> args] @@ CallMethod(c, name, args)
  /\ UNCHANGED <<committed, converters, classMap, convertMap>>

\* The call "()" on the handle of a class: there are no base classes to try.
Construct(c, args) ==
  LET calls == Registration[c].constructors
      choice == Chosen(calls, FALSE, FALSE, args)
      result == IF choice[1] = "none" THEN [out |-> "callError", ran |-> <<>>]
                ELSE Invoke(c, calls, choice, {}, args)
  IN  /\ IsCommitted(c) /\ last' = [cls |-> c, name |-> "()", args |-> args] @@ result
      /\ UNCHANGED <<committed, converters, classMap, convertMap>>

(* Block::opaqueCallHandler, of a block with the calls that the class has  *)
(* for methods: a name of one call is called whatever the call takes; of   *)
(* several calls the first one that can take the arguments.                *)
BlockCall(c, name, args) ==
  LET calls == Registration[c].methods[name]
      tried == IF Len(calls) = 1 THEN {1} ELSE Matches(calls, args)
      result == IF tried = {} THEN [out |-> "callError", ran |-> <<>>]
                ELSE IF Len(calls[Min(tried)]) # Len(args) THEN [out |-> "message", ran |-> <<>>]
                ELSE Invoke(c, calls, <<"call", Min(tried)>>, Registration[c].throws, args)
  IN  /\ last' = [cls |-> c, name |-> "block", calls |-> calls, args |-> args] @@ result
      /\ UNCHANGED <<committed, converters, classMap, convertMap>>

Next ==
  \/ \E c \in Classes, p \in Paths : Commit(c, p) \/ CommitThrows(c, p)
  \/ \E p \in Paths : Unload(p)
  \/ \E pair \in Conversions : AddConverter(pair) \/ RemoveConverter(pair)
  \/ \E call \in Calls : Call(call[1], call[2], call[3]) \/ Construct(call[1], call[3])
                           \/ BlockCall(call[1], call[2], call[3])

Spec == Init /\ [][Next]_vars

-----------------------------------------------------------------------------
(* ManagedClass::register...: what is registered is of the class that the  *)
(* wrappers are for, once there are wrappers.  A call that throws ends the *)
(* expression, and the class that was being registered is gone.            *)
(*                                                                         *)
(* An entry is what callables are registered as, the class they take (a    *)
(* constructor: gives), and whether they take an object at all.            *)
Wrappers == {"reference", "pointer", "shared"}
Entry(kind, c, takes) == [kind |-> kind, class |-> c, takes |-> takes]

NewClass == [wraps |-> [w \in Wrappers |-> "none"], entries |-> {}, threw |-> FALSE, early |-> FALSE]
BuildInit == builder = NewClass

\* What was registered before is lost with the class.
Throw == [NewClass EXCEPT !.threw = TRUE]

\* registerReferenceToWrapper, registerPointerToWrapper, registerSharedToWrapper
Wrap(b, w, c) ==
  IF b.threw \/ b.wraps[w] \notin {"none", c} THEN Throw ELSE [b EXCEPT !.wraps[w] = c]

\* Which class a callable is for is looked at once there is a wrapper, and not of static methods.
Static(kind) == kind \in {"static", "opaque static", "wildcard static"}
Method(kind) == kind \in {"method", "opaque method", "wildcard method"}
ClassFits(b, e) ==
  \/ b.wraps["reference"] \in {"none", e.class} \/ Static(e.kind)
  \/ Method(e.kind) /\ ~ e.takes

\* Of these there is one, and a later one takes its place.
Single(kind) == kind \in {"opaque constructor", "wildcard static", "wildcard method"}

Put(b, e) ==
  IF b.threw \/ ~ ClassFits(b, e) THEN Throw
  ELSE [b EXCEPT !.entries = {f \in @ : f.kind # e.kind \/ ~ Single(e.kind)} \union {e},
                 !.early = @ \/ (b.wraps["reference"] = "none" /\ ~ Static(e.kind))]

\* The arguments of an opaque call and of a wildcard are given, and the class is not looked at again.
PutOpaque(b, e, signature) == IF signature THEN Put(b, e) ELSE Throw

\* registerClass: the wrappers, and delete, unless all of the wrappers are there.
RegisterClass(b, c) ==
  IF b.threw \/ \A w \in Wrappers : b.wraps[w] # "none" THEN b
  ELSE Put(Wrap(Wrap(Wrap(b, "reference", c), "pointer", c), "shared", c), Entry("delete", c, TRUE))

RegisterBaseClass(b, c) == Put(b, Entry("base", c, TRUE))

\* A field is a method to get and one to set it.
RegisterField(b, c) == Put(Put(b, Entry("method", c, TRUE)), Entry("method", c, TRUE))

\* A constructor comes with the static methods "new" and "shared".
RegisterConstructor(b, c) ==
  Put(Put(Put(RegisterClass(b, c), Entry("constructor", c, TRUE)), Entry("static", c, TRUE)),
      Entry("static", c, TRUE))

RegisterOpaqueConstructor(b, c) == Put(RegisterClass(b, c), Entry("opaque constructor", c, TRUE))

\* A member function brings its class, a callable does not.
RegisterMethod(b, c, member, takes) ==
  Put(IF member THEN RegisterClass(b, c) ELSE b, Entry("method", c, member \/ takes))

Registered(b, c) ==
  {RegisterClass(b, c), RegisterBaseClass(b, c), RegisterField(b, c), RegisterConstructor(b, c),
   RegisterOpaqueConstructor(b, c), Put(b, Entry("constructor", c, TRUE)), Put(b, Entry("static", c, TRUE))}
    \union {RegisterMethod(b, c, member, takes) : member, takes \in BOOLEAN}
    \union {PutOpaque(b, Entry(kind, c, TRUE), signature) : signature \in BOOLEAN,
              kind \in {"opaque static", "wildcard static", "opaque method", "wildcard method", "opaque constructor"}}

Register(c) == ~ builder.threw /\ builder' \in Registered(builder, c) /\ Cardinality(builder'.entries) <= MaxEntries

\* The class is committed, or what threw is gone: the next one begins.
Registers == builder # NewClass /\ builder' = NewClass

BuildNext == Registers \/ \E c \in Built : Register(c)

-----------------------------------------------------------------------------
(* The tables follow the plugin tree through every commit, unload and      *)
(* failed commit: what is registered is found, what is not is not.         *)
TablesFollow ==
  /\ \A c \in Classes : classMap[c] = "there" <=> IsCommitted(c)
  /\ \A p \in Types \X Types : convertMap[p] = "there" <=> p \in converters

RECURSIVE Ancestors(_)
Ancestors(c) == {c} \union UNION {Ancestors(b) : b \in Bases(c)}

IsMethodCall == last.out # "none" /\ last.name \notin {"()", "block"}
Takes(c) ==
  LET r == Registration[c]
  IN  Matches(r.methods[last.name], last.args) # {} \/ last.name \in r.opaque \/ r.wildcard

(* A call that the class of the object or one of the base classes takes    *)
(* does not end with an error of the call or of a lookup.                  *)
FoundIfAny ==
  IsMethodCall /\ classMap[last.cls] = "there" /\ last.out \in {"callError", "lookupError", "convertError"} =>
    \A c \in Ancestors(last.cls) : ~ (classMap[c] = "there" /\ Takes(c))

(* One call of a proxy runs one body at most, also when that body throws   *)
(* and there are base classes left to try; and none when it is an error.   *)
RunsOnce ==
  Len(last.ran) <= 1 /\ (last.out \in {"callError", "lookupError", "convertError"} => last.ran = <<>>)

(* A block finds the call that takes the arguments where a class does: it  *)
(* is not missed, and with one that takes them no other one runs.          *)
BlockCallFound ==
  last.out # "none" /\ last.name = "block" =>
    /\ last.out = "callError" => Matches(last.calls, last.args) = {}
    /\ last.ran # <<>> => Len(last.calls) = 1 \/ last.ran[1][2][2] \in Matches(last.calls, last.args)

(* The call that is made is the best match: not one that converts the      *)
(* arguments when there is one that takes them as they are.                *)
BestMatch ==
  last.out = "ok" /\ last.name = "()" =>
    LET calls == Registration[last.cls].constructors
    IN  last.args \in {calls[i] : i \in DOMAIN calls} => calls[last.ran[1][2][2]] = last.args

\* The wildcard method of a class is called when there is no match, and not instead of one.
WildcardCatchesAll ==
  IsMethodCall /\ last.ran # <<>> /\ last.ran[1][2][1] = "wildcard" =>
    Matches(Registration[last.cls].methods[last.name], last.args) = {}

\* What can be converted is converted.
CanConvertRight == \A s, d \in Types : canConvert(s, d) => Converts(s, d)

(* A class that was registered without a throw, and whose wrappers came    *)
(* first, is of one type: its three wrappers, its bases, constructors and  *)
(* methods are of one class, and an object of it can be deleted.           *)
OfOneClass ==
  ~ builder.threw /\ ~ builder.early =>
    LET typed == {e \in builder.entries : ~ Static(e.kind) /\ e.takes}
    IN  /\ \A e \in typed, w \in Wrappers : e.class = builder.wraps[w]
        /\ builder.wraps["shared"] # "none" => Entry("delete", builder.wraps["shared"], TRUE) \in typed
=============================================================================
