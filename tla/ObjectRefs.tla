----------------------------- MODULE ObjectRefs -----------------------------
(***************************************************************************)
(* Pothos::Object: a pointer to a container with an atomic counter.  Every *)
(* thread has objects of its own; containers are shared by the objects     *)
(* that were copied.  A container may hold an object too (Object::make of  *)
(* an Object, a vector of objects), here at most one.                      *)
(*                                                                         *)
(* A thread is between operations, or inside of one: its record holds the  *)
(* step it takes next, the object it works on, the right-hand side, the    *)
(* container whose counter it touches, and what follows the decrement.     *)
(***************************************************************************)
EXTENDS Naturals, FiniteSets

CONSTANTS
  Owners, Names,   \* the threads; the objects of a thread are those with one of the names
  Containers, NULL,
  Aliased          \* may the right-hand side be the object itself, or an object inside of it?

Objects == Owners \X Names
ASSUME ObjectAssumption ==
  /\ IsFiniteSet(Owners) /\ IsFiniteSet(Names) /\ IsFiniteSet(Containers)
  /\ NULL \notin Containers /\ NULL \notin Objects /\ NULL \notin Objects \X {"object", "inside"}
  /\ Aliased \in BOOLEAN

VARIABLES
  impl,     \* _impl of every object: NULL for a null object
  counter,  \* of every container
  inner,    \* the _impl of the object inside of a container
  heap,     \* of every container: "none", "live" or "deleted"
  run       \* of every thread

refVars == <<impl, counter, inner, heap, run>>

(* A right-hand side is an object, or the one inside of the container that *)
(* the object points at.                                                   *)
Places == Objects \X {"object", "inside"}
At(p) == IF p[2] = "object" THEN impl[p[1]]
         ELSE IF impl[p[1]] = NULL THEN NULL ELSE inner[impl[p[1]]]

NoCall == [at |-> "idle", obj |-> NULL, rhs |-> NULL, c |-> NULL, then |-> "idle"]
OwnOf(t) == {t} \X Names

RefsTypeOK ==
  /\ impl \in [Objects -> Containers \union {NULL}]
  /\ counter \in [Containers -> Nat]
  /\ inner \in [Containers -> Containers \union {NULL}]
  /\ heap \in [Containers -> {"none", "live", "deleted"}]
  /\ run \in [Owners -> [at : {"idle", "decr", "delete", "load", "take", "incr", "write"},
                          obj : Objects \union {NULL}, rhs : Places \union {NULL},
                          c : Containers \union {NULL}, then : {"idle", "load", "take"}]]
  /\ \A t \in Owners : run[t].obj \in OwnOf(t) \union {NULL}

RefsInit ==
  /\ impl = [o \in Objects |-> NULL] /\ counter = [c \in Containers |-> 0]
  /\ inner = [c \in Containers |-> NULL] /\ heap = [c \in Containers |-> "none"]
  /\ run = [t \in Owners |-> NoCall]

Enter(t, at, o, r, c, then) ==
  /\ run[t] = NoCall
  /\ run' = [run EXCEPT ![t] = [at |-> at, obj |-> o, rhs |-> r, c |-> c, then |-> then]]
Goes(t, at) == run' = [run EXCEPT ![t] = IF at = "idle" THEN NoCall ELSE [@ EXCEPT !.at = at]]

-----------------------------------------------------------------------------
(* Object(value), and Object::make of an object, which is copied into the  *)
(* new container.                                                          *)
Make(t, o, s) ==
  /\ run[t] = NoCall /\ impl[o] = NULL
  /\ \E c \in Containers :
       /\ heap[c] = "none"
       /\ heap' = [heap EXCEPT ![c] = "live"] /\ impl' = [impl EXCEPT ![o] = c]
       /\ inner' = [inner EXCEPT ![c] = IF s = NULL THEN NULL ELSE impl[s]]
       /\ counter' = [d \in Containers |->
            IF d = c THEN 1 ELSE IF s # NULL /\ d = impl[s] THEN counter[d] + 1 ELSE counter[d]]
  /\ UNCHANGED run

\* Object(const Object &): the pointer is copied, then the counter incremented.
CopyConstruct(t, o, p) ==
  /\ impl[o] = NULL /\ At(p) # NULL /\ Enter(t, "incr", o, p, At(p), "idle")
  /\ impl' = [impl EXCEPT ![o] = At(p)] /\ UNCHANGED <<counter, inner, heap>>

\* Object(Object &&).
MoveConstruct(t, o, s) ==
  /\ run[t] = NoCall /\ impl[o] = NULL
  /\ impl' = [impl EXCEPT ![o] = impl[s], ![s] = NULL] /\ UNCHANGED <<counter, inner, heap, run>>

\* May p be the right-hand side of an assignment to o?
MayAssign(o, p) == Aliased \/ p[1] # o

CopyAssign(t, o, p) ==
  /\ MayAssign(o, p) /\ (p[2] = "inside" => At(p) # NULL)
  /\ Enter(t, "decr", o, p, impl[o], "load") /\ UNCHANGED <<impl, counter, inner, heap>>

MoveAssign(t, o, s) ==
  /\ MayAssign(o, <<s, "object">>)
  /\ Enter(t, "decr", o, <<s, "object">>, impl[o], "take") /\ UNCHANGED <<impl, counter, inner, heap>>

\* ~Object: another object may then have the name.
Destroy(t, o) ==
  /\ impl[o] # NULL /\ Enter(t, "decr", o, NULL, impl[o], "idle")
  /\ impl' = [impl EXCEPT ![o] = NULL] /\ UNCHANGED <<counter, inner, heap>>

\* Object::ref: a reference to write to, when the object is the only one.
unique(o) == counter[impl[o]] = 1
Ref(t, o) ==
  /\ impl[o] # NULL /\ unique(o)
  /\ Enter(t, "write", o, NULL, impl[o], "idle") /\ UNCHANGED <<impl, counter, inner, heap>>

Written(t) == run[t].at = "write" /\ Goes(t, "idle") /\ UNCHANGED <<impl, counter, inner, heap>>

-----------------------------------------------------------------------------
IsLast(c) == counter[c] = 1

\* decr: the atomic decrement, and the deletion by the thread that brought the counter to zero.
Decr(t) ==
  LET c == run[t].c
  IN  /\ run[t].at = "decr"
      /\ IF c = NULL THEN Goes(t, run[t].then) /\ UNCHANGED counter
         ELSE /\ Goes(t, IF IsLast(c) THEN "delete" ELSE run[t].then)
              /\ counter' = [counter EXCEPT ![c] = @ - 1]
      /\ UNCHANGED <<impl, inner, heap>>

\* delete o: the object inside of the container is destroyed too.
Delete(t) ==
  LET c == run[t].c
  IN  /\ run[t].at = "delete"
      /\ heap' = [heap EXCEPT ![c] = "deleted"]
      /\ run' = [run EXCEPT ![t] = [@ EXCEPT !.at = "decr", !.c = inner[c]]]
      /\ UNCHANGED <<impl, counter, inner>>

\* operator=(const Object &): _impl = rhs._impl
LoadRhs(t) ==
  /\ run[t].at = "load" /\ impl' = [impl EXCEPT ![run[t].obj] = At(run[t].rhs)]
  /\ run' = [run EXCEPT ![t] = [@ EXCEPT !.at = "incr", !.c = At(run[t].rhs)]]
  /\ UNCHANGED <<counter, inner, heap>>

\* Mutant: the copy is not counted.
NotCounted(c) == UNCHANGED counter

Counted(c) == counter' = [counter EXCEPT ![c] = @ + 1]

\* incr
Incr(t) ==
  /\ run[t].at = "incr" /\ Goes(t, "idle")
  /\ IF run[t].c = NULL THEN UNCHANGED counter ELSE Counted(run[t].c)
  /\ UNCHANGED <<impl, inner, heap>>

Moved(o, s) == [[impl EXCEPT ![o] = impl[s]] EXCEPT ![s] = NULL]

\* operator=(Object &&): _impl = rhs._impl, and rhs._impl = nullptr
Take(t) ==
  /\ run[t].at = "take" /\ impl' = Moved(run[t].obj, run[t].rhs[1])
  /\ Goes(t, "idle") /\ UNCHANGED <<counter, inner, heap>>

RefsStep(t) == Decr(t) \/ Delete(t) \/ LoadRhs(t) \/ Incr(t) \/ Take(t) \/ Written(t)

RefsCall(t) ==
  \E o \in OwnOf(t) :
    \/ \E s \in OwnOf(t) \union {NULL} : Make(t, o, s)
    \/ \E p \in OwnOf(t) \X {"object", "inside"} : CopyConstruct(t, o, p) \/ CopyAssign(t, o, p)
    \/ \E s \in OwnOf(t) : MoveConstruct(t, o, s) \/ MoveAssign(t, o, s)
    \/ Destroy(t, o) \/ Ref(t, o)

(* A copy from one thread to another: a queue or a slot call that is       *)
(* synchronized by other means.                                            *)
Hand(t, o, s) ==
  /\ run[t] = NoCall /\ run[s[1]] = NoCall /\ impl[o] = NULL /\ impl[s] # NULL
  /\ impl' = [impl EXCEPT ![o] = impl[s]] /\ Counted(impl[s])
  /\ UNCHANGED <<inner, heap, run>>

RefsNext ==
  \/ \E t \in Owners : RefsStep(t) \/ RefsCall(t)
  \/ \E s, o \in Objects : s[1] # o[1] /\ Hand(o[1], o, s)

RefsSpec == RefsInit /\ [][RefsNext]_refVars

-----------------------------------------------------------------------------
\* The pointer of an object that is being assigned to is stale until the new one is stored.
Stale(o) == LET r == run[o[1]] IN
  r.obj = o /\ r.then \in {"load", "take"} /\ r.at \in {"delete", "decr", "load", "take"}
Refers(o, c) == impl[o] = c /\ ~ Stale(o)
Holders(c) == {o \in Objects : Refers(o, c)}
Outer(c) == {d \in Containers : heap[d] = "live" /\ inner[d] = c}

(* A container is never touched after it was deleted: not its counter, not *)
(* the object inside of it, whatever the order in which threads give up    *)
(* their copies; and what an object points at is there.                    *)
NoUseAfterDelete ==
  /\ \A t \in Owners :
       /\ run[t].at \in {"decr", "delete", "incr", "write"} /\ run[t].c # NULL => heap[run[t].c] = "live"
       /\ run[t].at = "load" /\ run[t].rhs[2] = "inside" => heap[impl[run[t].rhs[1]]] = "live"
  /\ \A o \in Objects : \A c \in Containers : Refers(o, c) => heap[c] = "live"

(* Between operations the counter of a container is the number of objects  *)
(* that point at it, and a container without any is gone.                  *)
CountExact ==
  (\A t \in Owners : run[t] = NoCall) =>
    \A c \in Containers : heap[c] = "live" =>
      counter[c] = Cardinality(Holders(c)) + Cardinality(Outer(c)) /\ counter[c] > 0

(* Who writes through ref() shares the container with no other object,     *)
(* although the counter was read without a lock.                           *)
WritesAlone ==
  \A t \in Owners : run[t].at = "write" =>
    Holders(run[t].c) = {run[t].obj} /\ Outer(run[t].c) = {}

(* The counters of the containers are exact, nobody uses a deleted one,    *)
(* and one that is written to has a single user.                           *)
ObjectsSound == RefsTypeOK /\ NoUseAfterDelete /\ CountExact /\ WritesAlone
=============================================================================
