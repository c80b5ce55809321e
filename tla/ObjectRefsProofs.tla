-------------------------- MODULE ObjectRefsProofs --------------------------
(***************************************************************************)
(* Proofs about ObjectRefs, for any number of threads, names of objects    *)
(* and containers, and about TypeRegistries, for any callers, plugins and  *)
(* depth of calls.                                                         *)
(*                                                                         *)
(* The counters are off inside of an operation: a copy points at its       *)
(* container before it is counted, an object that is given up is counted   *)
(* until the decrement.  RefOf says which container counts an object at    *)
(* each step; with it Counts holds always, and a container that counts     *)
(* anybody is live.  What an operation reads after its decrement, the      *)
(* right-hand side, is counted through another object of the same thread,  *)
(* so nobody can delete it meanwhile: that is where ~ Aliased is used.     *)
(*                                                                         *)
(* Of the type tables, the invariant says of every frame on a stack what   *)
(* it holds and what it still has to call; a function that is called is of *)
(* the table whose lock its frame holds, so the handler that removes it,   *)
(* alone with that table, finds it on no stack.  A step of a caller keeps  *)
(* its locks, takes one or gives one back (Moves), whatever frame does it. *)
(***************************************************************************)
EXTENDS ObjectRefs, TypeRegistries, SequenceTheorems, FiniteSetTheorems, TLAPS
-----------------------------------------------------------------------------
\* The container that counts the object, if any: an object that is copied to
\* is not yet counted; one that is given up is, until the counter is decremented.
RefOf(o) == IF run[o[1]].obj # o \/ run[o[1]].at = "write" THEN impl[o]
            ELSE IF run[o[1]].at = "decr" THEN run[o[1]].c ELSE NULL
InnerOf(d) == IF heap[d] = "live" THEN inner[d] ELSE NULL
Standing(c) == {o \in Objects : RefOf(o) = c}
Within(c) == {d \in Containers : InnerOf(d) = c}

\* The counter is the number of the objects, and of the containers, that it counts.
Counts == \A c \in Containers : counter[c] = Cardinality(Standing(c)) + Cardinality(Within(c))

\* Who deletes a container is alone with it.
Lives ==
  /\ \A c \in Containers : heap[c] # "live" => counter[c] = 0
  /\ \A c \in Containers : heap[c] = "live" /\ counter[c] = 0 =>
       \E t \in Owners : run[t].at = "delete" /\ run[t].c = c
  /\ \A t \in Owners : run[t].at = "delete" =>
       run[t].c # NULL /\ heap[run[t].c] = "live" /\ counter[run[t].c] = 0
  /\ \A s, t \in Owners : run[s].at = "delete" /\ run[t].at = "delete" /\ s # t => run[s].c # run[t].c

\* The right-hand side of a call: another object of the thread, or what is
\* inside of its container.
Other(t) ==
  /\ run[t].rhs # NULL /\ run[t].rhs[1] \in OwnOf(t) /\ run[t].rhs[1] # run[t].obj
  /\ run[t].rhs[2] = "inside" => impl[run[t].rhs[1]] # NULL /\ inner[impl[run[t].rhs[1]]] # NULL

\* What a thread knows inside of a call.
CallOK(t) ==
  /\ run[t].at = "idle" => run[t] = NoCall
  /\ run[t].at # "idle" => run[t].obj # NULL
  /\ run[t].at \in {"decr", "delete"} /\ run[t].then = "idle" => impl[run[t].obj] = NULL
  /\ run[t].at \in {"decr", "delete"} /\ run[t].then \in {"load", "take"} => Other(t)
  /\ run[t].at \in {"load", "take", "incr"} => Other(t)
  /\ run[t].at \in {"load", "take"} => run[t].then = run[t].at
  /\ run[t].at = "take" \/ run[t].then = "take" => run[t].rhs # NULL /\ run[t].rhs[2] = "object"
  /\ run[t].at = "incr" => run[t].c = impl[run[t].obj] /\ run[t].c = At(run[t].rhs)
  /\ run[t].at = "write" => run[t].c # NULL /\ run[t].c = impl[run[t].obj] /\ counter[run[t].c] = 1

RefsInv == RefsTypeOK /\ Counts /\ Lives /\ \A t \in Owners : CallOK(t)

-----------------------------------------------------------------------------
\* There are finitely many objects: the sets that are counted are finite.
LEMMA ObjectsFinite == IsFiniteSet(Objects)
  BY ObjectAssumption, FS_Product DEF Objects

\* What a container counts, before a step ...
LEMMA StandingFinite ==
  \A c : /\ IsFiniteSet(Standing(c)) /\ Cardinality(Standing(c)) \in Nat
         /\ IsFiniteSet(Within(c)) /\ Cardinality(Within(c)) \in Nat
<1> TAKE c
<1>1. Standing(c) \in SUBSET Objects /\ Within(c) \in SUBSET Containers
  BY DEF Standing, Within
<1>2. IsFiniteSet(Standing(c)) /\ IsFiniteSet(Within(c))
  BY <1>1, ObjectsFinite, ObjectAssumption, FS_Subset
<1> QED BY <1>2, FS_CardinalityType

\* ... and after it, are finite sets.
LEMMA StandingFinite2 ==
  \A c : /\ IsFiniteSet(Standing(c)') /\ Cardinality(Standing(c)') \in Nat
         /\ IsFiniteSet(Within(c)') /\ Cardinality(Within(c)') \in Nat
<1> TAKE c
<1>1. Standing(c)' \in SUBSET Objects /\ Within(c)' \in SUBSET Containers
  BY DEF Standing, Within
<1>2. IsFiniteSet(Standing(c)') /\ IsFiniteSet(Within(c)')
  BY <1>1, ObjectsFinite, ObjectAssumption, FS_Subset
<1> QED BY <1>2, FS_CardinalityType

\* Two sets that differ in one element.
LEMMA OneMore ==
  ASSUME NEW S, IsFiniteSet(S), NEW T, NEW x, x \notin S, T = S \union {x}
  PROVE  Cardinality(T) = Cardinality(S) + 1
  BY FS_AddElement

\* One element less.
LEMMA OneLess ==
  ASSUME NEW S, IsFiniteSet(S), NEW T, NEW x, x \in S, T = S \ {x}
  PROVE  Cardinality(T) = Cardinality(S) - 1
  BY FS_RemoveElement

One(b) == IF b THEN 1 ELSE 0

\* One object is counted elsewhere than before.
LEMMA RefChanged ==
  ASSUME NEW o \in Objects, NEW c \in Containers,
         \A p \in Objects \ {o} : RefOf(p)' = RefOf(p)
  PROVE  Cardinality(Standing(c)') + One(RefOf(o) = c) = Cardinality(Standing(c)) + One(RefOf(o)' = c)
<1> DEFINE S == Standing(c)  T == Standing(c)'
<1>1. IsFiniteSet(S) /\ Cardinality(S) \in Nat
  BY StandingFinite
<1>2. \A p \in Objects \ {o} : p \in T <=> p \in S
  BY DEF Standing
<1>3. (o \in S <=> RefOf(o) = c) /\ (o \in T <=> RefOf(o)' = c)
  BY DEF Standing
<1>4. S \subseteq Objects /\ T \subseteq Objects
  BY DEF Standing
<1> HIDE DEF S, T
<1>5. CASE o \in S /\ o \in T
  <2>1. S = T BY <1>2, <1>4, <1>5
  <2> QED BY <2>1, <1>3, <1>5, <1>1 DEF One, S, T
<1>6. CASE o \in S /\ o \notin T
  <2>1. T = S \ {o} BY <1>2, <1>4, <1>6
  <2>2. Cardinality(T) = Cardinality(S) - 1 BY <2>1, <1>1, <1>6, OneLess
  <2> QED BY <2>2, <1>3, <1>6, <1>1 DEF One, S, T
<1>7. CASE o \notin S /\ o \in T
  <2>1. T = S \union {o} BY <1>2, <1>4, <1>7
  <2>2. Cardinality(T) = Cardinality(S) + 1 BY <2>1, <1>1, <1>7, OneMore
  <2> QED BY <2>2, <1>3, <1>7, <1>1 DEF One, S, T
<1>8. CASE o \notin S /\ o \notin T
  <2>1. S = T BY <1>2, <1>4, <1>8
  <2> QED BY <2>1, <1>3, <1>8, <1>1 DEF One, S, T
<1> QED BY <1>5, <1>6, <1>7, <1>8

\* The object inside of one container is counted elsewhere than before.
LEMMA InnerChanged ==
  ASSUME NEW d \in Containers, NEW c \in Containers,
         \A e \in Containers \ {d} : InnerOf(e)' = InnerOf(e)
  PROVE  Cardinality(Within(c)') + One(InnerOf(d) = c) = Cardinality(Within(c)) + One(InnerOf(d)' = c)
<1> DEFINE S == Within(c)  T == Within(c)'
<1>1. IsFiniteSet(S) /\ Cardinality(S) \in Nat
  BY StandingFinite
<1>2. \A e \in Containers \ {d} : e \in T <=> e \in S
  BY DEF Within
<1>3. (d \in S <=> InnerOf(d) = c) /\ (d \in T <=> InnerOf(d)' = c)
  BY DEF Within
<1>4. S \subseteq Containers /\ T \subseteq Containers
  BY DEF Within
<1> HIDE DEF S, T
<1>5. CASE d \in S /\ d \in T
  <2>1. S = T BY <1>2, <1>4, <1>5
  <2> QED BY <2>1, <1>3, <1>5, <1>1 DEF One, S, T
<1>6. CASE d \in S /\ d \notin T
  <2>1. T = S \ {d} BY <1>2, <1>4, <1>6
  <2>2. Cardinality(T) = Cardinality(S) - 1 BY <2>1, <1>1, <1>6, OneLess
  <2> QED BY <2>2, <1>3, <1>6, <1>1 DEF One, S, T
<1>7. CASE d \notin S /\ d \in T
  <2>1. T = S \union {d} BY <1>2, <1>4, <1>7
  <2>2. Cardinality(T) = Cardinality(S) + 1 BY <2>1, <1>1, <1>7, OneMore
  <2> QED BY <2>2, <1>3, <1>7, <1>1 DEF One, S, T
<1>8. CASE d \notin S /\ d \notin T
  <2>1. S = T BY <1>2, <1>4, <1>8
  <2> QED BY <2>1, <1>3, <1>8, <1>1 DEF One, S, T
<1> QED BY <1>5, <1>6, <1>7, <1>8

\* A step that moves no reference changes no count of objects.
LEMMA SameStanding ==
  ASSUME \A p \in Objects : RefOf(p)' = RefOf(p)
  PROVE  \A c \in Containers : Cardinality(Standing(c)') = Cardinality(Standing(c))
<1>1. \A c \in Containers : Standing(c)' = Standing(c) BY DEF Standing
<1> QED BY <1>1

\* A step that leaves the containers alone changes no count of containers.
LEMMA SameWithin ==
  ASSUME \A d \in Containers : InnerOf(d)' = InnerOf(d)
  PROVE  \A c \in Containers : Cardinality(Within(c)') = Cardinality(Within(c))
<1>1. \A c \in Containers : Within(c)' = Within(c) BY DEF Within
<1> QED BY <1>1

\* The reference of one object goes to another.
LEMMA RefMoved ==
  ASSUME NEW o \in Objects, NEW s \in Objects, o # s,
         RefOf(o) = NULL, RefOf(s)' = NULL, RefOf(o)' = RefOf(s),
         \A p \in Objects \ {o, s} : RefOf(p)' = RefOf(p)
  PROVE  \A c \in Containers : Cardinality(Standing(c)') = Cardinality(Standing(c))
<1> TAKE c \in Containers
<1> DEFINE S == Standing(c)  T == Standing(c)'
<1>1. IsFiniteSet(S) /\ Cardinality(S) \in Nat
  BY StandingFinite
<1>2. \A p \in Objects \ {o, s} : p \in T <=> p \in S
  BY DEF Standing
<1>3. o \notin S /\ s \notin T /\ (o \in T <=> s \in S)
  BY ObjectAssumption DEF Standing
<1>4. S \subseteq Objects /\ T \subseteq Objects
  BY DEF Standing
<1> HIDE DEF S, T
<1>5. CASE s \in S
  <2>1. T = (S \ {s}) \union {o} BY <1>2, <1>3, <1>4, <1>5
  <2>2. IsFiniteSet(S \ {s}) /\ Cardinality(S \ {s}) = Cardinality(S) - 1
    BY <1>1, <1>5, FS_RemoveElement
  <2>3. Cardinality(T) = Cardinality(S \ {s}) + 1
    BY <2>1, <2>2, <1>3, OneMore
  <2> QED BY <2>2, <2>3, <1>1 DEF S, T
<1>6. CASE s \notin S
  <2>1. T = S BY <1>2, <1>3, <1>4, <1>6
  <2> QED BY <2>1 DEF S, T
<1> QED BY <1>5, <1>6

-----------------------------------------------------------------------------
(* What the invariant says of references.                                  *)

\* A container that counts somebody is there.
LEMMA CountedLives ==
  ASSUME RefsInv
  PROVE  /\ \A o \in Objects, c \in Containers : RefOf(o) = c => counter[c] \in Nat \ {0} /\ heap[c] = "live"
         /\ \A d, c \in Containers : InnerOf(d) = c => counter[c] \in Nat \ {0} /\ heap[c] = "live"
<1>1. ASSUME NEW o \in Objects, NEW c \in Containers, RefOf(o) = c
      PROVE  counter[c] \in Nat \ {0}
  <2>1. o \in Standing(c) BY <1>1 DEF Standing
  <2>2. Cardinality(Standing(c)) # 0 BY <2>1, StandingFinite, FS_EmptySet
  <2> QED BY <2>2, StandingFinite DEF RefsInv, Counts
<1>2. ASSUME NEW d \in Containers, NEW c \in Containers, InnerOf(d) = c
      PROVE  counter[c] \in Nat \ {0}
  <2>1. d \in Within(c) BY <1>2 DEF Within
  <2>2. Cardinality(Within(c)) # 0 BY <2>1, StandingFinite, FS_EmptySet
  <2> QED BY <2>2, StandingFinite DEF RefsInv, Counts
<1> QED BY <1>1, <1>2 DEF RefsInv, Lives

\* A container with a counter of one that counts an object counts nothing else.
LEMMA OnlyOne ==
  ASSUME RefsInv, NEW o \in Objects, NEW c \in Containers, RefOf(o) = c, counter[c] = 1
  PROVE  Standing(c) = {o} /\ Within(c) = {}
<1>1. o \in Standing(c) BY DEF Standing
<1>2. Cardinality(Standing(c)) # 0 BY <1>1, StandingFinite, FS_EmptySet
<1>3. Cardinality(Standing(c)) = 1 /\ Cardinality(Within(c)) = 0
  BY <1>2, StandingFinite DEF RefsInv, Counts
<1>4. \E x : Standing(c) = {x}
  BY <1>3, StandingFinite, FS_Singleton
<1>5. Within(c) = {}
  BY <1>3, StandingFinite, FS_EmptySet
<1> QED BY <1>1, <1>4, <1>5

\* An object that its thread does not work on is counted by what it points at.
LEMMA AtRest ==
  ASSUME NEW o \in Objects, run[o[1]].obj # o
  PROVE  RefOf(o) = impl[o]
  BY DEF RefOf

\* A thread between operations has all of its objects at rest.
LEMMA IdleAtRest ==
  ASSUME NEW t \in Owners, run[t] = NoCall
  PROVE  \A o \in OwnOf(t) : o \in Objects /\ run[o[1]].obj # o /\ RefOf(o) = impl[o]
<1> TAKE o \in OwnOf(t)
<1>1. o \in Objects /\ o[1] = t BY DEF OwnOf, Objects
<1>2. run[t].obj = NULL BY DEF NoCall
<1> QED BY <1>1, <1>2, ObjectAssumption, AtRest

\* What a call reads is counted by a container that is there.
LEMMA RhsCounted ==
  ASSUME RefsInv, NEW t \in Owners, Other(t)
  PROVE  /\ run[t].rhs[1] \in Objects /\ RefOf(run[t].rhs[1]) = impl[run[t].rhs[1]]
         /\ run[t].rhs[2] = "inside" =>
              /\ impl[run[t].rhs[1]] \in Containers /\ heap[impl[run[t].rhs[1]]] = "live"
              /\ InnerOf(impl[run[t].rhs[1]]) = inner[impl[run[t].rhs[1]]]
         /\ At(run[t].rhs) \in Containers \union {NULL}
         /\ At(run[t].rhs) # NULL => counter[At(run[t].rhs)] \in Nat \ {0} /\ heap[At(run[t].rhs)] = "live"
<1> DEFINE s == run[t].rhs[1]
<1>1. s \in Objects /\ s[1] = t /\ run[s[1]].obj # s
  BY DEF Other, OwnOf, Objects
<1>2. RefOf(s) = impl[s]
  BY <1>1, AtRest
<1>3. impl[s] \in Containers \union {NULL}
  BY <1>1 DEF RefsInv, RefsTypeOK
<1>4. impl[s] \in Containers => counter[impl[s]] \in Nat \ {0} /\ heap[impl[s]] = "live"
  BY <1>1, <1>2, CountedLives
<1>5. run[t].rhs \in Places
  BY DEF RefsInv, RefsTypeOK, Other
<1>6. CASE run[t].rhs[2] = "object"
  <2>1. At(run[t].rhs) = impl[s] BY <1>6 DEF At
  <2> QED BY <2>1, <1>1, <1>2, <1>3, <1>4, <1>6
<1>7. CASE run[t].rhs[2] = "inside"
  <2>1. impl[s] \in Containers /\ impl[s] # NULL
    BY <1>3, <1>7 DEF Other
  <2>2. At(run[t].rhs) = inner[impl[s]]
    BY <1>7, <2>1 DEF At
  <2>3. InnerOf(impl[s]) = inner[impl[s]]
    BY <2>1, <1>4 DEF InnerOf
  <2>4. inner[impl[s]] \in Containers \union {NULL}
    BY <2>1 DEF RefsInv, RefsTypeOK
  <2> QED BY <2>1, <2>2, <2>3, <2>4, <1>1, <1>2, <1>4, CountedLives
<1> QED BY <1>5, <1>6, <1>7 DEF Places

\* Who writes has the only reference.
LEMMA WriterOnly ==
  ASSUME RefsInv, NEW u \in Owners, run[u].at = "write"
  PROVE  /\ run[u].c \in Containers /\ run[u].obj \in OwnOf(u) /\ run[u].obj \in Objects
         /\ Standing(run[u].c) = {run[u].obj} /\ Within(run[u].c) = {}
<1>1. run[u].c # NULL /\ run[u].c = impl[run[u].obj] /\ counter[run[u].c] = 1 /\ run[u].obj # NULL
  BY DEF RefsInv, CallOK
<1>2. run[u].obj \in OwnOf(u) /\ run[u].obj \in Objects /\ run[u].obj[1] = u
  BY <1>1 DEF RefsInv, RefsTypeOK, OwnOf, Objects
<1>3. run[u].c \in Containers
  BY <1>1 DEF RefsInv, RefsTypeOK
<1>4. RefOf(run[u].obj) = run[u].c
  BY <1>1, <1>2 DEF RefOf
<1> QED BY <1>1, <1>2, <1>3, <1>4, OnlyOne

-----------------------------------------------------------------------------
(* What a step of one thread leaves to the others.                         *)

\* What another thread knows inside of its call stays true, unless the step
\* touches its objects, a live container's content or the counter it writes under.
LEMMA CallFrame ==
  ASSUME RefsInv, NEW u \in Owners, run'[u] = run[u],
         \A o \in OwnOf(u) : impl'[o] = impl[o],
         \A d \in Containers : heap[d] = "live" => inner'[d] = inner[d],
         run[u].at = "write" => counter'[run[u].c] = counter[run[u].c]
  PROVE  CallOK(u)'
<1>0. CallOK(u)
  BY DEF RefsInv
<1>1. run[u].at # "idle" => run[u].obj \in OwnOf(u)
  BY <1>0 DEF RefsInv, RefsTypeOK, CallOK
<1>2. run[u].at # "idle" => impl'[run[u].obj] = impl[run[u].obj]
  BY <1>1
<1>3. ASSUME Other(u) PROVE Other(u)' /\ At(run[u].rhs)' = At(run[u].rhs)
  <2>1. impl'[run[u].rhs[1]] = impl[run[u].rhs[1]]
    BY <1>3 DEF Other
  <2>2. run[u].rhs[2] = "inside" => inner'[impl[run[u].rhs[1]]] = inner[impl[run[u].rhs[1]]]
    BY <1>3, RhsCounted
  <2>3. run[u].rhs \in Places
    BY <1>3 DEF RefsInv, RefsTypeOK, Other
  <2>4. At(run[u].rhs)' = At(run[u].rhs)
    BY <2>1, <2>2, <2>3 DEF At, Places
  <2> QED BY <1>3, <2>1, <2>2, <2>4 DEF Other
<1> QED BY <1>0, <1>2, <1>3 DEF CallOK

\* Lives tells of the counters, the containers and who deletes only.
LEMMA LivesFrame ==
  ASSUME RefsInv, counter' = counter, heap' = heap,
         \A u \in Owners : run'[u].at = "delete" <=> run[u].at = "delete",
         \A u \in Owners : run[u].at = "delete" => run'[u].c = run[u].c
  PROVE  Lives'
<1>1. Lives BY DEF RefsInv
<1> QED BY <1>1 DEF Lives

\* Counts stays true when no counter and no number of references changes.
LEMMA CountsFrame ==
  ASSUME Counts, counter' = counter, 
         \A c \in Containers : Cardinality(Standing(c)') = Cardinality(Standing(c)),
         \A c \in Containers : Cardinality(Within(c)') = Cardinality(Within(c))
  PROVE  Counts'
  BY DEF Counts

-----------------------------------------------------------------------------
(* One lemma per action.                                                   *)

\* An object is counted by the same container if neither its pointer nor its thread changes.
LEMMA RefFrame ==
  ASSUME NEW p \in Objects, run'[p[1]] = run[p[1]], impl'[p] = impl[p]
  PROVE  RefOf(p)' = RefOf(p)
  BY DEF RefOf

\* Every object has one thread.
LEMMA OwnerOf ==
  /\ \A t \in Owners : \A o \in OwnOf(t) : o \in Objects /\ o[1] = t
  /\ \A o \in Objects : o[1] \in Owners /\ o \in OwnOf(o[1])
  /\ \A t, u \in Owners : \A o \in OwnOf(t), p \in OwnOf(u) : t # u => o # p
  BY DEF OwnOf, Objects

\* Steps that leave the counters, the containers and the references alone.
LEMMA QuietStep ==
  ASSUME RefsInv, NEW t \in Owners, RefsTypeOK', UNCHANGED <<counter, inner, heap>>,
         \A u \in Owners \ {t} : run'[u] = run[u],
         \A o \in Objects : o[1] # t => impl'[o] = impl[o],
         \A c \in Containers : Cardinality(Standing(c)') = Cardinality(Standing(c)),
         run[t].at # "delete", run'[t].at # "delete",
         CallOK(t)'
  PROVE  RefsInv'
<1>1. Counts'
  <2>1. \A d \in Containers : InnerOf(d)' = InnerOf(d) BY DEF InnerOf
  <2> QED BY <2>1, SameWithin, CountsFrame DEF RefsInv
<1>2. Lives'
  <2>1. \A u \in Owners : /\ run'[u].at = "delete" <=> run[u].at = "delete"
                          /\ run[u].at = "delete" => run'[u].c = run[u].c
    OBVIOUS
  <2> QED BY <2>1, LivesFrame
<1>3. \A u \in Owners : CallOK(u)'
  <2> TAKE u \in Owners
  <2>1. CASE u = t BY <2>1
  <2>2. CASE u # t
    <3>1. \A o \in OwnOf(u) : impl'[o] = impl[o]
      BY <2>2, OwnerOf
    <3> QED BY <2>2, <3>1, CallFrame
  <2> QED BY <2>1, <2>2
<1> QED BY <1>1, <1>2, <1>3 DEF RefsInv

\* Object(const Object &), before the counter is incremented.
LEMMA CopyConstructStep ==
  ASSUME RefsInv, NEW t \in Owners, NEW o \in OwnOf(t), NEW p \in OwnOf(t) \X {"object", "inside"},
         CopyConstruct(t, o, p)
  PROVE  RefsInv'
<1> USE DEF CopyConstruct, Enter
<1>1. o \in Objects /\ o[1] = t /\ p \in Places /\ p[1] \in Objects /\ p[1] \in OwnOf(t)
  BY OwnerOf DEF Places
<1>2. p[1] # o
  BY <1>1 DEF At, Places
<1>3. At(p) \in Containers
  BY <1>1 DEF At, RefsInv, RefsTypeOK, Places
<1>4. RefsTypeOK'
  BY <1>1, <1>3 DEF RefsInv, RefsTypeOK
<1>5. RefOf(o) = NULL /\ RefOf(o)' = NULL
  BY <1>1, IdleAtRest DEF RefOf, RefsInv, RefsTypeOK
<1>6. ASSUME NEW q \in Objects, q # o PROVE RefOf(q)' = RefOf(q)
  <2>1. CASE q[1] = t
    <3>1. q \in OwnOf(t) BY <2>1, OwnerOf
    <3>2. RefOf(q) = impl[q] BY <3>1, IdleAtRest
    <3>3. RefOf(q)' = impl[q] BY <1>6, <2>1 DEF RefOf, RefsInv, RefsTypeOK
    <3> QED BY <3>2, <3>3
  <2>2. CASE q[1] # t
    BY <1>6, <2>2, RefFrame DEF RefsInv, RefsTypeOK
  <2> QED BY <2>1, <2>2
<1>7. \A c \in Containers : Cardinality(Standing(c)') = Cardinality(Standing(c))
  BY <1>5, <1>6, SameStanding
<1>8. CallOK(t)'
  <2>1. run'[t] = [at |-> "incr", obj |-> o, rhs |-> p, c |-> At(p), then |-> "idle"]
    BY DEF RefsInv, RefsTypeOK
  <2>2. impl'[o] = At(p) /\ impl'[p[1]] = impl[p[1]]
    BY <1>1, <1>2 DEF RefsInv, RefsTypeOK
  <2>3. At(p)' = At(p)
    BY <2>2 DEF At
  <2>4. o # NULL /\ p # NULL
    BY <1>1, ObjectAssumption DEF Places
  <2>5. p[2] = "inside" => impl'[p[1]] # NULL /\ inner'[impl'[p[1]]] # NULL
    BY <2>2, <1>1 DEF At, Places
  <2>6. Other(t)'
    BY <2>1, <2>4, <2>5, <1>1, <1>2 DEF Other
  <2> QED BY <2>1, <2>2, <2>3, <2>4, <2>6 DEF CallOK
<1> QED
  <2>1. run[t].at = "idle" /\ run'[t].at = "incr" BY DEF NoCall, RefsInv, RefsTypeOK
  <2>2. \A u \in Owners \ {t} : run'[u] = run[u] BY DEF RefsInv, RefsTypeOK
  <2>3. \A q \in Objects : q[1] # t => impl'[q] = impl[q] BY <1>1 DEF RefsInv, RefsTypeOK
  <2> QED BY <1>4, <1>7, <1>8, <2>1, <2>2, <2>3, QuietStep

\* A call begins that does not change what its object is counted by.
LEMMA EnterStep ==
  ASSUME RefsInv, NEW t \in Owners, NEW o \in OwnOf(t), NEW r, r.obj = o, run[t] = NoCall,
         run' = [run EXCEPT ![t] = r], RefsTypeOK', UNCHANGED <<counter, inner, heap>>,
         \A q \in Objects \ {o} : impl'[q] = impl[q],
         \/ r.at = "decr" /\ r.c = impl[o]
         \/ r.at = "write" /\ impl'[o] = impl[o],
         CallOK(t)'
  PROVE  RefsInv'
<1>1. o \in Objects /\ o[1] = t
  BY OwnerOf
<1>2. run'[t] = r /\ \A u \in Owners \ {t} : run'[u] = run[u]
  BY DEF RefsInv, RefsTypeOK
<1>3. RefOf(o) = impl[o] /\ RefOf(o)' = impl[o]
  BY <1>1, <1>2, IdleAtRest DEF RefOf
<1>4. ASSUME NEW q \in Objects, q # o PROVE RefOf(q)' = RefOf(q)
  <2>1. CASE q[1] = t
    <3>1. q \in OwnOf(t) BY <2>1, OwnerOf
    <3>2. RefOf(q) = impl[q] BY <3>1, IdleAtRest
    <3>3. RefOf(q)' = impl[q] BY <1>2, <1>4, <2>1 DEF RefOf
    <3> QED BY <3>2, <3>3
  <2>2. CASE q[1] # t
    BY <1>2, <1>4, <2>2, RefFrame, OwnerOf
  <2> QED BY <2>1, <2>2
<1>5. \A c \in Containers : Cardinality(Standing(c)') = Cardinality(Standing(c))
  BY <1>3, <1>4, SameStanding
<1>6. run[t].at # "delete" /\ run'[t].at # "delete"
  BY <1>2 DEF NoCall
<1>7. \A q \in Objects : q[1] # t => impl'[q] = impl[q]
  BY <1>1
<1> QED BY <1>2, <1>5, <1>6, <1>7, QuietStep

\* operator=(const Object &) begins.
LEMMA CopyAssignStep ==
  ASSUME ~ Aliased, RefsInv, NEW t \in Owners, NEW o \in OwnOf(t),
         NEW p \in OwnOf(t) \X {"object", "inside"}, CopyAssign(t, o, p)
  PROVE  RefsInv'
<1> USE DEF CopyAssign, Enter
<1> DEFINE r == [at |-> "decr", obj |-> o, rhs |-> p, c |-> impl[o], then |-> "load"]
<1>1. o \in Objects /\ o[1] = t /\ p \in Places /\ p[1] \in Objects /\ p[1] \in OwnOf(t) /\ p[1] # o
  BY OwnerOf DEF Places, MayAssign
<1>2. RefsTypeOK'
  BY <1>1 DEF RefsInv, RefsTypeOK
<1>3. run'[t] = r
  BY DEF RefsInv, RefsTypeOK
<1>4. o # NULL /\ p # NULL
  BY <1>1, ObjectAssumption DEF Places
<1>5. p[2] = "inside" => impl[p[1]] # NULL /\ inner[impl[p[1]]] # NULL
  BY DEF At
<1>6. CallOK(t)'
  <2>1. Other(t)' BY <1>1, <1>3, <1>4, <1>5 DEF Other
  <2> QED BY <1>3, <1>4, <2>1 DEF CallOK
<1> QED BY <1>2, <1>6, EnterStep

\* operator=(Object &&) begins.
LEMMA MoveAssignStep ==
  ASSUME ~ Aliased, RefsInv, NEW t \in Owners, NEW o \in OwnOf(t), NEW s \in OwnOf(t), MoveAssign(t, o, s)
  PROVE  RefsInv'
<1> USE DEF MoveAssign, Enter
<1> DEFINE p == <<s, "object">>
<1> DEFINE r == [at |-> "decr", obj |-> o, rhs |-> p, c |-> impl[o], then |-> "take"]
<1>1. o \in Objects /\ o[1] = t /\ p \in Places /\ s \in Objects /\ s # o
  BY OwnerOf DEF Places, MayAssign
<1>2. RefsTypeOK'
  BY <1>1 DEF RefsInv, RefsTypeOK
<1>3. run'[t] = r
  BY DEF RefsInv, RefsTypeOK
<1>4. o # NULL /\ p # NULL
  BY <1>1, ObjectAssumption DEF Places
<1>6. CallOK(t)'
  <2>1. Other(t)' BY <1>1, <1>3, <1>4 DEF Other
  <2> QED BY <1>3, <1>4, <2>1 DEF CallOK
<1> QED BY <1>2, <1>6, EnterStep

\* ~Object begins.
LEMMA DestroyStep ==
  ASSUME RefsInv, NEW t \in Owners, NEW o \in OwnOf(t), Destroy(t, o)
  PROVE  RefsInv'
<1> USE DEF Destroy, Enter
<1> DEFINE r == [at |-> "decr", obj |-> o, rhs |-> NULL, c |-> impl[o], then |-> "idle"]
<1>1. o \in Objects /\ o[1] = t /\ o # NULL
  BY OwnerOf, ObjectAssumption
<1>2. RefsTypeOK'
  BY <1>1 DEF RefsInv, RefsTypeOK
<1>3. run'[t] = r /\ impl'[o] = NULL /\ \A q \in Objects \ {o} : impl'[q] = impl[q]
  BY <1>1 DEF RefsInv, RefsTypeOK
<1>4. CallOK(t)'
  BY <1>1, <1>3 DEF CallOK
<1> QED BY <1>2, <1>3, <1>4, EnterStep

\* Object::ref of a unique object.
LEMMA RefStep ==
  ASSUME RefsInv, NEW t \in Owners, NEW o \in OwnOf(t), Ref(t, o)
  PROVE  RefsInv'
<1> USE DEF Ref, Enter
<1> DEFINE r == [at |-> "write", obj |-> o, rhs |-> NULL, c |-> impl[o], then |-> "idle"]
<1>1. o \in Objects /\ o[1] = t /\ o # NULL
  BY OwnerOf, ObjectAssumption
<1>2. RefsTypeOK'
  BY <1>1 DEF RefsInv, RefsTypeOK
<1>3. run'[t] = r
  BY <1>1 DEF RefsInv, RefsTypeOK
<1>4. CallOK(t)'
  BY <1>1, <1>3 DEF CallOK, unique
<1> QED BY <1>2, <1>3, <1>4, EnterStep

\* Object(Object &&).
LEMMA MoveConstructStep ==
  ASSUME RefsInv, NEW t \in Owners, NEW o \in OwnOf(t), NEW s \in OwnOf(t), MoveConstruct(t, o, s)
  PROVE  RefsInv'
<1> USE DEF MoveConstruct
<1>1. o \in Objects /\ o[1] = t /\ s \in Objects /\ s[1] = t
  BY OwnerOf
<1>2. RefsTypeOK'
  BY <1>1 DEF RefsInv, RefsTypeOK
<1>3. /\ impl'[s] = NULL /\ (o # s => impl'[o] = impl[s])
      /\ \A q \in Objects \ {o, s} : impl'[q] = impl[q]
  BY <1>1 DEF RefsInv, RefsTypeOK
<1>4. /\ \A q \in OwnOf(t) : RefOf(q) = impl[q] /\ RefOf(q)' = impl'[q]
  <2>1. \A q \in OwnOf(t) : q \in Objects /\ run[q[1]].obj # q /\ RefOf(q) = impl[q]
    BY IdleAtRest
  <2> QED BY <2>1 DEF RefOf
<1>5. ASSUME NEW q \in Objects \ {o, s} PROVE RefOf(q)' = RefOf(q)
  BY <1>3, RefFrame, OwnerOf
<1>6. \A c \in Containers : Cardinality(Standing(c)') = Cardinality(Standing(c))
  <2>1. CASE o = s
    BY <1>3, <1>4, <1>5, <2>1, SameStanding
  <2>2. CASE o # s
    <3>1. RefOf(o) = NULL /\ RefOf(s)' = NULL /\ RefOf(o)' = RefOf(s)
      BY <1>3, <1>4, <2>2
    <3> HIDE DEF MoveConstruct
    <3> QED BY <1>1, <1>5, <2>2, <3>1, RefMoved
  <2> QED BY <2>1, <2>2
<1>7. CallOK(t)'
  BY DEF CallOK, NoCall
<1>8. run[t].at # "delete"
  BY DEF NoCall
<1> QED BY <1>1, <1>2, <1>3, <1>6, <1>7, <1>8, QuietStep

\* The other threads go on with their calls.
LEMMA OthersFrame ==
  ASSUME RefsInv, NEW t \in Owners, CallOK(t)',
         \A u \in Owners \ {t} : run'[u] = run[u],
         \A o \in Objects : o[1] # t => impl'[o] = impl[o],
         \A d \in Containers : heap[d] = "live" => inner'[d] = inner[d],
         \A u \in Owners \ {t} : run[u].at = "write" => counter'[run[u].c] = counter[run[u].c]
  PROVE  \A u \in Owners : CallOK(u)'
<1> TAKE u \in Owners
<1>1. CASE u = t BY <1>1
<1>2. CASE u # t
  <2>1. \A o \in OwnOf(u) : impl'[o] = impl[o]
    BY <1>2, OwnerOf
  <2> QED BY <1>2, <2>1, CallFrame
<1> QED BY <1>1, <1>2

\* A container of which an object of thread t has a reference is not written to by another.
LEMMA NotWritten ==
  ASSUME RefsInv, NEW t \in Owners, NEW u \in Owners, u # t, run[u].at = "write", NEW c \in Containers,
         (\E o \in OwnOf(t) : RefOf(o) = c) \/ (\E d \in Containers : InnerOf(d) = c)
  PROVE  run[u].c # c
<1> SUFFICES ASSUME run[u].c = c PROVE FALSE
  OBVIOUS
<1>1. run[u].obj \in OwnOf(u) /\ Standing(c) = {run[u].obj} /\ Within(c) = {}
  BY WriterOnly
<1>2. CASE \E o \in OwnOf(t) : RefOf(o) = c
  <2>1. PICK o \in OwnOf(t) : RefOf(o) = c BY <1>2
  <2>2. o \in Standing(c) BY <2>1, OwnerOf DEF Standing
  <2> QED BY <1>1, <2>2, OwnerOf
<1>3. CASE \E d \in Containers : InnerOf(d) = c
  BY <1>1, <1>3 DEF Within
<1> QED BY <1>2, <1>3

\* A copy is counted.
LEMMA RaiseStep ==
  ASSUME RefsInv, NEW t \in Owners, NEW o \in OwnOf(t), NEW c \in Containers,
         RefsTypeOK', UNCHANGED <<inner, heap>>, counter' = [counter EXCEPT ![c] = @ + 1],
         \A u \in Owners \ {t} : run'[u] = run[u],
         \A q \in Objects : q[1] # t => impl'[q] = impl[q],
         counter[c] \in Nat \ {0}, heap[c] = "live",
         RefOf(o) = NULL, RefOf(o)' = c, \A q \in Objects \ {o} : RefOf(q)' = RefOf(q),
         \A u \in Owners \ {t} : run[u].at = "write" => run[u].c # c,
         run[t].at # "delete", run'[t].at # "delete", CallOK(t)'
  PROVE  RefsInv'
<1>1. \A d \in Containers : counter'[d] = IF d = c THEN counter[d] + 1 ELSE counter[d]
  BY DEF RefsInv, RefsTypeOK
<1>2. o \in Objects
  BY OwnerOf
<1>3. Counts'
  <2> SUFFICES ASSUME NEW d \in Containers
               PROVE  counter'[d] = Cardinality(Standing(d)') + Cardinality(Within(d)')
    BY DEF Counts
  <2>1. \A e \in Containers : InnerOf(e)' = InnerOf(e) BY DEF InnerOf
  <2>2. Cardinality(Within(d)') = Cardinality(Within(d)) BY <2>1, SameWithin
  <2>3. Cardinality(Standing(d)') + One(RefOf(o) = d) = Cardinality(Standing(d)) + One(RefOf(o)' = d)
    BY <1>2, RefChanged
  <2>4. One(RefOf(o) = d) = 0 /\ One(RefOf(o)' = d) = IF d = c THEN 1 ELSE 0
    BY ObjectAssumption DEF One
  <2>5. counter[d] = Cardinality(Standing(d)) + Cardinality(Within(d))
    BY DEF RefsInv, Counts
  <2> HIDE DEF One
  <2> QED BY <1>1, <2>2, <2>3, <2>4, <2>5, StandingFinite, StandingFinite2
<1>4. Lives'
  <2>1. Lives BY DEF RefsInv
  <2>2. \A u \in Owners : run'[u].at = "delete" <=> run[u].at = "delete" OBVIOUS
  <2>3. \A u \in Owners : run[u].at = "delete" => run'[u].c = run[u].c OBVIOUS
  <2>4. \A d \in Containers : counter'[d] = 0 <=> counter[d] = 0
    BY <1>1 DEF RefsInv, RefsTypeOK
  <2>5. \A u \in Owners : run[u].at = "delete" => run[u].c \in Containers
    BY DEF RefsInv, RefsTypeOK, Lives
  <2> QED BY <2>1, <2>2, <2>3, <2>4, <2>5 DEF Lives
<1>5. \A u \in Owners : CallOK(u)'
  <2>1. \A u \in Owners \ {t} : run[u].at = "write" => counter'[run[u].c] = counter[run[u].c]
    BY <1>1, WriterOnly
  <2> QED BY <2>1, OthersFrame
<1> QED BY <1>3, <1>4, <1>5 DEF RefsInv

\* A thread inside of a call works on an object of its own.
LEMMA InCall ==
  ASSUME RefsInv, NEW t \in Owners, run[t].at # "idle"
  PROVE  run[t].obj \in OwnOf(t) /\ run[t].obj \in Objects /\ run[t].obj[1] = t /\ run[t].obj # NULL
  BY OwnerOf DEF RefsInv, RefsTypeOK, CallOK

\* Of the objects of a thread, only the one that it works on is counted
\* otherwise than by what it points at.
LEMMA OwnRefs ==
  ASSUME NEW t \in Owners, NEW o \in OwnOf(t), run[t].obj = o, run'[t].obj = o \/ run'[t].obj = NULL,
         \A u \in Owners \ {t} : run'[u] = run[u],
         \A q \in Objects \ {o} : impl'[q] = impl[q]
  PROVE  \A q \in Objects \ {o} : RefOf(q)' = RefOf(q)
<1> TAKE q \in Objects \ {o}
<1>1. CASE q[1] = t
  <2>1. q # NULL BY ObjectAssumption
  <2>2. run[q[1]].obj # q /\ run'[q[1]].obj # q BY <1>1, <2>1
  <2> QED BY <2>2 DEF RefOf
<1>2. CASE q[1] # t
  BY <1>2, RefFrame, OwnerOf
<1> QED BY <1>1, <1>2

\* The reference that ref() returned is no longer written to.
LEMMA WrittenStep ==
  ASSUME RefsInv, NEW t \in Owners, Written(t)
  PROVE  RefsInv'
<1> USE DEF Written
<1>1. PICK o \in OwnOf(t) : o = run[t].obj /\ o \in Objects /\ o[1] = t /\ o # NULL
  BY InCall
<1>2. run'[t] = NoCall /\ \A u \in Owners \ {t} : run'[u] = run[u]
  BY DEF Goes, RefsInv, RefsTypeOK
<1>3. RefsTypeOK'
  BY <1>2 DEF RefsInv, RefsTypeOK, NoCall, Goes
<1>4. RefOf(o)' = RefOf(o)
  BY <1>1, <1>2 DEF RefOf, NoCall
<1>5. \A q \in Objects \ {o} : RefOf(q)' = RefOf(q)
  BY <1>1, <1>2, OwnRefs DEF NoCall
<1>6. \A c \in Containers : Cardinality(Standing(c)') = Cardinality(Standing(c))
  BY <1>4, <1>5, SameStanding
<1>7. CallOK(t)'
  BY <1>2 DEF CallOK, NoCall
<1> QED BY <1>2, <1>3, <1>6, <1>7, QuietStep DEF NoCall

\* operator=(const Object &) stores the right-hand side's pointer.
LEMMA LoadRhsStep ==
  ASSUME RefsInv, NEW t \in Owners, LoadRhs(t)
  PROVE  RefsInv'
<1> USE DEF LoadRhs
<1>1. PICK o \in OwnOf(t) : o = run[t].obj /\ o \in Objects /\ o[1] = t /\ o # NULL
  BY InCall
<1>0. PICK p \in Places \union {NULL} : p = run[t].rhs
  BY DEF RefsInv, RefsTypeOK
<1>2. Other(t) /\ CallOK(t)
  BY DEF RefsInv, CallOK
<1>3. p[1] \in Objects /\ p[1] # o /\ At(p) \in Containers \union {NULL}
  BY <1>0, <1>1, <1>2, RhsCounted DEF Other
<1>4. /\ run'[t].at = "incr" /\ run'[t].c = At(p) /\ run'[t].obj = o /\ run'[t].rhs = p
      /\ run'[t].then = run[t].then
      /\ \A u \in Owners \ {t} : run'[u] = run[u]
  BY <1>0, <1>1 DEF RefsInv, RefsTypeOK
<1>5. RefsTypeOK'
  BY <1>0, <1>1, <1>3, ZenonT(40) DEF RefsInv, RefsTypeOK
<1>6. impl'[o] = At(p) /\ \A q \in Objects \ {o} : impl'[q] = impl[q]
  BY <1>0, <1>1 DEF RefsInv, RefsTypeOK
<1>7. At(p)' = At(p)
  BY <1>0, <1>1, <1>3, <1>6, SMTT(40) DEF At
<1>8. RefOf(o) = NULL /\ RefOf(o)' = NULL
  BY <1>0, <1>1, <1>4 DEF RefOf
<1>9. \A q \in Objects \ {o} : RefOf(q)' = RefOf(q)
  BY <1>0, <1>1, <1>4, <1>6, OwnRefs
<1>10. \A c \in Containers : Cardinality(Standing(c)') = Cardinality(Standing(c))
  BY <1>0, <1>1, <1>8, <1>9, SameStanding
<1>11. CallOK(t)'
  <2>1. Other(t)' BY <1>0, <1>1, <1>2, <1>3, <1>4, <1>6 DEF Other
  <2> QED BY <1>0, <1>1, <1>2, <1>4, <1>6, <1>7, <2>1 DEF CallOK
<1> QED BY <1>0, <1>1, <1>4, <1>5, <1>6, <1>10, <1>11, QuietStep

\* operator=(Object &&) takes the right-hand side's pointer.
LEMMA TakeStep ==
  ASSUME RefsInv, NEW t \in Owners, Take(t)
  PROVE  RefsInv'
<1> USE DEF Take
<1>1. PICK o \in OwnOf(t) : o = run[t].obj /\ o \in Objects /\ o[1] = t /\ o # NULL
  BY InCall
<1>2. Other(t)
  BY DEF RefsInv, CallOK
<1>3. PICK s \in Objects : s = run[t].rhs[1] /\ s # o /\ s[1] = t /\ RefOf(s) = impl[s] /\ s # NULL
  BY <1>1, <1>2, RhsCounted, OwnerOf, ObjectAssumption DEF Other
<1>4. run'[t] = NoCall /\ \A u \in Owners \ {t} : run'[u] = run[u]
  BY DEF Goes, RefsInv, RefsTypeOK
<1>5. RefsTypeOK'
  BY <1>1, <1>3, <1>4 DEF RefsInv, RefsTypeOK, NoCall, Goes, Moved
<1>6. impl'[o] = impl[s] /\ impl'[s] = NULL /\ \A q \in Objects \ {o, s} : impl'[q] = impl[q]
  BY <1>1, <1>3 DEF RefsInv, RefsTypeOK, Moved
<1>7. RefOf(o) = NULL /\ RefOf(o)' = impl[s] /\ RefOf(s)' = NULL
  BY <1>1, <1>3, <1>4, <1>6 DEF RefOf, NoCall
<1>8. ASSUME NEW q \in Objects \ {o, s} PROVE RefOf(q)' = RefOf(q)
  <2>1. CASE q[1] = t
    <3>1. q # NULL BY ObjectAssumption
    <3>2. run[q[1]].obj # q /\ run'[q[1]].obj # q BY <1>1, <1>4, <2>1, <3>1 DEF NoCall
    <3> QED BY <1>6, <3>2 DEF RefOf
  <2>2. CASE q[1] # t
    BY <1>4, <1>6, <2>2, RefFrame, OwnerOf
  <2> QED BY <2>1, <2>2
<1>9. \A c \in Containers : Cardinality(Standing(c)') = Cardinality(Standing(c))
  <2> HIDE DEF Take
  <2> QED BY <1>1, <1>3, <1>7, <1>8, RefMoved
<1>10. CallOK(t)'
  BY <1>4 DEF CallOK, NoCall
<1> QED BY <1>1, <1>3, <1>4, <1>5, <1>6, <1>9, <1>10, QuietStep DEF NoCall

\* incr: what it counts is kept alive by the right-hand side.
LEMMA IncrStep ==
  ASSUME RefsInv, NEW t \in Owners, Incr(t)
  PROVE  RefsInv'
<1> USE DEF Incr
<1>1. PICK o \in OwnOf(t) : o = run[t].obj /\ o \in Objects /\ o[1] = t /\ o # NULL
  BY InCall
<1>2. PICK c \in Containers \union {NULL} : Other(t) /\ c = run[t].c /\ c = impl[o] /\ c = At(run[t].rhs)
  BY <1>1 DEF RefsInv, RefsTypeOK, CallOK
<1>3. run'[t] = NoCall /\ \A u \in Owners \ {t} : run'[u] = run[u]
  BY DEF Goes, RefsInv, RefsTypeOK
<1>4. RefsTypeOK'
  BY <1>2, <1>3 DEF RefsInv, RefsTypeOK, NoCall, Goes, Counted
<1>5. RefOf(o) = NULL /\ RefOf(o)' = c
  BY <1>1, <1>2, <1>3 DEF RefOf, NoCall
<1>6. \A q \in Objects \ {o} : RefOf(q)' = RefOf(q)
  BY <1>1, <1>3, OwnRefs DEF NoCall
<1>7. CallOK(t)'
  BY <1>3 DEF CallOK, NoCall
<1>8. CASE c = NULL
  <2>1. \A d \in Containers : Cardinality(Standing(d)') = Cardinality(Standing(d))
    BY <1>5, <1>6, <1>8, SameStanding
  <2> QED BY <1>2, <1>3, <1>4, <1>7, <1>8, <2>1, QuietStep DEF NoCall
<1>9. CASE c # NULL
  <2>1. c \in Containers /\ counter[c] \in Nat \ {0} /\ heap[c] = "live"
    BY <1>2, <1>9, RhsCounted
  <2>2. counter' = [counter EXCEPT ![c] = @ + 1]
    BY <1>2, <1>9 DEF Counted
  <2>3. (\E q \in OwnOf(t) : RefOf(q) = c) \/ (\E d \in Containers : InnerOf(d) = c)
    <3>1. run[t].rhs \in Places /\ run[t].rhs[1] \in OwnOf(t)
      BY <1>2 DEF RefsInv, RefsTypeOK, Other
    <3>2. CASE run[t].rhs[2] = "object"
      BY <1>2, <3>1, <3>2, RhsCounted DEF At
    <3>3. CASE run[t].rhs[2] = "inside"
      <4>1. impl[run[t].rhs[1]] \in Containers /\ InnerOf(impl[run[t].rhs[1]]) = inner[impl[run[t].rhs[1]]]
        BY <1>2, <3>3, RhsCounted
      <4>2. c = inner[impl[run[t].rhs[1]]]
        BY <1>2, <1>9, <3>3 DEF At
      <4> QED BY <4>1, <4>2
    <3> QED BY <3>1, <3>2, <3>3 DEF Places
  <2>4. \A u \in Owners \ {t} : run[u].at = "write" => run[u].c # c
    BY <2>1, <2>3, NotWritten
  <2>5. run[t].at # "delete" /\ run'[t].at # "delete" /\ UNCHANGED <<impl, inner, heap>>
    BY <1>3 DEF NoCall
  <2> HIDE DEF Incr
  <2> QED BY <1>1, <1>3, <1>4, <1>5, <1>6, <1>7, <2>1, <2>2, <2>4, <2>5, RaiseStep
<1> QED BY <1>8, <1>9

\* A copy for another thread.
LEMMA HandStep ==
  ASSUME RefsInv, NEW s \in Objects, NEW o \in Objects, s[1] # o[1], Hand(o[1], o, s)
  PROVE  RefsInv'
<1> USE DEF Hand
<1> DEFINE t == o[1]
<1>0. PICK c : c = impl[s]
  OBVIOUS
<1>1. t \in Owners /\ s[1] \in Owners /\ o \in OwnOf(t) /\ s \in OwnOf(s[1])
  BY OwnerOf
<1>2. RefOf(o) = NULL /\ RefOf(s) = c
  BY <1>0, <1>1, IdleAtRest
<1>3. c \in Containers /\ counter[c] \in Nat \ {0} /\ heap[c] = "live"
  <2>1. c \in Containers BY <1>0 DEF RefsInv, RefsTypeOK
  <2> QED BY <1>2, <2>1, CountedLives
<1>4. impl'[o] = c /\ \A q \in Objects \ {o} : impl'[q] = impl[q]
  BY <1>0 DEF RefsInv, RefsTypeOK
<1>5. RefsTypeOK'
  BY <1>0, <1>3 DEF RefsInv, RefsTypeOK, Counted
<1>6. RefOf(o)' = c
  <2>1. run[t].obj # o BY <1>1, IdleAtRest
  <2> QED BY <1>4, <2>1 DEF RefOf
<1>7. \A q \in Objects \ {o} : RefOf(q)' = RefOf(q)
  BY <1>4, RefFrame
<1>8. \A u \in Owners \ {t} : run[u].at = "write" => run[u].c # c
  <2>1. \A u \in Owners : run[u].at = "write" => u # s[1]
    BY DEF NoCall
  <2> QED BY <1>1, <1>2, <1>3, <2>1, NotWritten
<1>9. CallOK(t)' /\ run[t].at # "delete" /\ run'[t].at # "delete"
  BY DEF CallOK, NoCall
<1>10. /\ counter' = [counter EXCEPT ![c] = @ + 1] /\ UNCHANGED <<inner, heap, run>>
       /\ \A q \in Objects : q[1] # t => impl'[q] = impl[q]
  BY <1>0, <1>4 DEF Counted
<1> HIDE DEF Hand, t
<1> QED BY <1>1, <1>2, <1>3, <1>5, <1>6, <1>7, <1>8, <1>9, <1>10, RaiseStep

\* A new container, maybe with a copy of an object inside of it.
LEMMA MakeStep ==
  ASSUME RefsInv, NEW t \in Owners, NEW o \in OwnOf(t), NEW s \in OwnOf(t) \union {NULL}, Make(t, o, s)
  PROVE  RefsInv'
<1>1. o \in Objects /\ o[1] = t
  BY OwnerOf
<1>2. PICK i \in Containers \union {NULL} : i = IF s = NULL THEN NULL ELSE impl[s]
  <2>1. s # NULL => impl[s] \in Containers \union {NULL}
    BY OwnerOf DEF RefsInv, RefsTypeOK
  <2> QED BY <2>1
<1>3. PICK c \in Containers :
        /\ heap[c] = "none"
        /\ heap' = [heap EXCEPT ![c] = "live"] /\ impl' = [impl EXCEPT ![o] = c]
        /\ inner' = [inner EXCEPT ![c] = i]
        /\ counter' = [d \in Containers |->
             IF d = c THEN 1 ELSE IF s # NULL /\ d = impl[s] THEN counter[d] + 1 ELSE counter[d]]
  BY <1>2 DEF Make
<1>4. run' = run /\ run[t] = NoCall /\ impl[o] = NULL
  BY DEF Make
<1>5. counter[c] = 0
  BY <1>3 DEF RefsInv, Lives
<1>6. i \in Containers => /\ s \in OwnOf(t) /\ RefOf(s) = i
                          /\ counter[i] \in Nat \ {0} /\ heap[i] = "live" /\ i # c
  <2> HAVE i \in Containers
  <2>1. s \in OwnOf(t) /\ impl[s] = i
    BY <1>2, ObjectAssumption
  <2>2. RefOf(s) = i /\ s \in Objects
    BY <1>4, <2>1, IdleAtRest
  <2> QED BY <1>3, <2>1, <2>2, CountedLives
<1>7. \A d \in Containers : counter'[d] = IF d = c THEN 1 ELSE IF d = i THEN counter[d] + 1 ELSE counter[d]
  <2> TAKE d \in Containers
  <2>1. (s # NULL /\ d = impl[s]) <=> d = i
    BY <1>2, ObjectAssumption
  <2> QED BY <1>3, <2>1
<1>8. RefsTypeOK'
  BY <1>1, <1>3, <1>4, <1>2 DEF RefsInv, RefsTypeOK
<1>9. RefOf(o) = NULL /\ RefOf(o)' = c
  <2>1. run[o[1]].obj # o /\ RefOf(o) = impl[o] BY <1>4, IdleAtRest
  <2>2. impl'[o] = c BY <1>1, <1>3 DEF RefsInv, RefsTypeOK
  <2> QED BY <1>4, <2>1, <2>2 DEF RefOf
<1>10. \A q \in Objects \ {o} : impl'[q] = impl[q] /\ RefOf(q)' = RefOf(q)
  <2>1. \A q \in Objects \ {o} : impl'[q] = impl[q] BY <1>3 DEF RefsInv, RefsTypeOK
  <2> QED BY <1>4, <2>1, RefFrame
<1>11. /\ InnerOf(c) = NULL /\ InnerOf(c)' = i
       /\ \A d \in Containers \ {c} : InnerOf(d)' = InnerOf(d) /\ inner'[d] = inner[d] /\ heap'[d] = heap[d]
       /\ heap'[c] = "live"
  <2>1. /\ heap'[c] = "live" /\ inner'[c] = i
        /\ \A d \in Containers \ {c} : inner'[d] = inner[d] /\ heap'[d] = heap[d]
    BY <1>3 DEF RefsInv, RefsTypeOK
  <2> QED BY <1>3, <2>1 DEF InnerOf
<1>12. Counts'
  <2> SUFFICES ASSUME NEW d \in Containers
               PROVE  counter'[d] = Cardinality(Standing(d)') + Cardinality(Within(d)')
    BY DEF Counts
  <2>1. Cardinality(Standing(d)') + One(RefOf(o) = d) = Cardinality(Standing(d)) + One(RefOf(o)' = d)
    BY <1>1, <1>10, RefChanged
  <2>2. Cardinality(Within(d)') + One(InnerOf(c) = d) = Cardinality(Within(d)) + One(InnerOf(c)' = d)
    BY <1>11, InnerChanged
  <2>3. /\ One(RefOf(o) = d) = 0 /\ One(RefOf(o)' = d) = IF d = c THEN 1 ELSE 0
        /\ One(InnerOf(c) = d) = 0 /\ One(InnerOf(c)' = d) = IF d = i THEN 1 ELSE 0
    BY <1>9, <1>11, ObjectAssumption DEF One
  <2>4. counter[d] = Cardinality(Standing(d)) + Cardinality(Within(d))
    BY DEF RefsInv, Counts
  <2>5. d = c => counter[d] = 0 /\ d # i
    BY <1>5, <1>6
  <2>6. counter'[d] = IF d = c THEN 1 ELSE IF d = i THEN counter[d] + 1 ELSE counter[d]
    BY <1>7
  <2> QED BY <2>1, <2>2, <2>3, <2>4, <2>5, <2>6, StandingFinite, StandingFinite2
<1>13. Lives'
  <2>1. Lives BY DEF RefsInv
  <2>2. \A d \in Containers : d # c => (counter'[d] = 0 <=> counter[d] = 0)
    BY <1>6, <1>7 DEF RefsInv, RefsTypeOK
  <2>3. counter'[c] = 1 BY <1>7
  <2>4. \A u \in Owners : run[u].at = "delete" => run[u].c \in Containers /\ run[u].c # c
    BY <1>3 DEF RefsInv, RefsTypeOK, Lives
  <2> QED BY <1>4, <1>11, <2>1, <2>2, <2>3, <2>4 DEF Lives
<1>14. \A u \in Owners : CallOK(u)'
  <2>1. \A u \in Owners \ {t} : run[u].at = "write" => counter'[run[u].c] = counter[run[u].c]
    <3> TAKE u \in Owners \ {t}
    <3> HAVE run[u].at = "write"
    <3>1. run[u].c \in Containers /\ counter[run[u].c] = 1
      BY WriterOnly DEF RefsInv, CallOK
    <3>2. run[u].c # i
      BY <1>6, <3>1, NotWritten
    <3> QED BY <1>5, <1>7, <3>1, <3>2
  <2>2. CallOK(t)'
    BY <1>4 DEF CallOK, NoCall
  <2>3. \A d \in Containers : heap[d] = "live" => inner'[d] = inner[d]
    BY <1>3, <1>11
  <2>4. \A q \in Objects : q[1] # t => impl'[q] = impl[q]
    BY <1>1, <1>10
  <2> QED BY <1>4, <2>1, <2>2, <2>3, <2>4, OthersFrame
<1> QED BY <1>8, <1>12, <1>13, <1>14 DEF RefsInv

\* What a call knows of its right-hand side stays true when only the step,
\* and the container that it touches, change.
LEMMA NextPart ==
  ASSUME RefsInv, NEW t \in Owners, run[t].at \in {"decr", "delete"}, UNCHANGED <<impl, inner>>,
         run'[t].obj = run[t].obj, run'[t].rhs = run[t].rhs, run'[t].then = run[t].then,
         \/ run'[t].at \in {"decr", "delete"}
         \/ run[t].then \in {"load", "take"} /\ run'[t].at = run[t].then
  PROVE  CallOK(t)'
<1>1. CallOK(t) /\ run[t].then \in {"idle", "load", "take"}
  BY DEF RefsInv, RefsTypeOK
<1>2. run[t].then \in {"load", "take"} => Other(t)'
  BY <1>1 DEF CallOK, Other
<1> QED BY <1>1, <1>2 DEF CallOK

\* decr: who brings the counter to zero is alone with the container.
LEMMA DecrStep ==
  ASSUME RefsInv, NEW t \in Owners, Decr(t)
  PROVE  RefsInv'
<1>0. run[t].at = "decr" /\ UNCHANGED <<impl, inner, heap>> /\ CallOK(t)
  BY DEF Decr, RefsInv
<1>1. PICK o \in OwnOf(t) : o = run[t].obj /\ o \in Objects /\ o[1] = t /\ o # NULL
  BY <1>0, InCall
<1>2. PICK c \in Containers \union {NULL} : c = run[t].c
  BY DEF RefsInv, RefsTypeOK
<1>3. PICK at \in {"idle", "load", "take", "delete"} :
        /\ Goes(t, at)
        /\ at = IF c # NULL /\ counter[c] = 1 THEN "delete" ELSE run[t].then
        /\ counter' = IF c = NULL THEN counter ELSE [counter EXCEPT ![c] = @ - 1]
  <2>1. run[t].then \in {"idle", "load", "take"} BY DEF RefsInv, RefsTypeOK
  <2> QED BY <1>2, <2>1 DEF Decr, IsLast
<1>4. \A u \in Owners \ {t} : run'[u] = run[u]
  BY <1>3 DEF Goes, RefsInv, RefsTypeOK
<1>5. /\ at = "idle" => run'[t] = NoCall
      /\ at # "idle" => /\ run'[t].at = at /\ run'[t].obj = o /\ run'[t].rhs = run[t].rhs
                        /\ run'[t].c = c /\ run'[t].then = run[t].then
  BY <1>1, <1>2, <1>3 DEF Goes, RefsInv, RefsTypeOK
<1>6. RefOf(o) = c
  BY <1>0, <1>1, <1>2 DEF RefOf
<1>7. RefOf(o)' = NULL
  <2>1. CASE at = "idle"
    <3>1. impl[o] = NULL BY <1>0, <1>1, <1>3, <2>1 DEF CallOK
    <3> QED BY <1>0, <1>1, <1>5, <2>1, <3>1 DEF RefOf, NoCall
  <2>2. CASE at # "idle"
    BY <1>1, <1>3, <1>5, <2>2 DEF RefOf
  <2> QED BY <2>1, <2>2
<1>8. \A q \in Objects \ {o} : RefOf(q)' = RefOf(q)
  <2>1. run'[t].obj = o \/ run'[t].obj = NULL
    BY <1>5 DEF NoCall
  <2> QED BY <1>0, <1>1, <1>4, <2>1, OwnRefs
<1>9. CallOK(t)'
  <2>1. CASE at = "idle"
    BY <1>5, <2>1 DEF CallOK, NoCall
  <2>2. CASE at # "idle"
    BY <1>0, <1>1, <1>3, <1>5, <2>2, NextPart
  <2> QED BY <2>1, <2>2
<1>10. c # NULL => c \in Containers /\ counter[c] \in Nat \ {0} /\ heap[c] = "live"
  BY <1>1, <1>6, CountedLives
<1>11. RefsTypeOK'
  <2>1. counter' \in [Containers -> Nat]
    BY <1>3, <1>10, SMTT(40) DEF RefsInv, RefsTypeOK
  <2> QED BY <1>0, <1>3, <2>1 DEF Goes, NoCall, RefsInv, RefsTypeOK
<1>12. CASE c = NULL
  <2>1. \A d \in Containers : Cardinality(Standing(d)') = Cardinality(Standing(d))
    BY <1>6, <1>7, <1>8, <1>12, SameStanding
  <2>2. run[t].at # "delete" /\ run'[t].at # "delete"
    <3>1. run[t].then # "delete" BY DEF RefsInv, RefsTypeOK
    <3> QED BY <1>0, <1>3, <1>5, <1>12, <3>1 DEF NoCall
  <2> QED BY <1>0, <1>3, <1>4, <1>9, <1>11, <1>12, <2>1, <2>2, QuietStep
<1>13. CASE c # NULL
  <2>1. \A d \in Containers : counter'[d] = IF d = c THEN counter[d] - 1 ELSE counter[d]
    BY <1>3, <1>13 DEF RefsInv, RefsTypeOK
  <2>2. Counts'
    <3> SUFFICES ASSUME NEW d \in Containers
                 PROVE  counter'[d] = Cardinality(Standing(d)') + Cardinality(Within(d)')
      BY DEF Counts
    <3>1. \A e \in Containers : InnerOf(e)' = InnerOf(e) BY <1>0 DEF InnerOf
    <3>2. Cardinality(Within(d)') = Cardinality(Within(d)) BY <3>1, SameWithin
    <3>3. Cardinality(Standing(d)') + One(RefOf(o) = d) = Cardinality(Standing(d)) + One(RefOf(o)' = d)
      BY <1>1, <1>8, RefChanged
    <3>4. One(RefOf(o)' = d) = 0 /\ One(RefOf(o) = d) = IF d = c THEN 1 ELSE 0
      BY <1>6, <1>7, ObjectAssumption DEF One
    <3>5. counter[d] = Cardinality(Standing(d)) + Cardinality(Within(d))
      BY DEF RefsInv, Counts
    <3>6. counter'[d] = IF d = c THEN counter[d] - 1 ELSE counter[d]
      BY <2>1
    <3> QED BY <3>2, <3>3, <3>4, <3>5, <3>6, StandingFinite, StandingFinite2
  <2>3. Lives'
    <3>1. Lives BY DEF RefsInv
    <3>2. counter[c] = 1 => run'[t].at = "delete" /\ run'[t].c = c /\ counter'[c] = 0
      BY <1>3, <1>5, <1>10, <1>13, <2>1
    <3>3. counter[c] # 1 => run'[t].at # "delete" /\ counter'[c] # 0
      <4>1. run[t].then # "delete" BY DEF RefsInv, RefsTypeOK
      <4> QED BY <1>3, <1>5, <1>10, <1>13, <2>1, <4>1 DEF NoCall
    <3>4. \A u \in Owners \ {t} : run[u].at = "delete" => run[u].c \in Containers /\ run[u].c # c
      BY <1>10, <1>13 DEF RefsInv, RefsTypeOK, Lives
    <3>5. \A d \in Containers \ {c} : counter'[d] = counter[d]
      BY <2>1
    <3>6. \A d \in Containers : heap'[d] # "live" => counter'[d] = 0
      BY <1>0, <1>10, <1>13, <3>1, <3>5 DEF Lives
    <3>7. ASSUME NEW d \in Containers, heap'[d] = "live", counter'[d] = 0
          PROVE  \E u \in Owners : run'[u].at = "delete" /\ run'[u].c = d
      <4>1. CASE d = c BY <3>2, <3>3, <3>7, <4>1
      <4>2. CASE d # c
        <5>1. PICK u \in Owners : run[u].at = "delete" /\ run[u].c = d
          BY <1>0, <3>1, <3>5, <3>7, <4>2 DEF Lives
        <5>2. u # t BY <1>0, <5>1
        <5> QED BY <1>4, <5>1, <5>2
      <4> QED BY <4>1, <4>2
    <3>8. ASSUME NEW u \in Owners, run'[u].at = "delete"
          PROVE  run'[u].c # NULL /\ heap'[run'[u].c] = "live" /\ counter'[run'[u].c] = 0
      <4>1. CASE u = t BY <1>0, <1>10, <1>13, <3>2, <3>3, <3>8, <4>1
      <4>2. CASE u # t
        <5>1. run'[u] = run[u] BY <1>4, <4>2
        <5>2. run[u].c \in Containers \ {c} BY <3>4, <3>8, <4>2, <5>1
        <5> QED BY <1>0, <3>1, <3>5, <3>8, <5>1, <5>2 DEF Lives
      <4> QED BY <4>1, <4>2
    <3>9. ASSUME NEW u \in Owners, NEW v \in Owners, run'[u].at = "delete", run'[v].at = "delete", u # v
          PROVE  run'[u].c # run'[v].c
      <4>1. CASE u = t
        <5>1. run'[u].c = c BY <3>2, <3>3, <3>9, <4>1
        <5>2. run'[v] = run[v] /\ run[v].c # c BY <1>4, <3>4, <3>9, <4>1
        <5> QED BY <5>1, <5>2
      <4>2. CASE v = t
        <5>1. run'[v].c = c BY <3>2, <3>3, <3>9, <4>2
        <5>2. run'[u] = run[u] /\ run[u].c # c BY <1>4, <3>4, <3>9, <4>2
        <5> QED BY <5>1, <5>2
      <4>3. CASE u # t /\ v # t
        BY <1>4, <3>1, <3>9, <4>3 DEF Lives
      <4> QED BY <4>1, <4>2, <4>3
    <3> QED BY <3>6, <3>7, <3>8, <3>9 DEF Lives
  <2>4. \A u \in Owners : CallOK(u)'
    <3>1. \A u \in Owners \ {t} : run[u].at = "write" => run[u].c \in Containers /\ run[u].c # c
      BY <1>6, <1>10, <1>13, WriterOnly, NotWritten
    <3>2. \A u \in Owners \ {t} : run[u].at = "write" => counter'[run[u].c] = counter[run[u].c]
      BY <2>1, <3>1
    <3> QED BY <1>0, <1>4, <1>9, <3>2, OthersFrame
  <2> QED BY <1>11, <2>2, <2>3, <2>4 DEF RefsInv
<1> QED BY <1>12, <1>13

\* delete: the count of what was inside becomes the deleting thread's.
LEMMA DeleteStep ==
  ASSUME RefsInv, NEW t \in Owners, Delete(t)
  PROVE  RefsInv'
<1>0. run[t].at = "delete" /\ UNCHANGED <<impl, inner, counter>> /\ Lives
  BY DEF Delete, RefsInv
<1>1. PICK o \in OwnOf(t) : o = run[t].obj /\ o \in Objects /\ o[1] = t /\ o # NULL
  BY <1>0, InCall
<1>2. PICK c \in Containers : c = run[t].c /\ heap[c] = "live" /\ counter[c] = 0
  BY <1>0 DEF RefsInv, RefsTypeOK, Lives
<1>3. PICK i \in Containers \union {NULL} : i = inner[c]
  BY DEF RefsInv, RefsTypeOK
<1>4. /\ \A u \in Owners \ {t} : run'[u] = run[u]
      /\ run'[t].at = "decr" /\ run'[t].c = i /\ run'[t].obj = o /\ run'[t].rhs = run[t].rhs
      /\ run'[t].then = run[t].then
  BY <1>1, <1>2, <1>3 DEF Delete, RefsInv, RefsTypeOK
<1>5. heap'[c] = "deleted" /\ \A d \in Containers \ {c} : heap'[d] = heap[d]
  BY <1>2 DEF Delete, RefsInv, RefsTypeOK
<1>6. RefsTypeOK'
  BY <1>2, <1>3, ZenonT(40) DEF Delete, RefsInv, RefsTypeOK
<1>7. RefOf(o) = NULL /\ RefOf(o)' = i
  BY <1>0, <1>1, <1>4 DEF RefOf
<1>8. \A q \in Objects \ {o} : RefOf(q)' = RefOf(q)
  BY <1>0, <1>1, <1>4, OwnRefs
<1>9. InnerOf(c) = i /\ InnerOf(c)' = NULL /\ \A d \in Containers \ {c} : InnerOf(d)' = InnerOf(d)
  BY <1>0, <1>2, <1>3, <1>5 DEF InnerOf
<1>10. Counts'
  <2> SUFFICES ASSUME NEW d \in Containers
               PROVE  counter'[d] = Cardinality(Standing(d)') + Cardinality(Within(d)')
    BY DEF Counts
  <2>1. Cardinality(Standing(d)') + One(RefOf(o) = d) = Cardinality(Standing(d)) + One(RefOf(o)' = d)
    BY <1>1, <1>8, RefChanged
  <2>2. Cardinality(Within(d)') + One(InnerOf(c) = d) = Cardinality(Within(d)) + One(InnerOf(c)' = d)
    BY <1>9, InnerChanged
  <2>3. /\ One(RefOf(o) = d) = 0 /\ One(RefOf(o)' = d) = One(i = d)
        /\ One(InnerOf(c) = d) = One(i = d) /\ One(InnerOf(c)' = d) = 0 /\ One(i = d) \in Nat
    BY <1>7, <1>9, ObjectAssumption DEF One
  <2>4. counter'[d] = Cardinality(Standing(d)) + Cardinality(Within(d))
    BY <1>0 DEF RefsInv, Counts
  <2> QED BY <2>1, <2>2, <2>3, <2>4, StandingFinite, StandingFinite2
<1>11. Lives'
  <2>1. \A u \in Owners \ {t} : run[u].at = "delete" => run[u].c \in Containers \ {c}
    BY <1>0, <1>2 DEF RefsInv, RefsTypeOK, Lives
  <2>2. \A u \in Owners : run'[u].at = "delete" => u # t /\ run'[u] = run[u]
    BY <1>4
  <2>3. ASSUME NEW d \in Containers, heap'[d] = "live", counter'[d] = 0
        PROVE  \E u \in Owners : run'[u].at = "delete" /\ run'[u].c = d
    <3>1. d # c /\ heap[d] = "live" /\ counter[d] = 0 BY <1>0, <1>5, <2>3
    <3>2. PICK u \in Owners : run[u].at = "delete" /\ run[u].c = d BY <1>0, <3>1 DEF Lives
    <3>3. u # t BY <1>2, <3>1, <3>2
    <3> QED BY <1>4, <3>2, <3>3
  <2>4. \A d \in Containers : heap'[d] # "live" => counter'[d] = 0
    BY <1>0, <1>2, <1>5 DEF Lives
  <2>5. \A u \in Owners : run'[u].at = "delete" =>
          run'[u].c # NULL /\ heap'[run'[u].c] = "live" /\ counter'[run'[u].c] = 0
    BY <1>0, <1>5, <2>1, <2>2 DEF Lives
  <2>6. \A u, v \in Owners : run'[u].at = "delete" /\ run'[v].at = "delete" /\ u # v => run'[u].c # run'[v].c
    BY <1>0, <2>2 DEF Lives
  <2> QED BY <2>3, <2>4, <2>5, <2>6 DEF Lives
<1>12. CallOK(t)'
  BY <1>0, <1>1, <1>4, NextPart
<1>13. \A u \in Owners : CallOK(u)'
  BY <1>0, <1>4, <1>12, OthersFrame
<1> QED BY <1>6, <1>10, <1>11, <1>13 DEF RefsInv

-----------------------------------------------------------------------------
(* The invariant holds, and says what the runs check.                      *)

\* Nothing is counted at first.
LEMMA RefsInitially ==
  ASSUME RefsInit
  PROVE  RefsInv
<1> USE DEF RefsInit
<1>1. RefsTypeOK
  BY DEF RefsTypeOK, NoCall
<1>2. \A t \in Owners : CallOK(t)
  BY DEF CallOK, NoCall
<1>3. Lives
  BY DEF Lives, NoCall
<1>4. ASSUME NEW c \in Containers PROVE counter[c] = Cardinality(Standing(c)) + Cardinality(Within(c))
  <2>1. \A o \in Objects : RefOf(o) = NULL
    <3> TAKE o \in Objects
    <3>1. o[1] \in Owners BY OwnerOf
    <3>2. run[o[1]].obj = NULL /\ o # NULL BY <3>1, ObjectAssumption DEF NoCall
    <3> QED BY <3>2 DEF RefOf
  <2>2. Standing(c) = {} /\ Within(c) = {}
    BY <2>1, ObjectAssumption DEF Standing, Within, InnerOf
  <2>3. Cardinality({}) = 0 BY FS_EmptySet
  <2> QED BY <2>2, <2>3
<1> QED BY <1>1, <1>2, <1>3, <1>4 DEF RefsInv, Counts

\* A step of something else.
LEMMA RefsStutter ==
  ASSUME RefsInv, UNCHANGED refVars
  PROVE  RefsInv'
<1> USE DEF refVars
<1>1. RefsTypeOK' /\ Lives'
  BY DEF RefsInv, RefsTypeOK, Lives
<1>2. \A t \in Owners : CallOK(t)'
  BY DEF RefsInv, CallOK, Other, At
<1>3. Counts'
  BY DEF RefsInv, Counts, Standing, Within, RefOf, InnerOf
<1> QED BY <1>1, <1>2, <1>3 DEF RefsInv

\* Every step keeps the invariant.
LEMMA RefsPreserved ==
  ASSUME ~ Aliased, RefsInv, [RefsNext]_refVars
  PROVE  RefsInv'
<1>1. ASSUME NEW t \in Owners, RefsStep(t) PROVE RefsInv'
  BY <1>1, DecrStep, DeleteStep, LoadRhsStep, IncrStep, TakeStep, WrittenStep DEF RefsStep
<1>2. ASSUME NEW t \in Owners, RefsCall(t) PROVE RefsInv'
  <2>1. PICK o \in OwnOf(t) :
          \/ \E s \in OwnOf(t) \union {NULL} : Make(t, o, s)
          \/ \E p \in OwnOf(t) \X {"object", "inside"} : CopyConstruct(t, o, p) \/ CopyAssign(t, o, p)
          \/ \E s \in OwnOf(t) : MoveConstruct(t, o, s) \/ MoveAssign(t, o, s)
          \/ Destroy(t, o) \/ Ref(t, o)
    BY <1>2 DEF RefsCall
  <2>2. CASE \E s \in OwnOf(t) \union {NULL} : Make(t, o, s)
    BY <2>2, MakeStep
  <2>3. CASE \E p \in OwnOf(t) \X {"object", "inside"} : CopyConstruct(t, o, p) \/ CopyAssign(t, o, p)
    BY <2>3, CopyConstructStep, CopyAssignStep
  <2>4. CASE \E s \in OwnOf(t) : MoveConstruct(t, o, s) \/ MoveAssign(t, o, s)
    BY <2>4, MoveConstructStep, MoveAssignStep
  <2>5. CASE Destroy(t, o) \/ Ref(t, o)
    BY <2>5, DestroyStep, RefStep
  <2> QED BY <2>1, <2>2, <2>3, <2>4, <2>5
<1>3. ASSUME NEW s \in Objects, NEW o \in Objects, s[1] # o[1], Hand(o[1], o, s) PROVE RefsInv'
  BY <1>3, HandStep
<1> QED BY <1>1, <1>2, <1>3, RefsStutter DEF RefsNext

\* An object that points at a container is counted by it, or is about to be:
\* then what it is a copy of is counted.
LEMMA ReferredTo ==
  ASSUME RefsInv, NEW o \in Objects, NEW c \in Containers, Refers(o, c)
  PROVE  \/ RefOf(o) = c
         \/ run[o[1]].at = "incr" /\ Other(o[1]) /\ c = At(run[o[1]].rhs)
<1> DEFINE t == o[1]
<1>1. t \in Owners /\ impl[o] = c /\ o # NULL /\ c # NULL /\ CallOK(t)
  BY OwnerOf, ObjectAssumption DEF Refers, RefsInv
<1>2. CASE run[t].obj # o
  BY <1>1, <1>2, AtRest
<1>3. CASE run[t].obj = o
  <2>1. run[t].at \in {"idle", "decr", "delete", "load", "take", "incr", "write"}
        /\ run[t].then \in {"idle", "load", "take"}
    BY <1>1 DEF RefsInv, RefsTypeOK
  <2>2. run[t].at # "idle"
    BY <1>1, <1>3 DEF CallOK, NoCall
  <2>3. run[t].at \notin {"decr", "delete", "load", "take"}
    BY <1>1, <1>3, <2>1 DEF CallOK, Refers, Stale
  <2>4. CASE run[t].at = "write"
    BY <1>1, <2>4 DEF RefOf
  <2>5. CASE run[t].at = "incr"
    BY <1>1, <1>3, <2>5 DEF CallOK
  <2> QED BY <2>1, <2>2, <2>3, <2>4, <2>5
<1> QED BY <1>2, <1>3

\* Whoever touches a container, or points at it, is counted by it or deletes it.
LEMMA RefsNotDeleted ==
  ASSUME RefsInv
  PROVE  NoUseAfterDelete
<1>1. ASSUME NEW t \in Owners, run[t].at \in {"decr", "delete", "incr", "write"}, run[t].c # NULL
      PROVE  heap[run[t].c] = "live"
  <2>1. run[t].c \in Containers /\ CallOK(t)
    BY <1>1 DEF RefsInv, RefsTypeOK
  <2>2. run[t].obj \in Objects /\ run[t].obj[1] = t
    BY <1>1, InCall
  <2>3. CASE run[t].at \in {"decr", "write"}
    <3>1. RefOf(run[t].obj) = run[t].c
      BY <2>1, <2>2, <2>3 DEF RefOf, CallOK
    <3> QED BY <2>1, <2>2, <3>1, CountedLives
  <2>4. CASE run[t].at = "delete"
    BY <2>4 DEF RefsInv, Lives
  <2>5. CASE run[t].at = "incr"
    BY <1>1, <2>1, <2>5, RhsCounted DEF CallOK
  <2> QED BY <1>1, <2>3, <2>4, <2>5
<1>2. ASSUME NEW t \in Owners, run[t].at = "load", run[t].rhs[2] = "inside"
      PROVE  heap[impl[run[t].rhs[1]]] = "live"
  <2>1. Other(t) BY <1>2 DEF RefsInv, CallOK
  <2> QED BY <1>2, <2>1, RhsCounted
<1>3. ASSUME NEW o \in Objects, NEW c \in Containers, Refers(o, c)
      PROVE  heap[c] = "live"
  <2>1. CASE RefOf(o) = c
    BY <2>1, CountedLives
  <2>2. CASE run[o[1]].at = "incr" /\ Other(o[1]) /\ c = At(run[o[1]].rhs)
    <3>1. o[1] \in Owners /\ c # NULL BY OwnerOf, ObjectAssumption
    <3> QED BY <2>2, <3>1, RhsCounted
  <2> QED BY <1>3, <2>1, <2>2, ReferredTo
<1> QED BY <1>1, <1>2, <1>3 DEF NoUseAfterDelete

\* Between operations all objects are at rest: what points at a container is what it counts.
LEMMA RefsCounted ==
  ASSUME RefsInv
  PROVE  CountExact
<1> SUFFICES ASSUME \A t \in Owners : run[t] = NoCall, NEW c \in Containers, heap[c] = "live"
             PROVE  counter[c] = Cardinality(Holders(c)) + Cardinality(Outer(c)) /\ counter[c] > 0
  BY DEF CountExact
<1>1. \A o \in Objects : RefOf(o) = impl[o] /\ ~ Stale(o)
  <2> TAKE o \in Objects
  <2>1. o[1] \in Owners /\ o \in OwnOf(o[1]) BY OwnerOf
  <2> QED BY <2>1, IdleAtRest DEF Stale, NoCall
<1>2. Holders(c) = Standing(c)
  BY <1>1 DEF Holders, Standing, Refers
<1>3. Outer(c) = Within(c)
  BY ObjectAssumption DEF Outer, Within, InnerOf
<1>4. counter[c] \in Nat /\ counter[c] # 0
  BY DEF RefsInv, RefsTypeOK, Lives, NoCall
<1> QED BY <1>2, <1>3, <1>4 DEF RefsInv, Counts

\* A counter of one that counts the writer's object leaves no other, not even a copy in progress.
LEMMA RefsAlone ==
  ASSUME RefsInv
  PROVE  WritesAlone
<1> SUFFICES ASSUME NEW t \in Owners, run[t].at = "write"
             PROVE  Holders(run[t].c) = {run[t].obj} /\ Outer(run[t].c) = {}
  BY DEF WritesAlone
<1> DEFINE c == run[t].c
<1>1. /\ c \in Containers /\ run[t].obj \in OwnOf(t) /\ run[t].obj \in Objects
      /\ Standing(c) = {run[t].obj} /\ Within(c) = {}
  BY WriterOnly
<1>2. Outer(c) = {}
  BY <1>1 DEF Outer, Within, InnerOf
<1>3. run[t].obj \in Holders(c)
  <2>1. run[t].obj[1] = t /\ impl[run[t].obj] = c
    BY <1>1, OwnerOf DEF RefsInv, CallOK
  <2> QED BY <1>1, <2>1 DEF Holders, Refers, Stale
<1>4. ASSUME NEW o \in Objects, Refers(o, c) PROVE o = run[t].obj
  <2>1. CASE RefOf(o) = c
    BY <1>1, <2>1 DEF Standing
  <2>2. CASE run[o[1]].at = "incr" /\ Other(o[1]) /\ c = At(run[o[1]].rhs)
    <3> DEFINE u == o[1]  s == run[u].rhs[1]
    <3>1. u \in Owners /\ u # t /\ c # NULL
      BY <1>1, <2>2, OwnerOf, ObjectAssumption
    <3>2. run[u].rhs \in Places /\ s \in OwnOf(u) /\ s \in Objects
      BY <2>2, <3>1, OwnerOf DEF RefsInv, RefsTypeOK, Other
    <3>3. CASE run[u].rhs[2] = "object"
      <4>1. RefOf(s) = c BY <2>2, <3>1, <3>3, RhsCounted DEF At
      <4>2. s \in Standing(c) BY <3>2, <4>1 DEF Standing
      <4> QED BY <1>1, <3>1, <3>2, <4>2, OwnerOf
    <3>4. CASE run[u].rhs[2] = "inside"
      <4>1. impl[s] \in Containers /\ InnerOf(impl[s]) = inner[impl[s]]
        BY <2>2, <3>1, <3>4, RhsCounted
      <4>2. c = inner[impl[s]] BY <2>2, <3>1, <3>4 DEF At
      <4> QED BY <1>1, <4>1, <4>2 DEF Within
    <3> QED BY <3>2, <3>3, <3>4 DEF Places
  <2> QED BY <1>1, <1>4, <2>1, <2>2, ReferredTo
<1> QED BY <1>2, <1>3, <1>4 DEF Holders

(* For any threads, objects and containers, and any interleaving of the    *)
(* copies, moves, assignments and destructions of Object.cpp whose right-  *)
(* hand side is neither the object that is assigned to nor inside of it:   *)
(* no container is used after it was deleted, the counters are exact, and  *)
(* who writes through ref() is alone.                                      *)
THEOREM ObjectsAreSound ==
  ASSUME ~ Aliased
  PROVE  RefsSpec => []ObjectsSound
<1>1. RefsInit => RefsInv
  BY RefsInitially
<1>2. RefsInv /\ [RefsNext]_refVars => RefsInv'
  BY RefsPreserved
<1>3. RefsInv => ObjectsSound
  BY RefsNotDeleted, RefsCounted, RefsAlone DEF ObjectsSound, RefsInv
<1> QED BY <1>1, <1>2, <1>3, PTL DEF RefsSpec
-----------------------------------------------------------------------------
(* The tables of functions of types.                                       *)

\* The fields of a frame, and where it may be with another frame above it.
FrameFields == {"op", "at", "plugins", "todo"}
Waits == {"before", "call", "numbers", "texts"}

Operations(x) == IsSequence(x) /\ \A i \in DOMAIN x : IsOperation(x[i])

\* A frame that calls a function has it from the table that it has locked.
FrameOK(f, reg) ==
  /\ DOMAIN f = FrameFields /\ IsOperation(f.op)
  /\ Operations(f.todo)
  /\ f.todo # <<>> => f.at \in Waits
  /\ IsPlain(f) => f.at \in {"lock", "before"}
  /\ f.at \in {"numbers", "texts"} => f.op.table = "compare"
  /\ f.at = "call" => \A p \in f.plugins : p \in reg /\ Accepts(p) /\ p.table = f.op.table
StackOK(s, reg) ==
  /\ IsSequence(s) /\ \A i \in DOMAIN s : FrameOK(s[i], reg)
  /\ \A i \in DOMAIN s : i < Len(s) => s[i].at \in Waits
StacksOK == DOMAIN stack = Callers /\ \A t \in Callers : StackOK(stack[t], Live)

\* What a handler works on.
EventIs(e) ==
  /\ DOMAIN e = {"kind", "plugin", "at"} /\ (e.at = "none" => e = NoEvent)
  /\ e.at \in {"none", "check", "lock", "store"}
  /\ e.at # "none" => e.kind \in {"add", "remove"} /\ e.plugin \in scene.plugins
  /\ e.at \in {"lock", "store"} => Accepts(e.plugin)
EventOK == DOMAIN event = Senders /\ \A s \in Senders : EventIs(event[s])

\* Events of a plugin that do not overlap: there is one, and the registry is as it left it.
OneAtATime ==
  \A s \in Senders : event[s].at # "none" /\ event[s].plugin \notin overlapped =>
    /\ event[s].plugin \in registered <=> event[s].kind = "add"
    /\ \A z \in Senders : event[z].plugin = event[s].plugin => z = s
OneWriter ==
  \A s, z \in Senders :
    event[s].at = "store" /\ event[z].at = "store" /\ event[s].plugin.table = event[z].plugin.table => s = z

\* What a table has is live; what is registered with a key of its own is in its table.
EntryOK(p, tb, k, reg) == p = Null \/ (p \in reg /\ Accepts(p) /\ p.table = tb /\ KeyOf(p) = k)
EntriesOK ==
  /\ DOMAIN entries = Tables
  /\ \A tb \in Tables : \A k \in DOMAIN entries[tb] : EntryOK(entries[tb][k], tb, k, Live)
Filled ==
  \A p \in registered \ overlapped : Accepts(p) /\ Alone(p) /\ ~ InProgress(p) =>
    KeyOf(p) \in DOMAIN entries[p.table] /\ entries[p.table][KeyOf(p)] = p

WordsOK == DOMAIN words = Tables /\ LocksBalanced /\ \A tb \in Tables : IsFiniteSet(Held(tb))
SceneOK == scene \in Scenes /\ registered \subseteq scene.plugins /\ overlapped \subseteq scene.plugins

TablesInv == SceneOK /\ EventOK /\ OneAtATime /\ OneWriter /\ EntriesOK /\ Filled /\ StacksOK /\ WordsOK

-----------------------------------------------------------------------------
(* Sequences.                                                              *)

LEMMA SequenceFacts ==
  ASSUME NEW x, IsSequence(x)
  PROVE  Len(x) \in Nat /\ DOMAIN x = 1..Len(x) /\ (x = <<>> <=> Len(x) = 0)
<1>1. x \in Seq(ToSet(x)) BY DEF IsSequence
<1> QED BY <1>1, LenProperties, EmptySeq

LEMMA SequenceIs ==
  ASSUME NEW S, NEW x \in Seq(S)
  PROVE  IsSequence(x)
<1>1. Len(x) \in Nat /\ DOMAIN x = 1..Len(x) BY LenProperties
<1>2. x \in [1..Len(x) -> ToSet(x)] BY <1>1, SeqDef DEF ToSet
<1> QED BY <1>1, <1>2, SeqDef DEF IsSequence

LEMMA AppendFacts ==
  ASSUME NEW x, IsSequence(x), NEW y
  PROVE  /\ IsSequence(Append(x, y)) /\ Len(Append(x, y)) = Len(x) + 1
         /\ \A i \in 1..Len(x) : Append(x, y)[i] = x[i]
         /\ Append(x, y)[Len(x) + 1] = y
<1>1. x \in Seq(ToSet(x) \union {y}) BY DEF IsSequence
<1>2. Append(x, y) \in Seq(ToSet(x) \union {y}) BY <1>1, AppendProperties
<1>3. IsSequence(Append(x, y)) BY <1>2, SequenceIs
<1>4. /\ Len(Append(x, y)) = Len(x) + 1 /\ Append(x, y)[Len(x) + 1] = y
      /\ \A i \in 1..Len(x) : Append(x, y)[i] = x[i]
  BY <1>1, AppendProperties
<1> QED BY <1>3, <1>4

LEMMA FrontFacts ==
  ASSUME NEW x, IsSequence(x), x # <<>>
  PROVE  /\ IsSequence(Front(x)) /\ Len(Front(x)) = Len(x) - 1 /\ Len(x) \in Nat /\ Len(x) >= 1
         /\ \A i \in 1..(Len(x) - 1) : Front(x)[i] = x[i]
         /\ Last(x) = x[Len(x)]
<1>1. x \in Seq(ToSet(x)) /\ Len(x) \in Nat /\ Len(x) # 0 BY SequenceFacts DEF IsSequence
<1>2. Front(x) = SubSeq(x, 1, Len(x) - 1) /\ Last(x) = x[Len(x)] BY DEF Front, Last
<1>3. \A i \in 1..(Len(x) - 1) : x[i] \in ToSet(x) BY <1>1
<1>4. Len(x) - 1 \in Nat /\ 1 <= Len(x) BY <1>1
<1> DEFINE n == Len(x) - 1
<1>5. /\ SubSeq(x, 1, n) \in Seq(ToSet(x))
      /\ Len(SubSeq(x, 1, n)) = IF 1 <= n THEN n - 1 + 1 ELSE 0
      /\ \A i \in 1..(n - 1 + 1) : SubSeq(x, 1, n)[i] = x[1 + i - 1]
  <2>1. 1 \in Int /\ n \in Int BY <1>4
  <2> HIDE DEF n
  <2> QED BY <2>1, <1>3, SubSeqProperties DEF n
<1>6. (IF 1 <= n THEN n - 1 + 1 ELSE 0) = n /\ n - 1 + 1 = n
  <2>1. n \in Nat BY <1>4
  <2> HIDE DEF n
  <2>2. CASE 1 <= n BY <2>1, <2>2
  <2>3. CASE ~ (1 <= n) BY <2>1, <2>3
  <2> QED BY <2>2, <2>3
<1>7. ASSUME NEW i \in 1..n PROVE SubSeq(x, 1, n)[i] = x[i]
  <2>1. i \in 1..(n - 1 + 1) /\ 1 + i - 1 = i BY <1>4
  <2> QED BY <2>1, <1>5
<1>8. IsSequence(SubSeq(x, 1, n)) BY <1>5, SequenceIs
<1> QED BY <1>1, <1>2, <1>4, <1>5, <1>6, <1>7, <1>8

LEMMA TailFacts ==
  ASSUME NEW x, Operations(x), x # <<>>
  PROVE  Operations(Tail(x)) /\ IsOperation(Head(x))
<1>1. x \in Seq(ToSet(x)) /\ Len(x) \in Nat /\ Len(x) # 0 /\ DOMAIN x = 1..Len(x)
  BY SequenceFacts DEF IsSequence, Operations
<1>2. Tail(x) \in Seq(ToSet(x)) /\ Len(Tail(x)) = Len(x) - 1 /\ \A i \in 1..(Len(x) - 1) : Tail(x)[i] = x[i + 1]
  BY <1>1
<1>3. IsSequence(Tail(x)) BY <1>2, SequenceIs
<1>4. ASSUME NEW i \in DOMAIN Tail(x) PROVE IsOperation(Tail(x)[i])
  <2>1. i \in 1..(Len(x) - 1) BY <1>2, LenProperties
  <2>2. Tail(x)[i] = x[i + 1] /\ i + 1 \in DOMAIN x BY <1>1, <1>2, <2>1
  <2> QED BY <2>2 DEF Operations
<1>5. Head(x) = x[1] /\ 1 \in DOMAIN x BY <1>1
<1> QED BY <1>3, <1>4, <1>5 DEF Operations

LEMMA NoOperations == Operations(<<>>)
<1>1. <<>> \in Seq({}) BY EmptySeq
<1>2. IsSequence(<<>>) BY <1>1, SequenceIs
<1>3. DOMAIN <<>> = {} OBVIOUS
<1> QED BY <1>2, <1>3 DEF Operations

LEMMA TwoOperations ==
  ASSUME NEW x, NEW y, IsOperation(x), IsOperation(y)
  PROVE  Operations(<<x, y>>)
<1>1. <<x, y>> \in Seq({x, y}) OBVIOUS
<1>2. IsSequence(<<x, y>>) BY <1>1, SequenceIs
<1>4. DOMAIN <<x, y>> = 1..2 OBVIOUS
<1>3. \A i \in 1..2 : <<x, y>>[i] \in {x, y} OBVIOUS
<1> QED BY <1>2, <1>3, <1>4 DEF Operations

-----------------------------------------------------------------------------
(* Frames and stacks, of a caller that does not change what is registered. *)

\* The frame on top is replaced by another.
Replaced(s, f) == Append(Front(s), f)
HeldOf(s, tb) == {i \in DOMAIN s : s[i].at \in Holding /\ s[i].op.table = tb}
Locked(f, tb) == f.at \in Holding /\ f.op.table = tb

LEMMA NoFrames == \A tb : HeldOf(<<>>, tb) = {}
<1> DEFINE none == <<>>
<1>1. DOMAIN none = {} OBVIOUS
<1> HIDE DEF none
<1>2. \A tb : HeldOf(none, tb) = {} BY <1>1 DEF HeldOf
<1> QED BY <1>2 DEF none


\* Waits and the tables of op.table.
LEMMA WaitsKnown == Waits \cap {"lock", "find", "value", "fallback", "error", "noconvert", "throw", "throwConvert"} = {}
                    /\ Holding \cap {"lock", "before", "throw", "throwConvert"} = {}
  BY DEF Waits, Holding

\* A frame that goes on, with other things to do.
Gone(f, at, todo) == [f EXCEPT !.at = at, !.todo = todo]

LEMMA FrameGoes ==
  ASSUME NEW reg, NEW f, FrameOK(f, reg), NEW at, NEW todo, Operations(todo),
         todo # <<>> => at \in Waits, at # "call",
         IsPlain(f) => at \in {"lock", "before"},
         at \in {"numbers", "texts"} => f.op.table = "compare"
  PROVE  FrameOK(Gone(f, at, todo), reg) /\ Gone(f, at, todo).op = f.op /\ Gone(f, at, todo).at = at
<1> DEFINE g == Gone(f, at, todo)
<1>1. DOMAIN f = FrameFields BY DEF FrameOK
<1>2. DOMAIN g = FrameFields /\ g.op = f.op /\ g.at = at /\ g.todo = todo BY <1>1 DEF FrameFields, Gone
<1> HIDE DEF g
<1>3. IsPlain(g) <=> IsPlain(f) BY <1>2 DEF IsPlain
<1>4. FrameOK(g, reg) BY <1>2, <1>3 DEF FrameOK
<1> QED BY <1>2, <1>4 DEF g

LEMMA FrameEnds ==
  ASSUME NEW reg, NEW f, FrameOK(f, reg), NEW at, at \notin {"call", "numbers", "texts"},
         IsPlain(f) => at \in {"lock", "before"}
  PROVE  FrameOK(Gone(f, at, <<>>), reg) /\ Gone(f, at, <<>>).op = f.op /\ Gone(f, at, <<>>).at = at
<1> DEFINE none == <<>>
<1>1. Operations(none) /\ (none # <<>> => at \in Waits) BY NoOperations
<1> HIDE DEF none
<1>2. FrameOK(Gone(f, at, none), reg) /\ Gone(f, at, none).op = f.op /\ Gone(f, at, none).at = at
  BY <1>1, FrameGoes
<1> QED BY <1>2 DEF none

LEMMA PopStack ==
  ASSUME NEW reg, NEW s, StackOK(s, reg), s # <<>>
  PROVE  /\ StackOK(Front(s), reg) /\ FrameOK(Last(s), reg)
         /\ \A tb : HeldOf(Front(s), tb) = HeldOf(s, tb) \ {Len(s)}
         /\ Len(s) \in Nat /\ Len(s) >= 1
<1>1. /\ IsSequence(Front(s)) /\ Len(Front(s)) = Len(s) - 1 /\ Len(s) \in Nat /\ Len(s) >= 1
      /\ \A i \in 1..(Len(s) - 1) : Front(s)[i] = s[i]
      /\ Last(s) = s[Len(s)]
  BY FrontFacts DEF StackOK
<1>2. DOMAIN s = 1..Len(s) BY SequenceFacts DEF StackOK
<1>3. DOMAIN Front(s) = 1..(Len(s) - 1) BY <1>1, SequenceFacts
<1>4. FrameOK(Last(s), reg) BY <1>1, <1>2 DEF StackOK
<1>5. StackOK(Front(s), reg)
  <2>1. ASSUME NEW i \in DOMAIN Front(s)
        PROVE  FrameOK(Front(s)[i], reg) /\ (i < Len(Front(s)) => Front(s)[i].at \in Waits)
    <3>1. i \in DOMAIN s /\ i < Len(s) /\ Front(s)[i] = s[i] BY <1>1, <1>2, <1>3
    <3> QED BY <3>1 DEF StackOK
  <2> QED BY <2>1, <1>1 DEF StackOK
<1>6. ASSUME NEW tb PROVE HeldOf(Front(s), tb) = HeldOf(s, tb) \ {Len(s)}
  <2>1. DOMAIN Front(s) = DOMAIN s \ {Len(s)} BY <1>1, <1>2, <1>3
  <2>2. \A i \in DOMAIN Front(s) : Front(s)[i] = s[i] BY <1>1, <1>3
  <2> QED BY <2>1, <2>2 DEF HeldOf
<1> QED BY <1>1, <1>4, <1>5, <1>6

LEMMA PushStack ==
  ASSUME NEW reg, NEW s, StackOK(s, reg), \A i \in DOMAIN s : s[i].at \in Waits,
         NEW f, FrameOK(f, reg)
  PROVE  /\ StackOK(Append(s, f), reg) /\ Append(s, f) # <<>> /\ Last(Append(s, f)) = f
         /\ Len(Append(s, f)) = Len(s) + 1 /\ Len(s) \in Nat
         /\ \A tb : HeldOf(Append(s, f), tb)
                      = HeldOf(s, tb) \union (IF Locked(f, tb) THEN {Len(s) + 1} ELSE {})
<1> DEFINE a == Append(s, f)
<1>1. /\ IsSequence(a) /\ Len(a) = Len(s) + 1 /\ a[Len(s) + 1] = f
      /\ \A i \in 1..Len(s) : a[i] = s[i]
  BY AppendFacts DEF StackOK
<1>2. DOMAIN s = 1..Len(s) /\ Len(s) \in Nat BY SequenceFacts DEF StackOK
<1>3. DOMAIN a = 1..(Len(s) + 1) /\ a # <<>> BY <1>1, <1>2, SequenceFacts
<1>4. Last(a) = f BY <1>1 DEF Last
<1> HIDE DEF a
<1>5. ASSUME NEW i \in DOMAIN a
      PROVE  FrameOK(a[i], reg) /\ (i < Len(a) => a[i].at \in Waits)
  <2>1. i \in DOMAIN s \/ i = Len(s) + 1 BY <1>2, <1>3
  <2>2. CASE i \in DOMAIN s BY <2>2, <1>1, <1>2 DEF StackOK
  <2>3. CASE i = Len(s) + 1 BY <2>3, <1>1, <1>2
  <2> QED BY <2>1, <2>2, <2>3
<1>6. StackOK(a, reg) BY <1>1, <1>5 DEF StackOK
<1>7. ASSUME NEW tb
      PROVE  HeldOf(a, tb) = HeldOf(s, tb) \union (IF Locked(f, tb) THEN {Len(s) + 1} ELSE {})
  <2>1. DOMAIN a = DOMAIN s \union {Len(s) + 1} /\ Len(s) + 1 \notin DOMAIN s BY <1>2, <1>3
  <2>2. \A i \in DOMAIN s : a[i] = s[i] BY <1>1, <1>2
  <2> QED BY <2>1, <2>2, <1>1 DEF HeldOf, Locked
<1> QED BY <1>1, <1>2, <1>3, <1>4, <1>6, <1>7 DEF a

LEMMA ReplaceTop ==
  ASSUME NEW reg, NEW s, StackOK(s, reg), s # <<>>, NEW f, FrameOK(f, reg)
  PROVE  /\ StackOK(Replaced(s, f), reg) /\ Replaced(s, f) # <<>>
         /\ Last(Replaced(s, f)) = f /\ Len(Replaced(s, f)) = Len(s) /\ Len(s) \in Nat
         /\ \A tb : HeldOf(Replaced(s, f), tb)
                      = (HeldOf(s, tb) \ {Len(s)}) \union (IF Locked(f, tb) THEN {Len(s)} ELSE {})
<1>1. /\ StackOK(Front(s), reg) /\ Len(s) \in Nat /\ Len(s) >= 1
      /\ \A tb : HeldOf(Front(s), tb) = HeldOf(s, tb) \ {Len(s)}
  BY PopStack
<1>2. \A i \in DOMAIN Front(s) : Front(s)[i].at \in Waits
  <2>1. /\ IsSequence(Front(s)) /\ Len(Front(s)) = Len(s) - 1
        /\ \A i \in 1..(Len(s) - 1) : Front(s)[i] = s[i]
    BY FrontFacts DEF StackOK
  <2>2. DOMAIN Front(s) = 1..(Len(s) - 1) /\ DOMAIN s = 1..Len(s)
    BY <2>1, SequenceFacts DEF StackOK
  <2> QED BY <1>1, <2>1, <2>2 DEF StackOK
<1>3. Len(Front(s)) + 1 = Len(s) BY <1>1, FrontFacts DEF StackOK
<1> QED BY <1>1, <1>2, <1>3, PushStack DEF Replaced

\* A frame that is left stays locked or unlocked, and its table is the same.
LEMMA CaughtFrame ==
  ASSUME NEW reg, NEW f, FrameOK(f, reg), f.at \in Waits, RegistriesAssumption, NEW out \in Errors
  PROVE  /\ FrameOK(Caught(f, out), reg) /\ \A tb : Locked(Caught(f, out), tb) <=> Locked(f, tb)
<1>1. CASE f.at = "before" /\ f.op.table = "tostring"
  <2>1. Caught(f, out) = Gone(f, "lock", <<>>) BY <1>1 DEF Caught, Gone
  <2>2. FrameOK(Caught(f, out), reg) /\ Caught(f, out).op = f.op /\ Caught(f, out).at = "lock"
    BY <2>1, FrameEnds
  <2> QED BY <2>2, <1>1 DEF Locked, Holding
<1>2. CASE f.at = "before" /\ f.op.table # "tostring"
  <2> DEFINE at == IF out = "error" THEN "throw" ELSE "throwConvert"
  <2>1. Caught(f, out) = Gone(f, at, <<>>) BY <1>2 DEF Caught, Gone
  <2>2. ~ IsPlain(f) /\ at \in {"throw", "throwConvert"} BY <1>2 DEF IsPlain
  <2> HIDE DEF at
  <2>3. FrameOK(Caught(f, out), reg) /\ Caught(f, out).op = f.op /\ Caught(f, out).at = at
    BY <2>1, <2>2, FrameEnds
  <2> QED BY <2>2, <2>3, <1>2 DEF Locked, Holding
<1>3. CASE f.at # "before"
  <2>1. f.at \in Holding /\ ~ IsPlain(f) BY <1>3 DEF Waits, Holding, FrameOK
  <2>2. CASE f.at = "numbers" /\ out = "noconvert"
    <3>1. Caught(f, out) = Gone(f, "texts", Texts(f.op)) BY <2>2 DEF Caught, Gone
    <3>2. Operations(Texts(f.op))
      <4>1. IsOperation(f.op) /\ f.op.table = "compare" BY <2>2 DEF FrameOK
      <4>2. IsOperation(Op("tostring", f.op.a, Nothing)) /\ IsOperation(Op("tostring", f.op.b, Nothing))
        BY <4>1 DEF IsOperation, Op, Tables
      <4> QED BY <4>2, TwoOperations DEF Texts
    <3>3. f.op.table = "compare" BY <2>2 DEF FrameOK
    <3>4. "texts" \in Waits /\ "texts" # "call" BY DEF Waits
    <3> DEFINE todo == Texts(f.op)
    <3>5. Operations(todo) /\ Caught(f, out) = Gone(f, "texts", todo) BY <3>1, <3>2
    <3> HIDE DEF todo
    <3>6. /\ FrameOK(Gone(f, "texts", todo), reg)
          /\ Gone(f, "texts", todo).op = f.op /\ Gone(f, "texts", todo).at = "texts"
      BY <3>3, <3>4, <3>5, <2>1, FrameGoes
    <3> QED BY <3>5, <3>6, <2>1, <2>2 DEF Locked, Holding
  <2>3. CASE ~ (f.at = "numbers" /\ out = "noconvert")
    <3>1. Caught(f, out) = Gone(f, out, <<>>) BY <1>3, <2>3 DEF Caught, Gone
    <3>2. FrameOK(Caught(f, out), reg) /\ Caught(f, out).op = f.op /\ Caught(f, out).at = out
      BY <3>1, <2>1, FrameEnds DEF Errors
    <3> QED BY <3>2, <2>1 DEF Locked, Holding, Errors
  <2> QED BY <2>2, <2>3
<1> QED BY <1>1, <1>2, <1>3

-----------------------------------------------------------------------------
(* What a step of a caller does to its stack and to the locks.             *)

\* The frame on top is gone, and the one below it has been told.
LEMMA Returned ==
  ASSUME RegistriesAssumption, StacksOK, NEW t \in Callers, stack[t] # <<>>, NEW out, Return(t, out)
  PROVE  \E s2 : /\ stack' = [stack EXCEPT ![t] = s2] /\ StackOK(s2, Live)
                 /\ \A tb : HeldOf(s2, tb) = HeldOf(stack[t], tb) \ {Len(stack[t])}
<1> DEFINE s == stack[t]
           below == Front(s)
<1>1. StackOK(s, Live) /\ s # <<>> BY DEF StacksOK
<1>2. /\ StackOK(below, Live) /\ Len(s) \in Nat /\ Len(s) >= 1
      /\ \A tb : HeldOf(below, tb) = HeldOf(s, tb) \ {Len(s)}
  BY <1>1, PopStack
<1>3. /\ Len(below) = Len(s) - 1 /\ \A i \in 1..(Len(s) - 1) : below[i] = s[i]
  BY <1>1, FrontFacts DEF StackOK
<1>4. IsSequence(below) /\ DOMAIN s = 1..Len(s) BY <1>1, <1>2, SequenceFacts DEF StackOK
<1>5. CASE Len(s) = 1
  <2>1. below = <<>> BY <1>3, <1>4, <1>5, SequenceFacts
  <2>2. stack' = [stack EXCEPT ![t] = <<>>] BY <1>5 DEF Return
  <2>3. StackOK(<<>>, Live) /\ \A tb : HeldOf(<<>>, tb) = HeldOf(s, tb) \ {Len(s)}
    <3> DEFINE none == <<>>
    <3>1. below = none BY <2>1
    <3> HIDE DEF below, none
    <3>2. StackOK(none, Live) /\ \A tb : HeldOf(none, tb) = HeldOf(s, tb) \ {Len(s)}
      BY <3>1, <1>2
    <3> QED BY <3>2 DEF none
  <2> QED BY <2>2, <2>3
<1>6. CASE Len(s) # 1
  <2>1. below # <<>> /\ Len(s) - 1 \in 1..(Len(s) - 1)
    <3>1. below = <<>> <=> Len(below) = 0 BY <1>4, SequenceFacts
    <3> QED BY <3>1, <1>2, <1>3, <1>6
  <2>2. Last(below) = s[Len(s) - 1] BY <2>1, <1>3, <1>4, FrontFacts
  <2>3. Last(below).at \in Waits BY <2>1, <2>2, <1>1, <1>2, <1>4 DEF StackOK
  <2>4. FrameOK(Last(below), Live) BY <2>1, <1>2, PopStack
  <2>5. CASE out \in Errors
    <3> DEFINE f == Caught(Last(below), out)
               s2 == Replaced(below, f)
    <3>1. stack' = [stack EXCEPT ![t] = s2] BY <2>5, <1>6 DEF Return, Replaced
    <3>2. FrameOK(f, Live) /\ \A tb : Locked(f, tb) <=> Locked(Last(below), tb)
      BY <2>3, <2>4, <2>5, CaughtFrame
    <3> HIDE DEF f, below
    <3>3. /\ StackOK(s2, Live) /\ Len(below) \in Nat
          /\ \A tb : HeldOf(s2, tb)
                       = (HeldOf(below, tb) \ {Len(below)}) \union (IF Locked(f, tb) THEN {Len(below)} ELSE {})
      BY <3>2, <1>2, <2>1, ReplaceTop
    <3>4. Last(below) = below[Len(below)] /\ Len(below) \in DOMAIN below
      BY <2>1, <1>4, SequenceFacts DEF Last
    <3>5. ASSUME NEW tb PROVE HeldOf(s2, tb) = HeldOf(below, tb)
      <4>1. Len(below) \in HeldOf(below, tb) <=> Locked(f, tb)
        BY <3>2, <3>4 DEF HeldOf, Locked
      <4> QED BY <4>1, <3>3
    <3> HIDE DEF s2
    <3> QED BY <3>1, <3>3, <3>5, <1>2
  <2>6. CASE out \notin Errors
    <3>1. stack' = [stack EXCEPT ![t] = below] BY <2>6, <1>6 DEF Return
    <3> QED BY <3>1, <1>2
  <2> QED BY <2>5, <2>6
<1> QED BY <1>5, <1>6

\* A caller keeps its locks, takes one, or gives one back.
Keeps(s, s2) == UNCHANGED words /\ \A tb : HeldOf(s2, tb) = HeldOf(s, tb)
Takes(s, s2) ==
  \E x \in Tables : \E n :
    /\ words[x] # -1 /\ words' = [words EXCEPT ![x] = @ + 1]
    /\ n \notin HeldOf(s, x) /\ HeldOf(s2, x) = HeldOf(s, x) \union {n}
    /\ \A tb : tb # x => HeldOf(s2, tb) = HeldOf(s, tb)
Gives(s, s2) ==
  \E x \in Tables : \E n :
    /\ words' = [words EXCEPT ![x] = @ - 1]
    /\ n \in HeldOf(s, x) /\ HeldOf(s2, x) = HeldOf(s, x) \ {n}
    /\ \A tb : tb # x => HeldOf(s2, tb) = HeldOf(s, tb)
Moves(t) ==
  \E s2 : /\ stack' = [stack EXCEPT ![t] = s2] /\ StackOK(s2, Live)
          /\ Keeps(stack[t], s2) \/ Takes(stack[t], s2) \/ Gives(stack[t], s2)

\* The frame on top is replaced by one that is locked alike.
LEMMA GoesOn ==
  ASSUME StacksOK, NEW t \in Callers, stack[t] # <<>>, NEW f, FrameOK(f, Live),
         \A tb : Locked(f, tb) <=> Locked(Top(t), tb),
         stack' = [stack EXCEPT ![t] = Replaced(@, f)], UNCHANGED words
  PROVE  Moves(t)
<1> DEFINE s == stack[t]
           s2 == Replaced(s, f)
<1>1. StackOK(s, Live) /\ s # <<>> BY DEF StacksOK
<1>2. /\ StackOK(s2, Live) /\ Len(s) \in Nat
      /\ \A tb : HeldOf(s2, tb) = (HeldOf(s, tb) \ {Len(s)}) \union (IF Locked(f, tb) THEN {Len(s)} ELSE {})
  BY <1>1, ReplaceTop
<1>3. Top(t) = s[Len(s)] /\ Len(s) \in DOMAIN s
  <2>1. IsSequence(s) BY <1>1 DEF StackOK
  <2> QED BY <1>1, <2>1, SequenceFacts DEF Top, Last
<1>4. stack' = [stack EXCEPT ![t] = s2] OBVIOUS
<1> HIDE DEF s2, s
<1>5. ASSUME NEW tb PROVE HeldOf(s2, tb) = HeldOf(s, tb)
  <2>1. Len(s) \in HeldOf(s, tb) <=> Locked(f, tb) BY <1>3 DEF HeldOf, Locked
  <2> QED BY <2>1, <1>2
<1>6. Keeps(s, s2) BY <1>5 DEF Keeps
<1> QED BY <1>2, <1>4, <1>6 DEF Moves, s

\* What is on top of a stack.
LEMMA OnTheTop ==
  ASSUME StacksOK, NEW t \in Callers, stack[t] # <<>>
  PROVE  /\ StackOK(stack[t], Live) /\ FrameOK(Top(t), Live)
         /\ Top(t) = stack[t][Len(stack[t])] /\ Len(stack[t]) \in DOMAIN stack[t]
         /\ \A tb : Len(stack[t]) \in HeldOf(stack[t], tb) <=> Locked(Top(t), tb)
<1>1. StackOK(stack[t], Live) BY DEF StacksOK
<1>2. FrameOK(Top(t), Live) BY <1>1, PopStack DEF Top
<1>3. Top(t) = stack[t][Len(stack[t])] /\ Len(stack[t]) \in DOMAIN stack[t]
  <2>1. IsSequence(stack[t]) BY <1>1 DEF StackOK
  <2> QED BY <2>1, SequenceFacts DEF Top, Last
<1>4. \A tb : Len(stack[t]) \in HeldOf(stack[t], tb) <=> Locked(Top(t), tb)
  BY <1>3 DEF HeldOf, Locked
<1> QED BY <1>1, <1>2, <1>3, <1>4

-----------------------------------------------------------------------------
(* The steps of a caller.                                                  *)

LEMMA OpIs ==
  ASSUME NEW tb \in Tables, NEW a, NEW b,
         tb \in {"tostring", "compare"} => a \in DOMAIN Elements,
         tb = "compare" => b \in DOMAIN Elements
  PROVE  IsOperation(Op(tb, a, b))
BY DEF IsOperation, Op

\* A frame that is begun asks for what it needs before the look-up.
LEMMA FrameBegins ==
  ASSUME RegistriesAssumption, NEW op, IsOperation(op), NEW reg
  PROVE  FrameOK(Frame(op), reg) /\ Frame(op).at \notin Holding
<1>1. Operations(Before(op))
  <2>1. CASE op.table = "tostring" /\ Elements[op.a] # <<>>
    <3> DEFINE E == Elements[op.a]
               o1 == Op("convert", op.a, "objects")
               rest == [i \in DOMAIN E |-> Op("tostring", E[i], Nothing)]
    <3>1. E \in Seq(DOMAIN Elements) BY <2>1 DEF RegistriesAssumption, IsOperation
    <3>2. Len(E) \in Nat /\ DOMAIN E = 1..Len(E) BY <3>1, LenProperties
    <3>3. \A i \in 1..Len(E) : E[i] \in DOMAIN Elements BY <3>1, <3>2, ElementOfSeq
    <3>4. ASSUME NEW i \in 1..Len(E) PROVE IsOperation(Op("tostring", E[i], Nothing))
      BY <3>3, OpIs DEF Tables
    <3> DEFINE S == {rest[i] : i \in 1..Len(E)} \union {o1}
    <3>5. rest \in [1..Len(E) -> S] BY <3>2
    <3>6. rest \in Seq(S) /\ Len(rest) = Len(E) BY <3>2, <3>5, SeqDef, LenProperties
    <3>7. <<o1>> \in Seq(S) /\ Len(<<o1>>) = 1 /\ <<o1>>[1] = o1 OBVIOUS
    <3>8. \A x \in S : IsOperation(x)
      <4>1. IsOperation(o1) BY OpIs DEF Tables
      <4>2. \A i \in 1..Len(E) : rest[i] = Op("tostring", E[i], Nothing) BY <3>2
      <4> QED BY <4>1, <4>2, <3>4
    <3> HIDE DEF S, rest, o1, E
    <3>9. <<o1>> \o rest \in Seq(S) BY <3>6, <3>7, ConcatProperties
    <3>10. \A i \in DOMAIN (<<o1>> \o rest) : (<<o1>> \o rest)[i] \in S
      BY <3>9, LenProperties, ElementOfSeq
    <3>11. Before(op) = <<o1>> \o rest BY <2>1 DEF Before, o1, rest, E
    <3> QED BY <3>8, <3>9, <3>10, <3>11, SequenceIs DEF Operations
  <2>2. CASE op.table = "local" /\ op.foreign
    <3>1. IsOperation(Op("local", Foreign[op.a], op.b)) /\ IsOperation(Op("proxy", op.a, op.b))
      BY OpIs DEF Tables
    <3>2. Before(op) = <<Op("local", Foreign[op.a], op.b), Op("proxy", op.a, op.b)>>
      BY <2>2 DEF Before
    <3> QED BY <3>1, <3>2, TwoOperations
  <2>3. CASE ~ (op.table = "tostring" /\ Elements[op.a] # <<>>) /\ ~ (op.table = "local" /\ op.foreign)
    <3>1. Before(op) = <<>> BY <2>3 DEF Before
    <3> QED BY <3>1, NoOperations
  <2> QED BY <2>1, <2>2, <2>3
<1> DEFINE g == Frame(op)
<1>2. /\ DOMAIN g = FrameFields /\ g.op = op /\ g.todo = Before(op)
      /\ g.at = IF Before(op) = <<>> THEN "lock" ELSE "before"
  BY DEF Frame, FrameFields
<1> HIDE DEF g
<1>3. g.at \in {"lock", "before"} /\ (g.todo # <<>> => g.at \in Waits) BY <1>2 DEF Waits
<1>4. FrameOK(g, reg) BY <1>1, <1>2, <1>3 DEF FrameOK
<1> QED BY <1>3, <1>4 DEF g, Holding

LEMMA BeginMoves ==
  ASSUME RegistriesAssumption, SceneOK, StacksOK, NEW t \in Callers, NEW op \in scene.ops, BeginCall(t, op)
  PROVE  Moves(t)
<1>1. IsOperation(op) BY DEF RegistriesAssumption, SceneOK
<1> DEFINE f == Frame(op)
           s2 == <<f>>
<1>2. FrameOK(f, Live) /\ f.at \notin Holding BY <1>1, FrameBegins
<1>3. stack[t] = <<>> /\ stack' = [stack EXCEPT ![t] = s2] /\ UNCHANGED words BY DEF BeginCall
<1> HIDE DEF f
<1>4. s2 \in Seq({f}) /\ Len(s2) = 1 /\ DOMAIN s2 = 1..1 /\ s2[1] = f OBVIOUS
<1> HIDE DEF s2
<1>5. StackOK(s2, Live)
  <2>1. IsSequence(s2) BY <1>4, SequenceIs
  <2>2. \A i \in DOMAIN s2 : i = 1 BY <1>4
  <2> QED BY <1>2, <1>4, <2>1, <2>2 DEF StackOK
<1>6. ASSUME NEW tb PROVE HeldOf(s2, tb) = HeldOf(stack[t], tb)
  <2>1. HeldOf(<<>>, tb) = {} BY NoFrames
  <2>2. HeldOf(s2, tb) = {} BY <1>2, <1>4 DEF HeldOf
  <2> QED BY <2>1, <2>2, <1>3
<1> QED BY <1>3, <1>5, <1>6 DEF Moves, Keeps

LEMMA PlainTextMoves ==
  ASSUME RegistriesAssumption, StacksOK, NEW t \in Callers, stack[t] # <<>>, PlainText(t)
  PROVE  Moves(t)
<1>1. PICK s2 : /\ stack' = [stack EXCEPT ![t] = s2] /\ StackOK(s2, Live)
                /\ \A tb : HeldOf(s2, tb) = HeldOf(stack[t], tb) \ {Len(stack[t])}
  BY Returned DEF PlainText
<1>2. \A tb : ~ Locked(Top(t), tb)
  <2>1. Top(t).at \in {"lock", "before"} BY OnTheTop DEF PlainText, FrameOK
  <2> QED BY <2>1 DEF Locked, Holding
<1>3. ASSUME NEW tb PROVE HeldOf(s2, tb) = HeldOf(stack[t], tb)
  <2>1. Len(stack[t]) \notin HeldOf(stack[t], tb) BY <1>2, OnTheTop
  <2>2. HeldOf(s2, tb) = HeldOf(stack[t], tb) \ {Len(stack[t])} BY <1>1
  <2> QED BY <2>1, <2>2
<1> QED BY <1>1, <1>3 DEF Moves, Keeps, PlainText

LEMMA UnlockSharedMoves ==
  ASSUME RegistriesAssumption, StacksOK, NEW t \in Callers, stack[t] # <<>>, Unshare(t)
  PROVE  Moves(t)
<1>1. PICK s2 : /\ stack' = [stack EXCEPT ![t] = s2] /\ StackOK(s2, Live)
                /\ \A tb : HeldOf(s2, tb) = HeldOf(stack[t], tb) \ {Len(stack[t])}
  BY Returned DEF Unshare
<1> DEFINE x == Top(t).op.table
           n == Len(stack[t])
<1>2. \A tb : n \in HeldOf(stack[t], tb) <=> tb = x
  BY OnTheTop DEF Unshare, Locked, Holding, Errors
<1>3. x \in Tables BY OnTheTop DEF FrameOK, IsOperation
<1>4. words' = [words EXCEPT ![x] = @ - 1] BY DEF Unshare
<1> HIDE DEF x, n
<1>5. \A tb : HeldOf(s2, tb) = HeldOf(stack[t], tb) \ {n} BY <1>1 DEF n
<1>6. \A tb : tb # x => HeldOf(s2, tb) = HeldOf(stack[t], tb) BY <1>2, <1>5
<1>7. n \in HeldOf(stack[t], x) /\ HeldOf(s2, x) = HeldOf(stack[t], x) \ {n} BY <1>2, <1>5
<1>8. Gives(stack[t], s2) BY <1>3, <1>4, <1>6, <1>7 DEF Gives
<1> QED BY <1>1, <1>8 DEF Moves

LEMMA AllWait ==
  ASSUME NEW reg, NEW s, StackOK(s, reg), s # <<>>, Last(s).at \in Waits
  PROVE  \A i \in DOMAIN s : s[i].at \in Waits
<1>1. Len(s) \in Nat /\ DOMAIN s = 1..Len(s) /\ Last(s) = s[Len(s)]
  BY SequenceFacts DEF StackOK, Last
<1>2. ASSUME NEW i \in DOMAIN s PROVE s[i].at \in Waits
  <2>1. i = Len(s) \/ i < Len(s) BY <1>1
  <2> QED BY <2>1, <1>1 DEF StackOK
<1> QED BY <1>2

\* A frame whose first call has been begun.
Resting(f) == [f EXCEPT !.todo = Tail(@)]

LEMMA FrameRests ==
  ASSUME NEW reg, NEW f, FrameOK(f, reg), f.todo # <<>>
  PROVE  /\ FrameOK(Resting(f), reg) /\ Resting(f).at = f.at /\ f.at \in Waits
         /\ \A tb : Locked(Resting(f), tb) <=> Locked(f, tb)
<1> DEFINE g == Resting(f)
<1>1. /\ DOMAIN g = FrameFields /\ g.op = f.op /\ g.at = f.at /\ g.plugins = f.plugins
      /\ g.todo = Tail(f.todo)
  BY DEF FrameOK, FrameFields, Resting
<1>2. f.at \in Waits /\ Operations(g.todo) BY <1>1, TailFacts DEF FrameOK
<1> HIDE DEF g
<1>3. IsPlain(g) <=> IsPlain(f) BY <1>1 DEF IsPlain
<1>4. FrameOK(g, reg) BY <1>1, <1>2, <1>3 DEF FrameOK
<1>5. \A tb : Locked(g, tb) <=> Locked(f, tb) BY <1>1 DEF Locked
<1> QED BY <1>1, <1>2, <1>4, <1>5 DEF g

LEMMA DescendMoves ==
  ASSUME RegistriesAssumption, StacksOK, NEW t \in Callers, stack[t] # <<>>, Descend(t)
  PROVE  Moves(t)
<1> DEFINE s == stack[t]
           g == Resting(Top(t))
           h == Frame(Head(Top(t).todo))
           r == Replaced(s, g)
           s2 == Append(r, h)
<1>1. /\ StackOK(s, Live) /\ s # <<>> /\ FrameOK(Top(t), Live)
      /\ \A tb : Len(s) \in HeldOf(s, tb) <=> Locked(Top(t), tb)
  BY OnTheTop
<1>2. Top(t).todo # <<>> /\ stack' = [stack EXCEPT ![t] = s2] /\ UNCHANGED words
  BY DEF Descend, Replaced, Resting
<1>3. /\ FrameOK(g, Live) /\ g.at \in Waits
      /\ \A tb : Locked(g, tb) <=> Locked(Top(t), tb)
  BY <1>1, <1>2, FrameRests
<1>4. FrameOK(h, Live) /\ h.at \notin Holding
  BY <1>1, <1>2, TailFacts, FrameBegins DEF FrameOK
<1> HIDE DEF g, h, s
<1>5. /\ StackOK(r, Live) /\ r # <<>> /\ Last(r) = g
      /\ \A tb : HeldOf(r, tb) = (HeldOf(s, tb) \ {Len(s)}) \union (IF Locked(g, tb) THEN {Len(s)} ELSE {})
  BY <1>1, <1>3, ReplaceTop
<1> HIDE DEF r
<1>6. \A i \in DOMAIN r : r[i].at \in Waits BY <1>3, <1>5, AllWait
<1>7. /\ StackOK(s2, Live)
      /\ \A tb : HeldOf(s2, tb) = HeldOf(r, tb) \union (IF Locked(h, tb) THEN {Len(r) + 1} ELSE {})
  BY <1>4, <1>5, <1>6, PushStack
<1> HIDE DEF s2
<1>8. ASSUME NEW tb PROVE HeldOf(s2, tb) = HeldOf(s, tb)
  <2>1. ~ Locked(h, tb) BY <1>4 DEF Locked
  <2>2. HeldOf(r, tb) = HeldOf(s, tb) BY <1>1, <1>3, <1>5
  <2> QED BY <2>1, <2>2, <1>7
<1>9. Keeps(s, s2) BY <1>2, <1>8 DEF Keeps
<1> QED BY <1>2, <1>7, <1>9 DEF Moves, s

LEMMA LockSharedMoves ==
  ASSUME StacksOK, NEW t \in Callers, stack[t] # <<>>, LockShared(t)
  PROVE  Moves(t)
<1> DEFINE s == stack[t]
           x == Top(t).op.table
           f == Gone(Top(t), "find", <<>>)
           s2 == Replaced(s, f)
           n == Len(s)
<1>1. /\ StackOK(s, Live) /\ s # <<>> /\ FrameOK(Top(t), Live)
      /\ \A tb : n \in HeldOf(s, tb) <=> Locked(Top(t), tb)
  BY OnTheTop
<1>2. /\ Top(t).at = "lock" /\ ~ IsPlain(Top(t)) /\ words[x] # -1
      /\ words' = [words EXCEPT ![x] = @ + 1] /\ stack' = [stack EXCEPT ![t] = s2]
  BY DEF LockShared, MayShare, Go, OnTop, Gone, Replaced
<1>3. FrameOK(f, Live) /\ f.op = Top(t).op /\ f.at = "find" BY <1>1, <1>2, FrameEnds
<1>4. x \in Tables BY <1>1 DEF FrameOK, IsOperation
<1>5. \A tb : Locked(f, tb) <=> tb = x BY <1>3 DEF Locked, Holding
<1>6. \A tb : n \notin HeldOf(s, tb) BY <1>1, <1>2 DEF Locked, Holding
<1> HIDE DEF f, x, s
<1>7. /\ StackOK(s2, Live)
      /\ \A tb : HeldOf(s2, tb) = (HeldOf(s, tb) \ {Len(s)}) \union (IF Locked(f, tb) THEN {Len(s)} ELSE {})
  BY <1>1, <1>3, ReplaceTop
<1> HIDE DEF s2
<1>8. HeldOf(s2, x) = HeldOf(s, x) \union {n} BY <1>5, <1>7
<1>9. ASSUME NEW tb, tb # x PROVE HeldOf(s2, tb) = HeldOf(s, tb)
  <2>1. ~ Locked(f, tb) BY <1>5, <1>9
  <2>2. HeldOf(s2, tb) = HeldOf(s, tb) \ {n} BY <2>1, <1>7
  <2>3. n \notin HeldOf(s, tb) BY <1>6
  <2> QED BY <2>2, <2>3
<1> HIDE DEF n
<1>10. Takes(s, s2) BY <1>2, <1>4, <1>6, <1>8, <1>9 DEF Takes
<1> QED BY <1>2, <1>7, <1>10 DEF Moves, s

LEMMA CallsAreOperations ==
  ASSUME RegistriesAssumption, SceneOK, NEW p \in scene.plugins
  PROVE  Operations(Calls(p))
<1>1. /\ IsSequence(p.calls) /\ IsSequence(p.items)
      /\ \A i \in DOMAIN p.calls : IsOperation(p.calls[i])
  BY DEF RegistriesAssumption, SceneOK
<1>2. ASSUME NEW tb \in {"local", "proxy"}
      PROVE  Operations([i \in DOMAIN p.items |-> Op(tb, p.env, p.items[i])])
  <2> DEFINE o(i) == Op(tb, p.env, p.items[i])
             x == [i \in DOMAIN p.items |-> o(i)]
             S == {o(i) : i \in 1..Len(p.items)}
  <2>1. Len(p.items) \in Nat /\ DOMAIN p.items = 1..Len(p.items) BY <1>1, SequenceFacts
  <2>2. \A i \in 1..Len(p.items) : IsOperation(o(i)) BY OpIs DEF Tables
  <2> HIDE DEF o
  <2>3. x \in [1..Len(p.items) -> S] BY <2>1
  <2>4. x \in Seq(S) BY <2>1, <2>3, SeqDef
  <2>5. DOMAIN x = 1..Len(p.items) /\ \A i \in 1..Len(p.items) : x[i] = o(i) BY <2>1
  <2>6. Operations(x) BY <2>2, <2>4, <2>5, SequenceIs DEF Operations
  <2> QED BY <2>6 DEF o
<1>3. CASE p.container = "objects" BY <1>2, <1>3 DEF Calls, ToObjects
<1>4. CASE p.container = "proxies" BY <1>2, <1>4 DEF Calls, ToProxies
<1>5. CASE p.container \notin {"objects", "proxies"}
  <2>1. Calls(p) = p.calls BY <1>5 DEF Calls
  <2> QED BY <1>1, <2>1 DEF Operations
<1> QED BY <1>3, <1>4, <1>5

\* What is found in a table is live, and of that table.
LEMMA Found ==
  ASSUME EntriesOK, NEW tb \in Tables, NEW k, NEW p, p = Entry(tb, k), p \notin {Nothing, Null}
  PROVE  p \in Live /\ Accepts(p) /\ p.table = tb /\ KeyOf(p) = k
<1>1. k \in DOMAIN entries[tb] /\ p = entries[tb][k] BY DEF Entry
<1>2. EntryOK(p, tb, k, Live) BY <1>1 DEF EntriesOK
<1> QED BY <1>2 DEF EntryOK

LEMMA OutputsAreKeys ==
  ASSUME NEW a, NEW m \in Outputs(a),
         EntriesOK
  PROVE  <<a, m>> \in DOMAIN entries["convert"]
<1>1. PICK x \in DOMAIN entries["convert"] : x[1] = a /\ entries["convert"][x] # Null /\ m = x[2] BY DEF Outputs
<1>2. EntryOK(entries["convert"][x], "convert", x, Live) BY DEF EntriesOK, Tables
<1>3. x = KeyOf(entries["convert"][x]) /\ entries["convert"][x].table = "convert" BY <1>1, <1>2 DEF EntryOK
<1>4. x = <<x[1], x[2]>>
  <2> DEFINE q == entries["convert"][x]
  <2>1. x = <<q.args[1], q.returns>> BY <1>3 DEF KeyOf, Key
  <2> HIDE DEF q
  <2> QED BY <2>1
<1> QED BY <1>1, <1>4

LEMMA TwoLists ==
  ASSUME NEW x, NEW y, Operations(x), Operations(y)
  PROVE  Operations(x \o y)
<1> DEFINE S == ToSet(x) \union ToSet(y)
<1>1. x \in Seq(ToSet(x)) /\ y \in Seq(ToSet(y)) BY DEF Operations, IsSequence
<1>2. \A e \in S : IsOperation(e) BY DEF Operations, ToSet
<1>3. ToSet(x) \subseteq S /\ ToSet(y) \subseteq S OBVIOUS
<1> HIDE DEF S
<1>4. x \in Seq(S) /\ y \in Seq(S)
  <2>1. x \in [1..Len(x) -> S] /\ Len(x) \in Nat
    <3>1. x \in [1..Len(x) -> ToSet(x)] /\ Len(x) \in Nat BY <1>1, LenProperties, SeqDef
    <3> QED BY <3>1, <1>3
  <2>2. y \in [1..Len(y) -> S] /\ Len(y) \in Nat
    <3>1. y \in [1..Len(y) -> ToSet(y)] /\ Len(y) \in Nat BY <1>1, LenProperties, SeqDef
    <3> QED BY <3>1, <1>3
  <2> QED BY <2>1, <2>2, SeqDef
<1>5. x \o y \in Seq(S) BY <1>4, ConcatProperties
<1> DEFINE z == x \o y
<1> HIDE DEF z
<1>6. z \in Seq(S) BY <1>5 DEF z
<1>7. \A i \in DOMAIN z : z[i] \in S BY <1>6, LenProperties, ElementOfSeq
<1>8. IsSequence(z) BY <1>6, SequenceIs
<1>9. Operations(z) BY <1>2, <1>7, <1>8 DEF Operations
<1> QED BY <1>9 DEF z

\* A frame with functions of plugins.
Calling(f, ps, todo) == [f EXCEPT !.at = "call", !.plugins = ps, !.todo = todo]

LEMMA FrameCalls ==
  ASSUME NEW reg, NEW f, FrameOK(f, reg), f.at = "find", NEW ps, NEW todo, Operations(todo),
         \A p \in ps : p \in reg /\ Accepts(p) /\ p.table = f.op.table
  PROVE  FrameOK(Calling(f, ps, todo), reg) /\ \A tb : Locked(Calling(f, ps, todo), tb) <=> Locked(f, tb)
<1> DEFINE g == Calling(f, ps, todo)
<1>1. /\ DOMAIN g = FrameFields /\ g.op = f.op /\ g.at = "call" /\ g.plugins = ps /\ g.todo = todo
  BY DEF FrameOK, FrameFields, Calling
<1>2. ~ IsPlain(f) BY DEF FrameOK
<1> HIDE DEF g
<1>3. ~ IsPlain(g) BY <1>1, <1>2 DEF IsPlain
<1>4. FrameOK(g, reg) BY <1>1, <1>3 DEF FrameOK, Waits
<1>5. \A tb : Locked(g, tb) <=> Locked(f, tb) BY <1>1 DEF Locked, Holding
<1> QED BY <1>4, <1>5 DEF g

\* The frame on top goes on, and is as locked as before.
LEMMA GoMoves ==
  ASSUME StacksOK, NEW t \in Callers, stack[t] # <<>>, NEW at, at \notin {"call", "numbers", "texts"},
         Go(t, at, <<>>), UNCHANGED words, at \in Holding <=> Top(t).at \in Holding,
         IsPlain(Top(t)) => at \in {"lock", "before"}
  PROVE  Moves(t)
<1> DEFINE f == Gone(Top(t), at, <<>>)
<1>1. FrameOK(Top(t), Live) BY OnTheTop
<1>2. FrameOK(f, Live) /\ f.op = Top(t).op /\ f.at = at BY <1>1, FrameEnds
<1>3. stack' = [stack EXCEPT ![t] = Replaced(@, f)] BY DEF Go, OnTop, Gone, Replaced
<1> HIDE DEF f
<1>4. \A tb : Locked(f, tb) <=> Locked(Top(t), tb) BY <1>2 DEF Locked
<1> QED BY <1>2, <1>3, <1>4, GoesOn

\* The functions that are called are live and of the table, and what they call are operations.
LEMMA FoundFunctions ==
  ASSUME RegistriesAssumption, SceneOK, EventOK, EntriesOK,
         NEW op, IsOperation(op), NEW fs \in FunctionsFor(op), {Nothing, Null} \cap ToSet(fs) = {}
  PROVE  /\ \A p \in ToSet(fs) : p \in Live /\ Accepts(p) /\ p.table = op.table
         /\ Operations(IF Len(fs) = 1 THEN Calls(fs[1]) ELSE Calls(fs[1]) \o Calls(fs[2]))
<1>1. Live \subseteq scene.plugins BY DEF Live, SceneOK
<1>2. op.table \in Tables BY DEF IsOperation
<1>3. ASSUME NEW p, p \in Live PROVE Operations(Calls(p)) BY <1>1, <1>3, CallsAreOperations
<1>4. ASSUME NEW p, fs = <<p>>, p = Entry(op.table, Key(op.table, op.a, op.b))
      PROVE  /\ \A q \in ToSet(fs) : q \in Live /\ Accepts(q) /\ q.table = op.table
             /\ Len(fs) = 1 /\ Operations(Calls(fs[1]))
  <2>1. ToSet(fs) = {p} /\ Len(fs) = 1 /\ fs[1] = p BY <1>4 DEF ToSet
  <2>2. p \notin {Nothing, Null} BY <2>1
  <2>3. p \in Live /\ Accepts(p) /\ p.table = op.table BY <1>2, <1>4, <2>2, Found
  <2> QED BY <1>3, <2>1, <2>3
<1>5. ASSUME NEW p, NEW q, fs = <<p, q>>, op.table = "convert", NEW m,
             m \in Between(op), p = entries["convert"][<<op.a, m>>], q = entries["convert"][<<m, op.b>>]
      PROVE  /\ \A x \in ToSet(fs) : x \in Live /\ Accepts(x) /\ x.table = op.table
             /\ Len(fs) = 2 /\ Operations(Calls(fs[1]) \o Calls(fs[2]))
  <2>1. ToSet(fs) = {p, q} /\ Len(fs) = 2 /\ fs[1] = p /\ fs[2] = q
    <3>1. DOMAIN fs = {1, 2} /\ Len(fs) = 2 /\ fs[1] = p /\ fs[2] = q BY <1>5
    <3> QED BY <3>1 DEF ToSet
  <2>2. p \notin {Nothing, Null} /\ q \notin {Nothing, Null} BY <2>1
  <2>3. <<op.a, m>> \in DOMAIN entries["convert"] /\ <<m, op.b>> \in DOMAIN entries["convert"]
    <3>1. m \in Outputs(op.a) /\ <<m, op.b>> \in DOMAIN entries["convert"] BY <1>5 DEF Between
    <3> QED BY <3>1, OutputsAreKeys
  <2>4. p = Entry("convert", <<op.a, m>>) /\ q = Entry("convert", <<m, op.b>>) BY <2>3, <1>5 DEF Entry
  <2>5. p \in Live /\ Accepts(p) /\ p.table = op.table BY <1>2, <1>5, <2>2, <2>4, Found
  <2>6. q \in Live /\ Accepts(q) /\ q.table = op.table BY <1>2, <1>5, <2>2, <2>4, Found
  <2>7. Operations(Calls(p)) /\ Operations(Calls(q)) BY <1>3, <2>5, <2>6
  <2>8. Operations(Calls(p) \o Calls(q)) BY <2>7, TwoLists
  <2> QED BY <2>1, <2>5, <2>6, <2>8
<1>6. CASE fs = <<Entry(op.table, Key(op.table, op.a, op.b))>> BY <1>4, <1>6
<1>7. CASE fs # <<Entry(op.table, Key(op.table, op.a, op.b))>>
  <2>1. Between(op) # {} /\ \E m \in Between(op) : fs = <<entries["convert"][<<op.a, m>>], entries["convert"][<<m, op.b>>]>>
    BY <1>7 DEF FunctionsFor
  <2>2. op.table = "convert" BY <2>1 DEF Between
  <2>3. PICK m \in Between(op) : fs = <<entries["convert"][<<op.a, m>>], entries["convert"][<<m, op.b>>]>> BY <2>1
  <2>4. /\ \A x \in ToSet(fs) : x \in Live /\ Accepts(x) /\ x.table = op.table
        /\ Len(fs) = 2 /\ Operations(Calls(fs[1]) \o Calls(fs[2]))
    BY <1>5, <2>2, <2>3
  <2> QED BY <2>4
<1> QED BY <1>6, <1>7

LEMMA FindMoves ==
  ASSUME RegistriesAssumption, SceneOK, EventOK, EntriesOK, StacksOK,
         NEW t \in Callers, stack[t] # <<>>, Find(t)
  PROVE  Moves(t)
<1> DEFINE f == Top(t)
           op == f.op
<1>1. FrameOK(f, Live) BY OnTheTop
<1>2. f.at = "find" /\ UNCHANGED words BY DEF Find
<1>3. ~ IsPlain(f) /\ op.table \in Tables /\ IsOperation(op) BY <1>1, <1>2 DEF FrameOK, IsOperation
<1>4. CASE op.table # "compare" /\ Go(t, Missing(op), <<>>)
  <2>1. Missing(op) \in {"fallback", "noconvert", "error"} BY <1>4 DEF Missing
  <2> QED BY <1>2, <1>3, <1>4, <2>1, GoMoves DEF Holding
<1>5. CASE Go(t, "noconvert", <<>>) BY <1>2, <1>3, <1>5, GoMoves DEF Holding
<1>6. CASE op.table = "compare" /\ Go(t, Missing(op), Numbers(op))
  <2> DEFINE g == Gone(f, "numbers", Numbers(op))
  <2>1. Operations(Numbers(op))
    <3>1. IsOperation(Op("convert", op.a, "double")) /\ IsOperation(Op("convert", op.b, "double"))
      BY OpIs DEF Tables
    <3> QED BY <3>1, TwoOperations DEF Numbers
  <2>2. FrameOK(g, Live) /\ g.op = op /\ g.at = "numbers"
    BY <1>1, <1>3, <1>6, <2>1, FrameGoes DEF Waits
  <2>3. stack' = [stack EXCEPT ![t] = Replaced(@, g)] BY <1>6 DEF Go, OnTop, Gone, Replaced, Missing
  <2> HIDE DEF g
  <2>4. \A tb : Locked(g, tb) <=> Locked(f, tb) BY <1>2, <2>2 DEF Locked, Holding
  <2> QED BY <1>2, <2>2, <2>3, <2>4, GoesOn
<1>7. ASSUME NEW fs \in FunctionsFor(op), {Nothing, Null} \cap ToSet(fs) = {}, NEW todo,
             todo = (IF Len(fs) = 1 THEN Calls(fs[1]) ELSE Calls(fs[1]) \o Calls(fs[2])),
             OnTop(t, Calling(f, ToSet(fs), todo))
      PROVE  Moves(t)
  <2>1. (\A p \in ToSet(fs) : p \in Live /\ Accepts(p) /\ p.table = op.table) /\ Operations(todo)
    BY <1>3, <1>7, FoundFunctions
  <2> DEFINE g == Calling(f, ToSet(fs), todo)
  <2>3. FrameOK(g, Live) /\ \A tb : Locked(g, tb) <=> Locked(f, tb)
    BY <1>1, <1>2, <2>1, FrameCalls
  <2>4. stack' = [stack EXCEPT ![t] = Replaced(@, g)] BY <1>7 DEF OnTop, Replaced
  <2> HIDE DEF g
  <2> QED BY <1>2, <2>3, <2>4, GoesOn
<1>8. PICK fs \in FunctionsFor(op) :
        \/ fs[1] = Nothing /\ Go(t, Missing(op), IF op.table = "compare" THEN Numbers(op) ELSE <<>>)
        \/ Null \in ToSet(fs) /\ Go(t, "noconvert", <<>>)
        \/ /\ {Nothing, Null} \cap ToSet(fs) = {}
           /\ OnTop(t, Calling(f, ToSet(fs), IF Len(fs) = 1 THEN Calls(fs[1]) ELSE Calls(fs[1]) \o Calls(fs[2])))
  BY DEF Find, Calling
<1> QED BY <1>4, <1>5, <1>6, <1>7, <1>8

LEMMA ThrowMoves ==
  ASSUME RegistriesAssumption, StacksOK, NEW t \in Callers, stack[t] # <<>>, Throw(t)
  PROVE  Moves(t)
<1>1. FrameOK(Top(t), Live) /\ UNCHANGED words /\ Top(t).at = "call" BY OnTheTop DEF Throw
<1>2. PICK out \in Errors : Go(t, out, <<>>) BY DEF Throw
<1>3. ~ IsPlain(Top(t)) BY <1>1 DEF FrameOK
<1> QED BY <1>1, <1>2, <1>3, GoMoves DEF Holding, Errors

LEMMA CalledMoves ==
  ASSUME RegistriesAssumption, StacksOK, NEW t \in Callers, stack[t] # <<>>, Called(t)
  PROVE  Moves(t)
<1> DEFINE f == Top(t)
<1>1. FrameOK(f, Live) /\ UNCHANGED words BY OnTheTop DEF Called
<1>2. CASE f.at \in {"call", "numbers"} /\ Go(t, "value", <<>>)
  BY <1>1, <1>2, GoMoves DEF Holding, FrameOK
<1>3. CASE f.at = "texts" /\ Go(t, "error", <<>>)
  BY <1>1, <1>3, GoMoves DEF Holding, FrameOK
<1>4. CASE f.at = "before" /\ f.op.table = "local" /\ Go(t, "lock", <<>>)
  BY <1>1, <1>4, GoMoves DEF Holding
<1>5. ASSUME NEW out, f.at \in {"before", "throw", "throwConvert"}, Return(t, out) PROVE Moves(t)
  <2>1. PICK s2 : /\ stack' = [stack EXCEPT ![t] = s2] /\ StackOK(s2, Live)
                  /\ \A tb : HeldOf(s2, tb) = HeldOf(stack[t], tb) \ {Len(stack[t])}
    BY <1>5, Returned
  <2>2. \A tb : ~ Locked(f, tb) BY <1>5 DEF Locked, Holding
  <2>3. \A tb : HeldOf(s2, tb) = HeldOf(stack[t], tb) BY <2>1, <2>2, OnTheTop
  <2> QED BY <1>1, <2>1, <2>3 DEF Moves, Keeps
<1> QED BY <1>2, <1>3, <1>4, <1>5 DEF Called

\* Every step of a caller is one of these moves, and leaves the tables alone.
LEMMA ReaderMoves ==
  ASSUME RegistriesAssumption, SceneOK, EventOK, EntriesOK, StacksOK, NEW t \in Callers, Reader(t)
  PROVE  Moves(t) /\ Same
<1>1. CASE \E op \in scene.ops : BeginCall(t, op)
  BY <1>1, BeginMoves DEF BeginCall
<1>2. CASE stack[t] # <<>> /\ PlainText(t) BY <1>2, PlainTextMoves DEF PlainText
<1>3. CASE stack[t] # <<>> /\ Descend(t) BY <1>3, DescendMoves DEF Descend
<1>4. CASE stack[t] # <<>> /\ LockShared(t) BY <1>4, LockSharedMoves DEF LockShared
<1>5. CASE stack[t] # <<>> /\ Find(t) BY <1>5, FindMoves DEF Find
<1>6. CASE stack[t] # <<>> /\ Called(t) BY <1>6, CalledMoves DEF Called
<1>7. CASE stack[t] # <<>> /\ Unshare(t) BY <1>7, UnlockSharedMoves DEF Unshare
<1>8. CASE stack[t] # <<>> /\ Throw(t) BY <1>8, ThrowMoves DEF Throw
<1> QED BY <1>1, <1>2, <1>3, <1>4, <1>5, <1>6, <1>7, <1>8 DEF Reader

-----------------------------------------------------------------------------
(* The locks that are held, of all stacks together.                        *)
HeldIn(st, tb) == UNION {{u} \X HeldOf(st[u], tb) : u \in Callers}

LEMMA HeldIsIn == \A tb : Held(tb) = HeldIn(stack, tb)
BY DEF Held, HeldBy, HeldIn, HeldOf

LEMMA HeldIsInNext == \A tb : Held(tb)' = HeldIn(stack', tb)
BY DEF Held, HeldBy, HeldIn, HeldOf

LEMMA InHeld ==
  ASSUME NEW st, NEW tb, NEW x
  PROVE  x \in HeldIn(st, tb) <=> \E u \in Callers : \E i \in HeldOf(st[u], tb) : x = <<u, i>>
BY DEF HeldIn

\* What is held changes as it does on the stack of t.
HeldSteps(st, st2, t, s2, tb) ==
  /\ HeldOf(s2, tb) = HeldOf(st[t], tb) => HeldIn(st2, tb) = HeldIn(st, tb)
  /\ \A n : HeldOf(s2, tb) = HeldOf(st[t], tb) \union {n} =>
       HeldIn(st2, tb) = HeldIn(st, tb) \union {<<t, n>>}
  /\ \A n : HeldOf(s2, tb) = HeldOf(st[t], tb) \ {n} =>
       HeldIn(st2, tb) = HeldIn(st, tb) \ {<<t, n>>}

LEMMA HeldChanges ==
  ASSUME NEW st, NEW st2, NEW t \in Callers, NEW s2, NEW tb,
         st2[t] = s2, \A u \in Callers : u # t => st2[u] = st[u]
  PROVE  HeldSteps(st, st2, t, s2, tb)
<1>2. ASSUME HeldOf(s2, tb) = HeldOf(st[t], tb) PROVE HeldIn(st2, tb) = HeldIn(st, tb)
  <2>1. \A u \in Callers : HeldOf(st2[u], tb) = HeldOf(st[u], tb) BY <1>2
  <2> QED BY <2>1 DEF HeldIn
<1>3. ASSUME NEW n, HeldOf(s2, tb) = HeldOf(st[t], tb) \union {n}
      PROVE  HeldIn(st2, tb) = HeldIn(st, tb) \union {<<t, n>>}
  <2>1. \A u \in Callers : \A i :
          i \in HeldOf(st2[u], tb) <=> i \in HeldOf(st[u], tb) \/ (u = t /\ i = n)
    BY <1>3
  <2>2. ASSUME NEW x \in HeldIn(st2, tb) PROVE x \in HeldIn(st, tb) \union {<<t, n>>}
    <3>3. PICK u \in Callers : \E i \in HeldOf(st2[u], tb) : x = <<u, i>> BY InHeld
    <3>1. PICK i \in HeldOf(st2[u], tb) : x = <<u, i>> BY <3>3
    <3>2. i \in HeldOf(st[u], tb) \/ (u = t /\ i = n) BY <2>1
    <3> QED BY <3>1, <3>2, InHeld
  <2>3. ASSUME NEW x \in HeldIn(st, tb) PROVE x \in HeldIn(st2, tb)
    <3>3. PICK u \in Callers : \E i \in HeldOf(st[u], tb) : x = <<u, i>> BY InHeld
    <3>1. PICK i \in HeldOf(st[u], tb) : x = <<u, i>> BY <3>3
    <3>2. i \in HeldOf(st2[u], tb) BY <2>1
    <3> QED BY <3>1, <3>2, InHeld
  <2>4. <<t, n>> \in HeldIn(st2, tb)
    <3>1. n \in HeldOf(st2[t], tb) BY <2>1
    <3> QED BY <3>1, InHeld
  <2> QED BY <2>2, <2>3, <2>4
<1>4. ASSUME NEW n, HeldOf(s2, tb) = HeldOf(st[t], tb) \ {n}
      PROVE  HeldIn(st2, tb) = HeldIn(st, tb) \ {<<t, n>>}
  <2>1. \A u \in Callers : \A i :
          i \in HeldOf(st2[u], tb) <=> i \in HeldOf(st[u], tb) /\ ~ (u = t /\ i = n)
    BY <1>4
  <2>2. ASSUME NEW x \in HeldIn(st2, tb) PROVE x \in HeldIn(st, tb) \ {<<t, n>>}
    <3>3. PICK u \in Callers : \E i \in HeldOf(st2[u], tb) : x = <<u, i>> BY InHeld
    <3>1. PICK i \in HeldOf(st2[u], tb) : x = <<u, i>> BY <3>3
    <3>2. i \in HeldOf(st[u], tb) /\ ~ (u = t /\ i = n) BY <2>1
    <3> QED BY <3>1, <3>2, InHeld
  <2>3. ASSUME NEW x \in HeldIn(st, tb), x # <<t, n>> PROVE x \in HeldIn(st2, tb)
    <3>3. PICK u \in Callers : \E i \in HeldOf(st[u], tb) : x = <<u, i>> BY InHeld
    <3>1. PICK i \in HeldOf(st[u], tb) : x = <<u, i>> BY <3>3
    <3>2. i \in HeldOf(st2[u], tb) BY <2>1, <2>3, <3>1
    <3> QED BY <3>1, <3>2, InHeld
  <2> QED BY <2>2, <2>3
<1> QED BY <1>2, <1>3, <1>4 DEF HeldSteps

\* With the stacks, and the events that do not write, a word counts as before.
LEMMA MovesCount ==
  ASSUME TablesInv, NEW t \in Callers, Moves(t), Same
  PROVE  WordsOK'
<1>1. PICK s2 : /\ stack' = [stack EXCEPT ![t] = s2]
                /\ Keeps(stack[t], s2) \/ Takes(stack[t], s2) \/ Gives(stack[t], s2)
  BY DEF Moves
<1>2. DOMAIN stack = Callers /\ DOMAIN words = Tables BY DEF TablesInv, StacksOK, WordsOK
<1>3. \A tb \in Tables : IsFiniteSet(Held(tb)) /\
        IF \E s \in Senders : Writes(s, tb) THEN words[tb] = -1 /\ Held(tb) = {}
        ELSE words[tb] = Cardinality(Held(tb))
  BY DEF TablesInv, WordsOK, LocksBalanced
<1> DEFINE h(tb) == HeldIn(stack, tb)
           h2(tb) == HeldIn(stack', tb)
           Balances(w, H, tb) ==
             IF \E s \in Senders : Writes(s, tb) THEN w = -1 /\ H = {} ELSE w = Cardinality(H)
<1>4. \A tb \in Tables : IsFiniteSet(h(tb)) /\ Balances(words[tb], h(tb), tb) BY <1>3, HeldIsIn
<1>5. SUFFICES DOMAIN words' = Tables /\ \A tb \in Tables : IsFiniteSet(h2(tb)) /\ Balances(words'[tb], h2(tb), tb)
  <2>1. \A s, tb : Writes(s, tb)' <=> Writes(s, tb) BY DEF Same, Writes
  <2> QED BY <1>5, <2>1, HeldIsInNext DEF WordsOK, LocksBalanced
<1>6. \A tb : /\ HeldOf(s2, tb) = HeldOf(stack[t], tb) => h2(tb) = h(tb)
              /\ \A n : HeldOf(s2, tb) = HeldOf(stack[t], tb) \union {n} => h2(tb) = h(tb) \union {<<t, n>>}
              /\ \A n : HeldOf(s2, tb) = HeldOf(stack[t], tb) \ {n} => h2(tb) = h(tb) \ {<<t, n>>}
  <2> DEFINE st2 == stack'
  <2>1. st2[t] = s2 /\ \A u \in Callers : u # t => st2[u] = stack[u] BY <1>1, <1>2
  <2> HIDE DEF st2
  <2>2. ASSUME NEW tb PROVE HeldSteps(stack, st2, t, s2, tb) BY <2>1, HeldChanges
  <2> QED BY <2>2 DEF st2, HeldSteps
<1>7. CASE Keeps(stack[t], s2)
  <2>1. words' = words /\ \A tb : h2(tb) = h(tb) BY <1>6, <1>7 DEF Keeps
  <2> HIDE DEF h, h2
  <2> QED BY <2>1, <1>2, <1>4
<1>8. CASE Takes(stack[t], s2)
  <2>10. PICK x \in Tables : \E n :
          /\ words[x] # -1 /\ words' = [words EXCEPT ![x] = @ + 1]
          /\ n \notin HeldOf(stack[t], x) /\ HeldOf(s2, x) = HeldOf(stack[t], x) \union {n}
          /\ \A tb : tb # x => HeldOf(s2, tb) = HeldOf(stack[t], tb)
    BY <1>8 DEF Takes
  <2>1. PICK n :
          /\ words[x] # -1 /\ words' = [words EXCEPT ![x] = @ + 1]
          /\ n \notin HeldOf(stack[t], x) /\ HeldOf(s2, x) = HeldOf(stack[t], x) \union {n}
          /\ \A tb : tb # x => HeldOf(s2, tb) = HeldOf(stack[t], tb)
    BY <2>10
  <2>2. h2(x) = h(x) \union {<<t, n>>} /\ \A tb : tb # x => h2(tb) = h(tb) BY <1>6, <2>1
  <2>3. <<t, n>> \notin h(x) BY <2>1, InHeld
  <2>4. IsFiniteSet(h(x)) /\ Balances(words[x], h(x), x) BY <1>4
  <2> HIDE DEF h, h2
  <2>5. IsFiniteSet(h2(x)) /\ Cardinality(h2(x)) = Cardinality(h(x)) + 1
    <3> DEFINE H == h(x)
               e == <<t, n>>
    <3>1. IsFiniteSet(H) /\ e \notin H BY <2>3, <2>4
    <3> HIDE DEF H, e
    <3>2. IsFiniteSet(H \union {e}) /\ Cardinality(H \union {e}) = Cardinality(H) + 1
      BY <3>1, FS_AddElement
    <3>3. h2(x) = H \union {e} BY <2>2 DEF H, e
    <3> QED BY <3>2, <3>3 DEF H
  <2>6. Balances(words'[x], h2(x), x) BY <1>2, <2>1, <2>4, <2>5
  <2>7. DOMAIN words' = Tables /\ \A tb \in Tables : tb # x => words'[tb] = words[tb] BY <1>2, <2>1
  <2> HIDE DEF Balances
  <2> QED BY <1>4, <2>2, <2>5, <2>6, <2>7
<1>9. CASE Gives(stack[t], s2)
  <2>10. PICK x \in Tables : \E n :
          /\ words' = [words EXCEPT ![x] = @ - 1]
          /\ n \in HeldOf(stack[t], x) /\ HeldOf(s2, x) = HeldOf(stack[t], x) \ {n}
          /\ \A tb : tb # x => HeldOf(s2, tb) = HeldOf(stack[t], tb)
    BY <1>9 DEF Gives
  <2>1. PICK n :
          /\ words' = [words EXCEPT ![x] = @ - 1]
          /\ n \in HeldOf(stack[t], x) /\ HeldOf(s2, x) = HeldOf(stack[t], x) \ {n}
          /\ \A tb : tb # x => HeldOf(s2, tb) = HeldOf(stack[t], tb)
    BY <2>10
  <2>2. h2(x) = h(x) \ {<<t, n>>} /\ \A tb : tb # x => h2(tb) = h(tb) BY <1>6, <2>1
  <2>3. <<t, n>> \in h(x) BY <2>1, InHeld
  <2>4. IsFiniteSet(h(x)) /\ Balances(words[x], h(x), x) BY <1>4
  <2> HIDE DEF h, h2
  <2>5. IsFiniteSet(h2(x)) /\ Cardinality(h2(x)) = Cardinality(h(x)) - 1
    <3> DEFINE H == h(x)
               e == <<t, n>>
    <3>1. IsFiniteSet(H) /\ e \in H BY <2>3, <2>4
    <3> HIDE DEF H, e
    <3>2. IsFiniteSet(H \ {e}) /\ Cardinality(H \ {e}) = Cardinality(H) - 1
      BY <3>1, FS_RemoveElement
    <3>3. h2(x) = H \ {e} BY <2>2 DEF H, e
    <3> QED BY <3>2, <3>3 DEF H
  <2>6. Balances(words'[x], h2(x), x) BY <1>2, <2>1, <2>3, <2>4, <2>5
  <2>7. DOMAIN words' = Tables /\ \A tb \in Tables : tb # x => words'[tb] = words[tb] BY <1>2, <2>1
  <2> HIDE DEF Balances
  <2> QED BY <1>4, <2>2, <2>5, <2>6, <2>7
<1> HIDE DEF h, h2, Balances
<1> QED BY <1>1, <1>7, <1>8, <1>9

LEMMA LiveStays == UNCHANGED <<scene, registered, event, overlapped>> => Live' = Live
BY DEF Live, Removing

LEMMA ReaderKeeps ==
  ASSUME RegistriesAssumption, TablesInv, NEW t \in Callers, Reader(t)
  PROVE  TablesInv'
<1>1. Moves(t) /\ Same BY ReaderMoves DEF TablesInv
<1>2. WordsOK' BY <1>1, MovesCount
<1>3. StacksOK'
  <2>1. PICK s2 : stack' = [stack EXCEPT ![t] = s2] /\ StackOK(s2, Live) BY <1>1 DEF Moves
  <2>2. Live' = Live BY <1>1, LiveStays DEF Same
  <2>3. DOMAIN stack = Callers /\ \A u \in Callers : StackOK(stack[u], Live) BY DEF TablesInv, StacksOK
  <2>4. DOMAIN stack' = Callers /\ stack'[t] = s2 /\ \A u \in Callers : u # t => stack'[u] = stack[u]
    BY <2>1, <2>3
  <2> QED BY <2>1, <2>2, <2>3, <2>4 DEF StacksOK
<1>4. SceneOK' /\ EventOK' /\ OneAtATime' /\ OneWriter' /\ EntriesOK' /\ Filled'
  <2>1. UNCHANGED <<scene, registered, entries, event, overlapped>> BY <1>1 DEF Same
  <2>2. Live' = Live BY <2>1, LiveStays
  <2>3. SceneOK' /\ EventOK' /\ OneAtATime' /\ OneWriter'
    BY <2>1 DEF TablesInv, SceneOK, EventOK, EventIs, OneAtATime, OneWriter
  <2>4. EntriesOK' BY <2>1, <2>2 DEF TablesInv, EntriesOK
  <2>5. Filled' BY <2>1 DEF TablesInv, Filled, Alone, InProgress
  <2> QED BY <2>3, <2>4, <2>5
<1> QED BY <1>2, <1>3, <1>4 DEF TablesInv

-----------------------------------------------------------------------------
(* The steps of the handlers.                                              *)

\* A stack is as good where the functions that it calls are still live.
LEMMA StackStays ==
  ASSUME NEW reg, NEW reg2, NEW s, StackOK(s, reg),
         \A i \in DOMAIN s : s[i].at = "call" => \A p \in s[i].plugins : p \in reg => p \in reg2
  PROVE  StackOK(s, reg2)
BY DEF StackOK, FrameOK

LEMMA HeldStays == UNCHANGED stack => \A tb : Held(tb)' = Held(tb)
BY HeldIsIn, HeldIsInNext

\* Null and Nothing are no plugins.
LEMMA NotPlugins ==
  ASSUME RegistriesAssumption, SceneOK, NEW p \in scene.plugins
  PROVE  p # Null /\ p # Nothing /\ p.table \in Tables
BY DEF RegistriesAssumption, SceneOK

\* The events of the other senders stay.
LEMMA OneEventChanges ==
  ASSUME EventOK, NEW s \in Senders, NEW e, event' = [event EXCEPT ![s] = e]
  PROVE  /\ DOMAIN event' = Senders /\ event'[s] = e
         /\ \A z \in Senders : z # s => event'[z] = event[z]
BY DEF EventOK

\* No sender writes before and after: the words count what they counted.
LEMMA WordsStay ==
  ASSUME WordsOK, UNCHANGED <<words, stack>>, \A s \in Senders, tb \in Tables : Writes(s, tb)' <=> Writes(s, tb)
  PROVE  WordsOK'
BY HeldStays DEF WordsOK, LocksBalanced

\* What is live stays live: tables and stacks are as good as before.
LEMMA LiveGrows ==
  ASSUME EntriesOK, StacksOK, UNCHANGED <<entries, stack>>, Live \subseteq Live'
  PROVE  EntriesOK' /\ StacksOK'
<1>1. EntriesOK' BY DEF EntriesOK, EntryOK
<1>2. ASSUME NEW t \in Callers PROVE StackOK(stack[t], Live')
  <2>1. StackOK(stack[t], Live) BY DEF StacksOK
  <2> QED BY <2>1, StackStays
<1> QED BY <1>1, <1>2 DEF StacksOK

LEMMA NotifyKeeps ==
  ASSUME RegistriesAssumption, TablesInv, NEW s \in Senders,
         NEW p \in scene.plugins, NEW kind \in {"add", "remove"}, Notify(s, kind, p)
  PROVE  TablesInv'
<1> DEFINE e == [kind |-> kind, plugin |-> p, at |-> "check"]
<1>1. /\ event[s] = NoEvent /\ event' = [event EXCEPT ![s] = e]
      /\ (p \in registered) = (kind = "remove")
      /\ registered' = IF kind = "add" THEN registered \union {p} ELSE registered \ {p}
      /\ overlapped' = IF InProgress(p) THEN overlapped \union {p} ELSE overlapped \ {p}
      /\ UNCHANGED <<scene, entries, words, stack>>
  BY DEF Notify
<1>2. /\ DOMAIN e = {"kind", "plugin", "at"} /\ e.kind = kind /\ e.plugin = p /\ e.at = "check"
      /\ NoEvent.at = "none" /\ NoEvent.plugin = Nothing /\ NoEvent.kind = "none"
  BY DEF NoEvent
<1> HIDE DEF e
<1>3. /\ DOMAIN event' = Senders /\ event'[s] = e
      /\ \A z \in Senders : z # s => event'[z] = event[z]
  BY <1>1, OneEventChanges DEF TablesInv
<1>4. SceneOK' BY <1>1 DEF TablesInv, SceneOK
<1>5. EventOK'
  <2>1. EventIs(e) BY <1>2 DEF EventIs
  <2>2. ASSUME NEW z \in Senders PROVE EventIs(event'[z])
    <3>1. CASE z = s BY <1>3, <2>1, <3>1
    <3>2. CASE z # s BY <1>3, <3>2 DEF TablesInv, EventOK
    <3> QED BY <3>1, <3>2
  <2> QED BY <1>3, <1>1, <2>2 DEF EventOK, EventIs
<1>6. ASSUME NEW q, q # p
      PROVE  /\ q \in registered' <=> q \in registered
             /\ q \in overlapped' <=> q \in overlapped
  BY <1>1, <1>6
<1>7. p # Nothing BY NotPlugins DEF TablesInv
<1>8. OneAtATime'
  <2>1. ASSUME NEW z \in Senders, event'[z].at # "none", event'[z].plugin \notin overlapped'
        PROVE  /\ event'[z].plugin \in registered' <=> event'[z].kind = "add"
               /\ \A y \in Senders : event'[y].plugin = event'[z].plugin => y = z
    <3>1. CASE event'[z].plugin = p
      <4>1. ~ InProgress(p) BY <1>1, <2>1, <3>1
      <4>2. \A y \in Senders : event'[y].plugin = p => y = s BY <1>3, <4>1 DEF InProgress
      <4>3. z = s /\ event'[s].kind = kind BY <1>2, <1>3, <3>1, <4>2
      <4> QED BY <1>1, <3>1, <4>2, <4>3
    <3>2. CASE event'[z].plugin # p
      <4>1. z # s /\ event'[z] = event[z] BY <1>2, <1>3, <3>2
      <4>2. event[z].plugin \notin overlapped BY <1>6, <2>1, <3>2, <4>1
      <4>3. /\ event[z].plugin \in registered <=> event[z].kind = "add"
            /\ \A y \in Senders : event[y].plugin = event[z].plugin => y = z
        BY <2>1, <4>1, <4>2 DEF TablesInv, OneAtATime
      <4>4. \A y \in Senders : event'[y].plugin = event'[z].plugin => y = z
        BY <1>2, <1>3, <3>2, <4>1, <4>3
      <4> QED BY <1>6, <3>2, <4>1, <4>3, <4>4
    <3> QED BY <3>1, <3>2
  <2> QED BY <2>1 DEF OneAtATime
<1>9. OneWriter' BY <1>2, <1>3 DEF TablesInv, OneWriter
<1>10. Live \subseteq Live'
  <2>1. ASSUME NEW q \in Live PROVE q \in Live'
    <3>1. CASE q = p
      <4>1. CASE kind = "add" BY <1>1, <3>1, <4>1 DEF Live
      <4>2. CASE kind = "remove"
        <5>1. event'[s].kind = "remove" /\ event'[s].plugin = p BY <1>2, <1>3, <4>2
        <5> QED BY <1>1, <3>1, <5>1 DEF Live, Removing
      <4> QED BY <4>1, <4>2
    <3>2. CASE q # p
      <4>1. CASE q \in registered \/ q \in overlapped BY <1>6, <3>2, <4>1 DEF Live
      <4>2. CASE q \in scene.plugins /\ Removing(q)
        <5>1. PICK z \in Senders : event[z].kind = "remove" /\ event[z].plugin = q BY <4>2 DEF Removing
        <5>2. z # s BY <1>1, <1>2, <5>1
        <5>3. event'[z].kind = "remove" /\ event'[z].plugin = q BY <1>3, <5>1, <5>2
        <5> QED BY <1>1, <4>2, <5>3 DEF Live, Removing
      <4> QED BY <4>1, <4>2 DEF Live
    <3> QED BY <3>1, <3>2
  <2> QED BY <2>1
<1>11. EntriesOK' /\ StacksOK' BY <1>1, <1>10, LiveGrows DEF TablesInv
<1>12. Filled'
  <2>1. ASSUME NEW q \in registered', q \notin overlapped', Accepts(q), Alone(q)', ~ InProgress(q)'
        PROVE  KeyOf(q) \in DOMAIN entries'[q.table] /\ entries'[q.table][KeyOf(q)] = q
    <3>1. q # p BY <1>2, <1>3, <2>1 DEF InProgress
    <3>2. q \in registered /\ q \notin overlapped BY <1>6, <2>1, <3>1
    <3>3. Alone(q) BY <1>1, <2>1 DEF Alone
    <3>4. q # Nothing
      <4>1. q \in scene.plugins BY <3>2 DEF TablesInv, SceneOK
      <4> QED BY <4>1, NotPlugins DEF TablesInv
    <3>5. ~ InProgress(q)
      <4> SUFFICES ASSUME NEW z \in Senders, event[z].plugin = q PROVE FALSE
        BY DEF InProgress
      <4>1. z # s BY <1>1, <1>2, <3>4
      <4>2. event'[z].plugin = q BY <1>3, <4>1
      <4> QED BY <2>1, <4>2 DEF InProgress
    <3> QED BY <1>1, <2>1, <3>2, <3>3, <3>5 DEF TablesInv, Filled
  <2> QED BY <2>1 DEF Filled
<1>13. WordsOK'
  <2>1. \A z \in Senders, tb \in Tables : Writes(z, tb)' <=> Writes(z, tb)
    BY <1>1, <1>2, <1>3 DEF Writes
  <2> QED BY <1>1, <2>1, WordsStay DEF TablesInv
<1> QED BY <1>4, <1>5, <1>8, <1>9, <1>11, <1>12, <1>13 DEF TablesInv

\* An event moves on: its plugin and its kind stay.
LEMMA EventGoes ==
  ASSUME RegistriesAssumption, TablesInv, NEW s \in Senders, event[s].at # "none",
         NEW e, event' = [event EXCEPT ![s] = e], EventIs(e), e.at # "none",
         e.plugin = event[s].plugin, e.kind = event[s].kind,
         UNCHANGED <<scene, registered, entries, overlapped, stack>>
  PROVE  SceneOK' /\ EventOK' /\ OneAtATime' /\ EntriesOK' /\ StacksOK' /\ Filled'
<1>1. /\ DOMAIN event' = Senders /\ event'[s] = e
      /\ \A z \in Senders : z # s => event'[z] = event[z]
  BY OneEventChanges DEF TablesInv
<1>2. SceneOK' BY DEF TablesInv, SceneOK
<1>3. EventOK'
  <2>1. \A z \in Senders : EventIs(event'[z]) BY <1>1 DEF TablesInv, EventOK
  <2> QED BY <1>1, <2>1 DEF EventOK, EventIs
<1>4. \A z \in Senders : event'[z].plugin = event[z].plugin /\ event'[z].kind = event[z].kind
      /\ (event'[z].at # "none" <=> event[z].at # "none")
  BY <1>1
<1>5. OneAtATime' BY <1>4 DEF TablesInv, OneAtATime
<1>6. \A q : (InProgress(q)' <=> InProgress(q)) /\ (Removing(q)' <=> Removing(q))
  BY <1>4 DEF InProgress, Removing
<1>7. Live' = Live BY <1>6 DEF Live
<1>8. EntriesOK' /\ StacksOK' BY <1>7, LiveGrows DEF TablesInv
<1>9. Filled' BY <1>6 DEF TablesInv, Filled, Alone
<1> QED BY <1>2, <1>3, <1>5, <1>8, <1>9

\* An event is over, and its plugin is handled.
LEMMA EventEnds ==
  ASSUME RegistriesAssumption, TablesInv, NEW s \in Senders, event[s].at # "none",
         event' = [event EXCEPT ![s] = NoEvent], UNCHANGED <<scene, registered, overlapped, stack>>
  PROVE  /\ SceneOK' /\ EventOK' /\ OneAtATime'
         /\ \A z \in Senders : event'[z] = IF z = s THEN NoEvent ELSE event[z]
         /\ \A q \in Live : q # event[s].plugin => q \in Live'
         /\ event[s].kind = "add" => Live \subseteq Live'
         /\ \A q : q # event[s].plugin => (InProgress(q)' \/ q = Nothing <=> InProgress(q) \/ q = Nothing)
<1>1. /\ DOMAIN event' = Senders /\ event'[s] = NoEvent
      /\ \A z \in Senders : z # s => event'[z] = event[z]
  BY OneEventChanges DEF TablesInv
<1>2. /\ DOMAIN NoEvent = {"kind", "plugin", "at"} /\ NoEvent.at = "none"
      /\ NoEvent.plugin = Nothing /\ NoEvent.kind = "none"
  BY DEF NoEvent
<1>3. SceneOK' BY DEF TablesInv, SceneOK
<1>4. EventOK'
  <2>1. EventIs(NoEvent) BY <1>2 DEF EventIs
  <2>2. \A z \in Senders : EventIs(event'[z]) BY <1>1, <2>1 DEF TablesInv, EventOK
  <2> QED BY <1>1, <2>2 DEF EventOK, EventIs
<1>5. OneAtATime'
  <2>1. ASSUME NEW z \in Senders, event'[z].at # "none", event'[z].plugin \notin overlapped
        PROVE  /\ event'[z].plugin \in registered <=> event'[z].kind = "add"
               /\ \A y \in Senders : event'[y].plugin = event'[z].plugin => y = z
    <3>1. z # s /\ event'[z] = event[z] BY <1>1, <1>2, <2>1
    <3>2. /\ event[z].plugin \in registered <=> event[z].kind = "add"
          /\ \A y \in Senders : event[y].plugin = event[z].plugin => y = z
      BY <2>1, <3>1 DEF TablesInv, OneAtATime
    <3>3. event[z].plugin # Nothing
      <4>1. event[z].plugin \in scene.plugins BY <2>1, <3>1 DEF TablesInv, EventOK, EventIs
      <4> QED BY <4>1, NotPlugins DEF TablesInv
    <3> QED BY <1>1, <1>2, <3>1, <3>2, <3>3
  <2> QED BY <2>1 DEF OneAtATime
<1>6. ASSUME NEW q \in Live, q # event[s].plugin \/ event[s].kind = "add" PROVE q \in Live'
  <2>1. CASE q \in registered \/ q \in overlapped BY <2>1 DEF Live
  <2>2. CASE q \in scene.plugins /\ Removing(q)
    <3>1. PICK z \in Senders : event[z].kind = "remove" /\ event[z].plugin = q BY <2>2 DEF Removing
    <3>2. z # s BY <1>6, <3>1
    <3>3. event'[z].kind = "remove" /\ event'[z].plugin = q BY <1>1, <3>1, <3>2
    <3> QED BY <2>2, <3>3 DEF Live, Removing
  <2> QED BY <2>1, <2>2 DEF Live
<1>7. ASSUME NEW q, q # event[s].plugin
      PROVE  InProgress(q)' \/ q = Nothing <=> InProgress(q) \/ q = Nothing
  BY <1>1, <1>2, <1>7 DEF InProgress
<1>8. \A z \in Senders : event'[z] = IF z = s THEN NoEvent ELSE event[z] BY <1>1
<1> QED BY <1>3, <1>4, <1>5, <1>6, <1>7, <1>8

LEMMA CheckKeeps ==
  ASSUME RegistriesAssumption, TablesInv, NEW s \in Senders, Check(s)
  PROVE  TablesInv'
<1> DEFINE p == event[s].plugin
<1>1. event[s].at = "check" /\ UNCHANGED <<scene, registered, entries, words, overlapped, stack>> BY DEF Check
<1>2. EventIs(event[s]) /\ DOMAIN event = Senders BY DEF TablesInv, EventOK
<1>3. p \in scene.plugins /\ event[s].kind \in {"add", "remove"} BY <1>1, <1>2 DEF EventIs
<1>4. CASE Accepts(p)
  <2> DEFINE e == [event[s] EXCEPT !.at = "lock"]
  <2>1. event' = [event EXCEPT ![s] = e] BY <1>2, <1>4 DEF Check
  <2>2. /\ DOMAIN e = {"kind", "plugin", "at"} /\ e.at = "lock" /\ e.plugin = p /\ e.kind = event[s].kind
    BY <1>2 DEF EventIs
  <2> HIDE DEF e
  <2>3. EventIs(e) BY <1>3, <1>4, <2>2 DEF EventIs
  <2>4. SceneOK' /\ EventOK' /\ OneAtATime' /\ EntriesOK' /\ StacksOK' /\ Filled'
    BY <1>1, <2>1, <2>2, <2>3, EventGoes
  <2>5. event'[s] = e /\ \A z \in Senders : z # s => event'[z] = event[z]
    BY <2>1, OneEventChanges DEF TablesInv
  <2>6. OneWriter' BY <2>2, <2>5 DEF TablesInv, OneWriter
  <2>7. WordsOK'
    <3>1. \A z \in Senders, tb \in Tables : Writes(z, tb)' <=> Writes(z, tb)
      BY <1>1, <2>2, <2>5 DEF Writes
    <3> QED BY <1>1, <3>1, WordsStay DEF TablesInv
  <2> QED BY <2>4, <2>6, <2>7 DEF TablesInv
<1>5. CASE ~ Accepts(p)
  <2>1. event' = [event EXCEPT ![s] = NoEvent] BY <1>2, <1>5 DEF Check
  <2>2. /\ SceneOK' /\ EventOK' /\ OneAtATime'
        /\ \A z \in Senders : event'[z] = IF z = s THEN NoEvent ELSE event[z]
        /\ \A q \in Live : q # p => q \in Live'
        /\ \A q : q # p => (InProgress(q)' \/ q = Nothing <=> InProgress(q) \/ q = Nothing)
    BY <1>1, <2>1, EventEnds
  <2>3. OneWriter' BY <2>2 DEF TablesInv, OneWriter, NoEvent
  <2>4. EntriesOK'
    <3>1. ASSUME NEW tb \in Tables, NEW k \in DOMAIN entries[tb] PROVE EntryOK(entries[tb][k], tb, k, Live')
      <4>1. EntryOK(entries[tb][k], tb, k, Live) BY DEF TablesInv, EntriesOK
      <4> QED BY <1>5, <2>2, <4>1 DEF EntryOK
    <3> QED BY <1>1, <3>1 DEF TablesInv, EntriesOK
  <2>5. StacksOK'
    <3>1. ASSUME NEW t \in Callers PROVE StackOK(stack[t], Live')
      <4>1. StackOK(stack[t], Live) BY DEF TablesInv, StacksOK
      <4>2. \A i \in DOMAIN stack[t] : stack[t][i].at = "call" =>
              \A q \in stack[t][i].plugins : q \in Live => q \in Live'
        BY <1>5, <2>2, <4>1 DEF StackOK, FrameOK
      <4> QED BY <4>1, <4>2, StackStays
    <3> QED BY <1>1, <3>1 DEF TablesInv, StacksOK
  <2>6. Filled'
    <3>1. ASSUME NEW q \in registered, q \notin overlapped, Accepts(q), Alone(q), ~ InProgress(q)'
          PROVE  KeyOf(q) \in DOMAIN entries[q.table] /\ entries[q.table][KeyOf(q)] = q
      <4>1. q # p BY <1>5, <3>1
      <4>2. q # Nothing
        <5>1. q \in scene.plugins BY <3>1 DEF TablesInv, SceneOK
        <5> QED BY <5>1, NotPlugins DEF TablesInv
      <4>3. ~ InProgress(q) BY <2>2, <3>1, <4>1, <4>2
      <4> QED BY <3>1, <4>3 DEF TablesInv, Filled
    <3>2. \A q : Alone(q)' <=> Alone(q) BY <1>1 DEF Alone
    <3> QED BY <1>1, <3>1, <3>2 DEF Filled
  <2>7. WordsOK'
    <3>1. \A z \in Senders, tb \in Tables : Writes(z, tb)' <=> Writes(z, tb)
      BY <1>1, <2>2 DEF Writes, NoEvent
    <3> QED BY <1>1, <3>1, WordsStay DEF TablesInv
  <2> QED BY <2>2, <2>3, <2>4, <2>5, <2>6, <2>7 DEF TablesInv
<1> QED BY <1>4, <1>5

\* A table without a reader and a writer is at zero.
LEMMA WordsAre ==
  ASSUME WordsOK, NEW tb \in Tables
  PROVE  /\ IsFiniteSet(Held(tb)) /\ Cardinality(Held(tb)) \in Nat
         /\ (\E s \in Senders : Writes(s, tb)) => words[tb] = -1 /\ Held(tb) = {}
         /\ ~ (\E s \in Senders : Writes(s, tb)) => words[tb] = Cardinality(Held(tb))
<1>1. IsFiniteSet(Held(tb)) BY DEF WordsOK
<1>2. Cardinality(Held(tb)) \in Nat BY <1>1, FS_CardinalityType
<1> QED BY <1>1, <1>2 DEF WordsOK, LocksBalanced

LEMMA LockExclusiveKeeps ==
  ASSUME RegistriesAssumption, TablesInv, NEW s \in Senders, LockExclusive(s)
  PROVE  TablesInv'
<1> DEFINE p == event[s].plugin
           x == p.table
           e == [event[s] EXCEPT !.at = "store"]
<1>1. /\ event[s].at = "lock" /\ words[x] = 0 /\ words' = [words EXCEPT ![x] = -1]
      /\ UNCHANGED <<scene, registered, entries, overlapped, stack>>
  BY DEF LockExclusive
<1>2. EventIs(event[s]) /\ DOMAIN event = Senders BY DEF TablesInv, EventOK
<1>3. event' = [event EXCEPT ![s] = e] BY <1>2 DEF LockExclusive
<1>4. /\ DOMAIN e = {"kind", "plugin", "at"} /\ e.at = "store" /\ e.plugin = p /\ e.kind = event[s].kind
      /\ p \in scene.plugins /\ event[s].kind \in {"add", "remove"} /\ Accepts(p)
  BY <1>1, <1>2 DEF EventIs
<1> HIDE DEF e
<1>5. EventIs(e) BY <1>4 DEF EventIs
<1>6. SceneOK' /\ EventOK' /\ OneAtATime' /\ EntriesOK' /\ StacksOK' /\ Filled'
  BY <1>1, <1>3, <1>4, <1>5, EventGoes
<1>7. event'[s] = e /\ \A z \in Senders : z # s => event'[z] = event[z]
  BY <1>3, OneEventChanges DEF TablesInv
<1>8. x \in Tables BY <1>4, NotPlugins DEF TablesInv
<1>9. ~ \E z \in Senders : Writes(z, x) BY <1>1, <1>8, WordsAre DEF TablesInv
<1>10. OneWriter'
  <2>1. ASSUME NEW y \in Senders, NEW z \in Senders, y # z, event'[y].at = "store", event'[z].at = "store"
        PROVE  event'[y].plugin.table # event'[z].plugin.table
    <3>1. CASE y = s BY <1>4, <1>7, <1>9, <2>1, <3>1 DEF Writes
    <3>2. CASE z = s BY <1>4, <1>7, <1>9, <2>1, <3>2 DEF Writes
    <3>3. CASE y # s /\ z # s BY <1>7, <2>1, <3>3 DEF TablesInv, OneWriter
    <3> QED BY <3>1, <3>2, <3>3
  <2> QED BY <2>1 DEF OneWriter
<1>11. WordsOK'
  <2>1. Held(x) = {}
    <3>1. IsFiniteSet(Held(x)) /\ Cardinality(Held(x)) = 0 BY <1>1, <1>8, <1>9, WordsAre DEF TablesInv
    <3> QED BY <3>1, FS_EmptySet
  <2>2. DOMAIN words = Tables BY DEF TablesInv, WordsOK
  <2>3. /\ DOMAIN words' = Tables /\ words'[x] = -1
        /\ \A tb \in Tables : tb # x => words'[tb] = words[tb]
    BY <1>1, <1>8, <2>2
  <2>5. ASSUME NEW tb \in Tables, tb # x PROVE \A z \in Senders : Writes(z, tb)' <=> Writes(z, tb)
    BY <1>1, <1>4, <1>7, <2>5 DEF Writes
  <2>6. \A tb : Held(tb)' = Held(tb) BY <1>1, HeldStays
  <2>7. ASSUME NEW tb \in Tables
        PROVE  /\ IsFiniteSet(Held(tb)')
               /\ IF \E z \in Senders : Writes(z, tb)' THEN words'[tb] = -1 /\ Held(tb)' = {}
                  ELSE words'[tb] = Cardinality(Held(tb)')
    <3>1. CASE tb = x
      <4>1. Held(tb)' = {} BY <2>1, <2>6, <3>1
      <4>2. IsFiniteSet({}) BY FS_EmptySet
      <4>3. IsFiniteSet(Held(tb)') BY <4>1, <4>2
      <4>4. Writes(s, tb)' BY <1>4, <1>7, <3>1 DEF Writes
      <4>5. words'[tb] = -1 BY <2>3, <3>1
      <4> QED BY <4>1, <4>3, <4>4, <4>5
    <3>2. CASE tb # x
      <4>1. Held(tb)' = Held(tb) /\ words'[tb] = words[tb] BY <2>3, <2>6, <3>2
      <4>2. (\E z \in Senders : Writes(z, tb)') <=> (\E z \in Senders : Writes(z, tb)) BY <2>5, <3>2
      <4> QED BY <4>1, <4>2, WordsAre DEF TablesInv
    <3> QED BY <3>1, <3>2
  <2> QED BY <2>3, <2>7 DEF WordsOK, LocksBalanced
<1> QED BY <1>6, <1>10, <1>11 DEF TablesInv

LEMMA StoreKeeps ==
  ASSUME RegistriesAssumption, TablesInv, NEW s \in Senders, Store(s)
  PROVE  TablesInv'
<1> DEFINE p == event[s].plugin
           x == p.table
           k == KeyOf(p)
<1>1. /\ event[s].at = "store"
      /\ entries' = [entries EXCEPT ![x] = [y \in DOMAIN @ \union {k} |-> IF y = k THEN Stored(s) ELSE @[y]]]
      /\ words' = [words EXCEPT ![x] = 0] /\ event' = [event EXCEPT ![s] = NoEvent]
      /\ UNCHANGED <<scene, registered, overlapped, stack>>
  BY DEF Store
<1>2. EventIs(event[s]) BY DEF TablesInv, EventOK
<1>3. p \in scene.plugins /\ Accepts(p) /\ event[s].kind \in {"add", "remove"}
  BY <1>1, <1>2 DEF EventIs
<1>4. x \in Tables BY <1>3, NotPlugins DEF TablesInv
<1>5. Stored(s) = IF event[s].kind = "add" THEN p ELSE Null BY DEF Stored
<1>6. DOMAIN entries = Tables /\ DOMAIN words = Tables BY DEF TablesInv, EntriesOK, WordsOK
<1>7. /\ SceneOK' /\ EventOK' /\ OneAtATime'
      /\ \A z \in Senders : event'[z] = IF z = s THEN NoEvent ELSE event[z]
      /\ \A q \in Live : q # p => q \in Live'
      /\ event[s].kind = "add" => Live \subseteq Live'
      /\ \A q : q # p => (InProgress(q)' \/ q = Nothing <=> InProgress(q) \/ q = Nothing)
  BY <1>1, EventEnds
<1>8. event[s].kind = "add" => p \in Live'
  <2> SUFFICES ASSUME event[s].kind = "add" PROVE p \in Live'
    OBVIOUS
  <2>1. p \in registered \/ p \in overlapped BY <1>1 DEF TablesInv, OneAtATime
  <2> QED BY <1>1, <2>1 DEF Live
<1>15. OneWriter' BY <1>7 DEF TablesInv, OneWriter, NoEvent
<1>16. p \in registered /\ p \notin overlapped => event[s].kind = "add"
  BY <1>1 DEF TablesInv, OneAtATime
<1>17. ASSUME NEW z \in Senders PROVE z # s /\ event[z].at = "store" => event[z].plugin.table # x
  BY <1>1 DEF TablesInv, OneWriter
<1>18. Writes(s, x) BY <1>1 DEF Writes
<1>19. ASSUME NEW z \in Senders, NEW tb PROVE Writes(z, tb)' <=> Writes(z, tb) /\ tb # x
  <2>1. CASE z = s BY <1>1, <1>7, <2>1 DEF Writes, NoEvent
  <2>2. CASE z # s
    <3>1. event'[z] = event[z] BY <1>7, <2>2
    <3> QED BY <1>17, <2>2, <3>1 DEF Writes
  <2> QED BY <2>1, <2>2
<1> HIDE DEF k
<1>9. /\ DOMAIN entries' = Tables /\ DOMAIN entries'[x] = DOMAIN entries[x] \union {k}
      /\ entries'[x][k] = Stored(s) /\ \A y \in DOMAIN entries[x] : y # k => entries'[x][y] = entries[x][y]
      /\ \A tb \in Tables : tb # x => entries'[tb] = entries[tb]
  <2> HIDE DEF x
  <2> QED BY <1>1, <1>4, <1>6
<1> HIDE DEF p
<1>10. EntriesOK'
  <2>1. ASSUME NEW tb \in Tables, NEW y \in DOMAIN entries'[tb]
        PROVE  EntryOK(entries'[tb][y], tb, y, Live')
    <3>1. CASE tb = x /\ y = k
      BY <3>1, <1>3, <1>5, <1>8, <1>9 DEF EntryOK, k
    <3>2. CASE tb # x \/ y # k
      <4>1. y \in DOMAIN entries[tb] /\ entries'[tb][y] = entries[tb][y] BY <3>2, <1>9
      <4>2. EntryOK(entries[tb][y], tb, y, Live) BY <4>1 DEF TablesInv, EntriesOK
      <4>3. entries[tb][y] # p \/ entries[tb][y] = Null BY <3>2, <4>2 DEF EntryOK, k
      <4> QED BY <4>1, <4>2, <4>3, <1>7 DEF EntryOK
    <3> QED BY <3>1, <3>2
  <2> QED BY <2>1, <1>9 DEF EntriesOK
<1>11. Filled'
  <2>1. ASSUME NEW q \in registered, q \notin overlapped, Accepts(q), Alone(q), ~ InProgress(q)'
        PROVE  KeyOf(q) \in DOMAIN entries'[q.table] /\ entries'[q.table][KeyOf(q)] = q
    <3>1. q \in scene.plugins BY <2>1 DEF TablesInv, SceneOK
    <3>2. q.table \in Tables /\ q # Nothing BY <3>1, NotPlugins DEF TablesInv
    <3>3. CASE q = p
      <4>1. event[s].kind = "add" BY <1>16, <2>1, <3>3 DEF p
      <4> QED BY <3>3, <4>1, <1>5, <1>9 DEF k
    <3>4. CASE q # p
      <4>1. ~ InProgress(q) BY <1>7, <2>1, <3>2, <3>4
      <4>2. KeyOf(q) \in DOMAIN entries[q.table] /\ entries[q.table][KeyOf(q)] = q
        BY <2>1, <4>1 DEF TablesInv, Filled
      <4>3. q.table = x => KeyOf(q) # k BY <1>3, <2>1, <3>4 DEF Alone, k
      <4> QED BY <4>2, <4>3, <3>2, <1>9
    <3> QED BY <3>3, <3>4
  <2>2. \A q : Alone(q)' <=> Alone(q) BY <1>1 DEF Alone
  <2> QED BY <1>1, <2>1, <2>2 DEF Filled
<1>12. Held(x) = {} BY <1>4, <1>18, WordsAre DEF TablesInv
<1>13. StacksOK'
  <2>1. ASSUME NEW t \in Callers PROVE StackOK(stack[t], Live')
    <3>1. StackOK(stack[t], Live) BY DEF TablesInv, StacksOK
    <3>2. ASSUME NEW i \in DOMAIN stack[t], stack[t][i].at = "call", NEW q \in stack[t][i].plugins, q \in Live
          PROVE  q \in Live'
      <4>1. q.table = stack[t][i].op.table BY <3>1, <3>2 DEF StackOK, FrameOK
      <4>2. CASE q = p
        <5>1. stack[t][i].op.table = x BY <4>1, <4>2
        <5>2. i \in HeldOf(stack[t], x) BY <3>2, <5>1 DEF HeldOf, Holding
        <5>3. <<t, i>> \in Held(x) BY <5>2, InHeld, HeldIsIn
        <5> QED BY <5>3, <1>12
      <4> QED BY <4>2, <3>2, <1>7
    <3> QED BY <3>1, <3>2, StackStays
  <2> QED BY <1>1, <2>1 DEF TablesInv, StacksOK
<1>14. WordsOK'
  <2> HIDE DEF x
  <2>1. /\ DOMAIN words' = Tables /\ words'[x] = 0
        /\ \A tb \in Tables : tb # x => words'[tb] = words[tb]
    BY <1>1, <1>4, <1>6
  <2>2. \A tb : Held(tb)' = Held(tb) BY <1>1, HeldStays
  <2>3. ASSUME NEW tb \in Tables
        PROVE  /\ IsFiniteSet(Held(tb)')
               /\ IF \E z \in Senders : Writes(z, tb)' THEN words'[tb] = -1 /\ Held(tb)' = {}
                  ELSE words'[tb] = Cardinality(Held(tb)')
    <3>1. CASE tb = x
      <4>1. Held(tb)' = {} /\ words'[tb] = 0 BY <1>12, <2>1, <2>2, <3>1
      <4>2. ~ \E z \in Senders : Writes(z, tb)' BY <1>19, <3>1
      <4> QED BY <4>1, <4>2, FS_EmptySet
    <3>2. CASE tb # x
      <4>1. Held(tb)' = Held(tb) /\ words'[tb] = words[tb] BY <2>1, <2>2, <3>2
      <4>2. (\E z \in Senders : Writes(z, tb)') <=> (\E z \in Senders : Writes(z, tb)) BY <1>19, <3>2
      <4> QED BY <4>1, <4>2, WordsAre DEF TablesInv
    <3> QED BY <3>1, <3>2
  <2> QED BY <2>1, <2>3 DEF WordsOK, LocksBalanced
<1> QED BY <1>7, <1>10, <1>11, <1>13, <1>14, <1>15 DEF TablesInv

-----------------------------------------------------------------------------
LEMMA TablesBegin ==
  ASSUME RegistriesAssumption, TablesInit
  PROVE  TablesInv
<1> DEFINE ps(tb) == {p \in registered : p.table = tb /\ Accepts(p)}
           ks(tb) == {KeyOf(p) : p \in ps(tb)}
           e(tb) == [k \in ks(tb) |-> CHOOSE p \in ps(tb) : KeyOf(p) = k]
<1>1. /\ scene \in Scenes /\ registered \subseteq scene.plugins
      /\ entries = [tb \in Tables |-> e(tb)] /\ words = [tb \in Tables |-> 0]
      /\ event = [s \in Senders |-> NoEvent] /\ overlapped = {} /\ stack = [t \in Callers |-> <<>>]
  BY DEF TablesInit
<1>2. SceneOK BY <1>1 DEF SceneOK
<1>3. /\ DOMAIN NoEvent = {"kind", "plugin", "at"} /\ NoEvent.at = "none" /\ NoEvent.plugin = Nothing
  BY DEF NoEvent
<1>4. /\ \A s \in Senders : event[s] = NoEvent
      /\ EventOK /\ OneAtATime /\ OneWriter
  BY <1>1, <1>3 DEF EventOK, EventIs, OneAtATime, OneWriter
<1>5. ASSUME NEW tb \in Tables, NEW k \in ks(tb)
      PROVE  DOMAIN entries[tb] = ks(tb) /\ entries[tb][k] \in ps(tb) /\ KeyOf(entries[tb][k]) = k
  <2>1. DOMAIN entries[tb] = ks(tb) /\ entries[tb][k] = CHOOSE p \in ps(tb) : KeyOf(p) = k
    BY <1>1
  <2>2. \E p \in ps(tb) : KeyOf(p) = k OBVIOUS
  <2> HIDE DEF ps
  <2> QED BY <2>1, <2>2
<1>6. \A tb \in Tables : DOMAIN entries[tb] = ks(tb) BY <1>1
<1>7. EntriesOK
  <2>1. \A tb \in Tables : \A k \in DOMAIN entries[tb] :
          /\ entries[tb][k] \in registered /\ Accepts(entries[tb][k])
          /\ entries[tb][k].table = tb /\ KeyOf(entries[tb][k]) = k
    BY <1>5, <1>6
  <2>2. registered \subseteq Live BY DEF Live
  <2> HIDE DEF ps, ks, e
  <2> QED BY <1>1, <2>1, <2>2 DEF EntriesOK, EntryOK
<1>8. Filled
  <2>1. ASSUME NEW p \in registered, Accepts(p), Alone(p)
        PROVE  KeyOf(p) \in DOMAIN entries[p.table] /\ entries[p.table][KeyOf(p)] = p
    <3>1. p.table \in Tables BY <1>1, <1>2, NotPlugins
    <3>2. KeyOf(p) \in ks(p.table) BY <2>1
    <3>3. entries[p.table][KeyOf(p)] \in ps(p.table) /\ KeyOf(entries[p.table][KeyOf(p)]) = KeyOf(p)
      BY <1>5, <3>1, <3>2
    <3>4. entries[p.table][KeyOf(p)] \in scene.plugins BY <1>1, <3>3
    <3> QED BY <1>6, <2>1, <3>1, <3>2, <3>3, <3>4 DEF Alone
  <2> QED BY <2>1 DEF Filled
<1>9. \A t \in Callers : stack[t] = <<>> BY <1>1
<1>10. StacksOK
  <2> DEFINE none == <<>>
  <2>1. none \in Seq({}) /\ DOMAIN none = {} BY EmptySeq
  <2> HIDE DEF none
  <2>2. StackOK(none, Live) BY <2>1, SequenceIs DEF StackOK
  <2> QED BY <1>1, <1>9, <2>2 DEF StacksOK, none
<1>11. WordsOK
  <2>1. \A tb : Held(tb) = {} BY <1>9, NoFrames, HeldIsIn DEF HeldIn
  <2>2. IsFiniteSet({}) /\ Cardinality({}) = 0 BY FS_EmptySet
  <2>3. \A s \in Senders : \A tb : ~ Writes(s, tb) BY <1>3, <1>4 DEF Writes
  <2>4. DOMAIN words = Tables /\ \A tb \in Tables : words[tb] = 0 BY <1>1
  <2> QED BY <2>1, <2>2, <2>3, <2>4 DEF WordsOK, LocksBalanced
<1> QED BY <1>2, <1>4, <1>7, <1>8, <1>10, <1>11 DEF TablesInv

LEMMA TablesStep ==
  ASSUME RegistriesAssumption, TablesInv, [TablesNext]_tableVars
  PROVE  TablesInv'
<1>1. ASSUME NEW t \in Callers, Reader(t) PROVE TablesInv' BY <1>1, ReaderKeeps
<1>2. ASSUME NEW s \in Senders, Handler(s) PROVE TablesInv'
  <2>1. ASSUME NEW p \in scene.plugins, NEW kind \in {"add", "remove"}, Notify(s, kind, p) PROVE TablesInv'
    BY <2>1, NotifyKeeps
  <2>2. CASE Check(s) BY <2>2, CheckKeeps
  <2>3. CASE LockExclusive(s) BY <2>3, LockExclusiveKeeps
  <2>4. CASE Store(s) BY <2>4, StoreKeeps
  <2> QED BY <1>2, <2>1, <2>2, <2>3, <2>4 DEF Handler
<1>3. CASE UNCHANGED tableVars
  <2>1. UNCHANGED <<scene, registered, entries, words, event, overlapped, stack>> BY <1>3 DEF tableVars
  <2>2. WordsOK'
    <3>1. \A z \in Senders, tb \in Tables : Writes(z, tb)' <=> Writes(z, tb) BY <2>1 DEF Writes
    <3> QED BY <2>1, <3>1, WordsStay DEF TablesInv
  <2>3. Live' = Live BY <2>1, LiveStays
  <2>4. EntriesOK' /\ StacksOK' BY <2>1, <2>3, LiveGrows DEF TablesInv
  <2>5. SceneOK' /\ EventOK' /\ OneAtATime' /\ OneWriter' /\ Filled'
    BY <2>1 DEF TablesInv, SceneOK, EventOK, EventIs, OneAtATime, OneWriter, Filled, Alone, InProgress
  <2> QED BY <2>2, <2>4, <2>5 DEF TablesInv
<1> QED BY <1>1, <1>2, <1>3 DEF TablesNext

\* Nobody waits for good: a writer that waits does so for a caller, and callers wait for no waiting writer.
LEMMA SomebodyMoves ==
  ASSUME RegistriesAssumption, TablesInv
  PROVE  NeverStuck
<1> SUFFICES ASSUME \A s \in Senders : ~ HandlerCanMove(s), \A t \in Callers : ~ ReaderCanMove(t)
             PROVE  (\A s \in Senders : event[s] = NoEvent) /\ \A t \in Callers : stack[t] = <<>>
  BY DEF NeverStuck
<1>1. \A s \in Senders : \A tb : ~ Writes(s, tb) BY DEF HandlerCanMove, Writes, NoEvent
<1>2. \A t \in Callers : stack[t] = <<>>
  <2> SUFFICES ASSUME NEW t \in Callers, stack[t] # <<>> PROVE FALSE
    OBVIOUS
  <2> DEFINE x == Top(t).op.table
  <2>1. words[x] = -1 BY DEF ReaderCanMove, MayShare
  <2>2. FrameOK(Top(t), Live) BY OnTheTop DEF TablesInv
  <2>3. x \in Tables BY <2>2 DEF FrameOK, IsOperation
  <2> HIDE DEF x
  <2>4. words[x] = Cardinality(Held(x)) /\ Cardinality(Held(x)) \in Nat BY <1>1, <2>3, WordsAre DEF TablesInv
  <2> QED BY <2>1, <2>4
<1>3. ASSUME NEW s \in Senders, event[s] # NoEvent PROVE FALSE
  <2> DEFINE x == event[s].plugin.table
  <2>1. event[s].at = "lock" /\ words[x] # 0 BY <1>3 DEF HandlerCanMove
  <2>2. event[s].plugin \in scene.plugins BY <2>1 DEF TablesInv, EventOK, EventIs
  <2>3. x \in Tables BY <2>2, NotPlugins DEF TablesInv
  <2> HIDE DEF x
  <2>4. words[x] = Cardinality(Held(x)) BY <1>1, <2>3, WordsAre DEF TablesInv
  <2>5. Held(x) = {} BY <1>2, NoFrames, HeldIsIn DEF HeldIn
  <2> QED BY <2>1, <2>4, <2>5, FS_EmptySet
<1> QED BY <1>2, <1>3

LEMMA TablesAreFollowed ==
  ASSUME RegistriesAssumption, TablesInv
  PROVE  TablesFollow
<1> SUFFICES ASSUME NEW p \in scene.plugins, p \notin overlapped, Accepts(p), ~ InProgress(p)
             PROVE  /\ Entry(p.table, KeyOf(p)) = p => p \in registered
                    /\ p \in registered /\ Alone(p) => Entry(p.table, KeyOf(p)) = p
  BY DEF TablesFollow
<1>1. p \notin {Null, Nothing} /\ p.table \in Tables BY NotPlugins DEF TablesInv
<1>2. Entry(p.table, KeyOf(p)) = p => p \in registered
  <2> SUFFICES ASSUME Entry(p.table, KeyOf(p)) = p PROVE p \in registered
    OBVIOUS
  <2> DEFINE k == KeyOf(p)
             tb == p.table
  <2>1. p = Entry(tb, k) /\ tb \in Tables BY <1>1
  <2> HIDE DEF k, tb
  <2>2. p \in Live BY <1>1, <2>1, Found DEF TablesInv
  <2>3. ~ Removing(p) BY DEF Removing, InProgress
  <2> QED BY <2>2, <2>3 DEF Live
<1>3. p \in registered /\ Alone(p) => Entry(p.table, KeyOf(p)) = p
  BY DEF TablesInv, Filled, Entry
<1> QED BY <1>2, <1>3

(* The tables of functions of types: no function is called after its       *)
(* plugin was removed, every way out of an operation gives its shared lock *)
(* back, nobody waits for good, and the tables hold what is registered;    *)
(* only a plugin whose events overlapped may stay in a table when it is    *)
(* gone.  For any scenes, any number of callers and of threads that add    *)
(* and remove, and any depth of calls.                                     *)
THEOREM TypeTablesAreSound ==
  ASSUME RegistriesAssumption
  PROVE  TablesSpec => []TypeTablesSound
<1>1. TablesInit => TablesInv BY TablesBegin
<1>2. TablesInv /\ [TablesNext]_tableVars => TablesInv' BY TablesStep
<1>3. TablesInv => TypeTablesSound
  <2> SUFFICES ASSUME TablesInv PROVE TypeTablesSound
    OBVIOUS
  <2>1. NoCallOfRemoved
    BY DEF NoCallOfRemoved, Frames, TablesInv, StacksOK, StackOK, FrameOK
  <2>2. LocksBalanced BY DEF TablesInv, WordsOK
  <2>3. NeverStuck /\ TablesFollow BY SomebodyMoves, TablesAreFollowed
  <2> QED BY <2>1, <2>2, <2>3 DEF TypeTablesSound
<1> QED BY <1>1, <1>2, <1>3, PTL DEF TablesSpec
=============================================================================
