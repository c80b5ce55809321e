-------------------------- MODULE BlockPortsProofs --------------------------
(***************************************************************************)
(* Proofs about BlockPorts, for any names, numbers and bounds.             *)
(*                                                                         *)
(* A side has a map, a vector and a list.  Agree says that the three tell  *)
(* of the same ports, and that a place of the vector holds null or the     *)
(* port of that number: without the second part the deletion of a port     *)
(* could clear the place of another one.  It holds of each side on its     *)
(* own, so it is kept by what makes a port and by what deletes one.        *)
(***************************************************************************)
EXTENDS BlockPorts, SequenceTheorems, NaturalsInduction, WellFoundedInduction, TLAPS

Kinds == {"data", "slot", "signal"}

Agree(p, v, l) ==
  /\ DOMAIN p \subseteq PortNames /\ \A n \in DOMAIN p : p[n] \in Kinds
  /\ v \in Seq(PortNames \union {Null}) /\ l \in Seq(PortNames)
  /\ \A k \in DOMAIN l : l[k] \in DOMAIN p
  /\ \A n \in DOMAIN p : \E k \in DOMAIN l : l[k] = n
  /\ \A j, k \in DOMAIN l : l[j] = l[k] => j = k
  /\ \A k \in DOMAIN v : v[k] # Null => v[k] \in DOMAIN p /\ Index(v[k]) = k - 1
  /\ \A n \in DOMAIN p : Index(n) >= 0 => Index(n) < Len(v) /\ v[Index(n) + 1] = n

Shapes ==
  /\ ports = [s \in Sides |-> ports[s]] /\ indexed = [s \in Sides |-> indexed[s]]
  /\ names = [s \in Sides |-> names[s]] /\ pointers = [s \in Sides |-> pointers[s]]

Sets ==
  /\ automatic \subseteq Sides \X PortNames /\ subscribed \subseteq Sides \X PortNames
  /\ slots \subseteq PortNames /\ portCalls \subseteq PortNames /\ probes \subseteq PortNames \X PortNames \X PortNames

\* The vectors of the work info are not shorter than those of the ports.
Covers == \A s \in Sides : pointers[s] \in Nat /\ Len(indexed[s]) <= pointers[s]

\* What is deleted automatically is neither a slot nor a signal.
AutomaticData == \A x \in automatic : x[2] \in DOMAIN ports[x[1]] /\ ports[x[1]][x[2]] = "data"

SlotsThere == \A n \in slots : n \in DOMAIN ports["in"] /\ ports["in"][n] = "slot"

IInv ==
  /\ Shapes /\ Sets
  /\ \A s \in Sides : Agree(ports[s], indexed[s], names[s])
  /\ Covers /\ AutomaticData /\ SlotsThere /\ ProbeWired

-----------------------------------------------------------------------------
(* One side.                                                               *)

\* A set of numbers up to a bound has a greatest one.
LEMMA GreatestElement ==
  ASSUME NEW m \in Nat, NEW S, S \subseteq 1..m, S # {}
  PROVE  \E k \in S : \A j \in S : j <= k
<1> DEFINE T == {m - j : j \in S}
<1>1. T \in SUBSET Nat /\ T # {}
  <2>1. \A j \in S : m - j \in Nat OBVIOUS
  <2>2. PICK j \in S : TRUE OBVIOUS
  <2>3. m - j \in T OBVIOUS
  <2> QED BY <2>1, <2>3
<1>2. PICK t \in T : \A u \in T : ~ (<<u, t>> \in OpToRel(<, Nat))
  <2> HIDE DEF T
  <2> QED BY <1>1, NatLessThanWellFounded, WFMin
<1>3. \A u \in T : ~ (u < t) BY <1>1, <1>2 DEF OpToRel
<1>4. PICK k \in S : t = m - k OBVIOUS
<1>5. \A j \in S : j <= k
  <2> SUFFICES ASSUME NEW j \in S PROVE j <= k OBVIOUS
  <2>1. ~ (m - j < m - k) BY <1>3, <1>4
  <2> QED BY <2>1
<1> QED BY <1>5

LEMMA ResizedFacts ==
  ASSUME NEW S, Null \in S, NEW v \in Seq(S), NEW i \in Nat
  PROVE  /\ Resized(v, i) \in Seq(S) /\ Len(Resized(v, i)) > i /\ Len(Resized(v, i)) >= Len(v)
         /\ \A k \in DOMAIN Resized(v, i) : Resized(v, i)[k] = IF k <= Len(v) THEN v[k] ELSE Null
<1> DEFINE L == IF i + 1 < Len(v) THEN Len(v) ELSE i + 1
<1>1. L \in Nat /\ L > i /\ L >= Len(v) OBVIOUS
<1>2. Resized(v, i) = [k \in 1..L |-> IF k <= Len(v) THEN v[k] ELSE Null] BY DEF Resized
<1> HIDE DEF L
<1>3. \A k \in 1..L : (IF k <= Len(v) THEN v[k] ELSE Null) \in S BY <1>1
<1>4. Resized(v, i) \in [1..L -> S] BY <1>2, <1>3
<1>5. Resized(v, i) \in Seq(S) /\ Len(Resized(v, i)) = L BY <1>4, <1>1
<1> QED BY <1>1, <1>2, <1>5

LEMMA WithIndexedFacts ==
  ASSUME PortsAssumption, NEW v \in Seq(PortNames \union {Null}), NEW n \in PortNames
  PROVE  /\ WithIndexed(v, n) \in Seq(PortNames \union {Null})
         /\ Len(WithIndexed(v, n)) >= Len(v) /\ Len(WithIndexed(v, n)) > Index(n)
         /\ \A k \in DOMAIN WithIndexed(v, n) :
              WithIndexed(v, n)[k] = IF k = Index(n) + 1 THEN n ELSE IF k <= Len(v) THEN v[k] ELSE Null
<1>0. Index(n) \in Int BY DEF PortsAssumption, Index
<1>1. CASE Index(n) < 0
  <2>1. WithIndexed(v, n) = v BY <1>1 DEF WithIndexed
  <2> QED BY <2>1, <1>0, <1>1
<1>2. CASE Index(n) >= 0
  <2> DEFINE r == Resized(v, Index(n))
  <2>1. /\ r \in Seq(PortNames \union {Null}) /\ Len(r) > Index(n) /\ Len(r) >= Len(v)
        /\ \A k \in DOMAIN r : r[k] = IF k <= Len(v) THEN v[k] ELSE Null
    BY <1>0, <1>2, ResizedFacts
  <2>2. WithIndexed(v, n) = [k \in DOMAIN r |-> IF k = Index(n) + 1 THEN n ELSE r[k]]
    BY <1>0, <1>2 DEF WithIndexed
  <2> HIDE DEF r
  <2>3. DOMAIN r = 1..Len(r) /\ Len(r) \in Nat BY <2>1
  <2>4. WithIndexed(v, n) \in [1..Len(r) -> PortNames \union {Null}] BY <2>1, <2>2, <2>3
  <2>5. WithIndexed(v, n) \in Seq(PortNames \union {Null}) /\ Len(WithIndexed(v, n)) = Len(r)
    BY <2>3, <2>4
  <2> QED BY <2>1, <2>2, <2>3, <2>5
<1> QED BY <1>0, <1>1, <1>2

\* A port that is made is found in all three.
LEMMA MakesPort ==
  ASSUME PortsAssumption, NEW p, NEW v, NEW l, Agree(p, v, l),
         NEW n \in PortNames, n \notin DOMAIN p, NEW kind \in Kinds
  PROVE  Agree(WithPort(p, n, kind), WithIndexed(v, n), Append(l, n))
<1> DEFINE q == WithPort(p, n, kind)
           w == WithIndexed(v, n)
           m == Append(l, n)
<1>0. /\ v \in Seq(PortNames \union {Null}) /\ l \in Seq(PortNames) /\ DOMAIN p \subseteq PortNames
      /\ \A i \in PortNames : Index(i) \in Int
  BY DEF Agree, PortsAssumption, Index
<1>1. DOMAIN q = DOMAIN p \union {n} /\ q[n] = kind /\ \A i \in DOMAIN p : q[i] = p[i]
  BY DEF WithPort
<1>2. /\ w \in Seq(PortNames \union {Null}) /\ Len(w) >= Len(v) /\ Len(w) > Index(n)
      /\ \A k \in DOMAIN w : w[k] = IF k = Index(n) + 1 THEN n ELSE IF k <= Len(v) THEN v[k] ELSE Null
  BY <1>0, WithIndexedFacts
<1>3. /\ m \in Seq(PortNames) /\ Len(m) = Len(l) + 1 /\ m[Len(l) + 1] = n
      /\ \A k \in DOMAIN l : k \in DOMAIN m /\ m[k] = l[k]
      /\ \A k \in DOMAIN m : k \in DOMAIN l \/ k = Len(l) + 1
  BY <1>0
<1> HIDE DEF q, w, m
<1>4. DOMAIN q \subseteq PortNames /\ \A i \in DOMAIN q : q[i] \in Kinds BY <1>0, <1>1 DEF Agree
<1>5. /\ \A k \in DOMAIN m : m[k] \in DOMAIN q
      /\ \A i \in DOMAIN q : \E k \in DOMAIN m : m[k] = i
      /\ \A j, k \in DOMAIN m : m[j] = m[k] => j = k
  <2>1. \A k \in DOMAIN m : m[k] \in DOMAIN q BY <1>1, <1>3 DEF Agree
  <2>2. \A i \in DOMAIN q : \E k \in DOMAIN m : m[k] = i
    <3>1. Len(l) + 1 \in DOMAIN m BY <1>0, <1>3
    <3>2. \A i \in DOMAIN p : \E k \in DOMAIN m : m[k] = i BY <1>3 DEF Agree
    <3> QED BY <1>1, <1>3, <3>1, <3>2
  <2>3. \A j, k \in DOMAIN m : m[j] = m[k] => j = k BY <1>3 DEF Agree
  <2> QED BY <2>1, <2>2, <2>3
<1>6. \A k \in DOMAIN w : w[k] # Null => w[k] \in DOMAIN q /\ Index(w[k]) = k - 1
  <2> SUFFICES ASSUME NEW k \in DOMAIN w PROVE w[k] # Null => w[k] \in DOMAIN q /\ Index(w[k]) = k - 1
    OBVIOUS
  <2>1. k \in Nat /\ k >= 1 BY <1>2
  <2>2. CASE k = Index(n) + 1
    <3>1. w[k] = n BY <1>2, <2>2
    <3>2. Index(n) \in Int BY <1>0
    <3> HIDE DEF Index
    <3>3. Index(n) = k - 1 BY <2>1, <2>2, <3>2
    <3> QED BY <1>1, <3>1, <3>3
  <2>3. CASE k # Index(n) + 1 /\ k <= Len(v)
    <3>1. k \in DOMAIN v /\ w[k] = v[k] BY <1>0, <1>2, <2>1, <2>3
    <3> QED BY <1>1, <3>1 DEF Agree
  <2>4. CASE k # Index(n) + 1 /\ ~ k <= Len(v) BY <1>2, <2>4
  <2> QED BY <2>2, <2>3, <2>4
<1>7. \A i \in DOMAIN q : Index(i) >= 0 => Index(i) < Len(w) /\ w[Index(i) + 1] = i
  <2> SUFFICES ASSUME NEW i \in DOMAIN q, Index(i) >= 0 PROVE Index(i) < Len(w) /\ w[Index(i) + 1] = i
    OBVIOUS
  <2>1. i \in PortNames /\ Index(i) \in Int BY <1>0, <1>4
  <2>2. CASE i = n
    <3>1. Index(n) + 1 \in DOMAIN w BY <1>0, <1>2, <2>1, <2>2
    <3> QED BY <1>2, <2>2, <3>1
  <2>3. CASE i # n
    <3>1. i \in DOMAIN p BY <1>1, <2>3
    <3>2. Index(i) < Len(v) /\ v[Index(i) + 1] = i BY <3>1 DEF Agree
    <3>3. Index(i) # Index(n) BY <2>1, <2>3 DEF PortsAssumption, Index
    <3>4. Index(i) + 1 \in DOMAIN w /\ Index(i) < Len(w) BY <1>0, <1>2, <2>1, <3>2
    <3>5. Index(i) + 1 # Index(n) + 1 /\ Index(i) + 1 <= Len(v) BY <1>0, <2>1, <3>2, <3>3
    <3> QED BY <1>2, <3>2, <3>4, <3>5
  <2> QED BY <2>2, <2>3
<1> QED BY <1>2, <1>3, <1>4, <1>5, <1>6, <1>7 DEF Agree, q, w, m

LEMMA WithoutIndexedFacts ==
  ASSUME NEW v \in Seq(PortNames \union {Null}), NEW n \in PortNames, Index(n) \in Int
  PROVE  /\ WithoutIndexed(v, n) \in Seq(PortNames \union {Null}) /\ Len(WithoutIndexed(v, n)) <= Len(v)
         /\ \A k \in DOMAIN WithoutIndexed(v, n) :
              WithoutIndexed(v, n)[k] = IF k = Index(n) + 1 THEN Null ELSE v[k]
         /\ \A k \in DOMAIN v : v[k] # Null /\ k # Index(n) + 1 => k <= Len(WithoutIndexed(v, n))
<1> DEFINE w == [k \in DOMAIN v |-> IF k = Index(n) + 1 THEN Null ELSE v[k]]
           used == {k \in DOMAIN w : w[k] # Null}
           Last(k) == k \in used /\ \A j \in used : j <= k
           L == IF used = {} THEN 0 ELSE CHOOSE k \in used : \A j \in used : j <= k
<1>1. WithoutIndexed(v, n) = SubSeq(w, 1, L) BY DEF WithoutIndexed
<1>2. w \in Seq(PortNames \union {Null}) /\ Len(w) = Len(v) /\ DOMAIN w = DOMAIN v
  <2>1. w \in [1..Len(v) -> PortNames \union {Null}] OBVIOUS
  <2> QED BY <2>1
<1>3. used \subseteq 1..Len(v) BY <1>2
<1>4. L \in 0..Len(v) /\ \A j \in used : j <= L
  <2>0. Len(v) \in Nat OBVIOUS
  <2> HIDE DEF used
  <2>1. CASE used = {} BY <2>0, <2>1
  <2>2. CASE used # {}
    <3>1. \E k \in used : \A j \in used : j <= k BY <1>3, <2>0, <2>2, GreatestElement
    <3>2. L \in used /\ \A j \in used : j <= L BY <2>2, <3>1
    <3> HIDE DEF L
    <3> QED BY <1>3, <2>0, <3>2
  <2> QED BY <2>1, <2>2
<1> HIDE DEF L
<1>5. /\ SubSeq(w, 1, L) \in Seq(PortNames \union {Null}) /\ Len(SubSeq(w, 1, L)) = L
      /\ \A k \in 1..L : SubSeq(w, 1, L)[k] = w[k]
  BY <1>2, <1>4
<1>6. \A k \in 1..L : k \in DOMAIN v BY <1>4
<1>7. \A k \in DOMAIN v : v[k] # Null /\ k # Index(n) + 1 => k \in used BY <1>2
<1> QED BY <1>1, <1>4, <1>5, <1>6, <1>7

LEMMA WithoutNameFacts ==
  ASSUME NEW l \in Seq(PortNames), NEW n,
         \A j, k \in DOMAIN l : l[j] = l[k] => j = k
  PROVE  /\ WithoutName(l, n) \in Seq(PortNames)
         /\ \A k \in DOMAIN WithoutName(l, n) : WithoutName(l, n)[k] # n
         /\ \A k \in DOMAIN WithoutName(l, n) : \E j \in DOMAIN l : l[j] = WithoutName(l, n)[k]
         /\ \A j \in DOMAIN l : l[j] # n => \E k \in DOMAIN WithoutName(l, n) : WithoutName(l, n)[k] = l[j]
         /\ \A j, k \in DOMAIN WithoutName(l, n) : WithoutName(l, n)[j] = WithoutName(l, n)[k] => j = k
<1> DEFINE found == {k \in DOMAIN l : l[k] = n}
           c == CHOOSE k \in found : \A j \in found : k <= j
           r == SubSeq(l, 1, c - 1) \o SubSeq(l, c + 1, Len(l))
<1>1. CASE found = {}
  <2>1. WithoutName(l, n) = l BY <1>1 DEF WithoutName
  <2> QED BY <1>1, <2>1
<1>2. CASE found # {}
  <2>1. PICK e \in found : TRUE BY <1>2
  <2>2. found = {e} BY <2>1
  <2>3. c = e BY <2>2
  <2>4. WithoutName(l, n) = r BY <1>2 DEF WithoutName
  <2>5. c \in 1..Len(l) /\ l[c] = n BY <2>1, <2>3
  <2> HIDE DEF c, found
  <2>6. SubSeq(l, 1, c - 1) \in Seq(PortNames) /\ Len(SubSeq(l, 1, c - 1)) = c - 1
        /\ \A k \in 1..(c - 1) : SubSeq(l, 1, c - 1)[k] = l[k]
    BY <2>5
  <2>7. SubSeq(l, c + 1, Len(l)) \in Seq(PortNames) /\ Len(SubSeq(l, c + 1, Len(l))) = Len(l) - c
        /\ \A k \in 1..(Len(l) - c) : SubSeq(l, c + 1, Len(l))[k] = l[c + k]
    BY <2>5
  <2>8. /\ r \in Seq(PortNames) /\ Len(r) = Len(l) - 1
        /\ \A k \in 1..(Len(l) - 1) : r[k] = IF k < c THEN l[k] ELSE l[k + 1]
    <3>1. Len(l) \in Nat /\ c \in Nat BY <2>5
    <3> DEFINE f == SubSeq(l, 1, c - 1)
               g == SubSeq(l, c + 1, Len(l))
    <3>2. f \in Seq(PortNames) /\ g \in Seq(PortNames) /\ Len(f) = c - 1 /\ Len(g) = Len(l) - c BY <2>6, <2>7
    <3>3. /\ \A k \in 1..(c - 1) : f[k] = l[k]
          /\ \A k \in 1..(Len(l) - c) : g[k] = l[c + k]
      BY <2>6, <2>7
    <3>4. r = f \o g OBVIOUS
    <3> HIDE DEF f, g, r
    <3>5. /\ r \in Seq(PortNames) /\ Len(r) = (c - 1) + (Len(l) - c)
          /\ \A k \in 1..((c - 1) + (Len(l) - c)) : r[k] = IF k <= c - 1 THEN f[k] ELSE g[k - (c - 1)]
      <4>1. /\ f \o g \in Seq(PortNames) /\ Len(f \o g) = Len(f) + Len(g)
            /\ \A k \in 1..(Len(f) + Len(g)) : (f \o g)[k] = IF k <= Len(f) THEN f[k] ELSE g[k - Len(f)]
        BY <3>2, ConcatProperties
      <4> QED BY <3>2, <3>4, <4>1
    <3>6. ASSUME NEW k \in 1..(Len(l) - 1) PROVE r[k] = IF k < c THEN l[k] ELSE l[k + 1]
      <4>1. CASE k < c BY <2>5, <3>1, <3>3, <3>5, <4>1
      <4>2. CASE ~ k < c
        <5>1. k - (c - 1) \in 1..(Len(l) - c) BY <2>5, <3>1, <4>2
        <5>2. r[k] = g[k - (c - 1)] BY <2>5, <3>1, <3>5, <4>2
        <5>3. r[k] = l[c + (k - (c - 1))] BY <3>3, <5>1, <5>2
        <5>4. c + (k - (c - 1)) = k + 1 BY <3>1
        <5> QED BY <4>2, <5>3, <5>4
      <4> QED BY <4>1, <4>2
    <3> QED BY <3>1, <3>5, <3>6
  <2> HIDE DEF r
  <2>9. \A k \in DOMAIN r : r[k] # n
    <3> SUFFICES ASSUME NEW k \in DOMAIN r PROVE r[k] # n OBVIOUS
    <3>1. k \in 1..(Len(l) - 1) /\ Len(l) \in Nat BY <2>8
    <3>2. CASE k < c
      <4>1. r[k] = l[k] BY <2>8, <3>1, <3>2
      <4>2. k \in DOMAIN l /\ c \in DOMAIN l /\ k # c BY <2>5, <3>1, <3>2
      <4> QED BY <2>5, <4>1, <4>2
    <3>3. CASE ~ k < c
      <4>1. r[k] = l[k + 1] BY <2>8, <3>1, <3>3
      <4>2. k + 1 \in DOMAIN l /\ c \in DOMAIN l /\ k + 1 # c BY <2>5, <3>1, <3>3
      <4> QED BY <2>5, <4>1, <4>2
    <3> QED BY <3>2, <3>3
  <2>10. \A k \in DOMAIN r : \E j \in DOMAIN l : l[j] = r[k]
    <3> SUFFICES ASSUME NEW k \in DOMAIN r PROVE \E j \in DOMAIN l : l[j] = r[k] OBVIOUS
    <3>1. k \in 1..(Len(l) - 1) /\ Len(l) \in Nat BY <2>8
    <3>2. k \in DOMAIN l /\ k + 1 \in DOMAIN l BY <3>1
    <3> QED BY <2>8, <3>1, <3>2
  <2>11. \A j \in DOMAIN l : l[j] # n => \E k \in DOMAIN r : r[k] = l[j]
    <3> SUFFICES ASSUME NEW j \in DOMAIN l, l[j] # n PROVE \E k \in DOMAIN r : r[k] = l[j] OBVIOUS
    <3>1. j \in 1..Len(l) /\ Len(l) \in Nat /\ j # c BY <2>5
    <3>2. CASE j < c
      <4>1. j \in 1..(Len(l) - 1) /\ j \in DOMAIN r BY <2>5, <2>8, <3>1, <3>2
      <4> QED BY <2>8, <3>2, <4>1
    <3>3. CASE j > c
      <4>1. j - 1 \in 1..(Len(l) - 1) /\ j - 1 \in DOMAIN r /\ ~ j - 1 < c BY <2>5, <2>8, <3>1, <3>3
      <4>2. r[j - 1] = l[(j - 1) + 1] BY <2>8, <4>1
      <4>3. (j - 1) + 1 = j BY <3>1
      <4> QED BY <4>1, <4>2, <4>3
    <3> QED BY <2>5, <3>1, <3>2, <3>3
  <2>12. \A j, k \in DOMAIN r : r[j] = r[k] => j = k
    <3> SUFFICES ASSUME NEW j \in DOMAIN r, NEW k \in DOMAIN r, r[j] = r[k] PROVE j = k OBVIOUS
    <3> DEFINE at(i) == IF i < c THEN i ELSE i + 1
    <3>1. j \in 1..(Len(l) - 1) /\ k \in 1..(Len(l) - 1) /\ Len(l) \in Nat BY <2>8
    <3>2. r[j] = l[at(j)] /\ r[k] = l[at(k)] BY <2>8, <3>1
    <3>3. at(j) \in DOMAIN l /\ at(k) \in DOMAIN l BY <2>5, <3>1
    <3>4. at(j) = at(k) BY <3>2, <3>3
    <3> QED BY <2>5, <3>1, <3>4
  <2> QED BY <2>4, <2>8, <2>9, <2>10, <2>11, <2>12
<1> QED BY <1>1, <1>2

\* A port that is deleted leaves nothing behind, and the others where they are.
LEMMA DeletesPort ==
  ASSUME PortsAssumption, NEW p, NEW v, NEW l, Agree(p, v, l), NEW n \in DOMAIN p
  PROVE  Agree([m \in DOMAIN p \ {n} |-> p[m]], WithoutIndexed(v, n), WithoutName(l, n))
<1> DEFINE q == [m \in DOMAIN p \ {n} |-> p[m]]
           w == WithoutIndexed(v, n)
           u == WithoutName(l, n)
<1>0. /\ v \in Seq(PortNames \union {Null}) /\ l \in Seq(PortNames) /\ DOMAIN p \subseteq PortNames /\ n \in PortNames
      /\ \A i \in PortNames : Index(i) \in Int
  BY DEF Agree, PortsAssumption, Index
<1>1. DOMAIN q = DOMAIN p \ {n} /\ \A i \in DOMAIN q : q[i] = p[i] OBVIOUS
<1>2. /\ w \in Seq(PortNames \union {Null}) /\ Len(w) <= Len(v)
      /\ \A k \in DOMAIN w : w[k] = IF k = Index(n) + 1 THEN Null ELSE v[k]
      /\ \A k \in DOMAIN v : v[k] # Null /\ k # Index(n) + 1 => k <= Len(w)
  BY <1>0, WithoutIndexedFacts
<1>3. /\ u \in Seq(PortNames)
      /\ \A k \in DOMAIN u : u[k] # n
      /\ \A k \in DOMAIN u : \E j \in DOMAIN l : l[j] = u[k]
      /\ \A j \in DOMAIN l : l[j] # n => \E k \in DOMAIN u : u[k] = l[j]
      /\ \A j, k \in DOMAIN u : u[j] = u[k] => j = k
  <2>1. \A j, k \in DOMAIN l : l[j] = l[k] => j = k BY DEF Agree
  <2> QED BY <1>0, <2>1, WithoutNameFacts
<1> HIDE DEF q, w, u
<1>4. DOMAIN q \subseteq PortNames /\ \A i \in DOMAIN q : q[i] \in Kinds BY <1>0, <1>1 DEF Agree
<1>5. /\ \A k \in DOMAIN u : u[k] \in DOMAIN q
      /\ \A i \in DOMAIN q : \E k \in DOMAIN u : u[k] = i
  <2>1. \A k \in DOMAIN u : u[k] \in DOMAIN q
    <3> SUFFICES ASSUME NEW k \in DOMAIN u PROVE u[k] \in DOMAIN q OBVIOUS
    <3>1. PICK j \in DOMAIN l : l[j] = u[k] BY <1>3
    <3>2. l[j] \in DOMAIN p BY DEF Agree
    <3> QED BY <1>1, <1>3, <3>1, <3>2
  <2>2. \A i \in DOMAIN q : \E k \in DOMAIN u : u[k] = i
    <3> SUFFICES ASSUME NEW i \in DOMAIN q PROVE \E k \in DOMAIN u : u[k] = i OBVIOUS
    <3>1. PICK j \in DOMAIN l : l[j] = i BY <1>1 DEF Agree
    <3>2. l[j] # n BY <1>1, <3>1
    <3> QED BY <1>3, <3>1, <3>2
  <2> QED BY <2>1, <2>2
<1>6. \A k \in DOMAIN w : w[k] # Null => w[k] \in DOMAIN q /\ Index(w[k]) = k - 1
  <2> SUFFICES ASSUME NEW k \in DOMAIN w, w[k] # Null
               PROVE  w[k] \in DOMAIN q /\ Index(w[k]) = k - 1
    OBVIOUS
  <2>1. k \in Nat /\ k \in DOMAIN v BY <1>0, <1>2
  <2>2. k # Index(n) + 1 /\ w[k] = v[k] BY <1>2
  <2>3. v[k] \in DOMAIN p /\ Index(v[k]) = k - 1 BY <2>1, <2>2 DEF Agree
  <2>4. Index(n) \in Int BY <1>0
  <2>5. v[k] # n BY <2>1, <2>2, <2>3, <2>4
  <2> QED BY <1>1, <2>2, <2>3, <2>5
<1>7. \A i \in DOMAIN q : Index(i) >= 0 => Index(i) < Len(w) /\ w[Index(i) + 1] = i
  <2> SUFFICES ASSUME NEW i \in DOMAIN q, Index(i) >= 0 PROVE Index(i) < Len(w) /\ w[Index(i) + 1] = i
    OBVIOUS
  <2>1. i \in DOMAIN p /\ i # n /\ i \in PortNames /\ Index(i) \in Int /\ Index(n) \in Int BY <1>0, <1>1
  <2>2. Index(i) < Len(v) /\ v[Index(i) + 1] = i BY <2>1 DEF Agree
  <2>3. Index(i) # Index(n) BY <1>0, <2>1 DEF PortsAssumption, Index
  <2>4. i # Null BY <2>1 DEF PortsAssumption
  <2>5. Index(i) + 1 \in DOMAIN v /\ Index(i) + 1 # Index(n) + 1 BY <1>0, <2>1, <2>2, <2>3
  <2>6. Index(i) + 1 <= Len(w) BY <1>2, <2>2, <2>4, <2>5
  <2>7. Index(i) + 1 \in DOMAIN w /\ Index(i) < Len(w) BY <1>2, <2>1, <2>6
  <2> QED BY <1>2, <2>2, <2>5, <2>7
<1> QED BY <1>2, <1>3, <1>4, <1>5, <1>6, <1>7 DEF Agree, q, w, u
-----------------------------------------------------------------------------
(* The steps.                                                              *)

\* The ports that there were are there, as they were.
PortsStay == \A d \in Sides : \A m \in DOMAIN ports[d] : m \in DOMAIN ports'[d] /\ ports'[d][m] = ports[d][m]

\* What PortsStay keeps.
LEMMA WiredStay ==
  ASSUME SlotsThere, ProbeWired, PortsStay
  PROVE  /\ \A n \in slots : n \in DOMAIN ports'["in"] /\ ports'["in"][n] = "slot"
         /\ \A q \in probes : /\ q[1] \in DOMAIN ports'["in"] /\ ports'["in"][q[1]] = "slot"
                             /\ q[3] \in DOMAIN ports'["out"] /\ ports'["out"][q[3]] = "signal"
BY DEF SlotsThere, ProbeWired, PortsStay, Has, Sides

LEMMA Allocates ==
  ASSUME PortsAssumption, IInv, NEW s \in Sides, NEW n \in PortNames, ~ Has(s, n), NEW kind \in Kinds,
         NEW auto \in BOOLEAN, auto => kind = "data", Allocate(s, n, kind, auto)
  PROVE  /\ Shapes' /\ (automatic \subseteq Sides \X PortNames)'
         /\ (\A d \in Sides : Agree(ports[d], indexed[d], names[d]))'
         /\ Covers' /\ AutomaticData' /\ PortsStay
         /\ n \in DOMAIN ports'[s] /\ ports'[s][n] = kind
<1>1. /\ ports' = [ports EXCEPT ![s] = WithPort(@, n, kind)]
      /\ indexed' = [indexed EXCEPT ![s] = WithIndexed(@, n)]
      /\ names' = [names EXCEPT ![s] = Append(@, n)]
      /\ automatic' = IF auto THEN automatic \union {<<s, n>>} ELSE automatic
      /\ pointers' = PointersFor(indexed')
  BY DEF Allocate
<1>2. Shapes /\ Sets /\ AutomaticData /\ \A d \in Sides : Agree(ports[d], indexed[d], names[d]) BY DEF IInv
<1>3. \A d \in Sides : /\ ports'[d] = IF d = s THEN WithPort(ports[s], n, kind) ELSE ports[d]
                       /\ indexed'[d] = IF d = s THEN WithIndexed(indexed[s], n) ELSE indexed[d]
                       /\ names'[d] = IF d = s THEN Append(names[s], n) ELSE names[d]
  BY <1>1, <1>2 DEF Shapes
<1>4. Shapes' BY <1>1, <1>2 DEF Shapes, PointersFor
<1>5. (\A d \in Sides : Agree(ports[d], indexed[d], names[d]))'
  <2> SUFFICES ASSUME NEW d \in Sides PROVE Agree(ports'[d], indexed'[d], names'[d]) OBVIOUS
  <2>1. CASE d = s
    <3>1. Agree(WithPort(ports[s], n, kind), WithIndexed(indexed[s], n), Append(names[s], n))
      BY <1>2, MakesPort DEF Has
    <3> QED BY <1>3, <2>1, <3>1
  <2>2. CASE d # s BY <1>2, <1>3, <2>2
  <2> QED BY <2>1, <2>2
<1>6. Covers'
  <2>1. \A d \in Sides : Len(indexed'[d]) \in Nat BY <1>5 DEF Agree
  <2>2. \A d \in Sides : pointers'[d] = Len(indexed'[d]) BY <1>1 DEF PointersFor
  <2> QED BY <2>1, <2>2 DEF Covers
<1>7. PortsStay /\ n \in DOMAIN ports'[s] /\ ports'[s][n] = kind
  <2>1. n \notin DOMAIN ports[s] BY DEF Has
  <2>2. /\ DOMAIN WithPort(ports[s], n, kind) = DOMAIN ports[s] \union {n}
        /\ WithPort(ports[s], n, kind)[n] = kind
        /\ \A m \in DOMAIN ports[s] : m # n => WithPort(ports[s], n, kind)[m] = ports[s][m]
    BY DEF WithPort
  <2> QED BY <1>3, <2>1, <2>2 DEF PortsStay
<1>8. (automatic \subseteq Sides \X PortNames)' BY <1>1, <1>2 DEF Sets
<1>9. AutomaticData'
  <2> SUFFICES ASSUME NEW x \in automatic' PROVE x[2] \in DOMAIN ports'[x[1]] /\ ports'[x[1]][x[2]] = "data"
    BY DEF AutomaticData
  <2>1. CASE x \in automatic
    <3>1. x[1] \in Sides BY <1>2, <2>1 DEF Sets
    <3> QED BY <1>2, <1>7, <2>1, <3>1 DEF AutomaticData, PortsStay
  <2>2. CASE x = <<s, n>> /\ auto BY <1>7, <2>2
  <2> QED BY <1>1, <2>1, <2>2
<1> QED BY <1>4, <1>5, <1>6, <1>7, <1>8, <1>9

\* An allocation after which only names of calls and slots are added.
LEMMA AllocatesOnly ==
  ASSUME PortsAssumption, IInv, NEW s \in Sides, NEW n \in PortNames, ~ Has(s, n), NEW kind \in Kinds,
         NEW auto \in BOOLEAN, auto => kind = "data", Allocate(s, n, kind, auto),
         subscribed' = subscribed, probes' = probes, portCalls' \subseteq PortNames,
         slots' = slots \/ (slots' = slots \union {n} /\ s = "in" /\ kind = "slot")
  PROVE  IInv'
<1>1. /\ Shapes' /\ (automatic \subseteq Sides \X PortNames)'
      /\ (\A d \in Sides : Agree(ports[d], indexed[d], names[d]))'
      /\ Covers' /\ AutomaticData' /\ PortsStay /\ n \in DOMAIN ports'[s] /\ ports'[s][n] = kind
  BY Allocates
<1>2. Sets /\ SlotsThere /\ ProbeWired BY DEF IInv
<1>3. Sets' BY <1>1, <1>2 DEF Sets
<1>4. SlotsThere' BY <1>1, <1>2, WiredStay DEF SlotsThere
<1>5. ProbeWired' BY <1>1, <1>2, WiredStay DEF ProbeWired, Has
<1> QED BY <1>1, <1>3, <1>4, <1>5 DEF IInv

LEMMA ProbeAdded ==
  ASSUME PortsAssumption, IInv, NEW n \in PortNames, NEW signal \in PortNames, NEW slot \in PortNames,
         RegisterProbe(n, signal, slot)
  PROVE  IInv'
<1> DEFINE p == IF NewSlot(slot) THEN WithPort(ports["in"], slot, "slot") ELSE ports["in"]
           v == IF NewSlot(slot) THEN WithIndexed(indexed["in"], slot) ELSE indexed["in"]
           l == IF NewSlot(slot) THEN Append(names["in"], slot) ELSE names["in"]
           o == WithPort(ports["out"], signal, "signal")
           w == WithIndexed(indexed["out"], signal)
           u == Append(names["out"], signal)
<1>1. /\ NewSlot(slot) => slot \notin DOMAIN ports["in"]
      /\ signal \notin DOMAIN ports["out"]
      /\ ports' = [in |-> p, out |-> o] /\ indexed' = [in |-> v, out |-> w] /\ names' = [in |-> l, out |-> u]
      /\ pointers' = PointersFor(indexed')
      /\ probes' = {q \in probes : q[1] # slot} \union {<<slot, n, signal>>}
      /\ UNCHANGED <<automatic, subscribed, slots, portCalls>>
  BY DEF RegisterProbe, NoSignal, Has
<1>2. /\ Shapes /\ Sets /\ AutomaticData /\ SlotsThere /\ ProbeWired
      /\ Agree(ports["in"], indexed["in"], names["in"]) /\ Agree(ports["out"], indexed["out"], names["out"])
  BY DEF IInv, Sides
<1>3. Agree(p, v, l)
  <2>1. CASE NewSlot(slot)
    <3>1. Agree(WithPort(ports["in"], slot, "slot"), WithIndexed(indexed["in"], slot), Append(names["in"], slot))
      BY <1>1, <1>2, <2>1, MakesPort DEF Kinds
    <3> QED BY <2>1, <3>1
  <2>2. CASE ~ NewSlot(slot) BY <1>2, <2>2
  <2> QED BY <2>1, <2>2
<1>4. Agree(o, w, u) BY <1>1, <1>2, MakesPort DEF Kinds
<1>5. /\ \A m \in DOMAIN ports["in"] : m \in DOMAIN p /\ p[m] = ports["in"][m]
      /\ \A m \in DOMAIN ports["out"] : m \in DOMAIN o /\ o[m] = ports["out"][m]
      /\ slot \in DOMAIN p /\ p[slot] = "slot" /\ signal \in DOMAIN o /\ o[signal] = "signal"
  <2>1. ~ NewSlot(slot) => slot \in DOMAIN ports["in"] /\ ports["in"][slot] = "slot"
    BY <1>2 DEF NewSlot, SlotsThere
  <2> QED BY <1>1, <2>1 DEF WithPort
<1> HIDE DEF p, v, l, o, w, u
<1>6. /\ ports'["in"] = p /\ ports'["out"] = o /\ indexed'["in"] = v /\ indexed'["out"] = w
      /\ names'["in"] = l /\ names'["out"] = u
  BY <1>1
<1>7. Shapes' BY <1>1 DEF Shapes, Sides, PointersFor
<1>8. (\A d \in Sides : Agree(ports[d], indexed[d], names[d]))' BY <1>3, <1>4, <1>6 DEF Sides
<1>9. Covers'
  <2>1. \A d \in Sides : Len(indexed'[d]) \in Nat BY <1>8 DEF Agree
  <2>2. \A d \in Sides : pointers'[d] = Len(indexed'[d]) BY <1>1 DEF PointersFor
  <2> QED BY <2>1, <2>2 DEF Covers
<1>10. PortsStay BY <1>5, <1>6 DEF PortsStay, Sides
<1>11. AutomaticData'
  <2> SUFFICES ASSUME NEW x \in automatic PROVE x[2] \in DOMAIN ports'[x[1]] /\ ports'[x[1]][x[2]] = "data"
    BY <1>1 DEF AutomaticData
  <2>1. x[1] \in Sides BY <1>2 DEF Sets
  <2> QED BY <1>2, <1>10, <2>1 DEF AutomaticData, PortsStay
<1>12. SlotsThere' BY <1>1, <1>2, <1>10, WiredStay DEF SlotsThere
<1>13. Sets' BY <1>1, <1>2 DEF Sets
<1>14. ProbeWired'
  <2>1. \A q \in probes : q[3] \in DOMAIN ports["out"] BY <1>2 DEF ProbeWired, Has
  <2>2. \A q \in probes : q[3] # signal BY <1>1, <2>1
  <2>3. \A q \in probes' : /\ q[1] \in DOMAIN ports'["in"] /\ ports'["in"][q[1]] = "slot"
                           /\ q[3] \in DOMAIN ports'["out"] /\ ports'["out"][q[3]] = "signal"
    BY <1>1, <1>2, <1>5, <1>6, <1>10, WiredStay
  <2>4. ASSUME NEW q \in probes', NEW r \in probes', r # q PROVE r[1] # q[1] /\ r[3] # q[3]
    <3>1. CASE q \in probes /\ r \in probes BY <1>2, <2>4, <3>1 DEF ProbeWired
    <3>2. CASE q \in probes /\ q[1] # slot /\ r = <<slot, n, signal>> BY <2>2, <3>2
    <3>3. CASE r \in probes /\ r[1] # slot /\ q = <<slot, n, signal>> BY <2>2, <3>3
    <3> QED BY <1>1, <2>4, <3>1, <3>2, <3>3
  <2> QED BY <2>3, <2>4 DEF ProbeWired, Has
<1> QED BY <1>7, <1>8, <1>9, <1>11, <1>12, <1>13, <1>14 DEF IInv

LEMMA PortDeleted ==
  ASSUME PortsAssumption, IInv, NEW s \in Sides, NEW n \in PortNames, AutoDeletePort(s, n)
  PROVE  IInv'
<1> DEFINE q == [m \in DOMAIN ports[s] \ {n} |-> ports[s][m]]
<1>1. /\ n \in DOMAIN ports[s] /\ <<s, n>> \in automatic
      /\ automatic' = automatic \ {<<s, n>>}
      /\ indexed' = [indexed EXCEPT ![s] = WithoutIndexed(@, n)]
      /\ names' = [names EXCEPT ![s] = WithoutName(@, n)]
      /\ ports' = [ports EXCEPT ![s] = q]
      /\ UNCHANGED <<pointers, subscribed, registered>>
  BY DEF AutoDeletePort, Has
<1>2. /\ Shapes /\ Sets /\ AutomaticData /\ SlotsThere /\ ProbeWired /\ Covers
      /\ \A d \in Sides : Agree(ports[d], indexed[d], names[d])
  BY DEF IInv
<1>3. \A d \in Sides : /\ ports'[d] = IF d = s THEN q ELSE ports[d]
                       /\ indexed'[d] = IF d = s THEN WithoutIndexed(indexed[s], n) ELSE indexed[d]
                       /\ names'[d] = IF d = s THEN WithoutName(names[s], n) ELSE names[d]
  BY <1>1, <1>2 DEF Shapes
<1>4. Shapes' BY <1>1, <1>2 DEF Shapes
<1>5. (\A d \in Sides : Agree(ports[d], indexed[d], names[d]))'
  <2>1. Agree(q, WithoutIndexed(indexed[s], n), WithoutName(names[s], n)) BY <1>1, <1>2, DeletesPort
  <2> HIDE DEF q
  <2> QED BY <1>2, <1>3, <2>1
<1>6. Covers'
  <2>1. Len(WithoutIndexed(indexed[s], n)) <= Len(indexed[s])
    <3>1. indexed[s] \in Seq(PortNames \union {Null}) BY <1>2 DEF Agree
    <3>2. Index(n) \in Int BY DEF PortsAssumption, Index
    <3> QED BY <3>1, <3>2, WithoutIndexedFacts
  <2>2. \A d \in Sides : Len(indexed'[d]) \in Nat /\ Len(indexed[d]) \in Nat BY <1>2, <1>5 DEF Agree
  <2>3. ASSUME NEW d \in Sides PROVE Len(indexed'[d]) <= Len(indexed[d])
    <3>1. CASE d = s
      <4>1. indexed'[d] = WithoutIndexed(indexed[s], n) BY <1>3, <3>1
      <4> QED BY <2>1, <3>1, <4>1
    <3>2. CASE d # s
      <4>1. indexed'[d] = indexed[d] BY <1>3, <3>2
      <4>2. Len(indexed[d]) \in Nat BY <2>2
      <4> QED BY <4>1, <4>2
    <3> QED BY <3>1, <3>2
  <2>4. \A d \in Sides : pointers'[d] = pointers[d] BY <1>1
  <2> HIDE DEF q
  <2> QED BY <1>2, <2>2, <2>3, <2>4 DEF Covers
<1>7. ports[s][n] = "data" BY <1>1, <1>2 DEF AutomaticData
<1>8. \A d \in Sides : \A m \in DOMAIN ports[d] : <<d, m>> # <<s, n>> =>
        m \in DOMAIN ports'[d] /\ ports'[d][m] = ports[d][m]
  BY <1>3
<1> HIDE DEF q
<1>9. AutomaticData'
  <2> SUFFICES ASSUME NEW x \in automatic' PROVE x[2] \in DOMAIN ports'[x[1]] /\ ports'[x[1]][x[2]] = "data"
    BY DEF AutomaticData
  <2>1. x \in automatic /\ x # <<s, n>> BY <1>1
  <2>2. x[1] \in Sides /\ x = <<x[1], x[2]>> BY <1>2, <2>1 DEF Sets
  <2>3. x[2] \in DOMAIN ports[x[1]] /\ ports[x[1]][x[2]] = "data" BY <1>2, <2>1 DEF AutomaticData
  <2> QED BY <1>8, <2>1, <2>2, <2>3
<1>10. /\ \A m \in DOMAIN ports["in"] : ports["in"][m] = "slot" =>
            m \in DOMAIN ports'["in"] /\ ports'["in"][m] = "slot"
       /\ \A m \in DOMAIN ports["out"] : ports["out"][m] = "signal" =>
            m \in DOMAIN ports'["out"] /\ ports'["out"][m] = "signal"
  BY <1>7, <1>8 DEF Sides
<1>11. SlotsThere' BY <1>1, <1>2, <1>10 DEF SlotsThere, registered
<1>12. ProbeWired' BY <1>1, <1>2, <1>10 DEF ProbeWired, Has, registered
<1>13. Sets' BY <1>1, <1>2 DEF Sets, registered
<1> QED BY <1>4, <1>5, <1>6, <1>9, <1>11, <1>12, <1>13 DEF IInv

LEMMA Subscribes ==
  ASSUME IInv, NEW x \in SUBSET (Sides \X PortNames), Subscriptions(x)
  PROVE  IInv'
<1>1. /\ subscribed' = x /\ pointers' = PointersFor(indexed)
      /\ UNCHANGED <<ports, indexed, names, automatic, slots, portCalls, probes>>
  BY DEF Subscriptions, registered
<1>2. \A d \in Sides : Agree(ports[d], indexed[d], names[d]) BY DEF IInv
<1>3. Covers'
  <2>1. \A d \in Sides : Len(indexed[d]) \in Nat BY <1>2 DEF Agree
  <2> QED BY <1>1, <2>1 DEF Covers, PointersFor
<1>4. Shapes' BY <1>1 DEF IInv, Shapes, PointersFor
<1>5. Sets' BY <1>1 DEF IInv, Sets
<1>6. AutomaticData' /\ SlotsThere' /\ ProbeWired' BY <1>1 DEF IInv, AutomaticData, SlotsThere, ProbeWired, Has
<1>7. (\A s \in Sides : Agree(ports[s], indexed[s], names[s]))' BY <1>1, <1>2
<1> QED BY <1>3, <1>4, <1>5, <1>6, <1>7 DEF IInv

LEMMA Unchanged ==
  ASSUME IInv, UNCHANGED <<ports, indexed, names, automatic, pointers, subscribed, slots, probes>>,
         portCalls' \subseteq PortNames
  PROVE  IInv'
BY DEF IInv, Shapes, Sets, Covers, AutomaticData, SlotsThere, ProbeWired, Has

-----------------------------------------------------------------------------
LEMMA Starts ==
  ASSUME PortsAssumption, PortsInit
  PROVE  IInv
<1>1. Agree(<<>>, <<>>, <<>>) BY DEF Agree
<1>2. \A s \in Sides : ports[s] = <<>> /\ indexed[s] = <<>> /\ names[s] = <<>> /\ pointers[s] = 0 BY DEF PortsInit
<1>3. Shapes /\ Sets /\ Covers /\ AutomaticData /\ SlotsThere /\ ProbeWired
  BY <1>2 DEF PortsInit, Shapes, Sets, Covers, AutomaticData, SlotsThere, ProbeWired
<1> QED BY <1>1, <1>2, <1>3 DEF IInv

LEMMA Steps ==
  ASSUME PortsAssumption, IInv, [PortsNext]_portVars
  PROVE  IInv'
<1>0. Sets BY DEF IInv
<1>1. ASSUME NEW n \in PortNames, RegisterSignal(n) PROVE IInv'
  <2>1. ~ Has("out", n) /\ Allocate("out", n, "signal", FALSE) /\ UNCHANGED <<subscribed, slots, portCalls, probes>>
    BY <1>1 DEF RegisterSignal, registered
  <2> QED BY <1>0, <2>1, AllocatesOnly DEF Kinds, Sides, Sets
<1>2. ASSUME NEW n \in PortNames, RegisterSlot(n) PROVE IInv'
  <2>1. ~ Has("in", n) /\ Allocate("in", n, "slot", FALSE) /\ UNCHANGED <<subscribed, slots, portCalls, probes>>
    BY <1>2 DEF RegisterSlot, registered
  <2> QED BY <1>0, <2>1, AllocatesOnly DEF Kinds, Sides, Sets
<1>3. ASSUME NEW n \in PortNames, NEW returnVoid \in BOOLEAN, RegisterCallable(n, returnVoid) PROVE IInv'
  <2>1. portCalls' \subseteq PortNames /\ UNCHANGED <<subscribed, probes>> BY <1>0, <1>3 DEF RegisterCallable, Sets
  <2>2. CASE ~ Has("in", n) /\ Allocate("in", n, "slot", FALSE) /\ slots' = slots \union {n}
    BY <2>1, <2>2, AllocatesOnly DEF Kinds, Sides
  <2>3. CASE Same /\ UNCHANGED slots BY <2>1, <2>3, Unchanged DEF Same
  <2> QED BY <1>3, <2>2, <2>3 DEF RegisterCallable
<1>4. ASSUME NEW n \in PortNames, NEW s \in Sides, Setup(s, n, "data") PROVE IInv'
  <2>1. ~ Has(s, n) /\ Allocate(s, n, "data", FALSE) /\ UNCHANGED <<subscribed, slots, portCalls, probes>>
    BY <1>4 DEF Setup, registered
  <2> QED BY <1>0, <2>1, AllocatesOnly DEF Kinds, Sets
<1>5. ASSUME NEW n \in PortNames, NEW s \in Sides, AutoAllocatePort(s, n) PROVE IInv'
  <2>1. ~ Has(s, n) /\ Allocate(s, n, "data", TRUE) /\ UNCHANGED <<subscribed, slots, portCalls, probes>>
    BY <1>5 DEF AutoAllocatePort, registered
  <2> QED BY <1>0, <2>1, AllocatesOnly DEF Kinds, Sets
<1>6. ASSUME NEW n \in PortNames, NEW s \in Sides, Subscribe(s, n) \/ Unsubscribe(s, n) PROVE IInv'
  <2>1. subscribed \union {<<s, n>>} \in SUBSET (Sides \X PortNames) /\ subscribed \ {<<s, n>>} \in SUBSET (Sides \X PortNames)
    BY <1>0 DEF Sets
  <2> QED BY <1>6, <2>1, Subscribes DEF Subscribe, Unsubscribe
<1>7. ASSUME NEW n \in PortNames, NEW s \in Sides, AutoDeletePort(s, n) PROVE IInv'
  BY <1>7, PortDeleted
<1>8. ASSUME NEW n \in PortNames, NEW signal \in PortNames, NEW slot \in PortNames, RegisterProbe(n, signal, slot) PROVE IInv'
  BY <1>8, ProbeAdded
<1>9. ASSUME NEW n \in PortNames, NEW signal \in PortNames, NEW slot \in PortNames, RegisterProbeThrows(n, signal, slot)
      PROVE  IInv'
  <2>1. ~ Has("in", slot) /\ Allocate("in", slot, "slot", FALSE) /\ UNCHANGED <<subscribed, slots, portCalls, probes>>
    BY <1>9 DEF RegisterProbeThrows, registered
  <2> QED BY <1>0, <2>1, AllocatesOnly DEF Kinds, Sides, Sets
<1>10. CASE UNCHANGED portVars BY <1>0, <1>10, Unchanged DEF portVars, Sets
<1> QED BY <1>1, <1>2, <1>3, <1>4, <1>5, <1>6, <1>7, <1>8, <1>9, <1>10 DEF PortsNext

LEMMA Sound ==
  ASSUME PortsAssumption, IInv
  PROVE  PortsSound
<1>1. \A s \in Sides : Agree(ports[s], indexed[s], names[s]) BY DEF IInv
<1>2. PortTypesOK BY <1>1 DEF IInv, PortTypesOK, Agree, Kinds, Sets, Covers
<1>3. NoDangling
  <2>1. \A s \in Sides : \A n \in PortNames : <<s, n>> \in automatic => n \in DOMAIN ports[s] BY DEF IInv, AutomaticData
  <2> QED BY <1>1, <2>1 DEF NoDangling, Agree
<1>4. InfosComplete
  <2> SUFFICES ASSUME NEW s \in Sides PROVE {info.name : info \in PortInfos(s)} = DOMAIN ports[s]
    BY DEF InfosComplete
  <2> DEFINE Info(k) == [name |-> names[s][k], isSigSlot |-> ports[s][names[s][k]] # "data"]
             all == {info.name : info \in PortInfos(s)}
  <2>1. PortInfos(s) = {Info(k) : k \in DOMAIN names[s]} BY DEF PortInfos
  <2>2. \A k \in DOMAIN names[s] : Info(k).name = names[s][k] OBVIOUS
  <2> HIDE DEF Info
  <2>3. all \subseteq DOMAIN ports[s] BY <1>3, <2>1, <2>2 DEF NoDangling
  <2>4. ASSUME NEW n \in DOMAIN ports[s] PROVE n \in all
    <3>1. PICK k \in DOMAIN names[s] : names[s][k] = n BY <1>3 DEF NoDangling
    <3>2. Info(k) \in PortInfos(s) /\ Info(k).name = n BY <2>1, <2>2, <3>1
    <3> QED BY <3>2
  <2> QED BY <2>3, <2>4
<1>5. FoundByIndex BY <1>1 DEF FoundByIndex, Agree
<1>6. PointersCover
  <2> SUFFICES ASSUME NEW s \in Sides, NEW n \in DOMAIN ports[s] PROVE Index(n) < pointers[s]
    BY DEF PointersCover
  <2>1. Index(n) \in Int BY <1>1 DEF Agree, PortsAssumption, Index
  <2>2. Index(n) < 0 \/ Index(n) < Len(indexed[s]) BY <1>1, <2>1 DEF Agree
  <2>3. pointers[s] \in Nat /\ Len(indexed[s]) <= pointers[s] BY DEF IInv, Covers
  <2>4. Len(indexed[s]) \in Nat BY <1>1 DEF Agree
  <2> QED BY <2>1, <2>2, <2>3, <2>4
<1> QED BY <1>2, <1>3, <1>4, <1>5, <1>6 DEF IInv, PortsSound

(* The maps, vectors, lists and infos of the ports of a block agree, the   *)
(* work info covers every index, and the slot and the signal of a probe    *)
(* are there: after any calls of setup, register, subscribe, of automatic  *)
(* allocation and deletion, for any names.                                 *)
THEOREM PortsAreSound == PortsAssumption /\ PortsSpec => []PortsSound
<1> SUFFICES ASSUME PortsAssumption PROVE PortsSpec => []PortsSound OBVIOUS
<1>1. PortsInit => IInv BY Starts
<1>2. IInv /\ [PortsNext]_portVars => IInv' BY Steps
<1>3. IInv => PortsSound BY Sound
<1> QED BY <1>1, <1>2, <1>3, PTL DEF PortsSpec
=============================================================================
