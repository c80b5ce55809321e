--------------------------- MODULE ArchiveNumbers ---------------------------
(* The serialization of integers (Archive/Numbers.hpp): LEB128 for the types *)
(* of 32 and 64 bits, two bytes for the short ones. A byte carries Payload   *)
(* bits and a mark that another byte follows (7 and 1 in the code); widths   *)
(* are scaled down so that every value of every type is saved and loaded.    *)
(* float and double travel as the unsigned types of their size. The second   *)
(* part is the serialization of objects, which is made of such numbers.      *)
EXTENDS Integers, Sequences, SequencesExt

CONSTANTS
  Payload,        \* bits of the value in a byte of LEB128 (7)
  IntBits,        \* bits of int (32), which the sign extension shifts
  Types           \* the types saved: [name, signed, bits]

WidthsAssumption ==
  /\ {Payload, IntBits} \subseteq Nat \ {0}
  /\ \A y \in Types : y.bits \in Nat \ {0} /\ y.signed \in BOOLEAN /\ y.short \in BOOLEAN
  /\ \A y \in Types : y.short => y.bits = 2 * (Payload + 1)

VARIABLES
  type,           \* the type of the value
  item,           \* the value to save
  value,          \* what of it is still to be saved
  bytes,          \* the archive
  pos,            \* how many bytes were loaded
  t, shift,       \* the bits loaded, as an unsigned number, and their count
  pc

vars == <<type, item, value, bytes, pos, t, shift, pc>>

\* The values of a type
ValuesOf(y) == IF y.signed THEN -(2^(y.bits - 1)) .. 2^(y.bits - 1) - 1
                           ELSE 0 .. 2^y.bits - 1

\* The bits of u read as a value of the type
AsType(y, u) == IF y.signed /\ u >= 2^(y.bits - 1) THEN u - 2^y.bits ELSE u

Init ==
  /\ type \in Types
  /\ item \in ValuesOf(type)
  /\ value = item /\ bytes = <<>> /\ pos = 0
  /\ t = 0 /\ shift = 0
  /\ pc = "save"

SignBit(low) == low >= 2^(Payload - 1)

\* Whether another byte follows the one with the bits low, rest still to save
More(y, low, rest) ==
  IF y.signed THEN /\ rest # 0 \/ SignBit(low)
                   /\ rest # -1 \/ ~SignBit(low)
              ELSE rest # 0

\* One pass of save's loop; the shift is arithmetic, as \div
SaveByte ==
  /\ pc = "save" /\ ~type.short
  /\ LET low  == value % 2^Payload
         rest == value \div 2^Payload
         more == More(type, low, rest)
     IN  /\ bytes' = Append(bytes, IF more THEN low + 2^Payload ELSE low)
         /\ value' = rest
         /\ pc' = IF more THEN "save" ELSE "load"
  /\ UNCHANGED <<type, item, pos, t, shift>>

ShortBytes(v) == LET u == v % 2^type.bits IN <<u % 2^(Payload + 1), u \div 2^(Payload + 1)>>

SaveShort ==
  /\ pc = "save" /\ type.short
  /\ bytes' = ShortBytes(value)
  /\ pc' = "load"
  /\ UNCHANGED <<type, item, value, pos, t, shift>>

LoadShort ==
  /\ pc = "load" /\ type.short
  /\ t' = bytes[1] + bytes[2] * 2^(Payload + 1)
  /\ pos' = 2
  /\ pc' = "done"
  /\ UNCHANGED <<type, item, value, bytes, shift>>

\* One pass of load's loop: the bits of t from shift on are still zero
LoadByte ==
  /\ pc = "load" /\ ~type.short
  /\ LET byte == bytes[pos + 1]
         low  == byte % 2^Payload
     IN  /\ t' = (t + low * 2^shift) % 2^type.bits
         /\ pos' = pos + 1
         /\ shift' = shift + Payload
         /\ pc' = IF byte >= 2^Payload THEN "load"
                  ELSE IF type.signed /\ SignBit(low) /\ shift' < type.bits THEN "extend" ELSE "done"
  /\ UNCHANGED <<type, item, value, bytes>>

\* The bit that 1 << shift sets, 1 being an int: a shift by the width or more
\* is undefined, and either takes the shift modulo the width or leaves no bit
Shifted == IF shift < IntBits THEN {shift} ELSE {shift % IntBits, type.bits}

\* t |= -(1 << shift)
SignExtend ==
  /\ pc = "extend"
  /\ \E k \in Shifted : t' = (t % 2^k) + 2^type.bits - 2^k
  /\ pc' = "done"
  /\ UNCHANGED <<type, item, value, bytes, pos, shift>>

Done == pc = "done" /\ UNCHANGED vars

Next == SaveByte \/ SaveShort \/ LoadShort \/ LoadByte \/ SignExtend \/ Done

Spec == Init /\ [][Next]_vars

\* What load yields is what was saved, and it reads exactly the bytes of the
\* value: the next load of the archive begins where the next save began
\* (Numbers.hpp, the save and load of each integer type).
RoundTrip == pc = "done" => AsType(type, t) = item /\ pos = Len(bytes)

\* The variable length encoding is the shortest: with one byte less the value
\* would not fit (Numbers.hpp:100, :145).
Fits(y, v, n) == IF y.signed THEN v \in -(2^(n * Payload - 1)) .. 2^(n * Payload - 1) - 1
                             ELSE v < 2^(n * Payload)
Shortest == pc = "done" /\ ~type.short /\ Len(bytes) > 1 => ~Fits(type, item, Len(bytes) - 1)

-----------------------------------------------------------------------------
(* Objects. The archive of an Object has a version, the hash of the entry of *)
(* its type and the value, member by member; a type says how its values are  *)
(* saved, as the static type of a member does. A number and a byte are one   *)
(* token here: the part above shows that each takes its own bytes.           *)
(*                                                                           *)
(* Each process registers the types of the modules it loads. The hash of a   *)
(* type_info is a process's own, the hash of an entry's id is not. Archives  *)
(* travel from one process to another in datagrams.                          *)

CONSTANTS
  Sender, Receiver,
  Entries,        \* the types that objects hold
  ValueType,      \* the type that the value of each is saved and loaded as
  TypeHash,       \* type_info::hash_code of each, in each process
  IdHash,         \* hashString64 of its id
  Unsigned,       \* how many values unsigned has
  Objects,        \* the objects that are sent
  Null,           \* the null Object or BufferChunk; as a token: an exception
  MaxSent         \* bound: datagrams on their way

\* No two hashes of a process are equal.
ObjectsAssumption ==
  \A p \in {Sender, Receiver} :
    /\ \A d, e \in Entries : d # e => TypeHash[p][d] # TypeHash[p][e] /\ IdHash[d] # IdHash[e]
    /\ \A d, e \in Entries : TypeHash[p][d] # IdHash[e]

VARIABLES
  entryMap,       \* the entries by hash, of each process
  wire,           \* the archives on their way
  sent,           \* what they were made of
  outcome         \* of the last call since an entry was registered: the call, the object
                  \* meant, the one loaded, what was not read

objectVars == <<entryMap, wire, sent, outcome>>

find(p, hash) == IF hash \in DOMAIN entryMap[p] THEN entryMap[p][hash] ELSE Null

Version == 2
Got(v, rest) == [ok |-> TRUE, v |-> v, rest |-> rest]
Thrown == [ok |-> FALSE, v |-> Null, rest |-> <<>>]
Made(F(_), r) == IF r.ok THEN Got(F(r.v), r.rest) ELSE Thrown

RECURSIVE Save(_, _, _), Load(_, _, _)

\* Values one after the other
SaveAll(p, types, vals) == FlattenSeq([i \in DOMAIN vals |-> Save(p, types[i], vals[i])])
LoadNext(p, r, y) ==
  LET n == Load(p, y, r.rest) IN IF r.ok /\ n.ok THEN Got(Append(r.v, n.v), n.rest) ELSE Thrown
LoadAll(p, types, in) == FoldLeft(LAMBDA r, y : LoadNext(p, r, y), Got(<<>>, in), types)

\* A stream that ends yields no number; what follows then, bad_alloc at last, is an exception.
LoadNumber(in) == IF in = <<>> THEN Thrown ELSE Got(Head(in), Tail(in))
SaveBool(b) == <<IF b THEN 1 ELSE 0>>
LoadBool(in) == Made(LAMBDA n : n # 0, LoadNumber(in))

\* A length of 32 bits, and the bytes
Length(seq) == Len(seq) % Unsigned
SaveBytes(seq) == <<Length(seq)>> \o seq
LoadBytes(in) ==
  LET n == LoadNumber(in)
  IN  IF ~n.ok \/ Len(n.rest) < n.v THEN Thrown
      ELSE Got(SubSeq(n.rest, 1, n.v), SubSeq(n.rest, n.v + 1, Len(n.rest)))

Repeat(n, y) == [i \in 1 .. n |-> y]
SaveVector(p, y, vals) == <<Length(vals)>> \o SaveAll(p, Repeat(Len(vals), y), vals)
LoadVector(p, y, in) ==
  LET n == LoadNumber(in) IN IF n.ok THEN LoadAll(p, Repeat(n.v, y), n.rest) ELSE Thrown

\* Sets and maps: their elements in the order of the container; of two with
\* one key the first stays, as in emplace_hint.
SaveSet(p, y, elems) == SaveVector(p, y, SetToSeq(elems))
LoadSet(p, y, in) == Made(LAMBDA vals : ToSet(vals), LoadVector(p, y, in))
SaveMap(p, y, m) == SaveVector(p, y, SetToSeq({<<k, m[k]>> : k \in DOMAIN m}))
LoadMap(p, y, in) ==
  Made(LAMBDA pairs : [k \in {pair[1] : pair \in ToSet(pairs)} |->
                         pairs[SelectInSeq(pairs, LAMBDA pair : pair[1] = k)][2]],
       LoadVector(p, y, in))

\* The types of the members of those that are saved member by member
Pair(y) == <<y[2], y[3]>>
Complex == <<<<"number">>, <<"number">>>>
DType == <<<<"number">>, <<"number">>, <<"number">>>>
Label == <<<<"bytes">>, <<"object">>, <<"number">>, <<"number">>>>
Packet == <<<<"chunk">>, <<"map", <<"pair", <<"bytes">>, <<"object">>>>>>, <<"vector", <<"label">>>>>>
MembersOf(y) == CASE y[1] = "pair" -> Pair(y) [] y[1] = "complex" -> Complex [] y[1] = "dtype" -> DType
                  [] y[1] = "label" -> Label [] y[1] = "packet" -> Packet

\* The hash of the id and the value, saved by the entry that the type has here.
SavePolymorphic(p, obj) ==
  LET e == find(p, TypeHash[p][obj.type])
  IN  IF e = Null THEN <<Null>> ELSE <<IdHash[e]>> \o Save(p, ValueType[e], obj.value)
LoadPolymorphic(p, in) ==
  LET hash == LoadNumber(in)
      e == find(p, hash.v)
  IN  IF ~hash.ok \/ e = Null THEN Thrown
      ELSE Made(LAMBDA v : [type |-> e, value |-> v], Load(p, ValueType[e], hash.rest))

SaveObject(p, obj) == SaveBool(obj = Null) \o IF obj = Null THEN <<>> ELSE SavePolymorphic(p, obj)
LoadObject(p, in) ==
  LET isNull == LoadBool(in)
  IN  IF ~isNull.ok THEN Thrown
      ELSE IF isNull.v THEN Got(Null, isNull.rest) ELSE LoadPolymorphic(p, isNull.rest)

SaveChunk(p, c) ==
  SaveBool(c = Null) \o IF c = Null THEN <<>> ELSE SaveBytes(c.buffer) \o Save(p, <<"dtype">>, c.dtype)
LoadChunk(p, in) ==
  LET isNull == LoadBool(in)
  IN  IF ~isNull.ok THEN Thrown ELSE IF isNull.v THEN Got(Null, isNull.rest)
      ELSE Made(LAMBDA vals : [buffer |-> vals[1], dtype |-> vals[2]],
                LoadAll(p, <<<<"bytes">>, <<"dtype">>>>, isNull.rest))

\* Object::serialize and deserialize: an archive begins with the version.
serialize(p, obj) == <<Version>> \o SaveObject(p, obj)
deserialize(p, in) == LET ver == LoadNumber(in) IN IF ver.ok THEN LoadObject(p, ver.rest) ELSE Thrown

\* A proxy of the managed environment: an archive of its own inside of the archive.
SaveProxy(p, proxy) == SaveBytes(proxy.env) \o SaveBytes(serialize(p, proxy.obj))
LoadProxy(p, in) ==
  LET r == LoadAll(p, <<<<"bytes">>, <<"bytes">>>>, in)
      obj == deserialize(p, r.v[2])
  IN  IF r.ok /\ obj.ok THEN Got([env |-> r.v[1], obj |-> obj.v], r.rest) ELSE Thrown

Save(p, y, v) ==
  CASE y[1] = "number" -> <<v>> [] y[1] = "bool" -> SaveBool(v) [] y[1] = "bytes" -> SaveBytes(v)
    [] y[1] = "vector" -> SaveVector(p, y[2], v) [] y[1] = "set" -> SaveSet(p, y[2], v)
    [] y[1] = "map" -> SaveMap(p, y[2], v) [] y[1] = "object" -> SaveObject(p, v)
    [] y[1] = "chunk" -> SaveChunk(p, v) [] y[1] = "proxy" -> SaveProxy(p, v)
    [] OTHER -> SaveAll(p, MembersOf(y), v)

Load(p, y, in) ==
  CASE y[1] = "number" -> LoadNumber(in) [] y[1] = "bool" -> LoadBool(in) [] y[1] = "bytes" -> LoadBytes(in)
    [] y[1] = "vector" -> LoadVector(p, y[2], in) [] y[1] = "set" -> LoadSet(p, y[2], in)
    [] y[1] = "map" -> LoadMap(p, y[2], in) [] y[1] = "object" -> LoadObject(p, in)
    [] y[1] = "chunk" -> LoadChunk(p, in) [] y[1] = "proxy" -> LoadProxy(p, in)
    [] OTHER -> LoadAll(p, MembersOf(y), in)

-----------------------------------------------------------------------------
Outcome(call, obj, v, rest) == [call |-> call, obj |-> obj, v |-> v, rest |-> rest]
NoOutcome == Outcome("none", Null, Null, <<>>)

ObjectsInit ==
  /\ entryMap = [p \in {Sender, Receiver} |-> <<>>]
  /\ wire = <<>> /\ sent = <<>> /\ outcome = NoOutcome

\* The constructor of an entry, when the module that has it is loaded
Register(p, e) ==
  /\ entryMap' = [entryMap EXCEPT ![p] = [h \in DOMAIN @ \cup {TypeHash[p][e], IdHash[e]} |->
                                            IF h \in {TypeHash[p][e], IdHash[e]} THEN e ELSE @[h]]]
  /\ outcome' = NoOutcome /\ UNCHANGED <<wire, sent>>

\* An archive that is not complete is dropped with its datagram.
Send(obj) ==
  /\ Len(wire) < MaxSent
  /\ LET archive == serialize(Sender, obj)
         ok == ~Contains(archive, Null)
     IN  /\ wire' = IF ok THEN Append(wire, archive) ELSE wire
         /\ sent' = IF ok THEN Append(sent, obj) ELSE sent
         /\ outcome' = Outcome(IF ok THEN "sent" ELSE "refused", obj, Null, <<>>)
  /\ UNCHANGED entryMap

Receive ==
  /\ wire # <<>>
  /\ LET r == deserialize(Receiver, Head(wire))
     IN  outcome' = Outcome(IF r.ok THEN "received" ELSE "thrown", Head(sent), r.v, r.rest)
  /\ wire' = Tail(wire) /\ sent' = Tail(sent) /\ UNCHANGED entryMap

ObjectsNext ==
  \/ \E p \in {Sender, Receiver}, e \in Entries : Register(p, e)
  \/ \E obj \in Objects : Send(obj)
  \/ Receive

(* An object arrives as it was sent, to the last token of the archive,     *)
(* however deep it is and whatever each process calls its types; or an     *)
(* exception says that a type is not registered, at the sender before      *)
(* anything was sent, or at the receiver.                                  *)
Registered(p) == {e \in Entries : find(p, TypeHash[p][e]) = e /\ find(p, IdHash[e]) = e}
ObjectsArrive ==
  /\ outcome.call = "received" => outcome.v = outcome.obj /\ outcome.rest = <<>>
  /\ outcome.call = "refused" => Registered(Sender) # Entries
  /\ outcome.call = "thrown" => Registered(Receiver) # Entries
=============================================================================
