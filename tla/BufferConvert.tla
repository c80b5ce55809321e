--------------------------- MODULE BufferConvert ---------------------------
(***************************************************************************)
(* DType, and the conversions of buffer chunks between DTypes              *)
(* (DType.cpp, BufferConvert.cpp, SIMDConvert.cpp).  A chunk of any type,  *)
(* dimension and length is converted to any type by one of the four        *)
(* overloads, in a build for any of the instruction sets.  What a scalar   *)
(* of a buffer holds is the place of the scalar it was cast from: a cast   *)
(* keeps it, and memory that nothing was written to holds Junk.            *)
(***************************************************************************)
EXTENDS Integers, Sequences, FiniteSets

LOCAL INSTANCE Functions

CONSTANTS
  LongBytes,    \* sizeof(long): POCO_LONG_IS_64_BIT
  Isas,         \* what the instruction sets can do, one record for each
  Dimensions,   \* the dimensions of the DTypes that are made
  Elements,     \* the lengths of the chunks, in elements
  Nums,         \* how many elements are asked for, 0 for all
  Junk, Zero, Unknown, NoDim

ConvertAssumption ==
  /\ LongBytes \in {4, 8}
  /\ 1 \in Dimensions /\ Dimensions \subseteq Nat \ {0} /\ Elements \subseteq Nat /\ Nums \subseteq Nat
  /\ \A isa \in Isas : \A bytes \in {1, 2, 4, 8} : isa.fast[bytes] \in Nat \ {0}

VARIABLES
  types,    \* ElementTypeSuperMap: what is known of the element types
  maps,     \* BufferConvertImpl: the keys of the two maps of converters
  isa,      \* the instruction set that the process was dispatched to
  chunk,    \* the chunk to convert
  asked,    \* the conversion asked for: overload, output DType, elements
  result    \* what it returned or threw

vars == <<types, maps, isa, chunk, asked, result>>

-----------------------------------------------------------------------------
(* The element types: flags, and the size in the two highest bits.         *)

Custom == 1
Signed == 2
Integer == 4
Float == 8
Complex == 16
Bytes(n) == 32 * (CASE n = 1 -> 0 [] n = 2 -> 1 [] n = 4 -> 2 [] n = 8 -> 3)
Length == 128

EmptyType == 0
CustomType == Custom

Has(elemType, flag) == (elemType \div flag) % 2 = 1

(* The calls of loadType for the real types, in the order of the           *)
(* constructor: the C++ type, its size, the element type and the name.     *)
LoadNumeric(type, size, code, name) == <<[type |-> type, size |-> size, code |-> code, name |-> name]>>

LoadInteger(word, size, name) ==
     LoadNumeric("signed " \o word, size, Signed + Integer + Bytes(size), "s" \o name)
  \o LoadNumeric("signed " \o word, size, Signed + Integer + Bytes(size), name)
  \o LoadNumeric("unsigned " \o word, size, Integer + Bytes(size), "u" \o name)

RealLoads ==
     LoadNumeric("char", 1, Signed + Integer + Bytes(1), "int8")
  \o LoadInteger("char", 1, "int8") \o LoadInteger("short", 2, "int16") \o LoadInteger("int", 4, "int32")
  \o LoadInteger("long", LongBytes, IF LongBytes = 8 THEN "int64" ELSE "int32")
  \o LoadInteger("long long", 8, "int64")
  \o LoadNumeric("float", 4, Float + Bytes(4), "float32")
  \o LoadNumeric("double", 8, Float + Bytes(8), "float64")

\* loadNumericType: the complex type right after the real one
Loads ==
  LET loads == RealLoads
      Cplx(l) == [type |-> "complex " \o l.type, size |-> 2 * l.size,
                  code |-> Complex + l.code, name |-> "complex_" \o l.name]
  IN  [i \in 1..(2 * Len(loads)) |->
         LET l == loads[(i + 1) \div 2] IN IF i % 2 = 1 THEN l ELSE Cplx(l)]

\* The special cases, which have no C++ type
Entries ==
  Loads \o << [type |-> "", size |-> 1, code |-> EmptyType, name |-> "unspecified"],
              [type |-> "", size |-> 1, code |-> CustomType, name |-> "custom"] >>

\* declareNativeAlias for a word, with and without a letter for the sign
NativeAliases ==
  LET words == [w \in {"char", "short", "int", "long", "long long", "longlong", "llong"} |->
                  CASE w = "char" -> 1 [] w = "short" -> 2 [] w = "int" -> 4
                    [] w = "long" -> LongBytes [] OTHER -> 8]
  IN  {[name |-> sign \o w, code |-> Integer + Bytes(words[w]) + (IF sign = "u" THEN 0 ELSE Signed)] :
         sign \in {"", "s", "u"}, w \in DOMAIN words}

\* _aliasToElementType, without the names that the compiler has for the types
Aliases ==
  NativeAliases
  \cup {[name |-> e.name, code |-> e.code] : e \in Range(Entries)}
  \cup {[name |-> "", code |-> EmptyType],
        [name |-> "byte", code |-> Signed + Integer + Bytes(1)],
        [name |-> "octet", code |-> Signed + Integer + Bytes(1)],
        [name |-> "float", code |-> Float + Bytes(4)], [name |-> "double", code |-> Float + Bytes(8)],
        [name |-> "complex64", code |-> Complex + Float + Bytes(4)],
        [name |-> "complex128", code |-> Complex + Float + Bytes(8)]}

\* The constructor of the map; of several entries for a key the last stays.
ElementTypeSuperMap ==
  LET entries == Entries
      aliases == Aliases
      last(at) == CHOOSE i \in at : \A j \in at : j <= i
      byCode == [c \in {e.code : e \in Range(entries)} |->
                   entries[last({i \in DOMAIN entries : entries[i].code = c})]]
  IN  [size  |-> [c \in DOMAIN byCode |-> byCode[c].size],
       name  |-> [c \in DOMAIN byCode |-> byCode[c].name],
       type  |-> [t \in {e.type : e \in Range(entries)} \ {""} |->
                    entries[last({i \in DOMAIN entries : entries[i].type = t})].code],
       alias |-> [n \in {a.name : a \in aliases} |-> (CHOOSE a \in aliases : a.name = n).code]]

LookupElemSize(code) == types.size[code]
LookupElemName(code) == types.name[code]
LookupElemType(type) == types.type[type]

\* lookupAlias, which throws for a name it does not have
LookupAlias(alias) == IF alias \in DOMAIN types.alias THEN types.alias[alias] ELSE Unknown

-----------------------------------------------------------------------------
(* DType: an element type, its size and the dimension.                     *)

DTypeOf(code, dimension) == [elemType |-> code, elemSize |-> LookupElemSize(code), dimension |-> dimension]

(* parseMarkupName: the name, blanks around it, and the text behind a      *)
(* comma.  Only a markup with a comma is trimmed.                          *)
ParseMarkup(markup) ==
  LET code == IF markup.dim = NoDim /\ markup.blanks THEN Unknown ELSE LookupAlias(markup.name)
  IN  IF code = Unknown THEN Unknown
      ELSE DTypeOf(code, IF markup.dim = NoDim THEN 1 ELSE markup.dim)

Size(dtype) == dtype.elemSize * dtype.dimension

IsCustom(dtype) == Has(dtype.elemType, Custom)
IsFloat(dtype) == Has(dtype.elemType, Float)
IsInteger(dtype) == Has(dtype.elemType, Integer)
IsSigned(dtype) == Has(dtype.elemType, Signed)
IsComplex(dtype) == Has(dtype.elemType, Complex)

ToMarkup(dtype) ==
  [name |-> LookupElemName(dtype.elemType), blanks |-> FALSE,
   dim |-> IF dtype.dimension # 1 \/ IsCustom(dtype) THEN dtype.dimension ELSE NoDim]

DTypes == {DTypeOf(c, d) : c \in DOMAIN types.size, d \in Dimensions}

-----------------------------------------------------------------------------
(* simdConvertBuffer for scalar types, as element types.                   *)

RealCode(code) == IF Has(code, Complex) THEN code - Complex ELSE code
NeitherComplex(i, o) == ~Has(i, Complex) /\ ~Has(o, Complex)
BothComplex(i, o) == Has(i, Complex) /\ Has(o, Complex)

FastSize(code) == isa.fast[LookupElemSize(code)]
Supported(code) == <<Has(code, Float), LookupElemSize(code)>> \in isa.simd

\* canConvertTo: integers of four bytes to one are "Buggy"
CanConvertTo(i, o) ==
  LET from == LookupElemSize(i)
      to == LookupElemSize(o)
  IN  CASE ~Has(i, Float) /\ from = 4 -> to # 1
        [] ~Has(i, Float) /\ from = 8 -> Has(o, Float) /\ <<"int64 to float", to>> \in isa.conversions
        [] Has(i, Float) /\ ~Has(o, Float) /\ to = 8 ->
             <<IF Has(o, Signed) THEN "float to int64" ELSE "float to uint64", from>> \in isa.conversions
        [] Has(i, Float) /\ from = 8 /\ ~Has(o, Float) /\ ~Has(o, Signed) /\ to = 4 ->
             <<"float to uint32", 8>> \in isa.conversions
        [] OTHER -> TRUE

CanInstructionSetConvert(i, o) ==
  /\ NeitherComplex(i, o) /\ i # o
  /\ ~(Has(i, Float) /\ Has(o, Integer))
  /\ Supported(i) /\ Supported(o) /\ CanConvertTo(i, o)

\* The overloads that the enable_if of each leaves for a pair of types
Overloads(i, o) ==
       (IF CanInstructionSetConvert(i, o) THEN {"simd"} ELSE {})
  \cup (IF i = o /\ ~Has(i, Complex) THEN {"memcpy"} ELSE {})
  \cup (IF ~CanInstructionSetConvert(i, o) /\ NeitherComplex(i, o) /\ i # o THEN {"loop"} ELSE {})
  \cup (IF BothComplex(i, o) THEN {"components"} ELSE {})

\* Mutant: what remains after the frames is left out.
FramesAlone(i, o, n) == {k \in 0..(n - 1) : k < FastSize(i) * (n \div FastSize(i))}

\* The whole frames, and what remains
FramesAndRest(i, o, n) ==
  LET numFrames == n \div FastSize(i)
  IN  {FastSize(i) * f + k : f \in 0..(numFrames - 1), k \in 0..(FastSize(i) - 1)}
      \cup (FastSize(i) * numFrames)..(n - 1)

\* The scalars that are read, cast and written at the same place
Places(i, o, n) ==
  CASE Overloads(i, o) = {"simd"} -> FramesAndRest(i, o, n)
    [] Overloads(i, o) \in {{"memcpy"}, {"loop"}} -> 0..(n - 1)
    [] Overloads(i, o) = {"components"} ->
         IF CanInstructionSetConvert(RealCode(i), RealCode(o))
         THEN FramesAndRest(RealCode(i), RealCode(o), 2 * n) ELSE 0..(2 * n - 1)

-----------------------------------------------------------------------------
(* BufferChunk: DType, length in bytes, and the scalars of the memory.     *)

ScalarSize(dtype) == LookupElemSize(RealCode(dtype.elemType))
NumElements(c) == c.length \div Size(c.dtype)

NewChunk(dtype, numElems) ==
  [dtype |-> dtype, length |-> Size(dtype) * numElems,
   data |-> [k \in 0..((Size(dtype) * numElems) \div ScalarSize(dtype) - 1) |-> Junk]]

(* The memory of a chunk after values were written to places of it; what   *)
(* is written outside of it shows as places that a chunk does not have.    *)
Store(c, values) ==
  [c EXCEPT !.data = [k \in DOMAIN c.data \cup DOMAIN values |->
                        IF k \in DOMAIN values THEN values[k] ELSE c.data[k]]]

\* A scalar of the chunk that is converted; Junk is what is next to it
Load(k) == IF k \in DOMAIN chunk.data THEN chunk.data[k] ELSE Junk

\* int8_t to uint64_t, float and double
Types ==
  {sign \o word : sign \in {"signed ", "unsigned "},
                  word \in {"char", "short", "int", IF LongBytes = 8 THEN "long" ELSE "long long"}}
  \cup {"float", "double"}

DtypeIOToHash(i, o) == i + 65536 * o

HashOf(i, o) == DtypeIOToHash(LookupElemType(i), LookupElemType(o))

\* registerConverters
BufferConvertImpl ==
  LET both == Types \X Types IN
  [convert |->      {HashOf(t[1], t[2]) : t \in both}
               \cup {HashOf(t[1], "complex " \o t[2]) : t \in both}
               \cup {HashOf("complex " \o t[1], "complex " \o t[2]) : t \in both},
   convertComplex |-> {HashOf("complex " \o t[1], t[2]) : t \in both}]

InMap(map, dtype) == DtypeIOToHash(chunk.dtype.elemType, dtype.elemType) \in map

\* rawConvertRealToComplex, or simdConvertBuffer
Run(out, n) ==
  LET i == chunk.dtype.elemType
      o == out.dtype.elemType
  IN  IF ~Has(i, Complex) /\ Has(o, Complex)
      THEN Store(out, [k \in 0..(2 * n - 1) |-> IF k % 2 = 0 THEN Load(k \div 2) ELSE Zero])
      ELSE Store(out, [k \in Places(i, o, n) |-> Load(k)])

\* rawConvertComponents, of the real parts (0) or of the imaginary ones (1)
RunComponents(out, n, part) == Store(out, [k \in 0..(n - 1) |-> Load(2 * k + part)])

-----------------------------------------------------------------------------
None == [status |-> "none", outs |-> <<>>, count |-> 0]
Thrown == [None EXCEPT !.status = "thrown"]
Returned(outs, count) == [status |-> "ok", outs |-> outs, count |-> count]

Init ==
  /\ types = ElementTypeSuperMap /\ maps = BufferConvertImpl
  /\ isa \in Isas
  /\ \E dtype \in DTypes, n \in Elements :
       chunk = LET c == NewChunk(dtype, n) IN [c EXCEPT !.data = [k \in DOMAIN c.data |-> k]]
  /\ asked = [parts |-> 1, dtype |-> chunk.dtype, numElems |-> 0, into |-> <<>>]
  /\ result = None

\* The number that is asked for; none stands for all
NumElems(num) == IF num = 0 THEN NumElements(chunk) ELSE num

PrimElems(num) == (NumElems(num) * Size(chunk.dtype)) \div chunk.dtype.elemSize
OutElems(num, dtype) == (PrimElems(num) * Size(dtype)) \div dtype.elemSize

\* Mutant: types of the same size are not converted.
SameSize(dtype) == dtype.elemSize = chunk.dtype.elemSize

\* "same dtype or integers of same type (ignore signedness)"
Shared(dtype) ==
  \/ dtype.elemType = chunk.dtype.elemType
  \/ /\ dtype.elemSize = chunk.dtype.elemSize
     /\ IsInteger(dtype) = IsInteger(chunk.dtype)
     /\ IsComplex(dtype) = IsComplex(chunk.dtype)

Ask(parts, dtype, num, into) ==
  /\ result = None
  /\ asked' = [parts |-> parts, dtype |-> dtype, numElems |-> num, into |-> into]
  /\ UNCHANGED <<types, maps, isa, chunk>>

\* convert(outDType, numElems)
Convert(dtype, num) ==
  /\ Ask(1, dtype, num, <<>>)
  /\ result' =
       IF Shared(dtype)
       THEN Returned(<<[chunk EXCEPT !.dtype = dtype, !.length = Size(dtype) * OutElems(num, dtype)]>>, 0)
       ELSE IF ~InMap(maps.convert, dtype) THEN Thrown
       ELSE Returned(<<Run(NewChunk(dtype, OutElems(num, dtype)), PrimElems(num))>>, 0)

\* convertComplex(outDType, numElems)
ConvertComplex(dtype, num) ==
  /\ Ask(2, dtype, num, <<>>)
  /\ result' =
       IF ~InMap(maps.convertComplex, dtype) THEN Thrown
       ELSE LET new == NewChunk(dtype, OutElems(num, dtype))
            IN  Returned([p \in 1..2 |-> RunComponents(new, PrimElems(num), p - 1)], 0)

\* convert(out, numElems)
ConvertInto(out, num) ==
  /\ Ask(1, out.dtype, num, <<out>>)
  /\ result' =
       IF \/ NumElements(out) < OutElems(num, out.dtype)
          \/ ~InMap(maps.convert, out.dtype)
       THEN Thrown ELSE Returned(<<Run(out, PrimElems(num))>>, OutElems(num, out.dtype))

\* convertComplex(outRe, outIm, numElems)
ConvertComplexInto(re, im, num) ==
  /\ Ask(2, re.dtype, num, <<re, im>>)
  /\ result' =
       IF \/ re.dtype # im.dtype
          \/ NumElements(re) < OutElems(num, re.dtype) \/ NumElements(im) < OutElems(num, re.dtype)
          \/ ~InMap(maps.convertComplex, re.dtype)
       THEN Thrown
       ELSE Returned(<<RunComponents(re, PrimElems(num), 0), RunComponents(im, PrimElems(num), 1)>>,
                     OutElems(num, re.dtype))

Next ==
  /\ result = None
  /\ \E num \in {k \in Nums : k <= NumElements(chunk)}, dtype \in DTypes :
       \/ Convert(dtype, num) \/ ConvertComplex(dtype, num)
       \/ \E m \in Elements :
            \/ ConvertInto(NewChunk(dtype, m), num)
            \/ \E other \in {NewChunk(dtype, m), NewChunk(dtype, 0), NewChunk(chunk.dtype, m)} :
                 ConvertComplexInto(NewChunk(dtype, m), other, num)

Spec == Init /\ [][Next]_vars

-----------------------------------------------------------------------------
Numeric == DOMAIN types.size \ {EmptyType, CustomType}

(* A DType is what its name says: the markup of it makes it again, the     *)
(* flags and the size that its element type holds are those of its size in *)
(* bytes, and the key of the maps of converters can be taken apart again.  *)
DTypeFaithful ==
  LET d == chunk.dtype
      realSize == IF IsComplex(d) THEN d.elemSize \div 2 ELSE d.elemSize
  IN  /\ ParseMarkup(ToMarkup(d)) = d
      /\ d.elemType \in 0..(Length - 1)
      /\ IsInteger(d) /\ IsFloat(d) => FALSE
      /\ d.elemType \in Numeric => 2 ^ (d.elemType \div Bytes(2)) = realSize
      /\ LET hash == DtypeIOToHash(d.elemType, asked.dtype.elemType)
         IN  hash % 65536 = d.elemType /\ hash \div 65536 = asked.dtype.elemType

\* Whatever the instruction set, the enable_ifs leave one overload of
\* simdConvertBuffer for two types that are both real or both complex.
OneOverload ==
  LET i == chunk.dtype.elemType
      o == asked.dtype.elemType
  IN  {i, o} \subseteq Numeric /\ Has(i, Complex) = Has(o, Complex) => Cardinality(Overloads(i, o)) = 1

\* What the scalar k of the output is to be: the reference
Scalar(part, k) ==
  IF asked.parts = 2 THEN chunk.data[2 * k + part - 1]
  ELSE IF IsComplex(asked.dtype) /\ ~IsComplex(chunk.dtype)
       THEN IF k % 2 = 0 THEN chunk.data[k \div 2] ELSE Zero
  ELSE chunk.data[k]

(* "a new buffer chunk with converted elements": whichever overload and    *)
(* instruction set, with frames of registers and a rest, every element     *)
(* that was asked for is converted in its place and nothing else in memory *)
(* is touched.  For output types of dimension one the length and the count *)
(* are the number of elements.                                             *)
ElementsConverted ==
  result.status = "ok" =>
    LET n == PrimElems(asked.numElems)
        scalars == IF IsComplex(asked.dtype) THEN 2 * n ELSE n
    IN  \A p \in DOMAIN result.outs :
          LET out == result.outs[p] IN
          /\ out.dtype = asked.dtype
          /\ \A k \in 0..(scalars - 1) : out.data[k] = Scalar(p, k)
          /\ asked.into # <<>> =>
               /\ DOMAIN out.data = DOMAIN asked.into[p].data
               /\ \A k \in DOMAIN out.data : k >= scalars => out.data[k] = Junk
          /\ asked.dtype.dimension = 1 =>
               /\ IF asked.into = <<>> THEN NumElements(out) = n ELSE result.count = n
               /\ out.length \div ScalarSize(out.dtype) <= Cardinality(DOMAIN out.data)
               /\ DOMAIN out.data = 0..(Cardinality(DOMAIN out.data) - 1)

\* The conversions there are: numbers to numbers, but no complex ones to real
\* ones; convertComplex takes complex ones apart; the special types only stay.
Possible ==
  LET i == chunk.dtype.elemType
      o == asked.dtype.elemType
  IN  /\ \/ {i, o} \subseteq Numeric /\ IF asked.parts = 1 THEN Has(i, Complex) => Has(o, Complex)
                                        ELSE Has(i, Complex) /\ ~Has(o, Complex)
         \/ asked.parts = 1 /\ asked.into = <<>> /\ {i, o} \cap Numeric = {}
      /\ \A p \in DOMAIN asked.into :
           asked.into[p].dtype = asked.dtype /\ NumElements(asked.into[p]) >= PrimElems(asked.numElems)

\* "throws BufferConvertError when the conversion is not possible", and no other.
ThrowsWhenImpossible ==
  result # None /\ asked.dtype.dimension = 1 => (result.status = "thrown" <=> ~Possible)
=============================================================================
