--------------------------- MODULE NumericConvert ---------------------------
(* The conversions of numbers and of vectors of numbers                      *)
(* (Object/Builtin/ConvertCommonImpl.hpp and the files that register them).  *)
(* Widths are scaled down: an integer type has a range, a floating type a    *)
(* precision, in which a whole number may have to be rounded, and a largest  *)
(* value. Only whole numbers are converted: the fraction of a floating value *)
(* is dropped by every conversion to an integer type.                        *)
EXTENDS Integers, Sequences, SequencesExt

CONSTANTS
  DoublePrecision, \* digits of the type double
  Interm,         \* the intermediate type each type is converted to first
  Direct,         \* the pairs of types with a converter of their own
  Pairs,          \* the pairs of types to convert between
  Reals,          \* real parts converted, those of the type among them
  Imags,          \* imaginary parts converted
  Infinity,       \* larger than every finite value
  NaN,            \* not a number: a number that stands for nothing else
  MaxLen          \* bound: elements of a vector

VARIABLES
  from, to,       \* the conversion asked for
  isVec,          \* of a vector, or of a number
  input,          \* what is converted: complex numbers, real ones without imaginary part
  at,             \* the type converted so far
  cur,            \* its elements
  out,            \* the elements converted to the next type
  pc

vars == <<from, to, isVec, input, at, cur, out, pc>>

Magnitude(v) == IF v < 0 THEN -v ELSE v

\* v rounded to p binary digits, half to even
RoundTo(p, v) ==
  IF v = NaN \/ Magnitude(v) = Infinity THEN v ELSE
  LET m == Magnitude(v)
      e == CHOOSE k \in 0 .. m : m < 2^(p + k) /\ (k = 0 \/ m >= 2^(p + k - 1))
      q == m \div 2^e
      r == 2 * (m % 2^e)
      n == IF r > 2^e \/ (r = 2^e /\ q % 2 = 1) THEN (q + 1) * 2^e ELSE q * 2^e
  IN  IF v < 0 THEN -n ELSE n

Double(v) == RoundTo(DoublePrecision, v)

\* The whole numbers of a type among the ones converted
Has(y, v) == IF y.int THEN v # NaN /\ y.lowest <= v /\ v <= y.max
             ELSE RoundTo(y.precision, v) = v /\ (v = NaN \/ Magnitude(v) = Infinity \/ Magnitude(v) <= y.max)

NumbersOf(y) == {x \in Reals : Has(y, x)} \X (IF y.complex THEN Imags ELSE {0})

Init ==
  /\ \E p \in Pairs : from = p[1] /\ to = p[2]
  /\ isVec \in BOOLEAN
  /\ input \in BoundedSeq(NumbersOf(from), MaxLen)
  /\ isVec \/ Len(input) = 1
  /\ at = from /\ cur = input /\ out = <<>>
  /\ pc = "convert"

\* The next type on the way, through the intermediate one if there is no
\* converter for the pair
NextType == IF <<at, to>> \in Direct THEN to ELSE Interm[at]

\* The value does not fit into the output type: compared as double
OutOfRange(y, v) ==
  v # NaN /\ (Double(v) > Double(y.max) \/ Double(v) < Double(y.lowest))

\* convertNumCheck; there is none when the output is complex
CheckFails(y, z) ==
  /\ ~y.complex
  /\ z[2] # 0 \/ OutOfRange(y, z[1])

\* The outcomes of OutType(v) for a v of type x: integers wrap, a floating
\* value outside of an integer type is undefined
Cast(x, y, v) ==
  IF y.int THEN IF Has(y, v) THEN {v}
                ELSE IF x.int THEN {w \in y.lowest .. y.max : (w - v) % (y.max - y.lowest + 1) = 0}
                ELSE y.lowest .. y.max
  ELSE LET w == RoundTo(y.precision, v)
       IN  IF w = NaN \/ Magnitude(w) <= y.max THEN {w}
           ELSE {IF w < 0 THEN -Infinity ELSE Infinity}

CastNumber(x, y, z) == Cast(x, y, z[1]) \X (IF y.complex THEN Cast(x, y, z[2]) ELSE {0})

\* Mutant: the sizes of the types are not compared.
AnySize(x, y) == ~x.complex /\ ~y.complex /\ (x.lowest = 0 \/ y.lowest # 0) /\ (x.int \/ ~y.int)

\* The vectors converted without looking at their elements
CanConvertWithoutValidation(x, y) ==
  /\ ~x.complex /\ ~y.complex
  /\ x.size < y.size
  /\ x.lowest = 0 \/ y.lowest # 0
  /\ x.int \/ ~y.int

Unchecked(x, y) == CanConvertWithoutValidation(x, y) \/ (x.complex /\ y.complex)

Arrived(y, s) ==
  /\ at' = y /\ cur' = s /\ out' = <<>>
  /\ pc' = IF y = to THEN "done" ELSE "convert"

\* simdConvertVec
SimdConvert ==
  /\ pc = "convert" /\ isVec /\ Unchecked(at, NextType)
  /\ \E s \in BoundedSeq(UNION {CastNumber(at, NextType, cur[i]) : i \in DOMAIN cur}, MaxLen) :
       /\ Len(s) = Len(cur)
       /\ \A i \in DOMAIN s : s[i] \in CastNumber(at, NextType, cur[i])
       /\ Arrived(NextType, s)
  /\ UNCHANGED <<from, to, isVec, input>>

Manual == pc = "convert" /\ ~(isVec /\ Unchecked(at, NextType))

\* convertNum of the next element
ConvertNum ==
  /\ Manual /\ Len(out) < Len(cur)
  /\ LET z == cur[Len(out) + 1]
     IN  IF CheckFails(NextType, z)
         THEN pc' = "thrown" /\ UNCHANGED out
         ELSE /\ \E w \in CastNumber(at, NextType, z) : out' = Append(out, w)
              /\ UNCHANGED pc
  /\ UNCHANGED <<from, to, isVec, input, at, cur>>

Converted ==
  /\ Manual /\ Len(out) = Len(cur)
  /\ Arrived(NextType, out)
  /\ UNCHANGED <<from, to, isVec, input>>

Done == pc \in {"done", "thrown"} /\ UNCHANGED vars

Next == SimdConvert \/ ConvertNum \/ Converted \/ Done

Spec == Init /\ [][Next]_vars

-----------------------------------------------------------------------------
\* z of the type x is a number of the type y, possibly after rounding
FitsInto(y, z) ==
  /\ y.complex \/ z[2] = 0
  /\ \A k \in 1 .. 2 : LET v == z[k] IN
       IF y.int THEN Has(y, v)
       ELSE v = NaN \/ Magnitude(v) = Infinity \/ Magnitude(RoundTo(y.precision, v)) <= y.max

Represents(y, z, w) ==
  \A k \in 1 .. 2 : w[k] = IF y.int THEN z[k] ELSE RoundTo(y.precision, z[k])

\* A conversion that returns has kept every value: each element is the input,
\* rounded to the output's precision at most, whatever intermediate type it
\* went through and whether its elements were validated (convertNumCheck,
\* CanConvertWithoutValidation).
ValueKept ==
  pc = "done" => \A i \in DOMAIN input :
                   FitsInto(to, input[i]) /\ Represents(to, input[i], cur[i])

\* A conversion that throws had a value that does not fit: what fits is
\* converted, through any intermediate type (convertNumCheck).
OnlyMisfitsThrow ==
  pc = "thrown" => \E i \in DOMAIN input :
    \/ ~FitsInto(to, input[i])
    \/ ~to.int /\ input[i][1] # NaN /\ Magnitude(input[i][1]) = Infinity
=============================================================================
