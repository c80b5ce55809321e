------------------------------ MODULE Callable ------------------------------
(* Callable: a function whose arguments may be bound in any order, unbound   *)
(* and given at the call (Callable/Callable.cpp), and the container of the   *)
(* function (CallableImpl.hpp). Argument numbers start at one here, at zero  *)
(* in the code; its number -1, the return type, is 0.                        *)
EXTENDS Integers, Sequences, FiniteSets, SequencesExt

CONSTANTS
  NumArgs,        \* arguments of the function
  MaxArgNo,       \* bound: the highest argument number bound, may exceed NumArgs
  MaxInputs,      \* bound: arguments given to a call
  Values,         \* objects that are bound and given
  Fits,           \* for each argument, the objects that convert to its type
  Null            \* the null Object: no binding

CallableAssumption ==
  /\ {NumArgs, MaxArgNo, MaxInputs} \subseteq Nat /\ Null \notin Values
  /\ DOMAIN Fits = 1 .. NumArgs /\ \A i \in DOMAIN Fits : Fits[i] \subseteq Values

VARIABLES
  callee,         \* _impl: the container, by what its function returns; or Null
  boundArgs,      \* _boundArgs
  inputs,         \* the arguments of the last call since a binding changed
  result          \* why it threw, the arguments passed to the function, what it returned

vars == <<callee, boundArgs, inputs, result>>

\* The function returns a value, an Object (factory, factoryNew), a reference or nothing.
Returns == {"value", "object", "reference", "void"}

NoResult == <<"none", <<>>, Null>>
Init == callee = Null /\ boundArgs = <<>> /\ inputs = <<>> /\ result = NoResult

\* The constructors, make and the factories, and the assignment of what they make.
make(r) == callee' = r /\ boundArgs' = <<>> /\ inputs' = <<>> /\ result' = NoResult

IsBound(b, i) == i <= Len(b) /\ b[i] # Null

Resized(b, n) == [i \in 1 .. (IF Len(b) < n THEN n ELSE Len(b)) |-> IF i <= Len(b) THEN b[i] ELSE Null]

bind(val, argNo) ==
  /\ boundArgs' = [Resized(boundArgs, argNo) EXCEPT ![argNo] = val]
  /\ inputs' = <<>> /\ result' = NoResult /\ UNCHANGED callee

unbind(argNo) == bind(Null, argNo)

\* One argument of the call: the bound one or the next input, then converted.
\* c is what the loop has: the arguments, the inputs used, the error.
TakeArg(b, in, c, i) ==
  LET v == IF IsBound(b, i) THEN b[i] ELSE in[c.next]
      n == IF IsBound(b, i) THEN c.next ELSE c.next + 1
  IN  IF c.error # "ok" THEN c
      ELSE IF ~IsBound(b, i) /\ Len(in) < c.next THEN [c EXCEPT !.error = "expected"]
      ELSE IF v \notin Fits[i] THEN [c EXCEPT !.error = "convert"]
      ELSE [c EXCEPT !.args = Append(@, v), !.next = n]

\* CallHelper: the object made of what the function returned for the arguments
CallHelper(r, args) == IF r = "void" THEN Null ELSE <<r, args>>

opaqueCall(b, in) ==
  LET Take(c, i) == TakeArg(b, in, c, i)
      c == FoldLeft(Take, [args |-> <<>>, next |-> 1, error |-> "ok"], [i \in 1 .. NumArgs |-> i])
  IN  IF callee = Null THEN <<"null", <<>>, Null>>
      ELSE <<c.error, c.args, IF c.error = "ok" THEN CallHelper(callee, c.args) ELSE Null>>

getNumArgs(b) == NumArgs - Cardinality({i \in 1 .. NumArgs : IsBound(b, i)})

\* One pass of the loop of type(): a bound argument is skipped, the loop ends
\* at the first that is not and that has the number asked for
Skip(b, argNo, s, i) ==
  IF s.found THEN s
  ELSE IF IsBound(b, i) THEN [s EXCEPT !.skipped = @ + 1]
  ELSE [s EXCEPT !.found = i = argNo + s.skipped]

Return == 0
Throws == -1

\* The container's type: any other number than one of an argument runs through
\* the list to the return type
typeR(argNo) == IF argNo \in 1 .. NumArgs THEN argNo ELSE Return

\* Which argument of the function type(argNo) describes
type(b, argNo) ==
  LET Step(s, i) == Skip(b, argNo, s, i)
      s == FoldLeft(Step, [skipped |-> 0, found |-> FALSE], [i \in 1 .. Len(b) |-> i])
  IN  IF callee = Null \/ argNo < Return \/ argNo > getNumArgs(b) THEN Throws
      ELSE IF argNo = Return THEN typeR(Return) ELSE typeR(argNo + s.skipped)

call(in) ==
  /\ inputs' = in
  /\ result' = opaqueCall(boundArgs, in)
  /\ UNCHANGED <<callee, boundArgs>>

Next ==
  \/ \E r \in Returns : make(r)
  \/ \E v \in Values, i \in 1 .. MaxArgNo : bind(v, i)
  \/ \E i \in 1 .. MaxArgNo : unbind(i)
  \/ \E in \in BoundedSeq(Values, MaxInputs) : call(in)

Spec == Init /\ [][Next]_vars

-----------------------------------------------------------------------------
\* Whatever was bound and unbound, in any order and past the last argument,
\* type() describes, for every input in turn, the argument that opaqueCall
\* gives that input to, and getNumArgs() inputs of these types are enough:
\* the description a caller checks against and the call agree. No other number
\* describes an argument.
Unbound(b) == SelectSeq([i \in 1 .. NumArgs |-> i], LAMBDA i : ~IsBound(b, i))
Described ==
  callee # Null =>
    /\ getNumArgs(boundArgs) = Len(Unbound(boundArgs))
    /\ \A k \in 1 .. getNumArgs(boundArgs) : type(boundArgs, k) = Unbound(boundArgs)[k]
    /\ \A k \in -1 .. MaxArgNo + 1 \ 1 .. getNumArgs(boundArgs) : type(boundArgs, k) \in {Return, Throws}

\* A call passes the bound objects at their places and the inputs in order at
\* the others: no input is dropped between two that are used.
CallPlaces ==
  result[1] = "ok" => \A i \in 1 .. NumArgs :
    IF IsBound(boundArgs, i) THEN result[2][i] = boundArgs[i]
    ELSE \E k \in DOMAIN Unbound(boundArgs) :
           k <= Len(inputs) /\ Unbound(boundArgs)[k] = i /\ result[2][i] = inputs[k]

\* A call with a number of arguments other than getNumArgs() throws: "throws
\* CallableArgumentError for bad arguments in number or type" (Callable.hpp).
WrongNumberThrows == result[1] = "ok" => Len(inputs) = getNumArgs(boundArgs)
=============================================================================
