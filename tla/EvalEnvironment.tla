-------------------------- MODULE EvalEnvironment --------------------------
(***************************************************************************)
(* EvalEnvironment: expressions are evaluated, with constants that the     *)
(* user registers.  An expression in which containers are operands is      *)
(* rewritten: each container is evaluated and registered as a constant     *)
(* __tmp__0, __tmp__1, ... which takes its place.                          *)
(*                                                                         *)
(* An expression is what splitExpr makes of its text: a record of a kind   *)
(* and its parts.  The parser adds, looks names up, and throws when a name *)
(* is not defined.                                                         *)
(***************************************************************************)
EXTENDS Naturals, Sequences, FiniteSets, SequencesExt

CONSTANTS
  Exprs,   \* the expressions that are evaluated
  Defs,    \* the expressions that constants are registered with
  Keys,    \* names of constants of the user
  Tmp,     \* the names __tmp__0, __tmp__1, ...: a sequence
  MaxLength   \* bound: characters of an expression that splitExpr reads

EvalAssumption == Keys \intersect ToSet(Tmp) = {}

VARIABLES
  constants,   \* those of the parser: a function of names
  users,       \* the constants that the user has registered, as he knows them
  last         \* the last call of eval: what it returned, and what the expression means

vars == <<constants, users, last>>

Error == <<"error">>
NoCall == <<"none">>

Init == constants = <<>> /\ users = <<>> /\ last = NoCall

Num(n) == [kind |-> "num", of |-> n]
Name(k) == [kind |-> "name", of |-> k]
List(s) == [kind |-> "list", of |-> s]       \* [ , , ]
Map(s) == [kind |-> "map", of |-> s]         \* { : , : }, keys and values in turn
Sum(s) == [kind |-> "sum", of |-> s]         \* + +

IsContainer(e) == e.kind \in {"list", "map"}
Defined(c, k) == k \in DOMAIN c
With(c, k, v) == [x \in DOMAIN c \union {k} |-> IF x = k THEN v ELSE c[x]]
Without(c, k) == [x \in DOMAIN c \ {k} |-> c[x]]

\* map.emplace: the value that a key had first stays.
Emplaced(vals) ==
  {<<vals[2 * i - 1], vals[2 * i]>> : i \in
    {j \in 1..(Len(vals) \div 2) : \A h \in 1..(j - 1) : vals[2 * h - 1] # vals[2 * j - 1]}}

Container(kind, vals) == IF kind = "list" THEN <<"list", vals>> ELSE <<"map", Emplaced(vals)>>

(* The parser's values: numbers, sums and arrays.  A map is an array with  *)
(* the text __map__ in front of its keys and values.                       *)
MapTypeId == <<"text", "__map__">>
RECURSIVE objectToMupValue(_), mupValueToObject(_)

objectToMupValue(v) ==
  CASE v[1] = "list" -> <<"array", [i \in DOMAIN v[2] |-> objectToMupValue(v[2][i])]>>
    [] v[1] = "map" ->
         <<"array", <<MapTypeId>> \o FlattenSeq([i \in 1..Cardinality(v[2]) |->
            LET pair == SetToSeq(v[2])[i] IN <<objectToMupValue(pair[1]), objectToMupValue(pair[2])>>])>>
    [] v[1] = "sum" -> <<"sum", [i \in DOMAIN v[2] |-> objectToMupValue(v[2][i])]>>
    [] OTHER -> v

IsMap(arr) == Len(arr) % 2 = 1 /\ arr[1] = MapTypeId

mupValueToObject(m) ==
  LET vec == [i \in DOMAIN m[2] |-> mupValueToObject(m[2][i])]
  IN  CASE m[1] = "array" /\ IsMap(m[2]) -> <<"map", {<<vec[2 * i], vec[2 * i + 1]>> : i \in 1..(Len(vec) \div 2)}>>
        [] m[1] = "array" /\ ~ IsMap(m[2]) -> <<"list", vec>>
        [] m[1] = "sum" -> <<"sum", vec>>
        [] OTHER -> m

\* The parser, on operands that are numbers and names.
Operand(o, c) ==
  IF o.kind = "num" THEN <<"num", o.of>> ELSE IF Defined(c, o.of) THEN c[o.of] ELSE Error

Added(vals) == IF Len(vals) = 1 THEN vals[1] ELSE <<"sum", vals>>

Parsed(operands, c) ==
  LET vals == [i \in DOMAIN operands |-> Operand(operands[i], c)]
  IN  IF \E i \in DOMAIN vals : vals[i] = Error THEN Error ELSE Added(vals)

\* Mutant: each container gets the same name.
OneName(operands, i) == Tmp[1]

\* The name for operand i: containers are numbered from left to right.
TmpName(operands, i) == Tmp[Cardinality({j \in 1..i : IsContainer(operands[j])})]

(* eval: the value, or Error, and the constants that there are after.      *)
RECURSIVE Eval(_, _), EvalParts(_, _, _), EvalTokens(_, _, _)

\* The parts of a container, one after the other, until one throws.
EvalParts(parts, c, vals) ==
  IF Len(vals) = Len(parts) THEN [val |-> vals, ok |-> TRUE, consts |-> c]
  ELSE LET r == Eval(parts[Len(vals) + 1], c)
       IN  IF r.val = Error THEN [val |-> vals, ok |-> FALSE, consts |-> r.consts]
           ELSE EvalParts(parts, r.consts, Append(vals, r.val))

\* The tokens from i on: containers are evaluated, registered and replaced.
EvalTokens(operands, i, c) ==
  IF i > Len(operands)
  THEN [val |-> mupValueToObject(Parsed([j \in DOMAIN operands |->
                  IF IsContainer(operands[j]) THEN Name(TmpName(operands, j)) ELSE operands[j]], c)),
        consts |-> c]
  ELSE IF ~ IsContainer(operands[i]) THEN EvalTokens(operands, i + 1, c)
  ELSE LET r == Eval(operands[i], c)
       IN  IF r.val = Error THEN r
           ELSE EvalTokens(operands, i + 1, With(r.consts, TmpName(operands, i), objectToMupValue(r.val)))

Eval(e, c) ==
  IF IsContainer(e)
  THEN LET r == EvalParts(e.of, c, <<>>)
       IN  [val |-> IF r.ok THEN Container(e.kind, r.val) ELSE Error, consts |-> r.consts]
  ELSE EvalTokens(IF e.kind = "sum" THEN e.of ELSE <<e>>, 1, c)

-----------------------------------------------------------------------------
\* What an expression means, with the constants of the user.
RECURSIVE Value(_, _)
Value(e, c) ==
  CASE e.kind = "num" -> <<"num", e.of>>
    [] e.kind = "name" -> IF Defined(c, e.of) THEN c[e.of] ELSE Error
    [] OTHER -> LET vals == [i \in DOMAIN e.of |-> Value(e.of[i], c)]
                IN  IF \E i \in DOMAIN vals : vals[i] = Error THEN Error
                    ELSE IF e.kind = "sum" THEN Added(vals) ELSE Container(e.kind, vals)

CallEval(e) ==
  LET r == Eval(e, constants)
  IN  last' = <<r.val, Value(e, users)>> /\ constants' = r.consts /\ UNCHANGED users

\* unregisterConstant, then DefineConst
Registered(c, key, v) == With(Without(c, key), key, v)

\* registerConstantExpr, which does nothing when the expression throws
RegisterConstantExpr(key, e) ==
  /\ LET r == Eval(e, constants)
     IN  constants' = IF r.val = Error THEN r.consts ELSE Registered(r.consts, key, objectToMupValue(r.val))
  /\ users' = IF Value(e, users) = Error THEN users ELSE With(users, key, Value(e, users))
  /\ UNCHANGED last

UnregisterConstant(key) ==
  /\ constants' = Without(constants, key) /\ users' = Without(users, key)
  /\ UNCHANGED last

Next ==
  \/ \E e \in Exprs : CallEval(e)
  \/ \E key \in Keys : UnregisterConstant(key) \/ \E e \in Defs : RegisterConstantExpr(key, e)

Spec == Init /\ [][Next]_vars

-----------------------------------------------------------------------------
(* "Try to evaluate an expression in this environment": eval returns what  *)
(* the expression means, with the constants as the user registered them,   *)
(* and throws when it means nothing, whatever was evaluated before.        *)
EvalRight == last # NoCall => last[1] = last[2]

(* The environment has the constants that the user registered, each with   *)
(* its value, and no other but the temporary ones, which stay.             *)
ConstantsKept ==
  /\ \A k \in Keys : Defined(constants, k) <=> Defined(users, k)
  /\ \A k \in DOMAIN users : mupValueToObject(constants[k]) = users[k]

-----------------------------------------------------------------------------
(* splitExpr reads the text of an expression once and splits it: at the    *)
(* separators outside of brackets and quotes, or, without a separator,     *)
(* around the containers at the top level.                                 *)
(*                                                                         *)
(* The characters that the code tells apart: a letter stands for all       *)
(* others.  top() of an empty stack is undefined: such an expression, in   *)
(* which a bracket closes that was not open, is not read on.               *)

Closing == [x \in {"(", "{", "["} |-> IF x = "(" THEN ")" ELSE IF x = "{" THEN "}" ELSE "]"]
Chars == {"a", " ", "quote", "backslash", ",", "(", ")", "[", "]"}
Tokenizers == {"none", ","}

VARIABLES
  tokenizer,
  expr,       \* what was read
  specials,   \* the stack, the top last
  inQuotes, field, tokens,
  closed      \* the tokens that have ended: how much of expr was read by then

SplitVars == <<tokenizer, expr, specials, inQuotes, field, tokens, closed>>

SplitInit ==
  /\ tokenizer \in Tokenizers /\ expr = <<>> /\ specials = <<>> /\ inQuotes = FALSE
  /\ field = <<>> /\ tokens = <<>> /\ closed = {}

previousCh == IF expr = <<>> THEN "none" ELSE Last(expr)

\* Brackets count as such; parentheses when there is a separator.
Opens(ch) == ch \in {"{", "["} \/ (ch = "(" /\ tokenizer # "none")
Closes(ch) == ch \in {"}", "]"} \/ (ch = ")" /\ tokenizer # "none")

Read(ch) == Len(expr) < MaxLength /\ expr' = Append(expr, ch) /\ UNCHANGED tokenizer

WithToken(f) == IF f = <<>> THEN tokens ELSE Append(tokens, f)

\* The field is a token, unless it is empty, and a new one begins with next.
Ends(f, next) ==
  /\ tokens' = WithToken(f)
  /\ field' = next
  /\ closed' = closed \union {Len(expr)}

Goes(f) == field' = f /\ UNCHANGED <<tokens, closed>>

EndsQuotes(ch) == ch = "quote" /\ previousCh # "backslash"

InQuotes(ch) ==
  /\ inQuotes /\ Read(ch) /\ Goes(Append(field, ch))
  /\ inQuotes' = ~ EndsQuotes(ch)
  /\ UNCHANGED specials

Popped(ch) == IF Closing[Last(specials)] = ch THEN Front(specials) ELSE specials

Close(ch) ==
  /\ ~ inQuotes /\ Closes(ch) /\ specials # <<>> /\ Read(ch)
  /\ specials' = Popped(ch)
  /\ IF specials' = <<>> /\ tokenizer = "none"
     THEN Ends(Append(field, ch), <<>>)
     ELSE Goes(Append(field, ch))
  /\ UNCHANGED inQuotes

Open(ch) ==
  /\ ~ inQuotes /\ Opens(ch) /\ Read(ch)
  /\ IF specials = <<>> /\ tokenizer = "none"
     THEN Ends(field, <<ch>>)
     ELSE Goes(Append(field, ch))
  /\ specials' = Append(specials, ch)
  /\ UNCHANGED inQuotes

Quote(ch) ==
  /\ ~ inQuotes /\ ch = "quote" /\ Read(ch) /\ Goes(Append(field, ch))
  /\ inQuotes' = TRUE /\ UNCHANGED specials

Separates(ch) == specials = <<>> /\ ch = tokenizer

Separator(ch) ==
  /\ ~ inQuotes /\ ~ Opens(ch) /\ ~ Closes(ch) /\ ch # "quote"
  /\ Separates(ch) /\ Read(ch) /\ Ends(field, <<>>)
  /\ UNCHANGED <<specials, inQuotes>>

\* Spaces in front of a field are left out.
Other(ch) ==
  /\ ~ inQuotes /\ ~ Opens(ch) /\ ~ Closes(ch) /\ ch # "quote"
  /\ ~ Separates(ch) /\ Read(ch)
  /\ Goes(IF field # <<>> \/ ch # " " THEN Append(field, ch) ELSE field)
  /\ UNCHANGED <<specials, inQuotes>>

SplitNext ==
  \E ch \in Chars :
    InQuotes(ch) \/ Close(ch) \/ Open(ch) \/ Quote(ch) \/ Separator(ch) \/ Other(ch)

-----------------------------------------------------------------------------
(* The references: what an expression means, character by character, from  *)
(* the beginning.                                                          *)

\* A backslash escapes the next character of a string, a backslash too.
Scan[n \in 0..MaxLength] ==
  IF n = 0 THEN [quoted |-> FALSE, escaped |-> FALSE]
  ELSE LET s == Scan[n - 1] ch == expr[n] IN
    IF ~ s.quoted THEN [quoted |-> ch = "quote", escaped |-> FALSE]
    ELSE IF s.escaped THEN [quoted |-> TRUE, escaped |-> FALSE]
    ELSE [quoted |-> ch # "quote", escaped |-> ch = "backslash"]

\* Brackets open after n characters, for expressions without quotes.
Depth[n \in 0..MaxLength] ==
  IF n = 0 THEN 0
  ELSE Depth[n - 1] + (IF Opens(expr[n]) THEN 1 ELSE IF Closes(expr[n]) THEN -1 ELSE 0)

Plain == ~ Contains(expr, "quote")
\* With brackets of one kind that count, depths can be counted.
OneKind == ~ Opens("(") \/ ToSet(expr) \intersect {"(", ")"} = {} \/ ToSet(expr) \intersect {"[", "]"} = {}

Dark(seq) == SelectSeq(seq, LAMBDA ch : ch \notin {" ", ","})

(* Nothing of the expression is lost, doubled or moved, but for separators *)
(* and spaces: the tokens one after the other are the expression.          *)
NothingLost == Dark(FlattenSeq(tokens) \o field) = Dark(expr)

(* No token ends inside of brackets, and none is without an end at the     *)
(* top level: fields of a list that are lists stay whole.                  *)
TokensWhole ==
  Plain /\ OneKind =>
    /\ \A n \in closed : Depth[n] = 0 \/ (tokenizer = "none" /\ Depth[n + 1] = 0)
    /\ \A n \in DOMAIN expr : expr[n] = tokenizer /\ Depth[n] = 0 => (n - 1) \in closed

(* "deals with quotes, nesting, escapes": no token ends inside of a        *)
(* string, and the scan is inside of a string exactly when the text is.    *)
QuotesRight == inQuotes = Scan[Len(expr)].quoted
=============================================================================
