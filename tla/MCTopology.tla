----------------------------- MODULE MCTopology -----------------------------
(* Topologies, the ports of blocks, and the descriptions both are made     *)
(* from and dumped to, with the expressions and comments in them.  They    *)
(* have no state in common: part says which of them runs, and the others   *)
(* stay in their initial states.                                           *)
EXTENDS Topology, BlockPorts, TLC

CONSTANTS R, T, U, a, b, c, Parts, Nothing

VARIABLES
  part,
  doc0, start, doc, makeStage, made, ids, madeFlows,
  dumpFlows, dumpBlocks, connections, dumpFlat,
  tokenizer, expr, specials, inQuotes, field, tokens, closed,
  constants, users, last,
  lineNo, inMultiLineComment, currentCodeBlock, contiguousCommentBlocks, stage, array, factories,
  objects, inComment, inDoc, begun

-----------------------------------------------------------------------------
(* A source a, whose output 1 is automatic, a block b and a sink c.  Of    *)
(* the topologies, R is the outermost.                                     *)
MCEnv == [x \in Blocks |-> IF x = c THEN "far" ELSE "near"]
MCNear == [x \in Blocks |-> "near"]
MCRegisteredIn == [x \in Blocks |-> IF x = a THEN {} ELSE {0}]
MCRegisteredOut == [x \in Blocks |-> IF x = c THEN {} ELSE {0}]

(* T holds b and may also pass data through; b's input has memory of its   *)
(* own, which a cannot write to; c is in another process.                  *)
MCWires == [t \in Tops |->
  IF t = R THEN {<<<<a, 1>>, <<T, 1>>>>, <<<<T, 2>>, <<c, 0>>>>, <<<<a, 1>>, <<c, 0>>>>}
  ELSE {<<<<T, 1>>, <<b, 0>>>>, <<<<b, 0>>, <<T, 2>>>>, <<<<T, 1>>, <<T, 2>>>>}]
MCCustom == {<<"in", <<b, 0>>>>}
MCDomain == [x \in MCCustom |-> "device"]
MCRejects == {<<"out", <<a, 1>>, "device">>}

(* Data passes through T and then through U.                               *)
MCSeries == [t \in Tops |->
  CASE t = R -> {<<<<a, 0>>, <<T, 1>>>>, <<<<T, 2>>, <<U, 1>>>>, <<<<U, 2>>, <<b, 0>>>>}
    [] t = T -> {<<<<T, 1>>, <<T, 2>>>>}
    [] t = U -> {<<<<U, 1>>, <<U, 2>>>>}]

-----------------------------------------------------------------------------
\* Ports: three numbers and a name.
MCPortNameToIndex == "0" :> 0 @@ "1" :> 1 @@ "2" :> 2 @@ "a" :> -1
MCToString == 0 :> "0" @@ 1 :> "1" @@ 2 :> "2"

\* Descriptions of two blocks, with globals x and y where y may name x.
Num(n) == <<"num", n>>
Name(n) == <<"name", n>>
MCGlobals == {<<>>, <<<<"x", Num(1)>>, <<"y", Name("x")>>>>, <<<<"x", Name("y")>>, <<"y", Num(2)>>>>}
MCLocals == {<<>>, <<<<"x", Num(3)>>>>, <<<<"z", Name("y")>>>>}
MCArgs == {<<Name("x")>>, <<Name("y"), Name("z")>>}
MCConnections == {<<>>, << <<"a", "0", "b", "0">>, <<"b", "0", "self", "out">> >>,
                  << <<"a", "0", "b", "0">>, <<"a", "0", "b", "0">> >>, << <<"a", "0", "c", "0">> >>}
Block(id, path, locals, args, pool) ==
  [id |-> id, path |-> path, locals |-> locals, args |-> args, pool |-> pool]
MCDocuments ==
  {d \in {[pools |-> ps, form |-> f, globals |-> gs, connections |-> cs,
           blocks |-> <<Block("a", "/a", ls, as, q), Block("b", p, <<>>, <<Name("x")>>, "")>>] :
            ps \in {{}, {"", "p"}}, f \in {"absent", "array"}, gs \in MCGlobals, ls \in MCLocals,
            as \in MCArgs, q \in {"", "p"}, p \in {"/b", "/bad"}, cs \in MCConnections} :
     d.form = "absent" => d.globals = <<>>}
MCDocument == [pools |-> {}, form |-> "absent", globals |-> <<>>, blocks |-> <<>>, connections |-> <<>>]
MCStarts == {<<"make">>, <<"factory", <<>>>>, <<"factory", <<Num(7)>>>>,
             <<"factory", <<Num(7), <<"text", "x">>>>>>, <<"run", <<>>>>, <<"run", <<<<"y", Num(8)>>>>>>,
             <<"run", <<<<"x", Num(8)>>, <<"z", Num(9)>>>>>>}

(* The topology "t" with blocks a and b, and with topologies h and k.  In  *)
(* h is a block x and a topology g, in k a block y.  Nothing passes        *)
(* through h; g, which is next to blocks and ports of h only, passes       *)
(* through.  All is in k, and any of the flows in the others.              *)
P(o, n) == <<o, n>>
MCHierarchies ==
  {[t |-> ft, h |-> fh, g |-> fg, k |-> {<<P("k", "i"), P("y", "0")>>, <<P("y", "0"), P("k", "o")>>}] :
     ft \in SUBSET {<<P("a", "0"), P("h", "i0")>>, <<P("a", "0"), P("h", "i1")>>, <<P("k", "o"), P("h", "i0")>>,
                    <<P("h", "o"), P("b", "0")>>, <<P("h", "o"), P("k", "i")>>, <<P("a", "0"), P("b", "0")>>},
     fh \in SUBSET {<<P("h", "i0"), P("x", "0")>>, <<P("h", "i1"), P("g", "i")>>, <<P("x", "0"), P("g", "i")>>,
                    <<P("x", "0"), P("h", "o")>>, <<P("g", "o"), P("h", "o")>>, <<P("g", "p"), P("h", "o")>>},
     fg \in SUBSET {<<P("g", "i"), P("g", "o")>>, <<P("g", "i"), P("z", "0")>>, <<P("z", "0"), P("g", "p")>>}}
MCHierarchy == [t |-> {}, h |-> {}, g |-> {}, k |-> {<<P("k", "i"), P("y", "0")>>, <<P("y", "0"), P("k", "o")>>}]
Json == INSTANCE TopologyJSON WITH
  Documents <- MCDocuments \union {MCDocument}, Starts <- MCStarts, Factories <- {"/a", "/b"},
  Top <- "t", Hiers <- {"h", "g", "k"}, Hierarchies <- MCHierarchies,
  stage <- makeStage, blocks <- made, flows <- madeFlows

\* Containers that are operands, in lists and maps, with names that may not be defined.
Expr(kind, of) == [kind |-> kind, of |-> of]
One == Expr("list", <<Expr("num", 1)>>)
Two == Expr("list", <<Expr("num", 2), Expr("name", "x")>>)
TwoOperands == Expr("sum", <<One, Expr("name", "y"), Two>>)
MCDefs == {Expr("num", 3), Expr("map", <<Expr("num", 5), One>>),
           Expr("sum", <<Expr("list", <<Expr("num", 4)>>), One>>), Expr("name", "y")}
MCExprs == MCDefs \union
  {TwoOperands, Expr("list", <<TwoOperands, Expr("sum", <<Two, Expr("num", 2)>>)>>),
   Expr("sum", <<Expr("list", <<TwoOperands>>), Expr("name", "x")>>),
   Expr("map", <<Expr("name", "x"), One, Expr("name", "y"), Expr("sum", <<Two, Two>>)>>)}
Eval == INSTANCE EvalEnvironment WITH
  Exprs <- MCExprs, Defs <- MCDefs, Keys <- {"x", "y"}, Tmp <- <<"__tmp__0", "__tmp__1">>, MaxLength <- 5

\* Files with comments of both kinds, and descriptions of one block with params.
Line(kind, tag, path) == [kind |-> kind, tag |-> tag, path |-> path]
MCComments ==
  {Line("words", "text", ""), Line("open", "PothosDoc", ""), Line("words", "factory", "/a"),
   Line("words", "badIndent", ""), Line("close", "badIndent", ""), Line("close", "alias", "/c"),
   Line("slashes", "PothosDoc", ""), Line("slashes", "factory", "/b")}
MCMarkup ==
  {Line("slashes", "factory", "/a")} \union
  {Line("slashes", tag, "") :
     tag \in {"PothosDoc", "text", "empty", "param", "default", "option", "setter", "mode", "wrong", "unknown"}}
Comments == INSTANCE BlockDescription WITH Lines <- MCComments, MaxLines <- 6
Markup == INSTANCE BlockDescription WITH Lines <- MCMarkup, MaxLines <- 5

ASSUME PartsAssumption ==
  /\ PortsAssumption /\ Json!DumpAssumption /\ Eval!EvalAssumption
  /\ Comments!LinesAssumption /\ Markup!LinesAssumption

-----------------------------------------------------------------------------
makeVars == <<doc0, start, doc, makeStage, made, ids, madeFlows>>
dumpVars == <<dumpFlows, dumpBlocks, connections, dumpFlat>>
splitVars == <<tokenizer, expr, specials, inQuotes, field, tokens, closed>>
evalVars == <<constants, users, last>>
lineVars == <<lineNo, inMultiLineComment, currentCodeBlock, contiguousCommentBlocks, stage, array,
              factories, objects, inComment, inDoc, begun>>
all == <<part, vars, portVars, makeVars, dumpVars, splitVars, evalVars, lineVars>>

\* The first state of a part that does not run: one of those it may start in.
MCInit ==
  /\ part \in Parts
  /\ part # "make" => doc0 = MCDocument /\ start = <<"make">>
  /\ part # "dump" => dumpFlows = MCHierarchy
  /\ part # "split" => tokenizer = "none"
  /\ Init /\ PortsInit /\ Json!MakeInit /\ Json!DumpInit /\ Eval!SplitInit /\ Eval!Init /\ Comments!Init

MCNext ==
  \/ part = "topology" /\ Next
     /\ UNCHANGED <<part, portVars, makeVars, dumpVars, splitVars, evalVars, lineVars>>
  \/ part = "ports" /\ PortsNext
     /\ UNCHANGED <<part, vars, makeVars, dumpVars, splitVars, evalVars, lineVars>>
  \/ part = "make" /\ Json!MakeNext
     /\ UNCHANGED <<part, vars, portVars, dumpVars, splitVars, evalVars, lineVars>>
  \/ part = "dump" /\ Json!DumpNext
     /\ UNCHANGED <<part, vars, portVars, makeVars, splitVars, evalVars, lineVars>>
  \/ part = "split" /\ Eval!SplitNext
     /\ UNCHANGED <<part, vars, portVars, makeVars, dumpVars, evalVars, lineVars>>
  \/ part = "eval" /\ Eval!Next
     /\ UNCHANGED <<part, vars, portVars, makeVars, dumpVars, splitVars, lineVars>>
  \/ part = "comments" /\ Comments!Next
     /\ UNCHANGED <<part, vars, portVars, makeVars, dumpVars, splitVars, evalVars>>
  \/ part = "markup" /\ Markup!Next
     /\ UNCHANGED <<part, vars, portVars, makeVars, dumpVars, splitVars, evalVars>>

MCSpec == MCInit /\ [][MCNext]_all

-----------------------------------------------------------------------------
(* After a commit that returned, the active blocks are the ones with flows *)
(* whose activate() did not throw; and the buffer modes that               *)
(* installBufferManagers meets are the ones that rectifyDomainFlows was to *)
(* provide.                                                                *)
WiringSound == TypeOK /\ ActiveIffConnected /\ ModesRectified

(* Topology::make returns exactly for complete descriptions, with the      *)
(* values of the caller and of the locals in the arguments; and dumpJSON   *)
(* has, when flat, the connections that the hierarchy describes.           *)
JSONDescribes ==
  Json!MadeIfComplete /\ Json!GivenUsed /\ Json!LocalsUsed /\ Json!FlatExact

(* splitExpr loses nothing and ends no token inside of brackets; eval      *)
(* returns what the expression means, whatever was evaluated before; and   *)
(* feedStream makes one description of each run of comment lines that has  *)
(* a |PothosDoc, of comments only, and gives every param its own.          *)
TextsRight ==
  /\ Eval!NothingLost /\ Eval!TokensWhole /\ Eval!EvalRight /\ Eval!ConstantsKept
  /\ part = "comments" => Comments!DocsCounted /\ Comments!CommentsOnly
  /\ part = "markup" => Markup!OwnAttributes /\ Markup!DocsStripped
=============================================================================
