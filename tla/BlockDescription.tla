-------------------------- MODULE BlockDescription --------------------------
(***************************************************************************)
(* BlockDescriptionParser::feedStream: the comments of a source file are   *)
(* collected into blocks of contiguous lines, and each block is parsed for *)
(* markup.                                                                 *)
(*                                                                         *)
(* A line has a kind, which is what the extraction tells apart, and a tag, *)
(* the markup instruction that the line has if it is part of a comment.    *)
(* The payloads are left out but for what the parser decides by them: the  *)
(* path of a factory or an alias, and whether the payload is well-formed.  *)
(***************************************************************************)
EXTENDS Naturals, Sequences, SequencesExt

CONSTANTS
  Lines,     \* the lines a file may have: records of a kind, a tag and a path
  MaxLines   \* bound: lines of the file

Kinds == {"slashes", "open", "close", "both", "words", "blank"}
Once == {"default", "units", "widget", "tab", "preview"}   \* once per param
LinesAssumption == \A l \in Lines : l.kind \in Kinds

VARIABLES
  lineNo, inMultiLineComment, currentCodeBlock, contiguousCommentBlocks,
  stage,      \* "reading", "parsing", "done", or "error"
  array,      \* _impl->array
  factories,  \* _impl->factories
  objects,    \* _impl->objects: the index in the array for each path
  inComment,  \* history: is the end of the last line inside a comment?
  inDoc,      \* history: a |PothosDoc was in this run of comment lines
  begun       \* history: the runs of comment lines that have a |PothosDoc

vars == <<lineNo, inMultiLineComment, currentCodeBlock, contiguousCommentBlocks,
          stage, array, factories, objects, inComment, inDoc, begun>>

Init ==
  /\ lineNo = 0 /\ inMultiLineComment = FALSE /\ currentCodeBlock = <<>>
  /\ contiguousCommentBlocks = <<>> /\ stage = "reading"
  /\ array = <<>> /\ factories = <<>> /\ objects = <<>> /\ inComment = FALSE /\ inDoc = FALSE /\ begun = 0

-----------------------------------------------------------------------------
(* extractContiguousBlocks.                                                *)

\* Mutant: a comment never ends.
NeverCloses(l) == FALSE

Opens(l) == l.kind \in {"open", "both"}
Closes(l) == l.kind \in {"close", "both"}

\* The line is neither empty nor part of a comment.
EndsBlock(l) ==
  /\ ~ inMultiLineComment /\ ~ Opens(l) /\ l.kind \notin {"slashes", "blank"}

\* The line, or the part of it before the end of the comment, goes to the block.
Taken(l) == l.kind # "blank" /\ (inMultiLineComment \/ Opens(l) \/ l.kind = "slashes")

WithBlock(blocks) ==
  IF currentCodeBlock = <<>> THEN blocks ELSE Append(blocks, currentCodeBlock)

\* What C++ takes for a comment.
IsComment(l) == inComment \/ Opens(l) \/ l.kind = "slashes"

ReadLine(l) ==
  /\ stage = "reading" /\ lineNo < MaxLines /\ lineNo' = lineNo + 1
  /\ l.kind = "close" => inComment
  /\ currentCodeBlock' =
       IF Taken(l) THEN Append(currentCodeBlock, [tag |-> l.tag, path |-> l.path,
                                                  lineNo |-> lineNo', comment |-> IsComment(l)])
       ELSE IF EndsBlock(l) THEN <<>> ELSE currentCodeBlock
  /\ contiguousCommentBlocks' =
       IF EndsBlock(l) THEN WithBlock(contiguousCommentBlocks) ELSE contiguousCommentBlocks
  /\ inMultiLineComment' =
       IF l.kind = "slashes" /\ ~ inMultiLineComment THEN FALSE
       ELSE IF ~ inMultiLineComment THEN Opens(l) ELSE ~ Closes(l)
  /\ inComment' = IF l.kind \in {"close", "both"} THEN FALSE ELSE inComment \/ l.kind = "open"
  /\ inDoc' = (IsComment(l) /\ (inDoc \/ l.tag = "PothosDoc"))
  /\ begun' = IF inDoc' /\ ~ inDoc THEN begun + 1 ELSE begun
  /\ UNCHANGED <<stage, array, factories, objects>>

EndStream ==
  /\ stage = "reading" /\ stage' = "parsing"
  /\ contiguousCommentBlocks' = WithBlock(contiguousCommentBlocks) /\ currentCodeBlock' = <<>>
  /\ UNCHANGED <<lineNo, inMultiLineComment, array, factories, objects, inComment, inDoc, begun>>

-----------------------------------------------------------------------------
(* parseCommentBlockForMarkup.                                             *)

NoObject == [name |-> 0, docs |-> <<>>, params |-> <<>>, path |-> "", aliases |-> <<>>,
             calls |-> <<>>, mode |-> FALSE]
Start == [state |-> "", obj |-> NoObject, error |-> FALSE]
Throw(acc) == [acc EXCEPT !.error = TRUE]
NewParam(l) == [key |-> l.lineNo, desc |-> <<"text">>, has |-> {}, options |-> <<>>]

\* params.back()
Back(acc) == Len(acc.obj.params)

\* A line that is no instruction: documentation of the block or of the param.
Text(acc, text) ==
  IF acc.state = "DOC" THEN [acc EXCEPT !.obj.docs = Append(@, text)]
  ELSE [acc EXCEPT !.obj.params[Back(acc)].desc = Append(@, text)]

EndParam(acc) == [acc EXCEPT !.state = "DOC"]

\* One line of a block in which |PothosDoc was found.
Instruction(acc, l) ==
  LET in(states) == acc.state \in states
      back == Back(acc)
  IN  CASE l.tag \in {"text", "empty"} -> Text(acc, l.tag)
        [] l.tag = "alias" /\ in({"DOC"}) -> [acc EXCEPT !.obj.aliases = Append(@, l.path)]
        [] l.tag = "wrong" -> Throw(acc)
        [] l.tag = "param" ->
             [acc EXCEPT !.obj.params = Append(@, NewParam(l)), !.state = "PARAM"]
        [] l.tag \in Once /\ in({"PARAM"}) ->
             IF \E x \in acc.obj.params[back].has : x[1] = l.tag THEN Throw(acc)
             ELSE [acc EXCEPT !.obj.params[back].has = @ \union {<<l.tag, l.lineNo>>}]
        [] l.tag = "option" /\ in({"PARAM"}) ->
             [acc EXCEPT !.obj.params[back].options = Append(@, l.lineNo)]
        [] l.tag = "factory" ->
             IF acc.obj.path # "" THEN Throw(acc)
             ELSE EndParam([acc EXCEPT !.obj.path = l.path])
        [] l.tag = "setter" -> EndParam([acc EXCEPT !.obj.calls = Append(@, l.lineNo)])
        [] l.tag = "mode" -> IF acc.obj.mode THEN Throw(acc) ELSE [acc EXCEPT !.obj.mode = TRUE]
        [] OTHER -> acc

\* An inconsistent indentation is allowed in the last line only, and empties it.
ParseLine(acc, l, last) ==
  IF acc.error THEN acc
  ELSE IF acc.state = ""
  THEN IF l.tag = "PothosDoc" THEN [acc EXCEPT !.state = "DOC", !.obj.name = l.lineNo] ELSE acc
  ELSE IF l.tag = "badIndent" THEN IF last THEN Text(acc, "empty") ELSE Throw(acc)
  ELSE Instruction(acc, l)

\* stripDocArray
stripDocArray(lines) ==
  LET out == FoldLeft(LAMBDA o, line :
               IF line = "empty" /\ (o = <<>> \/ Last(o) = "empty") THEN o ELSE Append(o, line), <<>>, lines)
  IN  IF out # <<>> /\ Last(out) = "empty" THEN Front(out) ELSE out

Stripped(obj) ==
  [obj EXCEPT !.docs = stripDocArray(@),
              !.params = [i \in DOMAIN @ |-> [@[i] EXCEPT !.desc = stripDocArray(@)]]]

parseCommentBlockForMarkup(block) ==
  LET acc == FoldLeft(LAMBDA a, i : ParseLine(a, block[i], i = Len(block)),
                      Start, [i \in 1..Len(block) |-> i])
  IN  IF acc.state # "" /\ acc.obj.path = "" THEN Throw(acc)
      ELSE [acc EXCEPT !.obj = Stripped(@)]

-----------------------------------------------------------------------------
(* feedStream, one block at a time.                                        *)

PathsOf(obj) == <<obj.path>> \o obj.aliases
Result == parseCommentBlockForMarkup(Head(contiguousCommentBlocks))
NextBlock == contiguousCommentBlocks' = Tail(contiguousCommentBlocks)

ParsePlain ==
  /\ stage = "parsing" /\ contiguousCommentBlocks # <<>> /\ NextBlock
  /\ Result.state = ""
  /\ UNCHANGED <<lineNo, inMultiLineComment, currentCodeBlock, stage, array, factories, objects, inComment, inDoc, begun>>

ParseMarkup ==
  /\ stage = "parsing" /\ contiguousCommentBlocks # <<>> /\ NextBlock
  /\ Result.state # "" /\ ~ Result.error
  /\ array' = Append(array, Result.obj) /\ factories' = factories \o PathsOf(Result.obj)
  /\ objects' = [p \in DOMAIN objects \union Range(PathsOf(Result.obj)) |->
                   IF p \in Range(PathsOf(Result.obj)) THEN Len(array') ELSE objects[p]]
  /\ UNCHANGED <<lineNo, inMultiLineComment, currentCodeBlock, stage, inComment, inDoc, begun>>

ParseThrows ==
  /\ stage = "parsing" /\ contiguousCommentBlocks # <<>>
  /\ Result.error /\ stage' = "error"
  /\ UNCHANGED <<lineNo, inMultiLineComment, currentCodeBlock, contiguousCommentBlocks,
                 array, factories, objects, inComment, inDoc, begun>>

Done ==
  /\ stage = "parsing" /\ contiguousCommentBlocks = <<>> /\ stage' = "done"
  /\ UNCHANGED <<lineNo, inMultiLineComment, currentCodeBlock, contiguousCommentBlocks,
                 array, factories, objects, inComment, inDoc, begun>>

Next ==
  (\E l \in Lines : ReadLine(l)) \/ EndStream \/ ParsePlain \/ ParseMarkup \/ ParseThrows \/ Done
Spec == Init /\ [][Next]_vars

-----------------------------------------------------------------------------
(* Contiguous comment lines with a |PothosDoc have one description, or     *)
(* there was an exception: those of two comments do not become one.        *)
DocsCounted == stage = "done" => Len(array) = begun

(* What a param has was said between its |param and the next one, and each *)
(* thing once.                                                             *)
OwnAttributes ==
  \A i \in DOMAIN array : LET ps == array[i].params IN
    \A j \in DOMAIN ps :
      \A n \in {x[2] : x \in ps[j].has} \union Range(ps[j].options) :
        n > ps[j].key /\ (j < Len(ps) => n < ps[j + 1].key) /\ \A c \in Range(array[i].calls) :
          ~ (ps[j].key < c /\ c < n)

(* Documentation has no empty line at its start or end and no two in a     *)
(* row, and its other lines are all there.                                 *)
DocsStripped ==
  \A i \in DOMAIN array : LET d == array[i].docs IN
    d # <<>> => d[1] # "empty" /\ Last(d) # "empty"
                /\ \A k \in 1..(Len(d) - 1) : d[k] = "empty" => d[k + 1] # "empty"

\* Only comments are searched for markup.
CommentsOnly == \A k \in DOMAIN currentCodeBlock : currentCodeBlock[k].comment
=============================================================================
