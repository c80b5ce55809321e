--------------------------- MODULE RegistryProofs ---------------------------
(***************************************************************************)
(* Proofs about what the run of the registry composes: Logger, for any     *)
(* threads, streams, texts, addresses and numbers of writes and            *)
(* redirections; and PluginRegistry, for any threads, paths and modules,   *)
(* when everybody adds and removes paths of their own (Separate).          *)
(***************************************************************************)
EXTENDS Logger, PluginRegistry, SequenceTheorems, NaturalsInduction, WellFoundedInduction, FiniteSetTheorems, TLAPS

-----------------------------------------------------------------------------
(* Text, of a sequence that grows at its end.                              *)

\* Induction, with a set in the place of the predicate.
LEMMA AllNumbers ==
  ASSUME NEW S, 0 \in S, \A n \in Nat : n \in S => n + 1 \in S
  PROVE  \A n \in Nat : n \in S
<1> SUFFICES ASSUME NEW n \in Nat, n \notin S PROVE FALSE OBVIOUS
<1> DEFINE Missing == Nat \ S
<1>1. Missing \in SUBSET Nat /\ Missing # {} OBVIOUS
<1>2. PICK k \in Missing : \A j \in Missing : ~ (<<j, k>> \in OpToRel(<, Nat))
  <2> HIDE DEF Missing
  <2> QED BY <1>1, NatLessThanWellFounded, WFMin
<1>3. \A j \in Missing : ~ (j < k) BY <1>1, <1>2 DEF OpToRel
<1>4. k \in Nat /\ k # 0 OBVIOUS
<1>5. k - 1 \in Nat /\ k - 1 < k /\ (k - 1) + 1 = k BY <1>4
<1>6. k - 1 \in S BY <1>3, <1>5
<1> QED BY <1>5, <1>6

Grown(text, x) == IF x = NewLine THEN text ELSE Append(text, x)

\* f has the text of the first i elements at i, for i up to n.
Computes(f, seq, n) == f = [i \in 0..n |-> IF i = 0 THEN <<>> ELSE Grown(f[i - 1], seq[i])]
IsComputed(seq, n) == \E f : Computes(f, seq, n)

LEMMA ComputesGrown ==
  ASSUME NEW seq, NEW n \in Nat, NEW f, Computes(f, seq, n)
  PROVE  Computes([i \in 0..(n + 1) |-> IF i = n + 1 THEN Grown(f[n], seq[n + 1]) ELSE f[i]], seq, n + 1)
<1> DEFINE g == [i \in 0..(n + 1) |-> IF i = n + 1 THEN Grown(f[n], seq[n + 1]) ELSE f[i]]
           h == [i \in 0..(n + 1) |-> IF i = 0 THEN <<>> ELSE Grown(g[i - 1], seq[i])]
<1>1. /\ f[0] = <<>>
      /\ \A i \in 1..n : f[i] = Grown(f[i - 1], seq[i])
  <2> DEFINE e == [i \in 0..n |-> IF i = 0 THEN <<>> ELSE Grown(f[i - 1], seq[i])]
  <2>1. f = e BY DEF Computes
  <2>2. 0 \in 0..n /\ \A i \in 1..n : i \in 0..n /\ i # 0 OBVIOUS
  <2>3. e[0] = <<>> /\ \A i \in 1..n : e[i] = Grown(f[i - 1], seq[i]) BY <2>2
  <2> QED BY <2>1, <2>3
<1>2. \A i \in 0..n : g[i] = f[i] OBVIOUS
<1>3. ASSUME NEW i \in 0..(n + 1) PROVE g[i] = IF i = 0 THEN <<>> ELSE Grown(g[i - 1], seq[i])
  <2>1. CASE i = 0 BY <1>1, <1>2, <2>1
  <2>2. CASE i \in 1..n
    <3>1. i - 1 \in 0..n /\ i \in 0..n /\ i # 0 BY <2>2
    <3>2. g[i - 1] = f[i - 1] /\ g[i] = f[i] BY <1>2, <3>1
    <3> HIDE DEF g
    <3> QED BY <1>1, <2>2, <3>1, <3>2
  <2>3. CASE i = n + 1
    <3>1. g[i] = Grown(f[n], seq[n + 1]) BY <2>3
    <3>2. i - 1 = n /\ i # 0 BY <2>3
    <3>3. g[n] = f[n] BY <1>2
    <3> HIDE DEF g
    <3> QED BY <2>3, <3>1, <3>2, <3>3
  <2> QED BY <2>1, <2>2, <2>3
<1>4. g = h
  <2>1. \A i \in 0..(n + 1) : g[i] = h[i]
    <3> HIDE DEF g
    <3> QED BY <1>3
  <2>2. g = [i \in 0..(n + 1) |-> g[i]] OBVIOUS
  <2>3. h = [i \in 0..(n + 1) |-> h[i]] OBVIOUS
  <2> HIDE DEF g, h
  <2> QED BY <2>1, <2>2, <2>3
<1> QED BY <1>4 DEF Computes

LEMMA TextExists ==
  ASSUME NEW seq
  PROVE  \A n \in Nat : IsComputed(seq, n)
<1> DEFINE S == {n \in Nat : IsComputed(seq, n)}
<1>1. 0 \in S
  <2>1. Computes([i \in 0..0 |-> <<>>], seq, 0) BY DEF Computes
  <2> QED BY <2>1 DEF IsComputed
<1>2. ASSUME NEW n \in Nat, n \in S PROVE n + 1 \in S
  <2>1. PICK f : Computes(f, seq, n) BY <1>2 DEF IsComputed
  <2>2. IsComputed(seq, n + 1) BY <2>1, ComputesGrown DEF IsComputed
  <2> QED BY <2>2
<1>3. \A n \in Nat : n \in S
  <2> HIDE DEF S
  <2> QED BY <1>1, <1>2, AllNumbers
<1> QED BY <1>3

\* And it is one function as far as it goes.
LEMMA TextUnique ==
  ASSUME NEW seq, NEW tail, NEW n \in Nat, NEW m \in Nat, n <= m, NEW f, NEW g,
         Computes(f, seq, n), Computes(g, tail, m), \A i \in 1..n : seq[i] = tail[i]
  PROVE  \A i \in 0..n : f[i] = g[i]
<1> DEFINE S == {i \in Nat : i <= n => f[i] = g[i]}
<1>1. /\ f[0] = <<>> /\ g[0] = <<>>
      /\ \A i \in 1..n : f[i] = Grown(f[i - 1], seq[i])
      /\ \A i \in 1..m : g[i] = Grown(g[i - 1], tail[i])
  <2> DEFINE e == [i \in 0..n |-> IF i = 0 THEN <<>> ELSE Grown(f[i - 1], seq[i])]
             d == [i \in 0..m |-> IF i = 0 THEN <<>> ELSE Grown(g[i - 1], tail[i])]
  <2>1. f = e /\ g = d BY DEF Computes
  <2>2. 0 \in 0..n /\ 0 \in 0..m /\ \A i \in 1..n : i \in 0..n /\ i # 0 OBVIOUS
  <2>3. \A i \in 1..m : i \in 0..m /\ i # 0 OBVIOUS
  <2>4. e[0] = <<>> /\ \A i \in 1..n : e[i] = Grown(f[i - 1], seq[i]) BY <2>2
  <2>5. d[0] = <<>> /\ \A i \in 1..m : d[i] = Grown(g[i - 1], tail[i]) BY <2>2, <2>3
  <2> HIDE DEF d, e
  <2> QED BY <2>1, <2>4, <2>5
<1>2. 0 \in S BY <1>1
<1>3. ASSUME NEW i \in Nat, i \in S PROVE i + 1 \in S
  <2>1. CASE i + 1 <= n
    <3>1. f[i] = g[i] BY <1>3, <2>1
    <3>2. i + 1 \in 1..n /\ i + 1 \in 1..m /\ (i + 1) - 1 = i BY <2>1
    <3>3. f[i + 1] = Grown(f[i], seq[i + 1]) /\ g[i + 1] = Grown(g[i], tail[i + 1]) BY <1>1, <3>2
    <3>4. seq[i + 1] = tail[i + 1] BY <3>2
    <3> QED BY <3>1, <3>3, <3>4
  <2>2. CASE ~ (i + 1 <= n) BY <2>2
  <2> QED BY <2>1, <2>2
<1>4. \A i \in Nat : i \in S
  <2> HIDE DEF S
  <2> QED BY <1>2, <1>3, AllNumbers
<1> QED BY <1>4

LEMMA TextComputed ==
  ASSUME NEW seq, Len(seq) \in Nat
  PROVE  \E f : Computes(f, seq, Len(seq)) /\ Text(seq) = f[Len(seq)]
<1> DEFINE upTo == CHOOSE f : f = [i \in 0..Len(seq) |->
             IF i = 0 THEN <<>> ELSE IF seq[i] = NewLine THEN f[i - 1] ELSE Append(f[i - 1], seq[i])]
<1>1. Text(seq) = upTo[Len(seq)] BY DEF Text
<1>2. \A f : Computes(f, seq, Len(seq)) <=>
        f = [i \in 0..Len(seq) |-> IF i = 0 THEN <<>> ELSE IF seq[i] = NewLine THEN f[i - 1] ELSE Append(f[i - 1], seq[i])]
  BY DEF Computes, Grown
<1>3. PICK f : Computes(f, seq, Len(seq)) BY TextExists DEF IsComputed
<1>4. Computes(upTo, seq, Len(seq)) BY <1>2, <1>3
<1> QED BY <1>1, <1>4

\* One more element is one more text, unless it is a new line.
LEMMA TextGrows ==
  ASSUME NEW S, NEW seq \in Seq(S), NEW x \in S
  PROVE  Text(Append(seq, x)) = Grown(Text(seq), x)
<1> DEFINE more == Append(seq, x)
           n == Len(seq)
<1>1. n \in Nat /\ Len(more) = n + 1 /\ more[n + 1] = x /\ \A i \in 1..n : seq[i] = more[i] OBVIOUS
<1> HIDE DEF more, n
<1>2. PICK f : Computes(f, seq, n) /\ Text(seq) = f[n] BY <1>1, TextComputed DEF n
<1>3. PICK g : Computes(g, more, n + 1) /\ Text(more) = g[n + 1] BY <1>1, TextComputed
<1>4. \A i \in 0..n : f[i] = g[i]
  <2>1. n + 1 \in Nat /\ n <= n + 1 BY <1>1
  <2> QED BY <1>1, <1>2, <1>3, <2>1, TextUnique
<1>5. g[n + 1] = Grown(g[n], more[n + 1])
  <2> DEFINE e == [i \in 0..(n + 1) |-> IF i = 0 THEN <<>> ELSE Grown(g[i - 1], more[i])]
  <2>1. g = e BY <1>3 DEF Computes
  <2>2. n + 1 \in 0..(n + 1) /\ n + 1 # 0 /\ (n + 1) - 1 = n BY <1>1
  <2>3. e[n + 1] = Grown(g[(n + 1) - 1], more[n + 1]) BY <2>2
  <2> HIDE DEF e
  <2> QED BY <2>1, <2>2, <2>3
<1>6. g[n] = f[n] BY <1>1, <1>4
<1> QED BY <1>1, <1>2, <1>3, <1>5, <1>6 DEF more

-----------------------------------------------------------------------------
(* Sequences.                                                              *)

LEMMA EmptyLen ==
  ASSUME NEW S, NEW b \in Seq(S), b # <<>>
  PROVE  Len(b) \in Nat /\ Len(b) > 0
OBVIOUS

LEMMA ConcatAppend ==
  ASSUME NEW S, NEW a \in Seq(S), NEW b \in Seq(S), NEW x \in S
  PROVE  a \o Append(b, x) = Append(a \o b, x)
OBVIOUS

-----------------------------------------------------------------------------
(* The streams.                                                            *)

Pieces == Texts \union {NewLine}
Intercepts == [orgbuf : Nat, outbuf : Seq(Pieces), flush : BOOLEAN]
Flushers(s) == {t \in Writers : logPc[t] = "clear" /\ flushes[t][1] = s}

LogShapes ==
  /\ rdbuf \in [Streams -> Nat] /\ kept \in [Streams -> Nat]
  /\ intercept \in [Streams -> Seq(Intercepts)]
  /\ written \in [Streams -> Seq(Pieces)] /\ logged \in [Streams -> Seq(Pieces)]
  /\ logPc \in [Writers -> {"idle", "clear", "stuck"}] /\ flushes \in [Writers -> Streams \X Nat]

\* The buffers that a stream refers to were made for it.
Buffers(s) ==
  /\ kept[s] <= Len(intercept[s]) /\ rdbuf[s] <= Len(intercept[s])
  /\ \A i \in 1..Len(intercept[s]) : intercept[s][i].orgbuf <= Len(intercept[s])
  /\ \A t \in Flushers(s) : flushes[t][2] \in 1..Len(intercept[s])

(* A stream that nobody disturbed has the buffer that is kept or that of   *)
(* the system, one thread at most flushes it, and the text is there.       *)
Undisturbed(s) ==
  /\ rdbuf[s] \in {0, kept[s]}
  /\ \A t, u \in Flushers(s) : t = u
  /\ \A t \in Flushers(s) : flushes[t][2] = rdbuf[s]
  /\ Text(logged[s] \o Pending(s)) = Text(written[s])

ChannelsOK ==
  /\ channel \in Addrs \union {Default} /\ {forwarder, syslogAddr} \subseteq Addrs \union {None}
  /\ listener \in BOOLEAN \union {None} /\ port \in BOOLEAN

IInv ==
  /\ LogShapes /\ ChannelsOK
  /\ \A s \in Streams : Buffers(s) /\ (s \notin disturbed => Undisturbed(s))

LEMMA FlushedIs ==
  ASSUME NEW s
  PROVE  Flushed(s) <=> Flushers(s) # {}
BY DEF Flushed, Flushers

LEMMA PendingIs ==
  ASSUME LogShapes, NEW s \in Streams, rdbuf[s] <= Len(intercept[s])
  PROVE  Pending(s) \in Seq(Pieces)
<1>1. CASE rdbuf[s] = 0 \/ Flushed(s) BY <1>1 DEF Pending
<1>2. CASE rdbuf[s] # 0 /\ ~ Flushed(s)
  <2>1. rdbuf[s] \in 1..Len(intercept[s]) /\ intercept[s] \in Seq(Intercepts) BY <1>2 DEF LogShapes
  <2>2. intercept[s][rdbuf[s]] \in Intercepts BY <2>1
  <2> QED BY <1>2, <2>2 DEF Pending, Intercepts
<1> QED BY <1>1, <1>2

\* One buffer of one stream is another.
LEMMA OneBuffer ==
  ASSUME NEW ic \in [Streams -> Seq(Intercepts)], NEW s \in Streams, NEW i \in 1..Len(ic[s]),
         NEW b \in Intercepts, NEW new, new = [ic EXCEPT ![s] = [ic[s] EXCEPT ![i] = b]]
  PROVE  /\ new \in [Streams -> Seq(Intercepts)]
         /\ \A u \in Streams : u # s => new[u] = ic[u]
         /\ Len(new[s]) = Len(ic[s]) /\ new[s][i] = b
         /\ \A j \in 1..Len(ic[s]) : j # i => new[s][j] = ic[s][j]
<1>1. ic[s] \in Seq(Intercepts) OBVIOUS
<1>2. [ic[s] EXCEPT ![i] = b] \in Seq(Intercepts) /\ Len([ic[s] EXCEPT ![i] = b]) = Len(ic[s]) BY <1>1
<1> QED BY <1>1, <1>2

LEMMA Changed ==
  ASSUME NEW q \in Intercepts, NEW text, NEW late
  PROVE  [q EXCEPT !.outbuf = text, !.flush = late] = [orgbuf |-> q.orgbuf, outbuf |-> text, flush |-> late]
<1> DEFINE p == [q EXCEPT !.outbuf = text]
<1>1. p = [orgbuf |-> q.orgbuf, outbuf |-> text, flush |-> q.flush] BY DEF Intercepts
<1>2. [q EXCEPT !.outbuf = text, !.flush = late] = [p EXCEPT !.flush = late] OBVIOUS
<1> HIDE DEF p
<1>3. [p EXCEPT !.flush = late] = [orgbuf |-> q.orgbuf, outbuf |-> text, flush |-> late] BY <1>1
<1> QED BY <1>2, <1>3

LEMMA ChangedText ==
  ASSUME NEW q \in Intercepts, NEW text
  PROVE  [q EXCEPT !.outbuf = text] = [orgbuf |-> q.orgbuf, outbuf |-> text, flush |-> q.flush]
BY DEF Intercepts

LEMMA ConcatThree ==
  ASSUME NEW S, NEW a \in Seq(S), NEW b \in Seq(S), NEW c \in Seq(S)
  PROVE  (a \o b) \o c = a \o (b \o c)
OBVIOUS

\* Two texts that are equal stay equal when the same is written after them.
LEMMA TextCongruent ==
  ASSUME NEW a \in Seq(Pieces), NEW b \in Seq(Pieces), Text(a) = Text(b), NEW c \in Seq(Pieces)
  PROVE  Text(a \o c) = Text(b \o c)
<1> DEFINE S == {n \in Nat : \A d \in Seq(Pieces) : Len(d) = n => Text(a \o d) = Text(b \o d)}
<1>1. 0 \in S
  <2>1. \A d \in Seq(Pieces) : Len(d) = 0 => d = <<>> OBVIOUS
  <2>2. a \o <<>> = a /\ b \o <<>> = b OBVIOUS
  <2> QED BY <2>1, <2>2
<1>2. ASSUME NEW n \in Nat, n \in S PROVE n + 1 \in S
  <2> SUFFICES ASSUME NEW d \in Seq(Pieces), Len(d) = n + 1 PROVE Text(a \o d) = Text(b \o d)
    OBVIOUS
  <2>1. PICK e \in Seq(Pieces), x \in Pieces : d = Append(e, x) /\ Len(e) = n
    <3>1. SubSeq(d, 1, n) \in Seq(Pieces) /\ Len(SubSeq(d, 1, n)) = n /\ d[n + 1] \in Pieces OBVIOUS
    <3>2. \A i \in 1..n : SubSeq(d, 1, n)[i] = d[i] OBVIOUS
    <3>3. Append(SubSeq(d, 1, n), d[n + 1]) \in Seq(Pieces) /\ Len(Append(SubSeq(d, 1, n), d[n + 1])) = n + 1 BY <3>1
    <3>4. \A i \in 1..(n + 1) : Append(SubSeq(d, 1, n), d[n + 1])[i] = d[i] BY <3>1, <3>2
    <3>5. d = Append(SubSeq(d, 1, n), d[n + 1]) BY <3>3, <3>4, SeqEqual
    <3> QED BY <3>1, <3>5
  <2>2. Text(a \o e) = Text(b \o e) BY <1>2, <2>1
  <2>3. a \o d = Append(a \o e, x) /\ b \o d = Append(b \o e, x) BY <2>1, ConcatAppend
  <2>4. a \o e \in Seq(Pieces) /\ b \o e \in Seq(Pieces) OBVIOUS
  <2>5. Text(Append(a \o e, x)) = Grown(Text(a \o e), x) BY <2>4, TextGrows
  <2>6. Text(Append(b \o e, x)) = Grown(Text(b \o e), x) BY <2>4, TextGrows
  <2> QED BY <2>2, <2>3, <2>5, <2>6
<1>3. \A n \in Nat : n \in S
  <2> HIDE DEF S
  <2> QED BY <1>1, <1>2, AllNumbers
<1>4. Len(c) \in Nat OBVIOUS
<1> QED BY <1>3, <1>4

\* A line that is written with its end, and waits without it.
LEMMA LineFed ==
  ASSUME NEW a \in Seq(Pieces), NEW b \in Seq(Pieces), Text(a) = Text(b), NEW line \in Seq(Pieces)
  PROVE  Text(a \o line) = Text(b \o Append(line, NewLine))
<1>1. NewLine \in Pieces BY DEF Pieces
<1>2. b \o Append(line, NewLine) = Append(b \o line, NewLine) BY <1>1, ConcatAppend
<1>3. b \o line \in Seq(Pieces) OBVIOUS
<1>4. Text(Append(b \o line, NewLine)) = Grown(Text(b \o line), NewLine) BY <1>1, <1>3, TextGrows
<1>5. Text(a \o line) = Text(b \o line) BY TextCongruent
<1> QED BY <1>2, <1>4, <1>5 DEF Grown

LEMMA LineText ==
  ASSUME NEW a \in Seq(Pieces), NEW b \in Seq(Pieces), b # <<>>
  PROVE  Line(b) \in Seq(Pieces) /\ Text(a \o Line(b)) = Text(a \o b)
<1>1. Len(b) \in Nat /\ Len(b) > 0 BY EmptyLen
<1>2. CASE LastOf(b) = NewLine
  <2> DEFINE front == SubSeq(b, 1, Len(b) - 1)
  <2>1. Line(b) = front BY <1>2 DEF Line
  <2>2. /\ front \in Seq(Pieces) /\ Len(front) = Len(b) - 1
        /\ \A i \in 1..(Len(b) - 1) : front[i] = b[i]
    <3>1. 1 \in Int /\ Len(b) - 1 \in Int /\ \A i \in 1..(Len(b) - 1) : b[i] \in Pieces BY <1>1
    <3>2. /\ front \in Seq(Pieces) /\ Len(front) = IF 1 <= Len(b) - 1 THEN (Len(b) - 1) - 1 + 1 ELSE 0
          /\ \A i \in 1..((Len(b) - 1) - 1 + 1) : front[i] = b[1 + i - 1]
      BY <3>1, SubSeqProperties
    <3> HIDE DEF front
    <3>3. Len(front) = Len(b) - 1
      <4>1. CASE Len(b) = 1 BY <3>2, <4>1
      <4>2. CASE Len(b) > 1
        <5>1. 1 <= Len(b) - 1 /\ (Len(b) - 1) - 1 + 1 = Len(b) - 1 BY <1>1, <4>2
        <5> QED BY <3>2, <5>1, Zenon
      <4>3. \A n \in Nat : n > 0 => n = 1 \/ n > 1 OBVIOUS
      <4> QED BY <1>1, <4>1, <4>2, <4>3, Zenon
    <3>4. ASSUME NEW i \in 1..(Len(b) - 1) PROVE front[i] = b[i]
      <4>1. i \in 1..((Len(b) - 1) - 1 + 1) /\ 1 + i - 1 = i BY <1>1
      <4> QED BY <3>2, <4>1
    <3> QED BY <3>2, <3>3, <3>4
  <2> HIDE DEF front
  <2>3. b = Append(front, NewLine)
    <3>1. Append(front, NewLine) \in Seq(Pieces) BY <2>2 DEF Pieces
    <3>2. Len(Append(front, NewLine)) = Len(b) BY <1>1, <2>2
    <3>3. \A i \in 1..Len(b) : Append(front, NewLine)[i] = b[i] BY <1>1, <1>2, <2>2 DEF LastOf
    <3> QED BY <3>1, <3>2, <3>3, SeqEqual
  <2>4. a \o b = Append(a \o front, NewLine) BY <2>2, <2>3, ConcatAppend DEF Pieces
  <2>5. a \o front \in Seq(Pieces) BY <2>2
  <2>6. Text(a \o b) = Grown(Text(a \o front), NewLine) 
    <3>1. NewLine \in Pieces BY DEF Pieces
    <3>2. Text(Append(a \o front, NewLine)) = Grown(Text(a \o front), NewLine) BY <2>5, <3>1, TextGrows
    <3> QED BY <2>4, <3>2
  <2> QED BY <2>1, <2>2, <2>6 DEF Grown
<1>3. CASE LastOf(b) # NewLine BY <1>3 DEF Line
<1> QED BY <1>2, <1>3

\* What waits in the buffers ic of a stream.
Waits(ic, s) == IF rdbuf[s] = 0 \/ Flushed(s) THEN <<>> ELSE ic[s][rdbuf[s]].outbuf

\* A stream that a step leaves alone.
LEMMA StreamSame ==
  ASSUME NEW s \in Streams, Buffers(s), s \notin disturbed => Undisturbed(s), disturbed \subseteq disturbed',
         rdbuf' = rdbuf, kept' = kept, intercept'[s] = intercept[s],
         written'[s] = written[s], logged'[s] = logged[s],
         Flushers(s)' = Flushers(s), \A t \in Flushers(s) : flushes'[t] = flushes[t]
  PROVE  Buffers(s)' /\ (s \notin disturbed' => Undisturbed(s)')
<1>1. Flushed(s)' <=> Flushed(s) BY DEF Flushed, Flushers
<1>2. Pending(s)' = Pending(s) BY <1>1 DEF Pending
<1> QED BY <1>2 DEF Buffers, Undisturbed

LEMMA PutKeeps ==
  ASSUME IInv, NEW t \in Writers, NEW s \in Streams, NEW x \in Pieces, Put(t, s, x)
  PROVE  IInv'
<1>0. LogShapes /\ ChannelsOK /\ \A u \in Streams : Buffers(u) /\ (u \notin disturbed => Undisturbed(u)) BY DEF IInv
<1> DEFINE r == rdbuf[s]
           old == intercept[s][r]
<1>1. r \in 1..Len(intercept[s]) /\ intercept[s] \in Seq(Intercepts) /\ old \in Intercepts
  <2>1. r \in Nat /\ r # 0 /\ r <= Len(intercept[s]) BY <1>0 DEF Put, LogShapes, Buffers
  <2>2. intercept[s] \in Seq(Intercepts) BY <1>0 DEF LogShapes
  <2>3. r \in 1..Len(intercept[s]) BY <2>1, <2>2
  <2> QED BY <2>2, <2>3
<1>2. PICK late \in BOOLEAN :
        intercept' = [intercept EXCEPT ![s][r].outbuf = Append(@, x), ![s][r].flush = @ \/ late]
  BY DEF Put
<1> DEFINE b == [orgbuf |-> old.orgbuf, outbuf |-> Append(old.outbuf, x), flush |-> old.flush \/ late]
<1>3. b \in Intercepts BY <1>1 DEF Intercepts
<1>4. intercept' = [intercept EXCEPT ![s] = [intercept[s] EXCEPT ![r] = b]]
  <2>1. b = [old EXCEPT !.outbuf = Append(@, x), !.flush = @ \/ late]
    <3>1. old \in Intercepts BY <1>1
    <3> HIDE DEF old
    <3> QED BY <3>1, Changed
  <2>2. intercept' = [intercept EXCEPT ![s] = [intercept[s] EXCEPT ![r] = [old EXCEPT !.outbuf = Append(@, x), !.flush = @ \/ late]]]
    BY <1>0, <1>1, <1>2 DEF LogShapes
  <2> HIDE DEF b
  <2> QED BY <2>1, <2>2
<1>5. b.outbuf = Append(old.outbuf, x) /\ b.orgbuf = old.orgbuf OBVIOUS
<1> HIDE DEF b
<1>6. /\ intercept' \in [Streams -> Seq(Intercepts)]
      /\ \A u \in Streams : u # s => intercept'[u] = intercept[u]
      /\ Len(intercept'[s]) = Len(intercept[s]) /\ intercept'[s][r] = b
      /\ \A j \in 1..Len(intercept[s]) : j # r => intercept'[s][j] = intercept[s][j]
  <2>1. intercept \in [Streams -> Seq(Intercepts)] BY <1>0 DEF LogShapes
  <2> HIDE DEF r
  <2> QED BY <1>1, <1>3, <1>4, <2>1, OneBuffer
<1>7. /\ rdbuf' = rdbuf /\ kept' = kept /\ logged' = logged /\ logPc' = logPc /\ flushes' = flushes
      /\ written' = [written EXCEPT ![s] = Append(@, x)] /\ UNCHANGED <<channel, forwarder, syslogAddr, listener, port>>
      /\ disturbed' = disturbed \union {y \in {s} : Flushed(y)}
  BY DEF Put, channels, listening, Disturbs
<1>8. \A u : Flushers(u)' = Flushers(u) BY <1>7 DEF Flushers
<1>9. LogShapes'
  <2>1. Append(written[s], x) \in Seq(Pieces) BY <1>0 DEF LogShapes
  <2>2. written' \in [Streams -> Seq(Pieces)] BY <1>0, <1>7, <2>1 DEF LogShapes
  <2> QED BY <1>0, <1>6, <1>7, <2>2 DEF LogShapes
<1>10. ChannelsOK' BY <1>0, <1>7 DEF ChannelsOK
<1>11. ASSUME NEW u \in Streams, u # s PROVE Buffers(u)' /\ (u \notin disturbed' => Undisturbed(u)')
  <2>1. intercept'[u] = intercept[u] /\ written'[u] = written[u] /\ logged'[u] = logged[u]
    BY <1>0, <1>6, <1>7, <1>11 DEF LogShapes
  <2> QED BY <1>0, <1>7, <1>8, <2>1, StreamSame
<1>12. Buffers(s)'
  <2>1. \A i \in 1..Len(intercept[s]) : intercept'[s][i].orgbuf = intercept[s][i].orgbuf BY <1>1, <1>5, <1>6
  <2> QED BY <1>0, <1>6, <1>7, <1>8, <2>1 DEF Buffers
<1>13. ASSUME s \notin disturbed' PROVE Undisturbed(s)'
  <2>1. ~ Flushed(s) /\ Undisturbed(s) BY <1>0, <1>7, <1>13
  <2>2. Pending(s) = old.outbuf /\ old.outbuf \in Seq(Pieces) BY <1>1, <2>1 DEF Pending, Intercepts
  <2>3. Pending(s)' = Append(old.outbuf, x)
    <3>1. ~ Flushed(s)' /\ rdbuf'[s] = r /\ r # 0 BY <1>1, <1>7, <2>1 DEF Flushed
    <3> QED BY <1>5, <1>6, <3>1 DEF Pending
  <2>4. logged'[s] = logged[s] /\ written'[s] = Append(written[s], x) /\ logged[s] \in Seq(Pieces) /\ written[s] \in Seq(Pieces)
    BY <1>0, <1>7 DEF LogShapes
  <2>5. logged[s] \o Append(old.outbuf, x) = Append(logged[s] \o old.outbuf, x)
    <3>1. \A p, q \in Seq(Pieces) : p \o Append(q, x) = Append(p \o q, x) BY ConcatAppend
    <3> HIDE DEF old
    <3> QED BY <2>2, <2>4, <3>1, Zenon
  <2>6. logged[s] \o old.outbuf \in Seq(Pieces) BY <2>2, <2>4
  <2>7. Text(Append(logged[s] \o old.outbuf, x)) = Grown(Text(logged[s] \o old.outbuf), x) BY <2>6, TextGrows
  <2>8. Text(Append(written[s], x)) = Grown(Text(written[s]), x) BY <2>4, TextGrows
  <2>9. Text(logged[s] \o old.outbuf) = Text(written[s]) BY <2>1, <2>2 DEF Undisturbed
  <2>10. Text(logged'[s] \o Pending(s)') = Text(written'[s]) BY <2>3, <2>4, <2>5, <2>7, <2>8, <2>9
  <2> QED BY <1>7, <1>8, <2>1, <2>10 DEF Undisturbed
<1> QED BY <1>9, <1>10, <1>11, <1>12, <1>13 DEF IInv

\* A thread that hangs has given clog a line; what waits in bufs is what should.
LEMMA StuckKeeps ==
  ASSUME LoggerAssumption, IInv, NEW t \in Writers, logPc[t] = "idle",
         NEW bufs \in [Streams -> Seq(Intercepts)], NEW line \in Seq(Pieces),
         \A s \in Streams : /\ Len(bufs[s]) = Len(intercept[s])
                            /\ \A i \in 1..Len(intercept[s]) : bufs[s][i].orgbuf = intercept[s][i].orgbuf
                            /\ s \notin disturbed' => Text(logged[s] \o Waits(bufs, s)) = Text(written[s]),
         disturbed \subseteq disturbed', Flushed(Clog) /\ rdbuf[Clog] # 0 => Clog \in disturbed',
         StuckWith(t, bufs, line), UNCHANGED <<rdbuf, kept, flushes, channels, listening>>
  PROVE  IInv'
<1>0. /\ LogShapes /\ ChannelsOK /\ Clog \in Streams
      /\ \A u \in Streams : Buffers(u) /\ (u \notin disturbed => Undisturbed(u))
  BY DEF IInv, LoggerAssumption
<1>1. /\ logPc' = [logPc EXCEPT ![t] = "stuck"] /\ logged' = logged /\ intercept' = Feedback(bufs, line)
      /\ written' = IF rdbuf[Clog] = 0 THEN written ELSE [written EXCEPT ![Clog] = @ \o Append(line, NewLine)]
      /\ rdbuf' = rdbuf /\ kept' = kept /\ flushes' = flushes
      /\ UNCHANGED <<channel, forwarder, syslogAddr, listener, port>>
  BY DEF StuckWith, channels, listening
<1>2. \A u : Flushers(u)' = Flushers(u) BY <1>0, <1>1 DEF Flushers, LogShapes
<1>3. \A u : Flushed(u)' <=> Flushed(u)
  <2>1. \A u : Flushed(u) <=> Flushers(u) # {} BY FlushedIs
  <2>2. \A u : Flushed(u)' <=> Flushers(u)' # {} BY DEF Flushed, Flushers
  <2> QED BY <1>2, <2>1, <2>2
<1>4. ChannelsOK' BY <1>0, <1>1 DEF ChannelsOK
<1>5. ASSUME rdbuf[Clog] = 0 PROVE IInv'
  <2>1. intercept' = bufs /\ written' = written BY <1>1, <1>5 DEF Feedback
  <2>2. LogShapes' BY <1>0, <1>1, <2>1 DEF LogShapes
  <2>3. ASSUME NEW u \in Streams PROVE Buffers(u)' BY <1>0, <1>1, <1>2, <2>1 DEF Buffers
  <2>4. ASSUME NEW u \in Streams, u \notin disturbed' PROVE Undisturbed(u)'
    <3>1. Undisturbed(u) BY <1>0, <2>4
    <3>2. Pending(u)' = Waits(bufs, u) BY <1>1, <1>3, <2>1 DEF Pending, Waits
    <3> QED BY <1>1, <1>2, <2>1, <2>4, <3>1, <3>2 DEF Undisturbed
  <2> QED BY <1>4, <2>2, <2>3, <2>4 DEF IInv
<1>6. ASSUME rdbuf[Clog] # 0 PROVE IInv'
  <2> DEFINE c == Clog
             r == rdbuf[c]
             old == bufs[c][r]
             b == [orgbuf |-> old.orgbuf, outbuf |-> old.outbuf \o line, flush |-> old.flush]
  <2>1. r \in 1..Len(bufs[c]) /\ old \in Intercepts
    <3>1. r \in Nat /\ r # 0 /\ r <= Len(intercept[c]) BY <1>0, <1>6 DEF LogShapes, Buffers
    <3>2. bufs[c] \in Seq(Intercepts) /\ Len(bufs[c]) = Len(intercept[c]) BY <1>0
    <3>3. r \in 1..Len(bufs[c]) BY <3>1, <3>2
    <3> QED BY <3>2, <3>3
  <2>2. b \in Intercepts BY <2>1 DEF Intercepts
  <2>3. intercept' = [bufs EXCEPT ![c] = [bufs[c] EXCEPT ![r] = b]]
    <3>1. b = [old EXCEPT !.outbuf = @ \o line]
      <4>1. old \in Intercepts BY <2>1
      <4> HIDE DEF old
      <4> QED BY <4>1, ChangedText
    <3>2. intercept' = [bufs EXCEPT ![c] = [bufs[c] EXCEPT ![r] = [old EXCEPT !.outbuf = @ \o line]]]
      BY <1>0, <1>1, <1>6, <2>1 DEF Feedback
    <3> HIDE DEF b
    <3> QED BY <3>1, <3>2
  <2>4. b.outbuf = old.outbuf \o line /\ b.orgbuf = old.orgbuf OBVIOUS
  <2> HIDE DEF b
  <2>5. /\ intercept' \in [Streams -> Seq(Intercepts)]
        /\ \A u \in Streams : u # c => intercept'[u] = bufs[u]
        /\ Len(intercept'[c]) = Len(bufs[c]) /\ intercept'[c][r] = b
        /\ \A j \in 1..Len(bufs[c]) : j # r => intercept'[c][j] = bufs[c][j]
    <3>1. c \in Streams BY <1>0
    <3> HIDE DEF r, c
    <3> QED BY <2>1, <2>2, <2>3, <3>1, OneBuffer
  <2>6. written' = [written EXCEPT ![c] = @ \o Append(line, NewLine)] BY <1>1, <1>6
  <2>7. LogShapes'
    <3>1. Append(line, NewLine) \in Seq(Pieces) BY DEF Pieces
    <3>2. written' \in [Streams -> Seq(Pieces)] BY <1>0, <2>6, <3>1 DEF LogShapes
    <3> QED BY <1>0, <1>1, <2>5, <3>2 DEF LogShapes
  <2>8. ASSUME NEW u \in Streams PROVE Buffers(u)'
    <3>1. Len(intercept'[u]) = Len(intercept[u]) BY <2>5
    <3>2. \A i \in 1..Len(intercept[u]) : intercept'[u][i].orgbuf = intercept[u][i].orgbuf
      <4>1. \A i \in 1..Len(intercept[u]) : intercept'[u][i].orgbuf = bufs[u][i].orgbuf
        <5>1. CASE u # c BY <2>5, <5>1
        <5>2. CASE u = c
          <6>1. Len(bufs[c]) = Len(intercept[c]) BY <1>0
          <6>2. intercept'[c][r].orgbuf = bufs[c][r].orgbuf BY <2>4, <2>5
          <6> HIDE DEF r
          <6> QED BY <2>5, <5>2, <6>1, <6>2
        <5> QED BY <5>1, <5>2
      <4> QED BY <4>1
    <3> QED BY <1>0, <1>1, <1>2, <3>1, <3>2 DEF Buffers
  <2>9. ASSUME NEW u \in Streams, u # c, u \notin disturbed' PROVE Undisturbed(u)'
    <3>1. Undisturbed(u) BY <1>0, <2>9
    <3>2. Pending(u)' = Waits(bufs, u) BY <1>1, <1>3, <2>5, <2>9 DEF Pending, Waits
    <3>3. written'[u] = written[u] BY <1>0, <2>6, <2>9 DEF LogShapes
    <3> QED BY <1>1, <1>2, <2>9, <3>1, <3>2, <3>3 DEF Undisturbed
  <2>10. ASSUME c \notin disturbed' PROVE Undisturbed(c)'
    <3>1. Undisturbed(c) /\ ~ Flushed(c) BY <1>0, <1>6, <2>10
    <3>2. Waits(bufs, c) = old.outbuf /\ old.outbuf \in Seq(Pieces) BY <1>6, <2>1, <3>1 DEF Waits, Intercepts
    <3>3. Pending(c)' = old.outbuf \o line
      <4>1. ~ Flushed(c)' /\ rdbuf'[c] = r /\ r # 0 BY <1>1, <1>3, <1>6, <3>1
      <4> QED BY <2>4, <2>5, <4>1 DEF Pending
    <3>4. written'[c] = written[c] \o Append(line, NewLine) /\ logged[c] \in Seq(Pieces) /\ written[c] \in Seq(Pieces)
      BY <1>0, <2>6 DEF LogShapes
    <3>5. Text(logged[c] \o old.outbuf) = Text(written[c]) BY <1>0, <2>10, <3>2
    <3>6. logged[c] \o old.outbuf \in Seq(Pieces) BY <3>2, <3>4
    <3>7. Text((logged[c] \o old.outbuf) \o line) = Text(written[c] \o Append(line, NewLine))
      BY <3>4, <3>5, <3>6, LineFed
    <3>8. (logged[c] \o old.outbuf) \o line = logged[c] \o (old.outbuf \o line)
      <4>1. \A p, q \in Seq(Pieces) : (p \o q) \o line = p \o (q \o line) BY ConcatThree
      <4> HIDE DEF old
      <4> QED BY <3>2, <3>4, <4>1, Zenon
    <3>9. Text(logged'[c] \o Pending(c)') = Text(written'[c]) BY <1>1, <3>3, <3>4, <3>7, <3>8
    <3> QED BY <1>1, <1>2, <3>1, <3>9 DEF Undisturbed
  <2> QED BY <1>4, <2>7, <2>8, <2>9, <2>10 DEF IInv
<1> QED BY <1>5, <1>6

LEMMA LogKeeps ==
  ASSUME LoggerAssumption, IInv, NEW t \in Writers, NEW x \in Texts, Log(t, x)
  PROVE  IInv'
<1>1. intercept \in [Streams -> Seq(Intercepts)] /\ <<x>> \in Seq(Pieces) /\ Clog \in Streams
  BY DEF IInv, LogShapes, Pieces, LoggerAssumption
<1>2. ASSUME NEW s \in Streams, s \notin disturbed' PROVE Text(logged[s] \o Waits(intercept, s)) = Text(written[s])
  <2>1. s \notin disturbed BY <1>2 DEF Log
  <2> QED BY <2>1 DEF IInv, Undisturbed, Pending, Waits
<1>3. /\ disturbed \subseteq disturbed' /\ (Flushed(Clog) /\ rdbuf[Clog] # 0 => Clog \in disturbed')
      /\ logPc[t] = "idle" /\ StuckWith(t, intercept, <<x>>) /\ UNCHANGED <<rdbuf, kept, flushes, channels, listening>>
  BY DEF Log
<1> QED BY <1>1, <1>2, <1>3, StuckKeeps

LEMMA SyncKeeps ==
  ASSUME LoggerAssumption, IInv, NEW t \in Writers, NEW s \in Streams, Sync(t, s)
  PROVE  IInv'
<1>0. LogShapes /\ ChannelsOK /\ \A u \in Streams : Buffers(u) /\ (u \notin disturbed => Undisturbed(u)) BY DEF IInv
<1> DEFINE r == rdbuf[s]
           old == intercept[s][r]
           line == Line(old.outbuf)
           bufs == [intercept EXCEPT ![s][r].outbuf = line]
           b == [orgbuf |-> old.orgbuf, outbuf |-> line, flush |-> old.flush]
<1>1. r \in 1..Len(intercept[s]) /\ intercept[s] \in Seq(Intercepts) /\ old \in Intercepts /\ old.outbuf # <<>>
  <2>1. r \in Nat /\ r # 0 /\ r <= Len(intercept[s]) BY <1>0 DEF Sync, LogShapes, Buffers
  <2>2. intercept[s] \in Seq(Intercepts) BY <1>0 DEF LogShapes
  <2>3. r \in 1..Len(intercept[s]) BY <2>1, <2>2
  <2> QED BY <2>2, <2>3 DEF Sync, Flushable
<1>2. logged[s] \in Seq(Pieces) /\ written[s] \in Seq(Pieces) /\ old.outbuf \in Seq(Pieces)
  BY <1>0, <1>1 DEF LogShapes, Intercepts
<1>3. line \in Seq(Pieces) /\ Text(logged[s] \o line) = Text(logged[s] \o old.outbuf)
  <2> HIDE DEF r
  <2> QED BY <1>1, <1>2, LineText
<1>4. \/ /\ StuckWith(t, bufs, line) /\ UNCHANGED flushes
         /\ disturbed' = disturbed \union {x \in {s} \union {y \in {Clog} : rdbuf[y] # 0} : Flushed(x)}
      \/ /\ logPc' = [logPc EXCEPT ![t] = "clear"] /\ flushes' = [flushes EXCEPT ![t] = <<s, r>>]
         /\ intercept' = bufs /\ logged' = [logged EXCEPT ![s] = @ \o line]
         /\ Disturbs(s) /\ UNCHANGED written
  BY DEF Sync
<1>5. logPc[t] = "idle" /\ rdbuf' = rdbuf /\ kept' = kept /\ UNCHANGED <<channels, listening>> BY DEF Sync
<1>6. bufs = [intercept EXCEPT ![s] = [intercept[s] EXCEPT ![r] = b]]
  <2>1. b = [old EXCEPT !.outbuf = line] BY <1>1 DEF Intercepts
  <2>2. bufs = [intercept EXCEPT ![s] = [intercept[s] EXCEPT ![r] = [old EXCEPT !.outbuf = line]]]
    BY <1>0, <1>1 DEF LogShapes
  <2> HIDE DEF b, bufs
  <2> QED BY <2>1, <2>2
<1>7. b \in Intercepts /\ b.outbuf = line /\ b.orgbuf = old.orgbuf
  <2> HIDE DEF line
  <2> QED BY <1>1, <1>3 DEF Intercepts
<1> HIDE DEF b, bufs, line
<1>8. /\ bufs \in [Streams -> Seq(Intercepts)]
      /\ \A u \in Streams : u # s => bufs[u] = intercept[u]
      /\ Len(bufs[s]) = Len(intercept[s]) /\ bufs[s][r] = b
      /\ \A j \in 1..Len(intercept[s]) : j # r => bufs[s][j] = intercept[s][j]
  <2>1. intercept \in [Streams -> Seq(Intercepts)] BY <1>0 DEF LogShapes
  <2> HIDE DEF r
  <2> QED BY <1>1, <1>6, <1>7, <2>1, OneBuffer
<1>9. \A u \in Streams : /\ Len(bufs[u]) = Len(intercept[u])
                         /\ \A i \in 1..Len(intercept[u]) : bufs[u][i].orgbuf = intercept[u][i].orgbuf
  BY <1>1, <1>7, <1>8
<1>10. ASSUME s \notin disturbed, ~ Flushed(s) PROVE Text(logged[s] \o line) = Text(written[s])
  <2>1. Pending(s) = old.outbuf BY <1>1, <1>10 DEF Pending
  <2> QED BY <1>0, <1>3, <1>10, <2>1 DEF Undisturbed
<1>11. CASE StuckWith(t, bufs, line) /\ UNCHANGED flushes
            /\ disturbed' = disturbed \union {x \in {s} \union {y \in {Clog} : rdbuf[y] # 0} : Flushed(x)}
  <2>1. ASSUME NEW u \in Streams, u \notin disturbed' PROVE Text(logged[u] \o Waits(bufs, u)) = Text(written[u])
    <3>1. CASE u # s
      <4>1. Waits(bufs, u) = Pending(u) BY <1>8, <3>1 DEF Waits, Pending
      <4> QED BY <1>0, <1>11, <2>1, <4>1 DEF Undisturbed
    <3>2. CASE u = s
      <4>1. s \notin disturbed /\ ~ Flushed(s) BY <1>11, <2>1, <3>2
      <4>2. Waits(bufs, s) = line BY <1>1, <1>7, <1>8, <4>1 DEF Waits
      <4> QED BY <1>10, <3>2, <4>1, <4>2
    <3> QED BY <3>1, <3>2
  <2>2. disturbed \subseteq disturbed' /\ (Flushed(Clog) /\ rdbuf[Clog] # 0 => Clog \in disturbed')
    <3> HIDE DEF r
    <3> QED BY <1>11
  <2>3. UNCHANGED <<rdbuf, kept, flushes, channels, listening>> BY <1>5, <1>11
  <2> HIDE DEF r
  <2> QED BY <1>3, <1>5, <1>8, <1>9, <1>11, <2>1, <2>2, <2>3, StuckKeeps
<1>12. CASE /\ logPc' = [logPc EXCEPT ![t] = "clear"] /\ flushes' = [flushes EXCEPT ![t] = <<s, r>>]
            /\ intercept' = bufs /\ logged' = [logged EXCEPT ![s] = @ \o line]
            /\ Disturbs(s) /\ UNCHANGED written
  <2>1. disturbed' = disturbed \union {y \in {s} : Flushed(y)} BY <1>12 DEF Disturbs
  <2>2. LogShapes'
    <3>1. logged' \in [Streams -> Seq(Pieces)] BY <1>0, <1>2, <1>3, <1>12 DEF LogShapes
    <3>2. r \in Nat BY <1>1
    <3> QED BY <1>0, <1>5, <1>8, <1>12, <3>1, <3>2 DEF LogShapes
  <2>3. ChannelsOK' BY <1>0, <1>5 DEF ChannelsOK, channels, listening
  <2>4. /\ \A u \in Streams : u # s => Flushers(u)' = Flushers(u)
        /\ Flushers(s)' = Flushers(s) \union {t} /\ t \notin Flushers(s)
        /\ \A u \in Writers : u # t => flushes'[u] = flushes[u]
        /\ flushes'[t] = <<s, r>>
    BY <1>0, <1>5, <1>12 DEF Flushers, LogShapes
  <2>5. ASSUME NEW u \in Streams, u # s PROVE Buffers(u)' /\ (u \notin disturbed' => Undisturbed(u)')
    <3>1. intercept'[u] = intercept[u] /\ written'[u] = written[u] /\ logged'[u] = logged[u] /\ disturbed \subseteq disturbed'
      BY <1>0, <1>8, <1>12, <2>1, <2>5 DEF LogShapes
    <3>2. \A w \in Flushers(u) : flushes'[w] = flushes[w] BY <1>5, <2>4 DEF Flushers
    <3> QED BY <1>0, <1>5, <2>4, <2>5, <3>1, <3>2, StreamSame
  <2>6. Buffers(s)'
    <3>1. Len(intercept'[s]) = Len(intercept[s]) /\ \A i \in 1..Len(intercept[s]) : intercept'[s][i].orgbuf = intercept[s][i].orgbuf
      BY <1>9, <1>12
    <3>2. \A w \in Flushers(s)' : flushes'[w][2] \in 1..Len(intercept'[s])
      <4>1. \A w \in Flushers(s) : w \in Writers /\ w # t BY <2>4 DEF Flushers
      <4> QED BY <1>0, <1>1, <2>4, <3>1, <4>1 DEF Buffers
    <3> QED BY <1>0, <1>5, <3>1, <3>2 DEF Buffers
  <2>7. ASSUME s \notin disturbed' PROVE Undisturbed(s)'
    <3>1. s \notin disturbed /\ ~ Flushed(s) /\ Undisturbed(s) BY <1>0, <2>1, <2>7
    <3>2. Flushers(s)' = {t} BY <2>4, <3>1, FlushedIs
    <3>3. Flushed(s)' BY <3>2 DEF Flushed, Flushers
    <3>4. Pending(s)' = <<>> BY <3>3 DEF Pending
    <3>5. logged'[s] = logged[s] \o line /\ written'[s] = written[s] BY <1>0, <1>12 DEF LogShapes
    <3>6. (logged[s] \o line) \o <<>> = logged[s] \o line
      <4>1. \A p, q \in Seq(Pieces) : (p \o q) \o <<>> = p \o q OBVIOUS
      <4> QED BY <1>2, <1>3, <4>1
    <3>7. Text(logged'[s] \o Pending(s)') = Text(written'[s]) BY <1>10, <3>1, <3>4, <3>5, <3>6
    <3> QED BY <1>5, <2>4, <3>1, <3>2, <3>7 DEF Undisturbed
  <2> QED BY <2>2, <2>3, <2>5, <2>6, <2>7 DEF IInv
<1> QED BY <1>4, <1>11, <1>12

LEMMA ClearKeeps ==
  ASSUME IInv, NEW t \in Writers, Clear(t), NEW s, s = flushes[t][1], NEW r, r = flushes[t][2]
  PROVE  IInv'
<1>0. LogShapes /\ ChannelsOK /\ \A u \in Streams : Buffers(u) /\ (u \notin disturbed => Undisturbed(u)) BY DEF IInv
<1> DEFINE old == intercept[s][r]
           b == [orgbuf |-> old.orgbuf, outbuf |-> <<>>, flush |-> FALSE]
<1>1. s \in Streams /\ t \in Flushers(s) BY <1>0 DEF LogShapes, Clear, Flushers
<1>2. r \in 1..Len(intercept[s]) /\ old \in Intercepts
  <2>1. r \in 1..Len(intercept[s]) BY <1>0, <1>1 DEF Buffers
  <2>2. intercept[s] \in Seq(Intercepts) BY <1>0, <1>1 DEF LogShapes
  <2> QED BY <2>1, <2>2
<1>3. intercept' = [intercept EXCEPT ![s] = [intercept[s] EXCEPT ![r] = b]]
  <2>1. b = [old EXCEPT !.outbuf = <<>>, !.flush = FALSE]
    <3>1. old \in Intercepts BY <1>2
    <3> HIDE DEF old
    <3> QED BY <3>1, Changed
  <2>2. intercept' = [intercept EXCEPT ![s] = [intercept[s] EXCEPT ![r] = [old EXCEPT !.outbuf = <<>>, !.flush = FALSE]]]
    BY <1>0, <1>1, <1>2 DEF LogShapes, Clear, Emptied
  <2> HIDE DEF b
  <2> QED BY <2>1, <2>2
<1>4. b \in Intercepts /\ b.outbuf = <<>> /\ b.orgbuf = old.orgbuf BY <1>2 DEF Intercepts
<1> HIDE DEF b
<1>5. /\ intercept' \in [Streams -> Seq(Intercepts)]
      /\ \A u \in Streams : u # s => intercept'[u] = intercept[u]
      /\ Len(intercept'[s]) = Len(intercept[s]) /\ intercept'[s][r] = b
      /\ \A j \in 1..Len(intercept[s]) : j # r => intercept'[s][j] = intercept[s][j]
  <2>1. intercept \in [Streams -> Seq(Intercepts)] BY <1>0 DEF LogShapes
  <2> QED BY <1>1, <1>2, <1>3, <1>4, <2>1, OneBuffer
<1>6. /\ logPc' = [logPc EXCEPT ![t] = "idle"]
      /\ rdbuf' = rdbuf /\ kept' = kept /\ written' = written /\ logged' = logged
      /\ flushes' = flushes /\ disturbed' = disturbed /\ UNCHANGED <<channel, forwarder, syslogAddr, listener, port>>
  BY DEF Clear, channels, listening
<1>7. LogShapes' BY <1>0, <1>5, <1>6 DEF LogShapes
<1>8. ChannelsOK' BY <1>0, <1>6 DEF ChannelsOK
<1>9. \A u : Flushers(u)' = Flushers(u) \ {t} BY <1>0, <1>6 DEF Flushers, LogShapes
<1>10. ASSUME NEW u \in Streams, u # s PROVE Buffers(u)' /\ (u \notin disturbed' => Undisturbed(u)')
  <2>1. intercept'[u] = intercept[u] BY <1>5, <1>10
  <2>2. Flushers(u)' = Flushers(u) BY <1>9, <1>10 DEF Flushers
  <2> QED BY <1>0, <1>6, <2>1, <2>2, StreamSame
<1>11. Buffers(s)'
  <2>1. \A i \in 1..Len(intercept[s]) : intercept'[s][i].orgbuf = intercept[s][i].orgbuf BY <1>2, <1>4, <1>5
  <2> QED BY <1>0, <1>1, <1>5, <1>6, <1>9, <2>1 DEF Buffers
<1>12. ASSUME s \notin disturbed' PROVE Undisturbed(s)'
  <2>1. Undisturbed(s) BY <1>0, <1>1, <1>6, <1>12
  <2>2. Flushers(s) = {t} /\ rdbuf[s] = r BY <1>1, <2>1 DEF Undisturbed
  <2>3. Flushers(s)' = {} BY <1>9, <2>2
  <2>4. Pending(s) = <<>> /\ Pending(s)' = <<>>
    <3>1. Flushed(s) BY <1>1 DEF Flushed, Flushers
    <3>2. intercept'[s][rdbuf'[s]].outbuf = <<>> BY <1>4, <1>5, <1>6, <2>2
    <3> QED BY <3>1, <3>2 DEF Pending
  <2> QED BY <1>6, <2>1, <2>3, <2>4 DEF Undisturbed
<1> QED BY <1>1, <1>7, <1>8, <1>10, <1>11, <1>12 DEF IInv

LEMMA ForwardKeeps ==
  ASSUME IInv, ForwardStdIo
  PROVE  IInv'
<1>0. LogShapes /\ ChannelsOK /\ \A u \in Streams : Buffers(u) /\ (u \notin disturbed => Undisturbed(u)) BY DEF IInv
<1>1. /\ kept' = [s \in Streams |-> Len(intercept[s]) + 1]
      /\ intercept' = [s \in Streams |-> Append(intercept[s], NewIntercept(rdbuf[s]))]
      /\ rdbuf' = [s \in Streams |-> BufferAfter(s)]
      /\ written' = written /\ logged' = logged /\ logPc' = logPc /\ flushes' = flushes
      /\ UNCHANGED <<channel, forwarder, syslogAddr, listener, port>>
  BY DEF ForwardStdIo, channels, listening
<1>2. disturbed' = disturbed \union
        {s \in Streams : kept[s] # 0 /\ (intercept[s][kept[s]].outbuf # <<>> \/ Flushed(s) \/ BufferAfter(s) # 0)}
  BY DEF ForwardStdIo
<1>3. \A u : Flushers(u)' = Flushers(u) /\ (Flushed(u)' <=> Flushed(u)) BY <1>1 DEF Flushers, Flushed
<1>4. ChannelsOK' BY <1>0, <1>1 DEF ChannelsOK
<1>5. ASSUME NEW s \in Streams
      PROVE  /\ intercept[s] \in Seq(Intercepts) /\ rdbuf[s] \in Nat /\ kept[s] \in Nat
             /\ NewIntercept(rdbuf[s]) \in Intercepts /\ NewIntercept(rdbuf[s]).outbuf = <<>>
             /\ NewIntercept(rdbuf[s]).orgbuf = rdbuf[s]
  <2>1. intercept[s] \in Seq(Intercepts) /\ rdbuf[s] \in Nat /\ kept[s] \in Nat BY <1>0 DEF LogShapes
  <2>2. <<>> \in Seq(Pieces) OBVIOUS
  <2> QED BY <2>1, <2>2 DEF NewIntercept, Intercepts
<1>6. ASSUME NEW s \in Streams
      PROVE  /\ intercept'[s] \in Seq(Intercepts) /\ Len(intercept'[s]) = Len(intercept[s]) + 1
             /\ intercept'[s][Len(intercept[s]) + 1] = NewIntercept(rdbuf[s])
             /\ \A i \in 1..Len(intercept[s]) : intercept'[s][i] = intercept[s][i]
  <2>1. intercept'[s] = Append(intercept[s], NewIntercept(rdbuf[s])) BY <1>1
  <2> QED BY <1>5, <2>1
<1>7. ASSUME NEW s \in Streams PROVE BufferAfter(s) \in 0..(Len(intercept[s]) + 1)
  <2>1. CASE kept[s] = 0 BY <1>5, <2>1 DEF BufferAfter
  <2>2. CASE kept[s] # 0
    <3>1. kept[s] \in 1..Len(intercept[s]) BY <1>0, <1>5, <2>2 DEF Buffers
    <3>2. intercept[s][kept[s]] \in Intercepts BY <1>5, <3>1
    <3>3. intercept[s][kept[s]].orgbuf \in Nat /\ intercept[s][kept[s]].orgbuf <= Len(intercept[s])
      BY <1>0, <3>1, <3>2 DEF Buffers, Intercepts
    <3> QED BY <1>5, <2>2, <3>3 DEF BufferAfter
  <2> QED BY <2>1, <2>2
<1>8. LogShapes'
  <2>1. rdbuf' \in [Streams -> Nat] BY <1>1, <1>7
  <2>2. kept' \in [Streams -> Nat] BY <1>1, <1>5
  <2>3. intercept' \in [Streams -> Seq(Intercepts)] BY <1>1, <1>6
  <2> QED BY <1>0, <1>1, <2>1, <2>2, <2>3 DEF LogShapes
<1>9. ASSUME NEW s \in Streams PROVE Buffers(s)'
  <2>1. Len(intercept[s]) \in Nat BY <1>5
  <2>2. kept'[s] <= Len(intercept'[s]) /\ rdbuf'[s] <= Len(intercept'[s]) BY <1>1, <1>6, <1>7, <2>1
  <2>3. ASSUME NEW i \in 1..Len(intercept'[s]) PROVE intercept'[s][i].orgbuf <= Len(intercept'[s])
    <3>1. CASE i \in 1..Len(intercept[s])
      <4>1. intercept'[s][i] = intercept[s][i] /\ intercept[s][i] \in Intercepts BY <1>5, <1>6, <3>1
      <4>2. intercept[s][i].orgbuf <= Len(intercept[s]) BY <1>0, <3>1 DEF Buffers
      <4>3. intercept[s][i].orgbuf \in Nat BY <4>1 DEF Intercepts
      <4> QED BY <1>6, <2>1, <4>1, <4>2, <4>3
    <3>2. CASE i = Len(intercept[s]) + 1
      <4>1. intercept'[s][i].orgbuf = rdbuf[s] /\ rdbuf[s] <= Len(intercept[s]) BY <1>0, <1>5, <1>6, <3>2 DEF Buffers
      <4> QED BY <1>5, <1>6, <2>1, <4>1
    <3> QED BY <1>6, <2>1, <3>1, <3>2
  <2>4. \A t \in Flushers(s)' : flushes'[t][2] \in 1..Len(intercept'[s])
    <3>1. \A t \in Flushers(s) : flushes[t][2] \in 1..Len(intercept[s]) BY <1>0 DEF Buffers
    <3> QED BY <1>1, <1>3, <1>6, <2>1, <3>1
  <2> QED BY <2>2, <2>3, <2>4 DEF Buffers
<1>10. ASSUME NEW s \in Streams, s \notin disturbed' PROVE Undisturbed(s)'
  <2>1. Undisturbed(s) BY <1>0, <1>2, <1>10
  <2>2. /\ logged[s] \in Seq(Pieces) /\ written'[s] = written[s] /\ logged'[s] = logged[s]
        /\ kept'[s] = Len(intercept[s]) + 1 /\ rdbuf'[s] = BufferAfter(s)
    BY <1>0, <1>1 DEF LogShapes
  <2>3. /\ ~ Flushed(s) /\ rdbuf'[s] \in {0, kept'[s]} /\ Pending(s) = <<>> /\ Pending(s)' = <<>>
    <3>1. CASE kept[s] = 0
      <4>1. rdbuf[s] = 0 BY <2>1, <3>1 DEF Undisturbed
      <4>2. rdbuf'[s] = Len(intercept[s]) + 1 BY <2>2, <3>1 DEF BufferAfter
      <4>3. intercept'[s][rdbuf'[s]].outbuf = <<>> BY <1>5, <1>6, <4>2
      <4>4. Pending(s) = <<>> /\ Pending(s)' = <<>> BY <4>1, <4>3 DEF Pending
      <4>5. ~ Flushed(s)
        <5>1. \A t \in Flushers(s) : flushes[t][2] \in 1..Len(intercept[s]) /\ flushes[t][2] = rdbuf[s]
          BY <1>0, <2>1 DEF Buffers, Undisturbed
        <5>2. Flushers(s) = {} BY <1>5, <4>1, <5>1
        <5> QED BY <5>2, FlushedIs
      <4> QED BY <2>2, <4>2, <4>4, <4>5
    <3>2. CASE kept[s] # 0
      <4>1. intercept[s][kept[s]].outbuf = <<>> /\ ~ Flushed(s) /\ BufferAfter(s) = 0 BY <1>2, <1>10, <3>2
      <4>2. rdbuf[s] \in {0, kept[s]} BY <2>1 DEF Undisturbed
      <4>3. Pending(s) = <<>> /\ Pending(s)' = <<>> BY <2>2, <4>1, <4>2 DEF Pending
      <4> QED BY <2>2, <4>1, <4>3
    <3> QED BY <3>1, <3>2
  <2>4. Flushers(s)' = {} BY <1>3, <2>3, FlushedIs
  <2> QED BY <2>1, <2>2, <2>3, <2>4 DEF Undisturbed
<1> QED BY <1>4, <1>8, <1>9, <1>10 DEF IInv

LEMMA StreamsUntouched ==
  ASSUME IInv, UNCHANGED streams, ChannelsOK'
  PROVE  IInv'
<1>1. \A s : Pending(s)' = Pending(s) /\ Flushers(s)' = Flushers(s) BY DEF streams, Pending, Flushed, Flushers
<1> QED BY <1>1 DEF IInv, streams, LogShapes, Buffers, Undisturbed

LEMMA Starts ==
  ASSUME LoggerAssumption, LogInit
  PROVE  IInv
<1>1. LogShapes BY DEF LogInit, LogShapes, LoggerAssumption
<1>2. ChannelsOK BY DEF LogInit, ChannelsOK
<1>3. ASSUME NEW s \in Streams PROVE Buffers(s) /\ Undisturbed(s)
  <2>1. Flushers(s) = {} BY DEF Flushers, LogInit
  <2>2. rdbuf[s] = 0 /\ kept[s] = 0 /\ intercept[s] = <<>> /\ logged[s] = <<>> /\ written[s] = <<>> BY DEF LogInit
  <2>3. Pending(s) = <<>> BY <2>2 DEF Pending
  <2>4. <<>> \o <<>> = <<>> /\ Len(<<>>) = 0 OBVIOUS
  <2> QED BY <2>1, <2>2, <2>3, <2>4 DEF Buffers, Undisturbed
<1> QED BY <1>1, <1>2, <1>3 DEF IInv

LEMMA Steps ==
  ASSUME LoggerAssumption, IInv, [LogNext]_logVars
  PROVE  IInv'
<1>0. ChannelsOK BY DEF IInv
<1>1. CASE ForwardStdIo BY <1>1, ForwardKeeps
<1>2. ASSUME NEW t \in Writers, NEW s \in Streams, Sync(t, s) PROVE IInv' BY <1>2, SyncKeeps
<1>3. ASSUME NEW t \in Writers, NEW s \in Streams, NEW x \in Pieces, Put(t, s, x) PROVE IInv' BY <1>3, PutKeeps
<1>4. ASSUME NEW t \in Writers, Clear(t) PROVE IInv' BY <1>4, ClearKeeps
<1>5. ASSUME NEW t \in Writers, NEW x \in Texts, Log(t, x) PROVE IInv' BY <1>5, LogKeeps
<1>6. ASSUME NEW addr \in Addrs, StartSyslogForwarding(addr) PROVE IInv'
  BY <1>0, <1>6, StreamsUntouched DEF StartSyslogForwarding, listening, ChannelsOK
<1>7. CASE StopSyslogForwarding
  BY <1>0, <1>7, StreamsUntouched DEF StopSyslogForwarding, listening, ChannelsOK
<1>8. CASE SetupDefaultLogging
  BY <1>0, <1>8, StreamsUntouched DEF SetupDefaultLogging, ChannelFor, listening, ChannelsOK
<1>9. CASE StartSyslogListener \/ StartListenerThrows \/ StopSyslogListener
  BY <1>0, <1>9, StreamsUntouched
  DEF StartSyslogListener, StartListenerThrows, StopSyslogListener, channels, ChannelsOK
<1>10. CASE UNCHANGED logVars BY <1>0, <1>10, StreamsUntouched DEF logVars, channels, listening, ChannelsOK
<1> QED BY <1>1, <1>2, <1>3, <1>4, <1>5, <1>6, <1>7, <1>8, <1>9, <1>10
    DEF LogNext, SetupNext, StreamNext, StopNext, WriterStep, Pieces

(* What is written to a redirected stream is logged once and in order, or  *)
(* waits in the buffer, whatever is written by whichever threads and       *)
(* whenever sync is called (InterceptStream), until two of them disturb    *)
(* each other: for any streams, texts, threads and redirections.           *)
THEOREM TextIsInOrder == LoggerAssumption /\ LogSpec => []TextInOrder
<1> SUFFICES ASSUME LoggerAssumption PROVE LogSpec => []TextInOrder OBVIOUS
<1>1. LogInit => IInv BY Starts
<1>2. IInv /\ [LogNext]_logVars => IInv' BY Steps
<1>3. IInv => TextInOrder
  <2> SUFFICES ASSUME IInv PROVE TextInOrder OBVIOUS
  <2>1. \A s \in Streams : rdbuf[s] \in 0..Len(intercept[s]) /\ kept[s] \in 0..Len(intercept[s])
    BY DEF IInv, LogShapes, Buffers
  <2>2. TextKept BY DEF IInv, TextKept, Undisturbed
  <2> QED BY <2>1, <2>2 DEF IInv, TextInOrder, LogTypesOK, ChannelsOK
<1> QED BY <1>1, <1>2, <1>3, PTL DEF LogSpec

-----------------------------------------------------------------------------
(* What is left of a sequence.                                             *)

More(x, S) == IF x \in S THEN <<x>> ELSE <<>>

\* f has at i what is left of the first i elements, for i up to n.
Keeps(f, seq, S, n) == f = [i \in 0..n |-> IF i = 0 THEN <<>> ELSE f[i - 1] \o More(seq[i], S)]
AreKept(seq, S, n) == \E f : Keeps(f, seq, S, n)

\* What such a function has at 0, and at i from i - 1.
LEMMA KeepsAt ==
  ASSUME NEW seq, NEW S, NEW n \in Nat, NEW f, Keeps(f, seq, S, n)
  PROVE  f[0] = <<>> /\ \A i \in 1..n : f[i] = f[i - 1] \o More(seq[i], S)
<1> DEFINE e == [i \in 0..n |-> IF i = 0 THEN <<>> ELSE f[i - 1] \o More(seq[i], S)]
<1>1. f = e BY DEF Keeps
<1>2. 0 \in 0..n /\ \A i \in 1..n : i \in 0..n /\ i # 0 OBVIOUS
<1>3. e[0] = <<>> /\ \A i \in 1..n : e[i] = f[i - 1] \o More(seq[i], S) BY <1>2
<1> HIDE DEF e
<1> QED BY <1>1, <1>3

\* The function for one element more.
LEMMA KeepsMore ==
  ASSUME NEW seq, NEW S, NEW n \in Nat, NEW f, Keeps(f, seq, S, n)
  PROVE  Keeps([i \in 0..(n + 1) |-> IF i = n + 1 THEN f[n] \o More(seq[n + 1], S) ELSE f[i]], seq, S, n + 1)
<1> DEFINE g == [i \in 0..(n + 1) |-> IF i = n + 1 THEN f[n] \o More(seq[n + 1], S) ELSE f[i]]
           h == [i \in 0..(n + 1) |-> IF i = 0 THEN <<>> ELSE g[i - 1] \o More(seq[i], S)]
<1>1. f[0] = <<>> /\ \A i \in 1..n : f[i] = f[i - 1] \o More(seq[i], S) BY KeepsAt
<1>2. \A i \in 0..n : g[i] = f[i] OBVIOUS
<1>3. ASSUME NEW i \in 0..(n + 1) PROVE g[i] = IF i = 0 THEN <<>> ELSE g[i - 1] \o More(seq[i], S)
  <2>1. CASE i = 0 BY <1>1, <1>2, <2>1
  <2>2. CASE i \in 1..n
    <3>1. i - 1 \in 0..n /\ i \in 0..n /\ i # 0 BY <2>2
    <3>2. g[i - 1] = f[i - 1] /\ g[i] = f[i] BY <1>2, <3>1
    <3> HIDE DEF g
    <3> QED BY <1>1, <2>2, <3>1, <3>2
  <2>3. CASE i = n + 1
    <3>1. g[i] = f[n] \o More(seq[n + 1], S) BY <2>3
    <3>2. i - 1 = n /\ i # 0 BY <2>3
    <3>3. g[n] = f[n] BY <1>2
    <3> HIDE DEF g
    <3> QED BY <2>3, <3>1, <3>2, <3>3
  <2> QED BY <2>1, <2>2, <2>3
<1>4. g = h
  <2>1. \A i \in 0..(n + 1) : g[i] = h[i]
    <3> HIDE DEF g
    <3> QED BY <1>3
  <2>2. g = [i \in 0..(n + 1) |-> g[i]] OBVIOUS
  <2>3. h = [i \in 0..(n + 1) |-> h[i]] OBVIOUS
  <2> HIDE DEF g, h
  <2> QED BY <2>1, <2>2, <2>3
<1> QED BY <1>4 DEF Keeps

\* There is such a function for any number of elements.
LEMMA KeepsExists ==
  ASSUME NEW seq, NEW S
  PROVE  \A n \in Nat : AreKept(seq, S, n)
<1> DEFINE T == {n \in Nat : AreKept(seq, S, n)}
<1>1. 0 \in T
  <2>1. Keeps([i \in 0..0 |-> <<>>], seq, S, 0) BY DEF Keeps
  <2> QED BY <2>1 DEF AreKept
<1>2. ASSUME NEW n \in Nat, n \in T PROVE n + 1 \in T
  <2>1. PICK f : Keeps(f, seq, S, n) BY <1>2 DEF AreKept
  <2>2. AreKept(seq, S, n + 1) BY <2>1, KeepsMore DEF AreKept
  <2> QED BY <2>2
<1>3. \A n \in Nat : n \in T
  <2> HIDE DEF T
  <2> QED BY <1>1, <1>2, AllNumbers
<1> QED BY <1>3

\* Filter is the last value of such a function (its definition is a recursive function).
LEMMA FilterIs ==
  ASSUME NEW T, NEW seq \in Seq(T), NEW S
  PROVE  \E f : /\ Filter(seq, S) = f[Len(seq)] /\ f[0] = <<>>
                /\ \A i \in 1..Len(seq) : f[i] = f[i - 1] \o More(seq[i], S)
<1> DEFINE f == CHOOSE g : Keeps(g, seq, S, Len(seq))
<1>1. Len(seq) \in Nat OBVIOUS
<1>2. Keeps(f, seq, S, Len(seq)) BY <1>1, KeepsExists DEF AreKept
<1>3. Filter(seq, S) = f[Len(seq)] BY DEF Filter, Keeps, More
<1>4. f[0] = <<>> /\ \A i \in 1..Len(seq) : f[i] = f[i - 1] \o More(seq[i], S)
  <2> HIDE DEF f
  <2> QED BY <1>1, <1>2, KeepsAt
<1> QED BY <1>3, <1>4

\* What is left are the elements that are in S, each as often as before.
LEMMA FilterKeeps ==
  ASSUME NEW T, NEW seq \in Seq(T), NEW S
  PROVE  /\ Filter(seq, S) \in Seq(T)
         /\ ToSet(Filter(seq, S)) = ToSet(seq) \intersect S
         /\ IsInjective(seq) => IsInjective(Filter(seq, S))
<1>1. PICK f : /\ Filter(seq, S) = f[Len(seq)] /\ f[0] = <<>>
               /\ \A i \in 1..Len(seq) : f[i] = f[i - 1] \o More(seq[i], S)
  BY FilterIs
<1> DEFINE first(n) == {seq[i] : i \in 1..n}
           good(n) == /\ f[n] \in Seq(T) /\ ToSet(f[n]) = first(n) \intersect S
                      /\ IsInjective(seq) => IsInjective(f[n])
           A == {n \in Nat : n <= Len(seq) => good(n)}
<1>2. 0 \in A
  <2>1. DOMAIN <<>> = {} OBVIOUS
  <2>2. ToSet(<<>>) = {} /\ IsInjective(<<>>) BY <2>1 DEF ToSet, IsInjective
  <2>3. first(0) = {} OBVIOUS
  <2>4. good(0) BY <1>1, <2>2, <2>3
  <2> QED BY <2>4
<1>3. ASSUME NEW n \in Nat, n \in A PROVE n + 1 \in A
  <2> SUFFICES ASSUME n + 1 <= Len(seq) PROVE good(n + 1) OBVIOUS
  <2> DEFINE x == seq[n + 1]
  <2>1. n + 1 \in 1..Len(seq) /\ good(n) /\ x \in T BY <1>3
  <2>2. f[n + 1] = f[n] \o More(x, S)
    <3>1. (n + 1) - 1 = n OBVIOUS
    <3>2. f[n + 1] = f[(n + 1) - 1] \o More(seq[n + 1], S) BY <1>1, <2>1
    <3> QED BY <3>1, <3>2
  <2>3. first(n + 1) = first(n) \union {x} BY <2>1
  <2>4. CASE x \notin S
    <3>1. f[n + 1] = f[n] BY <2>1, <2>2, <2>4, ConcatEmptySeq DEF More
    <3> QED BY <2>1, <2>3, <2>4, <3>1
  <2>5. CASE x \in S
    <3> DEFINE g == f[n]
               h == g \o <<x>>
    <3>1. f[n + 1] = h BY <2>2, <2>5 DEF More
    <3>2. g \in Seq(T) /\ ToSet(g) = first(n) \intersect S BY <2>1
    <3> HIDE DEF g
    <3>3. /\ h \in Seq(T) /\ Len(h) = Len(g) + 1 /\ h[Len(g) + 1] = x
          /\ \A i \in 1..Len(g) : h[i] = g[i]
      BY <2>1, <3>2
    <3>4. DOMAIN g = 1..Len(g) /\ DOMAIN h = 1..(Len(g) + 1) /\ Len(g) \in Nat BY <3>2, <3>3
    <3>5. ToSet(h) = ToSet(g) \union {x}
      <4> HIDE DEF h, x
      <4> QED BY <3>3, <3>4 DEF ToSet
    <3>6. IsInjective(seq) => IsInjective(h)
      <4> SUFFICES ASSUME IsInjective(seq), NEW i \in DOMAIN h, NEW j \in DOMAIN h, h[i] = h[j] PROVE i = j
        BY DEF IsInjective
      <4>1. IsInjective(g) BY <2>1 DEF g
      <4>2. x \notin ToSet(g)
        <5> SUFFICES ASSUME x \in first(n) PROVE FALSE BY <3>2
        <5>1. PICK k \in 1..n : seq[k] = seq[n + 1] OBVIOUS
        <5>2. k \in DOMAIN seq /\ n + 1 \in DOMAIN seq BY <2>1
        <5> QED BY <5>1, <5>2 DEF IsInjective
      <4> HIDE DEF h, x
      <4>3. \A k \in 1..Len(g) : g[k] \in ToSet(g) BY <3>4 DEF ToSet
      <4>4. CASE i \in 1..Len(g) /\ j \in 1..Len(g) BY <4>1, <4>4, <3>3, <3>4 DEF IsInjective
      <4>5. CASE i = Len(g) + 1 /\ j \in 1..Len(g) BY <4>2, <4>3, <4>5, <3>3
      <4>6. CASE j = Len(g) + 1 /\ i \in 1..Len(g) BY <4>2, <4>3, <4>6, <3>3
      <4> QED BY <3>4, <4>4, <4>5, <4>6
    <3>7. ToSet(h) = first(n + 1) \intersect S
      <4> HIDE DEF h, x
      <4> QED BY <2>3, <2>5, <3>2, <3>5
    <3> QED BY <3>1, <3>3, <3>6, <3>7
  <2> QED BY <2>4, <2>5
<1>4. \A n \in Nat : n \in A
  <2> HIDE DEF A
  <2> QED BY <1>2, <1>3, AllNumbers
<1>5. Len(seq) \in Nat /\ good(Len(seq))
  <2> HIDE DEF good
  <2> QED BY <1>4
<1>6. first(Len(seq)) = ToSet(seq) BY DEF ToSet
<1> QED BY <1>1, <1>5, <1>6

-----------------------------------------------------------------------------
(* The inductive invariant of the registry.                                *)

\* What a thread has yet to do
AllJobs ==
  [do : {"add", "remove"}, path : Paths]
    \union [do : {"started"}, path : {<<>>}]
    \union [do : {"loaded", "drop", "decrement", "unload"}, path : {<<m>> : m \in Modules}]
    \union [do : {"event"}, path : Paths, event : {"add", "remove"}]
    \union {j \in [do : {"call"}, path : Paths, event : {"add", "remove"}, handler : Handlers] : j.path \in Below(j.handler)}
    \union {j \in [do : {"list", "get"}, path : Seq(STRING), handler : Handlers] :
              IsPrefix(j.handler, j.path) /\ (j.do = "get" => j.path # j.handler)}

\* Adding and removing
Grows(j) == \/ j.do \in {"add", "list", "get", "loaded", "started"}
            \/ j.do \in {"event", "call"} /\ j.event = "add"

JobsOf(t) == {todo[t][i] : i \in DOMAIN todo[t]}
Busy(t, m) == Job("loaded", <<m>>) \in JobsOf(t) \/ Job("unload", <<m>>) \in JobsOf(t)
Registered(p) == plugin[p] # NoPlugin

\* The paths that t adds or removes now
Mine(t, p) ==
  \/ p \in Users[t]
  \/ p \in Core /\ ~ started /\ t = Main
  \/ \E m \in Modules : p \in ToSet(Statics[m]) /\ Busy(t, m)

ShapesOK ==
  /\ todo \in [Threads -> Seq(AllJobs)]
  /\ plugin \in [Paths -> Modules \union {NoModule, NoPlugin}]
  /\ ordered \in Seq(Seq(STRING)) /\ IsInjective(ordered)
  /\ \A p \in Paths : Registered(p) => ToSet(NodesOf(p)) \subseteq ToSet(ordered)
  /\ table \in [Handlers -> [AllKeys -> Paths \union {Null, Absent}]]
  /\ active \in Modules \union {NoModule} /\ moduleMutex \in BOOLEAN
  /\ module \in [Modules -> {"out", "loading", "loaded"}]
  /\ copies \in [Modules -> 0..MaxCopies] /\ started \in BOOLEAN /\ ops \in 0..MaxOps
  /\ association \in [Modules \union {NoModule} -> Seq(Paths)] /\ pluginPaths \in [Modules -> Seq(Paths)]

\* What comes at the end, and with whom
Ends == {"loaded", "started", "drop", "decrement", "unload"}
TurnsOK ==
  \A t \in Threads :
    /\ \A i \in DOMAIN todo[t] : todo[t][i].do \in Ends => i = Len(todo[t])
    /\ \A j, k \in JobsOf(t) : Grows(j) <=> Grows(k)
    /\ \A m \in Modules : Busy(t, m) => started /\ Alone(t)
    /\ ~ started => Alone(Main) /\ Job("started", <<>>) \in JobsOf(Main)

(* A job is about a path of the thread, but for the walk of a handler,     *)
(* which finds paths of others.                                            *)
PathOK(t, j) ==
  /\ j.do \in {"add", "remove"} =>
       /\ ~ started => j.path \in Core
       /\ \A m \in Modules : Busy(t, m) => j.path \in ToSet(Statics[m])
  /\ j.do \in {"add", "remove", "event"} => Mine(t, j.path)
  /\ j.do \in {"list", "get"} => Mine(t, j.handler)
  /\ j.do \in {"event", "call"} /\ j.event = "remove" => Mine(t, j.path) /\ ~ Registered(j.path)
  /\ j.do = "event" /\ j.event = "add" => Registered(j.path)
  /\ j.do = "call" /\ j.event = "add" => \/ Mine(t, j.path) /\ Registered(j.path)
                                         \/ Mine(t, j.handler) /\ (j.handler \in Core => Registered(j.path))
  /\ j.do \in {"list", "get", "call"} /\ j.handler \in Core => Registered(j.handler)
PathsOK == \A t \in Threads : \A j \in JobsOf(t) : PathOK(t, j)

\* The plugins of a module are those of its static blocks.
OwnersOK(m) ==
  /\ \A p \in ToSet(Statics[m]) : plugin[p] \in {NoPlugin} \union ({m} \ Broken)
  /\ m \notin Broken =>
       /\ \A p \in Paths : plugin[p] = m => p \in ToSet(Statics[m])
       /\ IsInjective(association[m]) /\ ToSet(association[m]) = {p \in Paths : plugin[p] = m}
       /\ active = m => \E t \in Threads : Job("loaded", <<m>>) \in JobsOf(t)
  /\ module[m] = "out" /\ m \notin Broken => \A p \in Paths : plugin[p] # m

\* What is loaded knows its paths, and removes them before it goes.
LoadedOK(m) ==
  /\ m \in Broken => module[m] = "out"
  /\ module[m] = "loading" => active = m
  /\ module[m] = "loaded" => /\ {p \in Paths : plugin[p] = m} \subseteq ToSet(pluginPaths[m])
                             /\ ToSet(pluginPaths[m]) \subseteq ToSet(Statics[m])
  /\ IsInjective(pluginPaths[m])
  /\ \A t \in Threads :
       /\ Job("loaded", <<m>>) \in JobsOf(t) => module[m] = "loading"
       /\ Job("unload", <<m>>) \in JobsOf(t) => \A p \in Paths : plugin[p] = m => Job("remove", p) \in JobsOf(t)
ModulesOK == \A m \in Modules : OwnersOK(m) /\ LoadedOK(m)

Droppers(m) ==
  {t \in Threads : \E j \in JobsOf(t) : j.do \in {"drop", "decrement", "unload"} /\ j.path = <<m>>}
CopyOK(m) ==
  /\ module[m] # "loaded" => copies[m] = 0 /\ Droppers(m) = {}
  /\ module[m] = "loaded" =>
       \/ Cardinality(Droppers(m)) < copies[m]
       \/ /\ copies[m] = 1
          /\ \E t \in Threads : /\ Droppers(m) = {t} /\ Alone(t)
                                /\ Job("drop", <<m>>) \in JobsOf(t) \/ Job("unload", <<m>>) \in JobsOf(t)
  /\ \A t \in Threads : Job("unload", <<m>>) \in JobsOf(t) => copies[m] = 1 /\ Droppers(m) = {t}
CopiesOK == \A m \in Modules : CopyOK(m)

Tells(j, h, p) ==
  \/ j = EventJob("add", p) \/ j = CallJob(h, p, "add") \/ j = WalkJob("get", h, p)
  \/ j.do = "list" /\ j.handler = h /\ IsStrictPrefix(j.path, p)
Told(h, p) ==
  \/ \A k \in Keys[p] : table[h][k] = p
  \/ \E t \in Threads : \E j \in JobsOf(t) : Tells(j, h, p)
HandlersOK ==
  \A h \in Handlers : Registered(h) => \A p \in Below(h) : Registered(p) => Told(h, p)

\* What is in the table of a handler of the runtime library is registered, or on its way out.
Untells(j, h, p) == j = EventJob("remove", p) \/ j = CallJob(h, p, "remove")
EntryOK(h, k, p) ==
  /\ k \in Keys[p] /\ p \in Below(h) /\ Registered(h)
  /\ Registered(p) \/ \E t \in Threads : \E j \in JobsOf(t) : Untells(j, h, p)
TablesOK ==
  \A h \in Handlers \intersect Core : \A k \in AllKeys : table[h][k] \in Paths => EntryOK(h, k, table[h][k])

RegistryInv == ShapesOK /\ TurnsOK /\ PathsOK /\ ModulesOK /\ CopiesOK /\ HandlersOK /\ TablesOK

-----------------------------------------------------------------------------
(* Jobs.                                                                   *)

LEMMA JobFields ==
  /\ \A do, p : Job(do, p).do = do /\ Job(do, p).path = p
  /\ \A e, p : EventJob(e, p).do = "event" /\ EventJob(e, p).path = p /\ EventJob(e, p).event = e
  /\ \A h, p, e : /\ CallJob(h, p, e).do = "call" /\ CallJob(h, p, e).path = p
                  /\ CallJob(h, p, e).event = e /\ CallJob(h, p, e).handler = h
  /\ \A do, h, n : WalkJob(do, h, n).do = do /\ WalkJob(do, h, n).path = n /\ WalkJob(do, h, n).handler = h
BY DEF Job, EventJob, CallJob, WalkJob

\* What there is to do is of one of these forms, and is told by its fields.
LEMMA JobKinds ==
  ASSUME NEW j \in AllJobs
  PROVE  /\ j.do \in {"add", "remove", "started", "loaded", "drop", "decrement", "unload", "event", "call", "list", "get"}
         /\ j.do \in {"add", "remove"} => j.path \in Paths /\ j = Job(j.do, j.path)
         /\ j.do = "started" => j = Job("started", <<>>)
         /\ j.do \in {"loaded", "drop", "decrement", "unload"} =>
              \E m \in Modules : j.path = <<m>> /\ j = Job(j.do, <<m>>)
         /\ j.do = "event" => j.path \in Paths /\ j.event \in {"add", "remove"} /\ j = EventJob(j.event, j.path)
         /\ j.do = "call" => /\ j.path \in Paths /\ j.event \in {"add", "remove"} /\ j.handler \in Handlers
                             /\ j.path \in Below(j.handler) /\ j = CallJob(j.handler, j.path, j.event)
         /\ j.do \in {"list", "get"} => /\ j.path \in Seq(STRING) /\ j.handler \in Handlers
                                        /\ IsPrefix(j.handler, j.path) /\ j = WalkJob(j.do, j.handler, j.path)
                                        /\ j.do = "get" => j.path # j.handler
<1>1. CASE j \in [do : {"add", "remove"}, path : Paths] BY <1>1 DEF Job
<1>2. CASE j \in [do : {"started"}, path : {<<>>}] BY <1>2 DEF Job
<1>3. CASE j \in [do : {"loaded", "drop", "decrement", "unload"}, path : {<<m>> : m \in Modules}] BY <1>3 DEF Job
<1>4. CASE j \in [do : {"event"}, path : Paths, event : {"add", "remove"}] BY <1>4 DEF EventJob
<1>5. CASE j \in {i \in [do : {"call"}, path : Paths, event : {"add", "remove"}, handler : Handlers] : i.path \in Below(i.handler)}
  BY <1>5 DEF CallJob
<1>6. CASE j \in {i \in [do : {"list", "get"}, path : Seq(STRING), handler : Handlers] :
                    IsPrefix(i.handler, i.path) /\ (i.do = "get" => i.path # i.handler)}
  BY <1>6 DEF WalkJob
<1> QED BY <1>1, <1>2, <1>3, <1>4, <1>5, <1>6 DEF AllJobs

\* And each of them may be what a thread has to do.
LEMMA JobsAre ==
  /\ \A do \in {"add", "remove"} : \A p \in Paths : Job(do, p) \in AllJobs
  /\ Job("started", <<>>) \in AllJobs
  /\ \A do \in {"loaded", "drop", "decrement", "unload"} : \A m \in Modules : Job(do, <<m>>) \in AllJobs
  /\ \A e \in {"add", "remove"} : \A p \in Paths : EventJob(e, p) \in AllJobs
  /\ \A e \in {"add", "remove"} : \A h \in Handlers : \A p \in Below(h) : CallJob(h, p, e) \in AllJobs
  /\ \A h \in Handlers : \A n \in Seq(STRING) : IsPrefix(h, n) =>
       /\ WalkJob("list", h, n) \in AllJobs
       /\ n # h => WalkJob("get", h, n) \in AllJobs
<1>1. \A do \in {"add", "remove"} : \A p \in Paths : Job(do, p) \in AllJobs BY DEF Job, AllJobs
<1>2. Job("started", <<>>) \in AllJobs BY DEF Job, AllJobs
<1>3. \A do \in {"loaded", "drop", "decrement", "unload"} : \A m \in Modules : Job(do, <<m>>) \in AllJobs
  BY DEF Job, AllJobs
<1>4. \A e \in {"add", "remove"} : \A p \in Paths : EventJob(e, p) \in AllJobs BY DEF EventJob, AllJobs
<1>5. ASSUME NEW e \in {"add", "remove"}, NEW h \in Handlers, NEW p \in Below(h) PROVE CallJob(h, p, e) \in AllJobs
  <2>1. p \in Paths BY DEF Below
  <2>2. CallJob(h, p, e) \in [do : {"call"}, path : Paths, event : {"add", "remove"}, handler : Handlers]
    BY <2>1 DEF CallJob
  <2> QED BY <2>2, JobFields DEF AllJobs
<1>6. ASSUME NEW h \in Handlers, NEW n \in Seq(STRING), IsPrefix(h, n), NEW do \in {"list", "get"}, do = "get" => n # h
      PROVE  WalkJob(do, h, n) \in AllJobs
  <2>2. WalkJob(do, h, n) \in [do : {"list", "get"}, path : Seq(STRING), handler : Handlers] BY DEF WalkJob
  <2> QED BY <1>6, <2>2, JobFields DEF AllJobs
<1> QED BY <1>1, <1>2, <1>3, <1>4, <1>5, <1>6

\* A thread goes on: it has done the first of its jobs, and has got others.
LEMMA Continued ==
  ASSUME ShapesOK, NEW t \in Threads, NEW do, Does(t, do), NEW more \in Seq(AllJobs), Continue(t, more)
  PROVE  /\ todo' \in [Threads -> Seq(AllJobs)]
         /\ todo'[t] = more \o Tail(todo[t])
         /\ \A u \in Threads \ {t} : todo'[u] = todo[u] /\ JobsOf(u)' = JobsOf(u)
         /\ JobsOf(t) = {Head(todo[t])} \union ToSet(Tail(todo[t]))
         /\ JobsOf(t)' = ToSet(more) \union ToSet(Tail(todo[t]))
         /\ Head(todo[t]) = todo[t][1] /\ Head(todo[t]) \in AllJobs /\ Head(todo[t]).do = do
         /\ todo[t] # <<>> /\ ToSet(more) \subseteq AllJobs
<1> DEFINE s == todo[t]
           r == Tail(s)
           n == more \o r
<1>1. s \in Seq(AllJobs) /\ s # <<>> /\ Head(s).do = do BY DEF ShapesOK, Does
<1>2. todo' = [todo EXCEPT ![t] = n] BY DEF Continue
<1>3. r \in Seq(AllJobs) /\ Len(r) = Len(s) - 1 /\ Head(s) = s[1] /\ Head(s) \in AllJobs
      /\ \A i \in 1..Len(r) : r[i] = s[i + 1]
  <2> QED BY <1>1, HeadTailProperties
<1> HIDE DEF r
<1>4. /\ n \in Seq(AllJobs) /\ Len(n) = Len(more) + Len(r)
      /\ \A i \in 1..(Len(more) + Len(r)) : n[i] = IF i <= Len(more) THEN more[i] ELSE r[i - Len(more)]
  BY <1>3, ConcatProperties
<1> HIDE DEF n
<1>5. todo' \in [Threads -> Seq(AllJobs)] /\ todo'[t] = n /\ \A u \in Threads \ {t} : todo'[u] = todo[u]
  BY <1>2, <1>4 DEF ShapesOK
<1>6. \A u \in Threads \ {t} : JobsOf(u)' = JobsOf(u) BY <1>5 DEF JobsOf
<1>7. JobsOf(t) = {Head(s)} \union ToSet(r)
  <2>0. JobsOf(t) = {s[i] : i \in DOMAIN s} BY DEF JobsOf, s
  <2>1. DOMAIN s = 1..Len(s) /\ DOMAIN r = 1..Len(r) /\ Len(s) \in Nat /\ Len(r) \in Nat BY <1>1, <1>3
  <2>2. \A i \in 1..Len(s) : i = 1 \/ (i - 1 \in 1..Len(r) /\ s[i] = r[i - 1]) BY <1>3, <2>1
  <2>3. \A i \in 1..Len(r) : i + 1 \in 1..Len(s) /\ r[i] = s[i + 1] BY <1>3, <2>1
  <2>4. 1 \in DOMAIN s BY <1>1, <2>1
  <2>5. ASSUME NEW j \in JobsOf(t) PROVE j \in {Head(s)} \union ToSet(r)
    <3>1. PICK i \in 1..Len(s) : j = s[i] BY <2>0, <2>1
    <3>2. CASE i = 1 BY <1>3, <3>1, <3>2
    <3>3. CASE i - 1 \in 1..Len(r) /\ s[i] = r[i - 1] BY <2>1, <3>1, <3>3 DEF ToSet
    <3> QED BY <2>2, <3>2, <3>3
  <2>6. \A i \in DOMAIN r : r[i] \in JobsOf(t) BY <2>0, <2>1, <2>3
  <2>7. Head(s) \in JobsOf(t) BY <1>3, <2>0, <2>4
  <2> QED BY <2>5, <2>6, <2>7 DEF ToSet
<1>8. JobsOf(t)' = ToSet(more) \union ToSet(r)
  <2>0. JobsOf(t)' = {n[i] : i \in DOMAIN n} BY <1>5 DEF JobsOf
  <2>1. DOMAIN n = 1..Len(n) /\ DOMAIN r = 1..Len(r) /\ DOMAIN more = 1..Len(more)
        /\ Len(n) \in Nat /\ Len(r) \in Nat /\ Len(more) \in Nat BY <1>3, <1>4
  <2>2. \A i \in 1..Len(n) : \/ i \in 1..Len(more) /\ n[i] = more[i]
                             \/ i - Len(more) \in 1..Len(r) /\ n[i] = r[i - Len(more)]
    BY <1>4, <2>1
  <2>3. \A i \in 1..Len(more) : i \in 1..Len(n) /\ n[i] = more[i] BY <1>4, <2>1
  <2>4. \A i \in 1..Len(r) : i + Len(more) \in 1..Len(n) /\ n[i + Len(more)] = r[i]
    <3> SUFFICES ASSUME NEW i \in 1..Len(r) PROVE i + Len(more) \in 1..Len(n) /\ n[i + Len(more)] = r[i] OBVIOUS
    <3>1. i + Len(more) \in 1..(Len(more) + Len(r)) /\ ~ (i + Len(more) <= Len(more)) /\ (i + Len(more)) - Len(more) = i
      BY <2>1
    <3>2. n[i + Len(more)] = r[(i + Len(more)) - Len(more)] BY <1>4, <3>1
    <3> QED BY <1>4, <3>1, <3>2
  <2> QED BY <2>0, <2>1, <2>2, <2>3, <2>4 DEF ToSet
<1>9. ToSet(more) \subseteq AllJobs BY DEF ToSet
<1> QED BY <1>1, <1>3, <1>5, <1>6, <1>7, <1>8, <1>9 DEF n, r

\* A thread has nothing to do if and only if no job is its own.
LEMMA JobsIn ==
  ASSUME ShapesOK, NEW t \in Threads
  PROVE  /\ JobsOf(t) \subseteq AllJobs
         /\ todo[t] = <<>> <=> JobsOf(t) = {}
         /\ \A do : Does(t, do) => Head(todo[t]) \in JobsOf(t) /\ Head(todo[t]).do = do
<1>1. todo[t] \in Seq(AllJobs) BY DEF ShapesOK
<1>2. JobsOf(t) \subseteq AllJobs BY <1>1 DEF JobsOf
<1>3. todo[t] = <<>> => JobsOf(t) = {}
  <2>1. DOMAIN <<>> = {} OBVIOUS
  <2> QED BY <2>1 DEF JobsOf
<1>4. ASSUME todo[t] # <<>> PROVE Head(todo[t]) \in JobsOf(t)
  <2>1. 1 \in DOMAIN todo[t] /\ Head(todo[t]) = todo[t][1] BY <1>1, <1>4
  <2> QED BY <2>1 DEF JobsOf
<1> QED BY <1>2, <1>3, <1>4 DEF Does

-----------------------------------------------------------------------------
(* Paths.                                                                  *)

LEMMA PrefixIs ==
  ASSUME NEW a \in Seq(STRING), NEW b \in Seq(STRING)
  PROVE  /\ IsPrefix(a, b) <=> Len(a) <= Len(b) /\ \A i \in 1..Len(a) : a[i] = b[i]
         /\ IsPrefix(a, b) /\ Len(a) = Len(b) => a = b
<1> DEFINE c == SubSeq(a, 1, Len(a))
           d == SubSeq(b, 1, Len(a))
<1>0. Len(a) \in Nat /\ Len(b) \in Nat OBVIOUS
<1>1. c = a BY SubSeqFull
<1>2. ASSUME Len(a) <= Len(b)
      PROVE  (c = d <=> \A i \in 1..Len(a) : a[i] = b[i])
  <2>1. \A i \in 1..Len(a) : b[i] \in STRING BY <1>2
  <2>2. /\ d \in Seq(STRING)
        /\ Len(d) = IF 1 <= Len(a) THEN Len(a) - 1 + 1 ELSE 0
        /\ \A i \in 1..(Len(a) - 1 + 1) : d[i] = b[1 + i - 1]
    BY <1>0, <2>1, SubSeqProperties
  <2>3. Len(d) = Len(a) /\ \A i \in 1..Len(a) : d[i] = b[i] BY <1>0, <2>2
  <2> HIDE DEF d
  <2>4. (\A i \in 1..Len(a) : a[i] = b[i]) => a = d BY <2>2, <2>3, SeqEqual
  <2> QED BY <1>1, <2>3, <2>4
<1>3. IsPrefix(a, b) <=> Len(a) <= Len(b) /\ c = d BY DEF IsPrefix
<1>4. IsPrefix(a, b) <=> Len(a) <= Len(b) /\ \A i \in 1..Len(a) : a[i] = b[i]
  <2> HIDE DEF c, d
  <2> QED BY <1>2, <1>3
<1>5. IsPrefix(a, b) /\ Len(a) = Len(b) => a = b BY <1>4, SeqEqual
<1> QED BY <1>4, <1>5

\* The prefix of a prefix is a prefix.
LEMMA PrefixTrans ==
  ASSUME NEW a \in Seq(STRING), NEW b \in Seq(STRING), NEW c \in Seq(STRING), IsPrefix(a, b), IsPrefix(b, c)
  PROVE  IsPrefix(a, c)
<1>1. Len(a) \in Nat /\ Len(b) \in Nat /\ Len(c) \in Nat OBVIOUS
<1>2. Len(a) <= Len(b) /\ \A i \in 1..Len(a) : a[i] = b[i] BY PrefixIs
<1>3. Len(b) <= Len(c) /\ \A i \in 1..Len(b) : b[i] = c[i] BY PrefixIs
<1>4. Len(a) <= Len(c) /\ \A i \in 1..Len(a) : a[i] = c[i] BY <1>1, <1>2, <1>3
<1> QED BY <1>4, PrefixIs

\* The first i names of a path
LEMMA FirstNames ==
  ASSUME NEW p \in Seq(STRING), NEW i \in 0..Len(p)
  PROVE  LET n == SubSeq(p, 1, i)
         IN  n \in Seq(STRING) /\ Len(n) = i /\ (\A k \in 1..i : n[k] = p[k]) /\ IsPrefix(n, p)
<1> DEFINE n == SubSeq(p, 1, i)
<1>0. Len(p) \in Nat /\ i \in Nat /\ i <= Len(p) OBVIOUS
<1>1. \A k \in 1..i : p[k] \in STRING BY <1>0
<1>2. /\ n \in Seq(STRING)
      /\ Len(n) = IF 1 <= i THEN i - 1 + 1 ELSE 0
      /\ \A k \in 1..(i - 1 + 1) : n[k] = p[1 + k - 1]
  BY <1>0, <1>1, SubSeqProperties
<1>3. Len(n) = i /\ \A k \in 1..i : n[k] = p[k] BY <1>0, <1>2
<1> HIDE DEF n
<1>4. IsPrefix(n, p) BY <1>0, <1>2, <1>3, PrefixIs
<1> QED BY <1>2, <1>3, <1>4 DEF n

\* NodesOf lists the nodes on the way to a path, each once.
LEMMA NodesAre ==
  ASSUME NEW p \in Seq(STRING)
  PROVE  /\ NodesOf(p) \in Seq(Seq(STRING)) /\ IsInjective(NodesOf(p))
         /\ \A n \in ToSet(NodesOf(p)) : n \in Seq(STRING) /\ n # <<>> /\ IsPrefix(n, p)
         /\ \A n \in Seq(STRING) : n # <<>> /\ IsPrefix(n, p) => n \in ToSet(NodesOf(p))
<1> DEFINE f == [i \in 1..Len(p) |-> SubSeq(p, 1, i)]
<1>0. Len(p) \in Nat /\ DOMAIN p = 1..Len(p) OBVIOUS
<1>1. NodesOf(p) = f BY <1>0 DEF NodesOf
<1>2. \A i \in 1..Len(p) : /\ f[i] \in Seq(STRING) /\ Len(f[i]) = i /\ f[i] # <<>> /\ IsPrefix(f[i], p)
                           /\ \A k \in 1..i : f[i][k] = p[k]
  <2> SUFFICES ASSUME NEW i \in 1..Len(p)
               PROVE  /\ f[i] \in Seq(STRING) /\ Len(f[i]) = i /\ f[i] # <<>> /\ IsPrefix(f[i], p)
                      /\ \A k \in 1..i : f[i][k] = p[k]
    OBVIOUS
  <2> DEFINE n == SubSeq(p, 1, i)
  <2>1. f[i] = n OBVIOUS
  <2>2. i \in 0..Len(p) /\ i # 0 BY <1>0
  <2>3. n \in Seq(STRING) /\ Len(n) = i /\ IsPrefix(n, p) /\ \A k \in 1..i : n[k] = p[k] BY <2>2, FirstNames
  <2> HIDE DEF n, f
  <2>4. n # <<>> BY <2>2, <2>3
  <2> QED BY <2>1, <2>3, <2>4
<1>3. DOMAIN f = 1..Len(p) /\ f \in [1..Len(p) -> Seq(STRING)]
  <2>1. f = [i \in 1..Len(p) |-> f[i]] OBVIOUS
  <2> HIDE DEF f
  <2> QED BY <1>2, <2>1
<1> HIDE DEF f
<1>4. f \in Seq(Seq(STRING)) BY <1>0, <1>3, SeqDef
<1>5. IsInjective(f) BY <1>2, <1>3 DEF IsInjective
<1>6. ASSUME NEW n \in Seq(STRING), n # <<>>, IsPrefix(n, p) PROVE n \in ToSet(f)
  <2>1. Len(n) \in Nat /\ Len(n) # 0 BY <1>6
  <2>2. Len(n) <= Len(p) /\ \A k \in 1..Len(n) : n[k] = p[k] BY <1>6, PrefixIs
  <2>3. Len(n) \in 1..Len(p) BY <1>0, <2>1, <2>2
  <2> DEFINE g == f[Len(n)]
  <2>4. g \in Seq(STRING) /\ Len(g) = Len(n) /\ \A k \in 1..Len(n) : g[k] = p[k] BY <1>2, <2>3
  <2> HIDE DEF g
  <2>5. g = n BY <2>2, <2>4, SeqEqual
  <2> QED BY <1>3, <2>3, <2>5 DEF ToSet, g
<1> QED BY <1>1, <1>2, <1>3, <1>4, <1>5, <1>6 DEF ToSet

\* The node above a path has the prefixes of the path but the path itself.
LEMMA AboveIs ==
  ASSUME NEW p \in Seq(STRING), p # <<>>
  PROVE  /\ Above(p) \in Seq(STRING) /\ Len(Above(p)) = Len(p) - 1 /\ IsPrefix(Above(p), p)
         /\ \A n \in Seq(STRING) : IsPrefix(n, Above(p)) <=> IsPrefix(n, p) /\ n # p
<1> DEFINE a == SubSeq(p, 1, Len(p) - 1)
<1>0. Len(p) \in Nat /\ Len(p) # 0 /\ Len(p) - 1 \in 0..Len(p) OBVIOUS
<1>1. Above(p) = a BY DEF Above
<1>2. a \in Seq(STRING) /\ Len(a) = Len(p) - 1 /\ (\A k \in 1..(Len(p) - 1) : a[k] = p[k]) /\ IsPrefix(a, p)
  BY <1>0, FirstNames
<1> HIDE DEF a
<1>3. ASSUME NEW n \in Seq(STRING), IsPrefix(n, a) PROVE IsPrefix(n, p) /\ n # p
  <2>1. Len(n) \in Nat /\ Len(n) <= Len(p) - 1 BY <1>2, <1>3, PrefixIs
  <2> QED BY <1>0, <1>2, <1>3, <2>1, PrefixTrans
<1>4. ASSUME NEW n \in Seq(STRING), IsPrefix(n, p), n # p PROVE IsPrefix(n, a)
  <2>1. Len(n) \in Nat /\ Len(n) <= Len(p) /\ \A k \in 1..Len(n) : n[k] = p[k] BY <1>4, PrefixIs
  <2>2. Len(n) # Len(p) BY <1>4, PrefixIs
  <2>3. Len(n) <= Len(a) /\ \A k \in 1..Len(n) : n[k] = a[k] BY <1>0, <1>2, <2>1, <2>2
  <2> QED BY <1>2, <2>3, PrefixIs
<1> QED BY <1>1, <1>2, <1>3, <1>4

\* Reverse has the same elements.
LEMMA ReverseIs ==
  ASSUME NEW S, NEW s \in Seq(S)
  PROVE  Reverse(s) \in Seq(S) /\ ToSet(Reverse(s)) = ToSet(s)
<1> DEFINE r == [i \in 1..Len(s) |-> s[(Len(s) - i) + 1]]
<1>0. Len(s) \in Nat /\ DOMAIN s = 1..Len(s) /\ \A i \in 1..Len(s) : s[i] \in S OBVIOUS
<1>1. Reverse(s) = r BY DEF Reverse
<1>2. \A i \in 1..Len(s) : (Len(s) - i) + 1 \in 1..Len(s) BY <1>0
<1>3. r \in [1..Len(s) -> S] BY <1>0, <1>2
<1>4. r \in Seq(S) BY <1>0, <1>3, SeqDef
<1>5. \A i \in 1..Len(s) : r[i] = s[(Len(s) - i) + 1] OBVIOUS
<1>6. DOMAIN r = 1..Len(s) OBVIOUS
<1> HIDE DEF r
<1>7. \A i \in 1..Len(s) : s[i] = r[(Len(s) - i) + 1]
  <2> SUFFICES ASSUME NEW i \in 1..Len(s) PROVE s[i] = r[(Len(s) - i) + 1] OBVIOUS
  <2>1. (Len(s) - ((Len(s) - i) + 1)) + 1 = i BY <1>0
  <2> QED BY <1>2, <1>5, <2>1
<1>8. ToSet(r) = ToSet(s) BY <1>0, <1>2, <1>5, <1>6, <1>7 DEF ToSet
<1> QED BY <1>1, <1>4, <1>8

\* The handlers that are told of a path are those above it.
LEMMA ParentsAre ==
  ASSUME NEW p \in Paths
  PROVE  /\ ParentHandlers(p) \in Seq(Seq(STRING))
         /\ ToSet(ParentHandlers(p)) = {h \in Handlers : Registered(h) /\ p \in Below(h)}
<1>0. Paths \subseteq Seq(STRING) /\ Handlers \subseteq Paths /\ <<>> \notin Paths BY RegistryAssumption
<1>1. Above(p) \in Seq(STRING) /\ \A n \in Seq(STRING) : IsPrefix(n, Above(p)) <=> IsPrefix(n, p) /\ n # p
  BY <1>0, AboveIs
<1> DEFINE nodes == NodesOf(Above(p))
           parents == {h \in Handlers : plugin[h] # NoPlugin}
<1>2. /\ nodes \in Seq(Seq(STRING))
      /\ \A n \in ToSet(nodes) : IsPrefix(n, Above(p))
      /\ \A n \in Seq(STRING) : n # <<>> /\ IsPrefix(n, Above(p)) => n \in ToSet(nodes)
  BY <1>1, NodesAre
<1> HIDE DEF nodes
<1>3. Reverse(nodes) \in Seq(Seq(STRING)) /\ ToSet(Reverse(nodes)) = ToSet(nodes) BY <1>2, ReverseIs
<1>4. ParentHandlers(p) = Filter(Reverse(nodes), parents) BY DEF ParentHandlers, nodes
<1> HIDE DEF parents
<1>5. ParentHandlers(p) \in Seq(Seq(STRING)) /\ ToSet(ParentHandlers(p)) = ToSet(nodes) \intersect parents
  BY <1>3, <1>4, FilterKeeps
<1>6. \A h \in Handlers : h \in ToSet(nodes) <=> p \in Below(h) BY <1>0, <1>1, <1>2 DEF Below
<1> QED BY <1>5, <1>6 DEF parents, Registered

\* The list of a node leads to whatever is below.
LEMMA ListIs ==
  ASSUME ShapesOK, NEW n \in Seq(STRING), n # <<>>
  PROVE  /\ List(n) \in Seq(Seq(STRING))
         /\ \A c \in ToSet(List(n)) : c \in Seq(STRING) /\ IsPrefix(n, c) /\ c # n
         /\ \A p \in Paths : Registered(p) /\ IsPrefix(n, p) /\ n # p =>
              \E c \in ToSet(List(n)) : IsPrefix(c, p)
<1> DEFINE S == {c \in ToSet(ordered) : Above(c) = n /\ HasPlugins(c)}
<1>0. Paths \subseteq Seq(STRING) /\ Len(n) \in Nat BY RegistryAssumption
<1>1. ordered \in Seq(Seq(STRING)) BY DEF ShapesOK
<1>2. List(n) = Filter(ordered, S) BY DEF List
<1>3. ToSet(ordered) \subseteq Seq(STRING) BY <1>1 DEF ToSet
<1>4. List(n) \in Seq(Seq(STRING)) /\ ToSet(List(n)) = S
  <2>1. S \subseteq ToSet(ordered) OBVIOUS
  <2> HIDE DEF S
  <2>2. Filter(ordered, S) \in Seq(Seq(STRING)) /\ ToSet(Filter(ordered, S)) = ToSet(ordered) \intersect S
    BY <1>1, FilterKeeps
  <2>3. ToSet(ordered) \intersect S = S BY <2>1
  <2> QED BY <1>2, <2>2, <2>3
<1>5. ASSUME NEW c \in ToSet(List(n)) PROVE c \in Seq(STRING) /\ IsPrefix(n, c) /\ c # n
  <2>1. c \in Seq(STRING) /\ Above(c) = n BY <1>3, <1>4, <1>5
  <2>2. c # <<>>
    <3>1. 0 - 1 \in Int /\ 0 - 1 < 1 /\ Len(<<>>) = 0 OBVIOUS
    <3>2. SubSeq(<<>>, 1, 0 - 1) = <<>> BY <3>1, SubSeqEmpty
    <3>3. Above(<<>>) = <<>> BY <3>1, <3>2 DEF Above
    <3> QED BY <2>1, <3>3
  <2> QED BY <2>1, <2>2, AboveIs
<1>6. ASSUME NEW p \in Paths, Registered(p), IsPrefix(n, p), n # p
      PROVE  \E c \in ToSet(List(n)) : IsPrefix(c, p)
  <2>1. p \in Seq(STRING) /\ Len(p) \in Nat BY <1>0
  <2>2. Len(n) <= Len(p) /\ Len(n) # Len(p) /\ \A k \in 1..Len(n) : n[k] = p[k] BY <1>6, <2>1, PrefixIs
  <2>3. Len(n) + 1 \in 0..Len(p) BY <1>0, <2>1, <2>2
  <2> DEFINE c == SubSeq(p, 1, Len(n) + 1)
  <2>4. c \in Seq(STRING) /\ Len(c) = Len(n) + 1 /\ (\A k \in 1..(Len(n) + 1) : c[k] = p[k]) /\ IsPrefix(c, p)
    BY <2>1, <2>3, FirstNames
  <2> HIDE DEF c
  <2>5. c # <<>> BY <1>0, <2>4
  <2>6. Above(c) = n
    <3>1. Above(c) \in Seq(STRING) /\ Len(Above(c)) = Len(c) - 1 /\ IsPrefix(Above(c), c) BY <2>4, <2>5, AboveIs
    <3>2. \A k \in 1..Len(Above(c)) : Above(c)[k] = c[k] BY <2>4, <3>1, PrefixIs
    <3>3. Len(Above(c)) = Len(n) /\ \A k \in 1..Len(n) : Above(c)[k] = n[k] BY <1>0, <2>2, <2>4, <3>1, <3>2
    <3> QED BY <3>1, <3>3, SeqEqual
  <2>7. HasPlugins(c) BY <1>6, <2>4 DEF HasPlugins, Registered
  <2>8. c \in ToSet(ordered)
    <3>1. c \in ToSet(NodesOf(p)) BY <2>1, <2>4, <2>5, NodesAre
    <3> QED BY <1>6, <3>1 DEF ShapesOK
  <2> QED BY <1>4, <2>4, <2>6, <2>7, <2>8
<1> QED BY <1>4, <1>5, <1>6

-----------------------------------------------------------------------------
(* Whose a path is.                                                        *)

LEMMA MineOne ==
  ASSUME ShapesOK, TurnsOK, Separate, NEW t \in Threads, NEW u \in Threads, NEW p, Mine(t, p), Mine(u, p)
  PROVE  t = u
<1>1. ASSUME NEW v \in Threads, NEW w \in Threads, NEW m \in Modules, NEW n \in Modules,
             p \in ToSet(Statics[m]), p \in ToSet(Statics[n]), Busy(v, m), Busy(w, n)
      PROVE  v = w
  <2>1. Alone(v) BY <1>1 DEF TurnsOK
  <2>2. JobsOf(w) # {} BY <1>1 DEF Busy
  <2>3. todo[w] # <<>> BY <2>2, JobsIn
  <2> QED BY <2>1, <2>3 DEF Alone
<1>2. ASSUME p \in Users[t] PROVE t = u BY <1>2 DEF Mine, Separate
<1>3. ASSUME p \in Users[u] PROVE t = u BY <1>3 DEF Mine, Separate
<1>4. ASSUME p \in Core PROVE t = u BY <1>4 DEF Mine, Separate
<1>5. ASSUME p \notin Users[t], p \notin Users[u], p \notin Core PROVE t = u BY <1>1, <1>5 DEF Mine
<1> QED BY <1>2, <1>3, <1>4, <1>5

\* While the runtime library starts nothing is removed, so its paths stay.
LEMMA CoreStays ==
  ASSUME ShapesOK, TurnsOK, PathsOK, Separate, NEW t \in Threads, NEW j \in JobsOf(t)
  PROVE  /\ ~ started => t = Main /\ Grows(j)
         /\ \A p \in Core : Mine(t, p) => ~ started /\ Grows(j)
<1>1. ~ started => t = Main /\ Grows(j)
  <2> SUFFICES ASSUME ~ started PROVE t = Main /\ Grows(j) OBVIOUS
  <2>1. Alone(Main) /\ Job("started", <<>>) \in JobsOf(Main) BY DEF TurnsOK
  <2>2. todo[t] # <<>> BY JobsIn
  <2>3. t = Main BY <2>1, <2>2 DEF Alone
  <2>4. Grows(Job("started", <<>>)) BY JobFields DEF Grows
  <2> QED BY <2>1, <2>3, <2>4 DEF TurnsOK
<1>2. ASSUME NEW p \in Core, Mine(t, p) PROVE ~ started BY <1>2 DEF Mine, Separate
<1> QED BY <1>1, <1>2

-----------------------------------------------------------------------------
(* A step in the middle of what a thread does.                             *)

Middle(t, do, more) ==
  /\ Does(t, do) /\ do \notin Ends /\ more \in Seq(AllJobs) /\ Continue(t, more)
  /\ \A j \in ToSet(more) : j.do \notin Ends /\ (Grows(j) <=> Grows(Head(todo[t])))
  /\ UNCHANGED started

\* A step in the middle leaves alone how the thread ends.
LEMMA EndsStay ==
  ASSUME ShapesOK, NEW t \in Threads, NEW do, NEW more, Middle(t, do, more), NEW j, j.do \in Ends, NEW u \in Threads
  PROVE  j \in JobsOf(u)' <=> j \in JobsOf(u)
<1>1. CASE u # t BY <1>1, Continued DEF Middle
<1>2. CASE u = t
  <2>1. /\ JobsOf(t) = {Head(todo[t])} \union ToSet(Tail(todo[t]))
        /\ JobsOf(t)' = ToSet(more) \union ToSet(Tail(todo[t]))
        /\ Head(todo[t]).do = do
    BY Continued DEF Middle
  <2>2. j # Head(todo[t]) /\ j \notin ToSet(more) BY <2>1 DEF Middle
  <2> QED BY <1>2, <2>1, <2>2
<1> QED BY <1>1, <1>2

\* It neither begins nor ends the loading of a module, and gives no path to anybody.
LEMMA MiddleBusy ==
  ASSUME ShapesOK, NEW t \in Threads, NEW do, NEW more, Middle(t, do, more)
  PROVE  /\ \A u \in Threads : \A m : Busy(u, m)' <=> Busy(u, m)
         /\ \A u \in Threads : \A p : Mine(u, p)' <=> Mine(u, p)
<1>1. \A m : Job("loaded", <<m>>).do \in Ends /\ Job("unload", <<m>>).do \in Ends BY JobFields DEF Ends
<1>2. ASSUME NEW u \in Threads, NEW m PROVE Busy(u, m)' <=> Busy(u, m)
  <2>1. Job("loaded", <<m>>)' = Job("loaded", <<m>>) /\ Job("unload", <<m>>)' = Job("unload", <<m>>) BY DEF Job
  <2>2. Job("loaded", <<m>>) \in JobsOf(u)' <=> Job("loaded", <<m>>) \in JobsOf(u) BY <1>1, EndsStay
  <2>3. Job("unload", <<m>>) \in JobsOf(u)' <=> Job("unload", <<m>>) \in JobsOf(u) BY <1>1, EndsStay
  <2> QED BY <2>1, <2>2, <2>3 DEF Busy
<1>3. ASSUME NEW u \in Threads, NEW p PROVE Mine(u, p)' <=> Mine(u, p) BY <1>2 DEF Mine, Middle
<1> QED BY <1>2, <1>3

\* It keeps the order of what a thread does.
LEMMA MiddleTurns ==
  ASSUME ShapesOK, TurnsOK, NEW t \in Threads, NEW do, NEW more, Middle(t, do, more)
  PROVE  TurnsOK' /\ \A u \in Threads : Alone(u) => Alone(u)' \/ todo[u] = <<>>
<1> DEFINE s == todo[t]
           r == Tail(s)
           n == more \o r
<1>1. /\ todo' \in [Threads -> Seq(AllJobs)] /\ todo'[t] = n
      /\ \A u \in Threads \ {t} : todo'[u] = todo[u] /\ JobsOf(u)' = JobsOf(u)
      /\ JobsOf(t) = {Head(s)} \union ToSet(r)
      /\ JobsOf(t)' = ToSet(more) \union ToSet(r)
      /\ s # <<>>
  BY Continued DEF Middle
<1>2. \A u \in Threads : Alone(u) => u = t BY <1>1 DEF Alone
<1>3. \A u \in Threads : Alone(u) => Alone(u)' BY <1>1, <1>2 DEF Alone
<1>4. ASSUME NEW u \in Threads, NEW i \in DOMAIN todo'[u], todo'[u][i].do \in Ends PROVE i = Len(todo'[u])
  <2>1. CASE u # t BY <1>1, <1>4, <2>1 DEF TurnsOK
  <2>2. CASE u = t
    <3>1. s \in Seq(AllJobs) /\ more \in Seq(AllJobs) BY DEF ShapesOK, Middle
    <3>2. r \in Seq(AllJobs) /\ Len(r) = Len(s) - 1 /\ \A k \in 1..Len(r) : r[k] = s[k + 1]
      <4> HIDE DEF s
      <4> QED BY <1>1, <3>1, HeadTailProperties
    <3> HIDE DEF r
    <3>3. /\ n \in Seq(AllJobs) /\ Len(n) = Len(more) + Len(r)
          /\ \A k \in 1..(Len(more) + Len(r)) : n[k] = IF k <= Len(more) THEN more[k] ELSE r[k - Len(more)]
      BY <3>1, <3>2, ConcatProperties
    <3> HIDE DEF n, s
    <3>4. Len(more) \in Nat /\ Len(r) \in Nat /\ Len(s) \in Nat /\ DOMAIN n = 1..(Len(more) + Len(r))
          /\ DOMAIN s = 1..Len(s) /\ DOMAIN more = 1..Len(more)
      BY <3>1, <3>2, <3>3
    <3>5. i \in 1..(Len(more) + Len(r)) /\ n[i].do \in Ends BY <1>1, <1>4, <2>2, <3>4
    <3>6. CASE i <= Len(more)
      <4>1. i \in DOMAIN more /\ n[i] = more[i] BY <3>3, <3>4, <3>5, <3>6
      <4>2. more[i] \in ToSet(more) BY <4>1 DEF ToSet
      <4> QED BY <3>5, <4>1, <4>2 DEF Middle
    <3>7. CASE ~ (i <= Len(more))
      <4> DEFINE k == i - Len(more)
      <4>1. k \in 1..Len(r) /\ n[i] = r[k] BY <3>3, <3>4, <3>5, <3>7
      <4>2. k + 1 \in DOMAIN s /\ n[i] = s[k + 1] BY <3>2, <3>4, <4>1
      <4>3. k + 1 = Len(s) BY <3>5, <4>2 DEF TurnsOK, s
      <4>4. i = Len(more) + Len(r) BY <3>2, <3>4, <3>5, <4>3
      <4> QED BY <1>1, <2>2, <3>3, <4>4
    <3> QED BY <3>6, <3>7
  <2> QED BY <2>1, <2>2
<1>5. ASSUME NEW u \in Threads, NEW j \in JobsOf(u)', NEW k \in JobsOf(u)' PROVE Grows(j) <=> Grows(k)
  <2>1. CASE u # t BY <1>1, <1>5, <2>1 DEF TurnsOK
  <2>2. CASE u = t
    <3>1. \A i \in ToSet(r) : Grows(i) <=> Grows(Head(s)) BY <1>1 DEF TurnsOK
    <3>2. \A i \in ToSet(more) : Grows(i) <=> Grows(Head(s)) BY DEF Middle
    <3> QED BY <1>1, <1>5, <2>2, <3>1, <3>2
  <2> QED BY <2>1, <2>2
<1>6. \A j : Grows(j)' <=> Grows(j) BY DEF Grows
<1>7. \A u \in Threads : \A m \in Modules : Busy(u, m)' => started' /\ Alone(u)'
  BY <1>3, MiddleBusy DEF TurnsOK, Middle
<1>8. ~ started' => Alone(Main)' /\ Job("started", <<>>) \in JobsOf(Main)'
  <2>1. Main \in Threads BY RegistryAssumption
  <2>2. Job("started", <<>>).do \in Ends BY JobFields DEF Ends
  <2>3. Job("started", <<>>) \in JobsOf(Main)' <=> Job("started", <<>>) \in JobsOf(Main) BY <2>1, <2>2, EndsStay
  <2> QED BY <1>3, <2>1, <2>3 DEF TurnsOK, Middle
<1>9. Job("started", <<>>)' = Job("started", <<>>) BY DEF Job
<1> QED BY <1>3, <1>4, <1>5, <1>6, <1>7, <1>8, <1>9 DEF TurnsOK

-----------------------------------------------------------------------------
(* What such a step keeps of the rest.                                     *)

LEMMA MiddleShapes ==
  ASSUME ShapesOK, NEW t \in Threads, NEW do, NEW more, Middle(t, do, more),
         UNCHANGED <<plugin, ordered, table, association, modules, started, ops>>
  PROVE  ShapesOK'
<1>1. todo' \in [Threads -> Seq(AllJobs)] BY Continued DEF Middle
<1> QED BY <1>1 DEF ShapesOK, modules, Registered

\* It keeps the paths of the jobs, if the new jobs are about right ones.
LEMMA MiddlePaths ==
  ASSUME ShapesOK, PathsOK, NEW t \in Threads, NEW do, NEW more, Middle(t, do, more), UNCHANGED plugin,
         \A j \in ToSet(more) : PathOK(t, j)
  PROVE  PathsOK'
<1>1. ASSUME NEW u \in Threads, NEW j, PathOK(u, j) PROVE PathOK(u, j)'
  <2>1. \A p : Mine(u, p)' <=> Mine(u, p) BY MiddleBusy
  <2>2. \A m : Busy(u, m)' <=> Busy(u, m) BY MiddleBusy
  <2>3. \A p : Registered(p)' <=> Registered(p) BY DEF Registered
  <2>4. started' = started BY DEF Middle
  <2> QED BY <1>1, <2>1, <2>2, <2>3, <2>4 DEF PathOK
<1>2. ASSUME NEW u \in Threads, NEW j \in JobsOf(u)' PROVE PathOK(u, j)
  <2>1. CASE u # t
    <3>1. j \in JobsOf(u) BY <1>2, <2>1, Continued DEF Middle
    <3> QED BY <3>1 DEF PathsOK
  <2>2. CASE u = t
    <3>1. j \in ToSet(more) \/ j \in JobsOf(t) BY <1>2, <2>2, Continued DEF Middle
    <3> QED BY <2>2, <3>1 DEF PathsOK
  <2> QED BY <2>1, <2>2
<1> QED BY <1>1, <1>2 DEF PathsOK

\* It keeps what the modules own, if it changes no plugin.
LEMMA MiddleModules ==
  ASSUME ShapesOK, ModulesOK, NEW t \in Threads, NEW do, NEW more, Middle(t, do, more),
         UNCHANGED <<plugin, association, modules>>,
         do = "remove" => plugin[Head(todo[t]).path] = NoPlugin
  PROVE  ModulesOK'
<1> USE DEF modules
<1>1. \A do2, p : Job(do2, p)' = Job(do2, p) BY DEF Job
<1>2. ASSUME NEW m \in Modules, NEW u \in Threads
      PROVE  /\ Job("loaded", <<m>>) \in JobsOf(u)' <=> Job("loaded", <<m>>) \in JobsOf(u)
             /\ Job("unload", <<m>>) \in JobsOf(u)' <=> Job("unload", <<m>>) \in JobsOf(u)
  <2>1. Job("loaded", <<m>>).do \in Ends /\ Job("unload", <<m>>).do \in Ends BY JobFields DEF Ends
  <2> QED BY <2>1, EndsStay
<1>3. ASSUME NEW m \in Modules, NEW u \in Threads, NEW p \in Paths, plugin[p] = m, Job("remove", p) \in JobsOf(u)
      PROVE  Job("remove", p) \in JobsOf(u)'
  <2>1. CASE u # t BY <1>3, <2>1, Continued DEF Middle
  <2>2. CASE u = t
    <3>1. Head(todo[t]).do = do /\ JobsOf(t) = {Head(todo[t])} \union ToSet(Tail(todo[t]))
          /\ ToSet(Tail(todo[t])) \subseteq JobsOf(t)'
      BY Continued DEF Middle
    <3>2. Job("remove", p) # Head(todo[t])
      <4>1. m # NoPlugin BY RegistryAssumption
      <4> QED BY <1>3, <3>1, <4>1, JobFields
    <3> QED BY <1>3, <2>2, <3>1, <3>2
  <2> QED BY <2>1, <2>2
<1>4. ASSUME NEW m \in Modules PROVE OwnersOK(m)'
  <2>1. OwnersOK(m) BY DEF ModulesOK
  <2>2. active = m /\ m \notin Broken => \E u \in Threads : Job("loaded", <<m>>) \in JobsOf(u)'
    BY <1>2, <2>1 DEF OwnersOK
  <2> QED BY <1>1, <2>1, <2>2 DEF OwnersOK
<1>5. ASSUME NEW m \in Modules PROVE LoadedOK(m)'
  <2>1. LoadedOK(m) BY DEF ModulesOK
  <2>2. ASSUME NEW u \in Threads
        PROVE  /\ Job("loaded", <<m>>) \in JobsOf(u)' => module[m] = "loading"
               /\ Job("unload", <<m>>) \in JobsOf(u)' =>
                    \A p \in Paths : plugin[p] = m => Job("remove", p) \in JobsOf(u)'
    BY <1>2, <1>3, <2>1 DEF LoadedOK
  <2> QED BY <1>1, <2>1, <2>2 DEF LoadedOK
<1> QED BY <1>4, <1>5 DEF ModulesOK

\* It changes nothing about who destroys a copy of a module.
LEMMA DroppersStay ==
  ASSUME ShapesOK, NEW t \in Threads, NEW do, NEW more, Middle(t, do, more), NEW m
  PROVE  Droppers(m)' = Droppers(m)
<1>1. ASSUME NEW u \in Threads
      PROVE  (\E j \in JobsOf(u)' : j.do \in {"drop", "decrement", "unload"} /\ j.path = <<m>>)
               <=> \E j \in JobsOf(u) : j.do \in {"drop", "decrement", "unload"} /\ j.path = <<m>>
  <2>1. \A j : j.do \in {"drop", "decrement", "unload"} => j.do \in Ends BY DEF Ends
  <2> QED BY <2>1, EndsStay
<1> QED BY <1>1 DEF Droppers

\* It keeps the use counts.
LEMMA MiddleCopies ==
  ASSUME ShapesOK, TurnsOK, CopiesOK, NEW t \in Threads, NEW do, NEW more, Middle(t, do, more), UNCHANGED modules
  PROVE  CopiesOK'
<1>1. \A m : Droppers(m)' = Droppers(m) BY DroppersStay
<1>2. ASSUME NEW m \in Modules, NEW u \in Threads
      PROVE  /\ Job("drop", <<m>>) \in JobsOf(u)' <=> Job("drop", <<m>>) \in JobsOf(u)
             /\ Job("unload", <<m>>) \in JobsOf(u)' <=> Job("unload", <<m>>) \in JobsOf(u)
  <2>1. Job("drop", <<m>>).do \in Ends /\ Job("unload", <<m>>).do \in Ends BY JobFields DEF Ends
  <2> QED BY <2>1, EndsStay
<1>3. \A do2, p : Job(do2, p)' = Job(do2, p) BY DEF Job
<1>4. ASSUME NEW m \in Modules, NEW u \in Threads, Droppers(m) = {u}, Alone(u) PROVE Alone(u)'
  <2>1. todo[u] # <<>>
    <3>1. JobsOf(u) # {} BY <1>4 DEF Droppers
    <3> QED BY <3>1, JobsIn
  <2> QED BY <1>4, <2>1, MiddleTurns
<1> QED BY <1>1, <1>2, <1>3, <1>4 DEF CopiesOK, CopyOK, modules

-----------------------------------------------------------------------------
(* What handlers are told, and what their tables have.                     *)

LEMMA MiddleTold ==
  ASSUME ShapesOK, NEW t \in Threads, NEW do, NEW more, Middle(t, do, more), NEW h, NEW p, Told(h, p),
         (\A k \in Keys[p] : table[h][k] = p) => \A k \in Keys[p] : table'[h][k] = p,
         Tells(Head(todo[t]), h, p) => \/ \E j \in ToSet(more) : Tells(j, h, p)
                                       \/ \A k \in Keys[p] : table'[h][k] = p
  PROVE  Told(h, p)'
<1>1. \A j : Tells(j, h, p)' <=> Tells(j, h, p) BY DEF Tells, EventJob, CallJob, WalkJob
<1>2. CASE \A k \in Keys[p] : table[h][k] = p BY <1>2 DEF Told
<1>3. ASSUME NEW u \in Threads, NEW j \in JobsOf(u), Tells(j, h, p) PROVE Told(h, p)'
  <2>1. CASE u # t
    <3>1. j \in JobsOf(u)' BY <2>1, Continued DEF Middle
    <3> QED BY <1>1, <1>3, <3>1 DEF Told
  <2>2. CASE u = t
    <3>1. JobsOf(t) = {Head(todo[t])} \union ToSet(Tail(todo[t]))
          /\ JobsOf(t)' = ToSet(more) \union ToSet(Tail(todo[t]))
      BY Continued DEF Middle
    <3> QED BY <1>1, <1>3, <2>2, <3>1 DEF Told
  <2> QED BY <2>1, <2>2
<1> QED BY <1>2, <1>3 DEF Told

\* A table entry stays accounted for, if the step does what its job was for.
LEMMA MiddleUntold ==
  ASSUME ShapesOK, NEW t \in Threads, NEW do, NEW more, Middle(t, do, more), NEW h, NEW k, NEW p, EntryOK(h, k, p),
         Registered(h)', Registered(p) => Registered(p)' \/ \E j \in ToSet(more) : Untells(j, h, p),
         Untells(Head(todo[t]), h, p) => Registered(p)' \/ \E j \in ToSet(more) : Untells(j, h, p)
  PROVE  EntryOK(h, k, p)'
<1>1. \A j : Untells(j, h, p)' <=> Untells(j, h, p) BY DEF Untells, EventJob, CallJob
<1>2. JobsOf(t) = {Head(todo[t])} \union ToSet(Tail(todo[t]))
      /\ JobsOf(t)' = ToSet(more) \union ToSet(Tail(todo[t]))
      /\ \A u \in Threads \ {t} : JobsOf(u)' = JobsOf(u)
  BY Continued DEF Middle
<1>3. (\E u \in Threads : \E j \in JobsOf(u) : Untells(j, h, p)) =>
        Registered(p)' \/ \E u \in Threads : \E j \in JobsOf(u)' : Untells(j, h, p)
  <2> SUFFICES ASSUME NEW u \in Threads, NEW j \in JobsOf(u), Untells(j, h, p)
               PROVE  Registered(p)' \/ \E v \in Threads : \E i \in JobsOf(v)' : Untells(i, h, p)
    OBVIOUS
  <2>1. CASE u # t BY <1>2, <2>1
  <2>2. CASE u = t BY <1>2, <2>2
  <2> QED BY <2>1, <2>2
<1>4. (\E j \in ToSet(more) : Untells(j, h, p)) => \E u \in Threads : \E j \in JobsOf(u)' : Untells(j, h, p)
  BY <1>2
<1>5. Registered(p)' \/ \E u \in Threads : \E j \in JobsOf(u)' : Untells(j, h, p)
  BY <1>3, <1>4 DEF EntryOK
<1>6. k \in Keys[p] /\ p \in Below(h) BY DEF EntryOK
<1>7. (p \in Below(h))' BY <1>6 DEF Below
<1> QED BY <1>1, <1>5, <1>6, <1>7 DEF EntryOK

\* HandlersOK of the next state, pair by pair.
LEMMA HandlersPrimed ==
  ASSUME \A h \in Handlers : \A p \in Below(h) : Registered(h)' /\ Registered(p)' => Told(h, p)'
  PROVE  HandlersOK'
<1>1. \A h : Below(h)' = Below(h) BY DEF Below
<1> QED BY <1>1 DEF HandlersOK

\* TablesOK of the next state, entry by entry.
LEMMA TablesPrimed ==
  ASSUME \A h \in Handlers \intersect Core : \A k \in AllKeys : \A p \in Paths :
           table'[h][k] = p => EntryOK(h, k, p)'
  PROVE  TablesOK'
<1>1. AllKeys' = AllKeys BY DEF AllKeys
<1>2. ASSUME NEW h \in Handlers \intersect Core, NEW k \in AllKeys, table'[h][k] \in Paths
      PROVE  EntryOK(h, k, table[h][k])'
  <2>1. PICK p \in Paths : p = table'[h][k] BY <1>2
  <2>2. EntryOK(h, k, p)' BY <2>1
  <2> QED BY <2>1, <2>2 DEF EntryOK, Below, Registered, Untells, EventJob, CallJob
<1> QED BY <1>1, <1>2 DEF TablesOK

-----------------------------------------------------------------------------
(* The steps in the middle, one by one.                                    *)

LEMMA TellKinds ==
  /\ \A j, h, p : Tells(j, h, p) => j.do \in {"event", "call", "get", "list"}
  /\ \A j, h, p : Untells(j, h, p) => j.do \in {"event", "call"}
BY JobFields DEF Tells, Untells

\* No job, and one: the shortest sequences.
LEMMA NoJobs == <<>> \in Seq(AllJobs) /\ ToSet(<<>>) = {}
<1>1. DOMAIN <<>> = {} OBVIOUS
<1> QED BY <1>1, EmptySeq DEF ToSet

\* One job.
LEMMA OneJob == \A j \in AllJobs : <<j>> \in Seq(AllJobs) /\ ToSet(<<j>>) = {j}
<1> SUFFICES ASSUME NEW j \in AllJobs PROVE <<j>> \in Seq(AllJobs) /\ ToSet(<<j>>) = {j} OBVIOUS
<1>1. DOMAIN <<j>> = 1..1 /\ <<j>>[1] = j OBVIOUS
<1>2. 1..1 = {1} OBVIOUS
<1> QED BY <1>1, <1>2 DEF ToSet

\* A step that only says what else is to be done
LEMMA MiddleKeeps ==
  ASSUME RegistryInv, NEW t \in Threads, NEW do, NEW more, Middle(t, do, more), UNCHANGED <<registry, modules, started, ops>>,
         do = "remove" => plugin[Head(todo[t]).path] = NoPlugin,
         \A j \in ToSet(more) : PathOK(t, j),
         \A h \in Handlers : \A p \in Below(h) :
           Registered(h) /\ Registered(p) /\ Tells(Head(todo[t]), h, p) => \E j \in ToSet(more) : Tells(j, h, p),
         \A h \in Handlers : \A p \in Below(h) :
           Registered(h) /\ Untells(Head(todo[t]), h, p) => \E j \in ToSet(more) : Untells(j, h, p)
  PROVE  RegistryInv'
<1> USE DEF RegistryInv
<1>2. UNCHANGED <<plugin, ordered, table, association, modules, started, ops>> BY DEF registry
<1>4. ShapesOK' BY <1>2, MiddleShapes
<1>5. TurnsOK' BY MiddleTurns
<1>6. PathsOK' BY <1>2, MiddlePaths
<1>7. ModulesOK' BY <1>2, MiddleModules
<1>8. CopiesOK' BY MiddleCopies
<1>9. HandlersOK'
  <2>1. ASSUME NEW h \in Handlers, NEW p \in Below(h), Registered(h)', Registered(p)' PROVE Told(h, p)'
    <3>1. Registered(h) /\ Registered(p) BY <1>2, <2>1 DEF Registered
    <3>2. Told(h, p) BY <3>1 DEF HandlersOK
    <3>3. Tells(Head(todo[t]), h, p) => \E j \in ToSet(more) : Tells(j, h, p) BY <3>1
    <3> QED BY <1>2, <3>2, <3>3, MiddleTold
  <2> QED BY <2>1, HandlersPrimed
<1>10. TablesOK'
  <2>1. ASSUME NEW h \in Handlers \intersect Core, NEW k \in AllKeys, NEW p \in Paths, table'[h][k] = p
        PROVE  EntryOK(h, k, p)'
    <3>1. EntryOK(h, k, p) BY <1>2, <2>1 DEF TablesOK
    <3>2. Registered(h) /\ p \in Below(h) BY <3>1 DEF EntryOK
    <3>3. Untells(Head(todo[t]), h, p) => \E j \in ToSet(more) : Untells(j, h, p) BY <3>2
    <3>4. Registered(h)' /\ (Registered(p) => Registered(p)') BY <1>2, <3>1 DEF EntryOK, Registered
    <3> QED BY <3>1, <3>3, <3>4, MiddleUntold
  <2> QED BY <2>1, TablesPrimed
<1> QED BY <1>4, <1>5, <1>6, <1>7, <1>8, <1>9, <1>10

\* A user removes what is not there (RemovePlugin throws).
LEMMA RemoveThrowsKeeps ==
  ASSUME RegistryInv, NEW t \in Threads, RemoveThrows(t)
  PROVE  RegistryInv'
<1>1. Middle(t, "remove", <<>>) /\ UNCHANGED <<registry, modules, started, ops>>
  BY NoJobs DEF RemoveThrows, Middle, Ends
<1>2. plugin[Head(todo[t]).path] = NoPlugin BY DEF RemoveThrows
<1>3. Head(todo[t]).do = "remove" BY <1>1 DEF Middle, Does
<1>4. \A h, p : ~ Tells(Head(todo[t]), h, p) /\ ~ Untells(Head(todo[t]), h, p) BY <1>3, TellKinds
<1> QED BY <1>1, <1>2, <1>4, NoJobs, MiddleKeeps

\* handlePluginEvent copies the handlers above a path: each of them is to be called.
LEMMA EventKeeps ==
  ASSUME RegistryInv, NEW t \in Threads, Event(t)
  PROVE  RegistryInv'
<1> DEFINE e == Head(todo[t])
           hs == ParentHandlers(e.path)
           more == [i \in DOMAIN hs |-> CallJob(hs[i], e.path, e.event)]
<1>0. ShapesOK /\ PathsOK BY DEF RegistryInv
<1>1. Does(t, "event") /\ Continue(t, more) /\ UNCHANGED <<registry, modules, started, ops>> BY DEF Event
<1>2. e \in JobsOf(t) /\ e.do = "event" /\ e \in AllJobs BY <1>0, <1>1, JobsIn
<1>3. e.path \in Paths /\ e.event \in {"add", "remove"} /\ e = EventJob(e.event, e.path) BY <1>2, JobKinds
<1>4. PathOK(t, e) BY <1>0, <1>2 DEF PathsOK
<1>5. hs \in Seq(Seq(STRING)) /\ ToSet(hs) = {h \in Handlers : Registered(h) /\ e.path \in Below(h)}
  BY <1>3, ParentsAre
<1> HIDE DEF hs, e
<1>6. DOMAIN hs = 1..Len(hs) /\ Len(hs) \in Nat BY <1>5
<1>7. \A i \in DOMAIN hs : /\ hs[i] \in Handlers /\ Registered(hs[i]) /\ e.path \in Below(hs[i])
                           /\ more[i] = CallJob(hs[i], e.path, e.event) /\ more[i] \in AllJobs
  <2> SUFFICES ASSUME NEW i \in DOMAIN hs
               PROVE  /\ hs[i] \in Handlers /\ Registered(hs[i]) /\ e.path \in Below(hs[i])
                      /\ more[i] = CallJob(hs[i], e.path, e.event) /\ more[i] \in AllJobs
    OBVIOUS
  <2>1. hs[i] \in ToSet(hs) BY DEF ToSet
  <2>2. hs[i] \in Handlers /\ Registered(hs[i]) /\ e.path \in Below(hs[i]) BY <1>5, <2>1
  <2>3. more[i] = CallJob(hs[i], e.path, e.event) OBVIOUS
  <2> QED BY <1>3, <2>2, <2>3, JobsAre
<1>8. DOMAIN more = DOMAIN hs OBVIOUS
<1>9. more \in [1..Len(hs) -> AllJobs]
  <2>1. more = [i \in 1..Len(hs) |-> more[i]] BY <1>6
  <2> HIDE DEF more
  <2> QED BY <1>6, <1>7, <2>1
<1> HIDE DEF more
<1>10. more \in Seq(AllJobs) BY <1>6, <1>9, SeqDef
<1>11. \A h \in Handlers : Registered(h) /\ e.path \in Below(h) => CallJob(h, e.path, e.event) \in ToSet(more)
  BY <1>5, <1>7, <1>8 DEF ToSet
<1>12. ASSUME NEW j \in ToSet(more)
       PROVE  /\ j.do \notin Ends /\ (Grows(j) <=> Grows(e)) /\ PathOK(t, j)
  <2>1. PICK i \in DOMAIN hs : j = CallJob(hs[i], e.path, e.event) BY <1>7, <1>8 DEF ToSet
  <2>2. j.do = "call" /\ j.path = e.path /\ j.event = e.event /\ j.handler = hs[i] BY <2>1, JobFields
  <2>3. j.do \notin Ends BY <2>2 DEF Ends
  <2>4. Grows(j) <=> Grows(e) BY <1>2, <2>2 DEF Grows
  <2>5. PathOK(t, j) BY <1>2, <1>3, <1>4, <1>7, <2>2 DEF PathOK
  <2> QED BY <2>3, <2>4, <2>5
<1>13. Middle(t, "event", more) BY <1>1, <1>10, <1>12 DEF Middle, Ends, e
<1>14. ASSUME NEW h \in Handlers, NEW p \in Below(h), Registered(h), Tells(e, h, p)
       PROVE  \E j \in ToSet(more) : Tells(j, h, p)
  <2>1. e = EventJob("add", p) BY <1>2, <1>14, JobFields DEF Tells
  <2>2. CallJob(h, p, "add") \in ToSet(more) BY <1>11, <1>14, <2>1, JobFields
  <2> QED BY <2>2 DEF Tells
<1>15. ASSUME NEW h \in Handlers, NEW p \in Below(h), Registered(h), Untells(e, h, p)
       PROVE  \E j \in ToSet(more) : Untells(j, h, p)
  <2>1. e = EventJob("remove", p) BY <1>2, <1>15, JobFields DEF Untells
  <2>2. CallJob(h, p, "remove") \in ToSet(more) BY <1>11, <1>15, <2>1, JobFields
  <2> QED BY <2>2 DEF Untells
<1> QED BY <1>1, <1>12, <1>13, <1>14, <1>15, MiddleKeeps DEF e

\* The walk of a new handler lists a node: below one of its children is every plugin below it.
LEMMA ListNodeKeeps ==
  ASSUME RegistryInv, NEW t \in Threads, ListNode(t)
  PROVE  RegistryInv'
<1> DEFINE w == Head(todo[t])
           names == List(w.path)
           more == [i \in 1..(2 * Len(names)) |->
                      WalkJob(IF i % 2 = 1 THEN "get" ELSE "list", w.handler, names[(i + 1) \div 2])]
<1>0. ShapesOK /\ PathsOK /\ Handlers \subseteq Paths /\ \A p \in Paths : p \in Seq(STRING) /\ p # <<>>
  BY RegistryAssumption DEF RegistryInv
<1>1. Does(t, "list") /\ Continue(t, more) /\ UNCHANGED <<registry, modules, started, ops>> BY DEF ListNode
<1>2. w \in JobsOf(t) /\ w.do = "list" /\ w \in AllJobs BY <1>0, <1>1, JobsIn
<1>3. w.path \in Seq(STRING) /\ w.handler \in Handlers /\ IsPrefix(w.handler, w.path) BY <1>2, JobKinds
<1>4. PathOK(t, w) BY <1>0, <1>2 DEF PathsOK
<1>5. w.path # <<>>
  <2>1. w.handler \in Seq(STRING) /\ w.handler # <<>> BY <1>0, <1>3
  <2>2. Len(w.handler) <= Len(w.path) BY <1>3, <2>1, PrefixIs
  <2>3. Len(w.handler) \in Nat /\ Len(w.handler) # 0 BY <2>1
  <2> QED BY <2>2, <2>3
<1>6. /\ names \in Seq(Seq(STRING))
      /\ \A c \in ToSet(names) : c \in Seq(STRING) /\ IsPrefix(w.path, c) /\ c # w.path
      /\ \A p \in Paths : Registered(p) /\ IsPrefix(w.path, p) /\ w.path # p => \E c \in ToSet(names) : IsPrefix(c, p)
  BY <1>0, <1>3, <1>5, ListIs
<1> HIDE DEF names, w
<1>7. Len(names) \in Nat /\ DOMAIN names = 1..Len(names) BY <1>6
<1>8. ASSUME NEW c \in ToSet(names)
      PROVE  WalkJob("get", w.handler, c) \in AllJobs /\ WalkJob("list", w.handler, c) \in AllJobs
  <2>1. c \in Seq(STRING) /\ IsPrefix(w.path, c) /\ c # w.path BY <1>6
  <2>2. w.handler \in Seq(STRING) BY <1>0, <1>3
  <2>3. IsPrefix(w.handler, c) BY <1>3, <2>1, <2>2, PrefixTrans
  <2>4. c # w.handler
    <3> SUFFICES ASSUME c = w.handler PROVE FALSE OBVIOUS
    <3>1. Len(c) <= Len(w.path) /\ Len(w.path) <= Len(c) BY <1>3, <2>1, <2>2, PrefixIs
    <3>2. Len(c) \in Nat /\ Len(w.path) \in Nat BY <1>3, <2>1
    <3> QED BY <1>3, <2>1, <3>1, <3>2, PrefixIs
  <2> QED BY <1>3, <2>1, <2>3, <2>4, JobsAre
<1>9. ASSUME NEW i \in 1..(2 * Len(names))
      PROVE  \E c \in ToSet(names) : more[i] = WalkJob("get", w.handler, c) \/ more[i] = WalkJob("list", w.handler, c)
  <2>1. (i + 1) \div 2 \in DOMAIN names BY <1>7
  <2>2. names[(i + 1) \div 2] \in ToSet(names) BY <2>1 DEF ToSet
  <2>3. more[i] = WalkJob(IF i % 2 = 1 THEN "get" ELSE "list", w.handler, names[(i + 1) \div 2]) OBVIOUS
  <2> QED BY <2>2, <2>3
<1>10. ASSUME NEW c \in ToSet(names)
       PROVE  WalkJob("get", w.handler, c) \in ToSet(more) /\ WalkJob("list", w.handler, c) \in ToSet(more)
  <2>1. PICK k \in 1..Len(names) : names[k] = c BY <1>7 DEF ToSet
  <2>2. /\ 2 * k - 1 \in 1..(2 * Len(names)) /\ (2 * k - 1) % 2 = 1 /\ ((2 * k - 1) + 1) \div 2 = k
        /\ 2 * k \in 1..(2 * Len(names)) /\ (2 * k) % 2 = 0 /\ ((2 * k) + 1) \div 2 = k
    BY <1>7, <2>1
  <2>3. more[2 * k - 1] = WalkJob("get", w.handler, c) BY <2>1, <2>2
  <2>4. more[2 * k] = WalkJob("list", w.handler, c) BY <2>1, <2>2
  <2>5. DOMAIN more = 1..(2 * Len(names)) OBVIOUS
  <2> HIDE DEF more
  <2> QED BY <2>2, <2>3, <2>4, <2>5 DEF ToSet
<1>11. more \in Seq(AllJobs) /\ DOMAIN more = 1..(2 * Len(names))
  <2>1. more = [i \in 1..(2 * Len(names)) |-> more[i]] OBVIOUS
  <2>2. \A i \in 1..(2 * Len(names)) : more[i] \in AllJobs BY <1>8, <1>9
  <2>3. 2 * Len(names) \in Nat BY <1>7
  <2> HIDE DEF more
  <2>4. more \in [1..(2 * Len(names)) -> AllJobs] BY <2>1, <2>2
  <2>5. DOMAIN more = 1..(2 * Len(names)) BY <2>1
  <2> QED BY <2>3, <2>4, <2>5, SeqDef
<1> HIDE DEF more
<1>12. ASSUME NEW j \in ToSet(more)
       PROVE  j.do \notin Ends /\ (Grows(j) <=> Grows(w)) /\ PathOK(t, j)
  <2>1. PICK c \in ToSet(names) : j = WalkJob("get", w.handler, c) \/ j = WalkJob("list", w.handler, c)
    BY <1>9, <1>11 DEF ToSet
  <2>2. j.do \in {"get", "list"} /\ j.handler = w.handler BY <2>1, JobFields
  <2>3. j.do \notin Ends BY <2>2 DEF Ends
  <2>4. Grows(j) /\ Grows(w) BY <1>2, <2>2 DEF Grows
  <2>5. PathOK(t, j) BY <1>2, <1>4, <2>2 DEF PathOK
  <2> QED BY <2>3, <2>4, <2>5
<1>13. Middle(t, "list", more) BY <1>1, <1>11, <1>12 DEF Middle, Ends, w
<1>14. ASSUME NEW h \in Handlers, NEW p \in Below(h), Registered(h), Registered(p), Tells(w, h, p)
       PROVE  \E j \in ToSet(more) : Tells(j, h, p)
  <2>1. w.handler = h /\ IsPrefix(w.path, p) /\ w.path # p /\ p \in Paths
    BY <1>2, <1>14, JobFields DEF Tells, Below, IsStrictPrefix
  <2>2. PICK c \in ToSet(names) : IsPrefix(c, p) BY <1>6, <1>14, <2>1
  <2>3. CASE c = p
    <3>1. WalkJob("get", h, p) \in ToSet(more) BY <1>10, <2>1, <2>3
    <3> QED BY <3>1 DEF Tells
  <2>4. CASE c # p
    <3>1. WalkJob("list", h, c) \in ToSet(more) BY <1>10, <2>1
    <3>2. Tells(WalkJob("list", h, c), h, p) BY <2>2, <2>4, JobFields DEF Tells, IsStrictPrefix
    <3> QED BY <3>1, <3>2
  <2> QED BY <2>3, <2>4
<1>15. \A h, p : ~ Untells(w, h, p) BY <1>2, TellKinds
<1> QED BY <1>1, <1>12, <1>13, <1>14, <1>15, MiddleKeeps DEF w

\* The walk of a new handler gets a node, and the handler is called if it has a plugin.
LEMMA GetNodeKeeps ==
  ASSUME RegistryInv, NEW t \in Threads, GetNode(t)
  PROVE  RegistryInv'
<1> DEFINE w == Head(todo[t])
           found == w.path \in Paths /\ plugin[w.path] # NoPlugin
           more == IF found THEN <<CallJob(w.handler, w.path, "add")>> ELSE <<>>
<1>0. ShapesOK /\ PathsOK BY DEF RegistryInv
<1>1. Does(t, "get") /\ Continue(t, more) /\ UNCHANGED <<registry, modules, started, ops>> BY DEF GetNode
<1>2. w \in JobsOf(t) /\ w.do = "get" /\ w \in AllJobs BY <1>0, <1>1, JobsIn
<1>3. w.handler \in Handlers /\ IsPrefix(w.handler, w.path) /\ w.path # w.handler /\ w = WalkJob("get", w.handler, w.path)
  BY <1>2, JobKinds
<1>4. PathOK(t, w) BY <1>0, <1>2 DEF PathsOK
<1> HIDE DEF w
<1>5. found => CallJob(w.handler, w.path, "add") \in AllJobs BY <1>3, JobsAre DEF Below
<1>6. more \in Seq(AllJobs) /\ ToSet(more) = IF found THEN {CallJob(w.handler, w.path, "add")} ELSE {}
  BY <1>5, NoJobs, OneJob
<1> HIDE DEF more
<1>7. ASSUME NEW j \in ToSet(more) PROVE j.do \notin Ends /\ (Grows(j) <=> Grows(w)) /\ PathOK(t, j)
  <2>1. found /\ j = CallJob(w.handler, w.path, "add") BY <1>6
  <2>2. j.do = "call" /\ j.path = w.path /\ j.event = "add" /\ j.handler = w.handler BY <2>1, JobFields
  <2>3. Registered(j.path) BY <2>1, <2>2 DEF Registered
  <2>4. PathOK(t, j) BY <1>2, <1>4, <2>2, <2>3 DEF PathOK
  <2> QED BY <1>2, <2>2, <2>4 DEF Ends, Grows
<1>8. Middle(t, "get", more) BY <1>1, <1>6, <1>7 DEF Middle, Ends, w
<1>9. ASSUME NEW h \in Handlers, NEW p \in Below(h), Registered(p), Tells(w, h, p)
      PROVE  \E j \in ToSet(more) : Tells(j, h, p)
  <2>1. w = WalkJob("get", h, p) BY <1>2, <1>9, JobFields DEF Tells
  <2>2. w.path = p /\ w.handler = h BY <2>1, JobFields
  <2>3. CallJob(h, p, "add") \in ToSet(more) BY <1>6, <1>9, <2>2 DEF Below, Registered
  <2> QED BY <2>3 DEF Tells
<1>10. \A h, p : ~ Untells(w, h, p) BY <1>2, TellKinds
<1> QED BY <1>1, <1>7, <1>8, <1>9, <1>10, MiddleKeeps DEF w

\* The handler is called: its table has the plugin, or has it no longer.
LEMMA CallKeeps ==
  ASSUME RegistryInv, Separate, NEW t \in Threads, Call(t)
  PROVE  RegistryInv'
<1> DEFINE e == Head(todo[t])
           h0 == e.handler
           p0 == e.path
           entry == IF e.event = "add" THEN p0 ELSE Null
           row == [k \in AllKeys |-> IF k \notin Keys[p0] THEN table[h0][k] ELSE entry]
<1> USE DEF RegistryInv
<1>1. Does(t, "call") /\ Continue(t, <<>>) /\ UNCHANGED <<plugin, ordered, association, modules, started, ops>> BY DEF Call
<1>2. e \in JobsOf(t) /\ e.do = "call" /\ e \in AllJobs BY <1>1, JobsIn
<1>3. p0 \in Paths /\ e.event \in {"add", "remove"} /\ h0 \in Handlers /\ p0 \in Below(h0) /\ e = CallJob(h0, p0, e.event)
  BY <1>2, JobKinds
<1>4. PathOK(t, e) BY <1>2 DEF PathsOK
<1>5. table' = [table EXCEPT ![h0] = row]
  <2>1. table' = [table EXCEPT ![h0] = [k \in AllKeys |-> IF k \notin Keys[p0] THEN @[k]
                                                         ELSE IF e.event = "add" THEN p0 ELSE Null]]
    BY DEF Call
  <2> QED BY <2>1
<1> HIDE DEF e
<1>6. row \in [AllKeys -> Paths \union {Null, Absent}] BY <1>3 DEF ShapesOK
<1>7. \A k \in AllKeys : row[k] = IF k \notin Keys[p0] THEN table[h0][k] ELSE entry OBVIOUS
<1> HIDE DEF row
<1>8. table' \in [Handlers -> [AllKeys -> Paths \union {Null, Absent}]] BY <1>5, <1>6 DEF ShapesOK
<1>9. \A h \in Handlers : \A k \in AllKeys : h # h0 \/ k \notin Keys[p0] => table'[h][k] = table[h][k]
  BY <1>5, <1>7 DEF ShapesOK
<1>10. \A k \in AllKeys : k \in Keys[p0] => table'[h0][k] = entry BY <1>3, <1>5, <1>7 DEF ShapesOK
<1>11. Middle(t, "call", <<>>) BY <1>1, NoJobs DEF Middle, Ends
<1>12. ShapesOK'
  <2>1. todo' \in [Threads -> Seq(AllJobs)] BY <1>11, Continued DEF Middle
  <2> QED BY <1>1, <1>8, <2>1 DEF ShapesOK, modules, Registered
<1>13. TurnsOK' /\ CopiesOK' BY <1>1, <1>11, MiddleTurns, MiddleCopies
<1>14. PathsOK' BY <1>1, <1>11, NoJobs, MiddlePaths
<1>15. ModulesOK' BY <1>1, <1>11, MiddleModules
<1>16. \A p : Registered(p)' <=> Registered(p) BY <1>1 DEF Registered
<1>17. \A p \in Paths : Keys[p] \subseteq AllKeys BY DEF AllKeys
<1>18. HandlersOK'
  <2>1. ASSUME NEW h \in Handlers, NEW p \in Below(h), Registered(h)', Registered(p)' PROVE Told(h, p)'
    <3>1. Registered(p) /\ p \in Paths /\ Told(h, p) BY <1>16, <2>1 DEF HandlersOK, Below
    <3>2. ASSUME NEW k \in Keys[p], table[h][k] = p PROVE table'[h][k] = p
      <4>1. CASE h # h0 \/ k \notin Keys[p0] BY <1>9, <1>17, <3>1, <3>2, <4>1
      <4>2. CASE h = h0 /\ k \in Keys[p0]
        <5>1. p = p0 BY <1>3, <3>1, <4>2 DEF Separate
        <5>2. e.event = "add" BY <1>2, <1>3, <1>4, <3>1, <5>1 DEF PathOK
        <5> QED BY <1>10, <1>17, <3>1, <4>2, <5>1, <5>2
      <4> QED BY <4>1, <4>2
    <3>3. ASSUME Tells(e, h, p), NEW k \in Keys[p] PROVE table'[h][k] = p
      <4>1. e = CallJob(h, p, "add") BY <1>2, <3>3, JobFields DEF Tells
      <4>2. h0 = h /\ p0 = p /\ e.event = "add" BY <4>1, JobFields
      <4> QED BY <1>10, <1>17, <3>1, <4>2
    <3>4. (\A k \in Keys[p] : table[h][k] = p) => \A k \in Keys[p] : table'[h][k] = p BY <3>2
    <3>5. Tells(Head(todo[t]), h, p) => \A k \in Keys[p] : table'[h][k] = p BY <3>3 DEF e
    <3> QED BY <1>11, <3>1, <3>4, <3>5, MiddleTold
  <2> QED BY <2>1, HandlersPrimed
<1>19. TablesOK'
  <2>1. ASSUME NEW h \in Handlers \intersect Core, NEW k \in AllKeys, NEW p \in Paths, table'[h][k] = p
        PROVE  EntryOK(h, k, p)'
    <3>1. CASE h = h0 /\ k \in Keys[p0]
      <4>1. e.event = "add" /\ p = p0
        <5>1. Null \notin Paths BY RegistryAssumption
        <5> QED BY <1>10, <2>1, <3>1, <5>1
      <4>2. Registered(h) /\ Registered(p) BY <1>2, <1>4, <3>1, <4>1 DEF PathOK
      <4>3. (p \in Below(h))' BY <1>3, <3>1, <4>1 DEF Below
      <4> QED BY <1>16, <3>1, <4>1, <4>2, <4>3 DEF EntryOK
    <3>2. CASE h # h0 \/ k \notin Keys[p0]
      <4>1. table[h][k] = p BY <1>9, <2>1, <3>2
      <4>2. EntryOK(h, k, p) BY <2>1, <4>1 DEF TablesOK
      <4>3. Registered(h)' /\ k \in Keys[p] /\ (Registered(p) => Registered(p)') BY <1>16, <4>2 DEF EntryOK
      <4>4. ~ Untells(e, h, p)
        <5> SUFFICES ASSUME Untells(e, h, p) PROVE FALSE OBVIOUS
        <5>1. e = CallJob(h, p, "remove") BY <1>2, JobFields DEF Untells
        <5>2. h0 = h /\ p0 = p BY <5>1, JobFields
        <5> QED BY <3>2, <4>3, <5>2
      <4> QED BY <1>11, <4>2, <4>3, <4>4, MiddleUntold DEF e
    <3> QED BY <3>1, <3>2
  <2> QED BY <2>1, TablesPrimed
<1> QED BY <1>12, <1>13, <1>14, <1>15, <1>18, <1>19

-----------------------------------------------------------------------------
(* Adding and removing.                                                    *)

\* A sequence with one element more.
LEMMA OneMore ==
  ASSUME NEW S, NEW s \in Seq(S), NEW x \in S
  PROVE  /\ Append(s, x) \in Seq(S) /\ ToSet(Append(s, x)) = ToSet(s) \union {x}
         /\ IsInjective(s) /\ x \notin ToSet(s) => IsInjective(Append(s, x))
<1> DEFINE r == Append(s, x)
<1>1. /\ r \in Seq(S) /\ Len(r) = Len(s) + 1 /\ r[Len(s) + 1] = x /\ DOMAIN r = 1..(Len(s) + 1)
      /\ Len(s) \in Nat /\ DOMAIN s = 1..Len(s) /\ \A i \in 1..Len(s) : r[i] = s[i]
  OBVIOUS
<1> HIDE DEF r
<1>2. ToSet(r) = ToSet(s) \union {x} BY <1>1 DEF ToSet
<1>3. IsInjective(s) /\ x \notin ToSet(s) => IsInjective(r)
  <2> SUFFICES ASSUME IsInjective(s), x \notin ToSet(s), NEW i \in DOMAIN r, NEW j \in DOMAIN r, r[i] = r[j]
               PROVE  i = j
    BY DEF IsInjective
  <2>1. \A k \in 1..Len(s) : s[k] \in ToSet(s) BY <1>1 DEF ToSet
  <2>2. CASE i \in 1..Len(s) /\ j \in 1..Len(s) BY <1>1, <2>2 DEF IsInjective
  <2>3. CASE i = Len(s) + 1 /\ j \in 1..Len(s) BY <1>1, <2>1, <2>3
  <2>4. CASE j = Len(s) + 1 /\ i \in 1..Len(s) BY <1>1, <2>1, <2>4
  <2> QED BY <1>1, <2>2, <2>3, <2>4
<1> QED BY <1>1, <1>2, <1>3 DEF r

\* Two sequences, one after the other.
LEMMA BothParts ==
  ASSUME NEW S, NEW a \in Seq(S), NEW b \in Seq(S)
  PROVE  /\ a \o b \in Seq(S) /\ ToSet(a \o b) = ToSet(a) \union ToSet(b)
         /\ IsInjective(a) /\ IsInjective(b) /\ ToSet(a) \intersect ToSet(b) = {} => IsInjective(a \o b)
<1> DEFINE c == a \o b
<1>1. /\ c \in Seq(S) /\ Len(c) = Len(a) + Len(b)
      /\ \A i \in 1..(Len(a) + Len(b)) : c[i] = IF i <= Len(a) THEN a[i] ELSE b[i - Len(a)]
  BY ConcatProperties
<1> HIDE DEF c
<1>2. /\ DOMAIN c = 1..(Len(a) + Len(b)) /\ DOMAIN a = 1..Len(a) /\ DOMAIN b = 1..Len(b)
      /\ Len(a) \in Nat /\ Len(b) \in Nat
  BY <1>1
<1>3. \A i \in DOMAIN c : \/ i \in DOMAIN a /\ c[i] = a[i]
                          \/ i - Len(a) \in DOMAIN b /\ c[i] = b[i - Len(a)] /\ i \notin DOMAIN a
  BY <1>1, <1>2
<1>4. \A i \in DOMAIN a : i \in DOMAIN c /\ c[i] = a[i] BY <1>1, <1>2
<1>5. ASSUME NEW i \in DOMAIN b PROVE i + Len(a) \in DOMAIN c /\ c[i + Len(a)] = b[i]
  <2>1. i + Len(a) \in 1..(Len(a) + Len(b)) /\ ~ (i + Len(a) <= Len(a)) /\ (i + Len(a)) - Len(a) = i BY <1>2
  <2>2. c[i + Len(a)] = b[(i + Len(a)) - Len(a)] BY <1>1, <2>1
  <2> QED BY <1>2, <2>1, <2>2
<1>6. ToSet(c) = ToSet(a) \union ToSet(b) BY <1>3, <1>4, <1>5 DEF ToSet
<1>7. ASSUME IsInjective(a), IsInjective(b), ToSet(a) \intersect ToSet(b) = {},
             NEW i \in DOMAIN c, NEW j \in DOMAIN c, c[i] = c[j]
      PROVE  i = j
  <2>1. (\A k \in DOMAIN a : a[k] \in ToSet(a)) /\ \A k \in DOMAIN b : b[k] \in ToSet(b) BY DEF ToSet
  <2>2. CASE i \in DOMAIN a /\ j \in DOMAIN a BY <1>3, <1>7, <2>2 DEF IsInjective
  <2>3. CASE i \notin DOMAIN a /\ j \notin DOMAIN a
    <3>1. i - Len(a) = j - Len(a) BY <1>3, <1>7, <2>3 DEF IsInjective
    <3> QED BY <1>2, <3>1
  <2>4. CASE ~ (i \in DOMAIN a <=> j \in DOMAIN a) BY <1>3, <1>7, <2>1, <2>4
  <2> QED BY <2>2, <2>3, <2>4
<1> QED BY <1>1, <1>6, <1>7 DEF IsInjective, c

\* The names on the way to a path are noted, each once.
LEMMA NotedIs ==
  ASSUME ShapesOK, NEW p \in Paths
  PROVE  LET o == ordered \o NodesToNote(p)
         IN  /\ o \in Seq(Seq(STRING)) /\ IsInjective(o)
             /\ ToSet(ordered) \subseteq ToSet(o) /\ ToSet(NodesOf(p)) \subseteq ToSet(o)
<1> DEFINE nodes == NodesOf(p)
           new == ToSet(nodes) \ ToSet(ordered)
<1>1. nodes \in Seq(Seq(STRING)) /\ IsInjective(nodes) BY NodesAre, RegistryAssumption
<1>2. NodesToNote(p) = Filter(nodes, new) BY DEF NodesToNote
<1>3. new \subseteq ToSet(nodes) /\ new \intersect ToSet(ordered) = {} /\ ToSet(nodes) \subseteq new \union ToSet(ordered) OBVIOUS
<1> HIDE DEF nodes, new
<1> DEFINE note == Filter(nodes, new)
<1>4. note \in Seq(Seq(STRING)) /\ ToSet(note) = ToSet(nodes) \intersect new /\ IsInjective(note) BY <1>1, FilterKeeps
<1> HIDE DEF note
<1>5. ordered \in Seq(Seq(STRING)) /\ IsInjective(ordered) BY DEF ShapesOK
<1>6. ToSet(ordered) \intersect ToSet(note) = {} BY <1>3, <1>4
<1>7. /\ ordered \o note \in Seq(Seq(STRING)) /\ ToSet(ordered \o note) = ToSet(ordered) \union ToSet(note)
      /\ IsInjective(ordered \o note)
  BY <1>4, <1>5, <1>6, BothParts
<1> QED BY <1>2, <1>3, <1>4, <1>7 DEF nodes, note

\* A path that is taken: its names were noted.
LEMMA AddTaken ==
  ASSUME RegistryInv, NEW t \in Threads, AddPlugin(t), plugin[Head(todo[t]).path] # NoPlugin
  PROVE  RegistryInv'
<1> DEFINE e == Head(todo[t])
<1> USE DEF RegistryInv
<1>1. /\ Does(t, "add") /\ Continue(t, <<>>) /\ ordered' = ordered \o NodesToNote(e.path)
      /\ UNCHANGED <<plugin, table, association, modules, started, ops>>
  BY DEF AddPlugin
<1>2. e \in JobsOf(t) /\ e.do = "add" /\ e \in AllJobs BY <1>1, JobsIn
<1>3. e.path \in Paths BY <1>2, JobKinds
<1>4. Middle(t, "add", <<>>) BY <1>1, NoJobs DEF Middle, Ends
<1>5. /\ ordered' \in Seq(Seq(STRING)) /\ IsInjective(ordered') /\ ToSet(ordered) \subseteq ToSet(ordered')
  BY <1>1, <1>3, NotedIs
<1>6. ShapesOK'
  <2>1. todo' \in [Threads -> Seq(AllJobs)] BY <1>4, Continued DEF Middle
  <2>2. \A p \in Paths : Registered(p)' => (ToSet(NodesOf(p)) \subseteq ToSet(ordered))'
    BY <1>1, <1>5 DEF ShapesOK, Registered
  <2>3. IsInjective(ordered)' BY <1>5 DEF IsInjective
  <2> QED BY <1>1, <1>5, <2>1, <2>2, <2>3 DEF ShapesOK, modules
<1>7. TurnsOK' BY <1>4, MiddleTurns
<1>8. PathsOK' BY <1>1, <1>4, NoJobs, MiddlePaths
<1>9. ModulesOK' BY <1>1, <1>4, MiddleModules
<1>10. CopiesOK' BY <1>1, <1>4, MiddleCopies
<1>11. \A h, p : ~ Tells(e, h, p) /\ ~ Untells(e, h, p) BY <1>2, TellKinds
<1>12. \A p : Registered(p)' <=> Registered(p) BY <1>1 DEF Registered
<1>13. HandlersOK'
  <2>1. ASSUME NEW h \in Handlers, NEW p \in Below(h), Registered(h)', Registered(p)' PROVE Told(h, p)'
    <3>1. Told(h, p) BY <1>12, <2>1 DEF HandlersOK
    <3> QED BY <1>1, <1>4, <1>11, <3>1, MiddleTold
  <2> QED BY <2>1, HandlersPrimed
<1>14. TablesOK'
  <2>1. ASSUME NEW h \in Handlers \intersect Core, NEW k \in AllKeys, NEW p \in Paths, table'[h][k] = p
        PROVE  EntryOK(h, k, p)'
    <3>1. EntryOK(h, k, p) BY <1>1, <2>1 DEF TablesOK
    <3>2. Registered(h)' /\ (Registered(p) => Registered(p)') BY <1>12, <3>1 DEF EntryOK
    <3> QED BY <1>4, <1>11, <3>1, <3>2, MiddleUntold
  <2> QED BY <2>1, TablesPrimed
<1> QED BY <1>6, <1>7, <1>8, <1>9, <1>10, <1>13, <1>14

\* Whoever adds a path of a module's static blocks loads the module.
LEMMA LoadsIt ==
  ASSUME RegistryInv, Separate, NEW t \in Threads, Does(t, "add"), NEW m \in Modules, Head(todo[t]).path \in ToSet(Statics[m])
  PROVE  Job("loaded", <<m>>) \in JobsOf(t) /\ module[m] = "loading" /\ active = m
<1> DEFINE e == Head(todo[t])
<1> USE DEF RegistryInv
<1>1. e \in JobsOf(t) /\ e.do = "add" BY JobsIn
<1>2. Mine(t, e.path) BY <1>1 DEF PathsOK, PathOK
<1>3. Busy(t, m) BY <1>2 DEF Mine, Separate
<1>4. Job("unload", <<m>>) \notin JobsOf(t)
  <2>1. Grows(e) /\ ~ Grows(Job("unload", <<m>>)) BY <1>1, JobFields DEF Grows
  <2> QED BY <1>1, <2>1 DEF TurnsOK
<1>5. Job("loaded", <<m>>) \in JobsOf(t) BY <1>3, <1>4 DEF Busy
<1>6. module[m] = "loading" BY <1>5 DEF ModulesOK, LoadedOK
<1> QED BY <1>5, <1>6 DEF ModulesOK, LoadedOK

\* While a module is active that loads, whoever adds a path runs its static blocks.
LEMMA LoadsOwn ==
  ASSUME RegistryInv, Separate, NEW t \in Threads, Does(t, "add"), active \in Modules, active \notin Broken
  PROVE  /\ Job("loaded", <<active>>) \in JobsOf(t) /\ module[active] = "loading"
         /\ Head(todo[t]).path \in ToSet(Statics[active])
<1> DEFINE e == Head(todo[t])
<1> USE DEF RegistryInv
<1>1. e \in JobsOf(t) /\ e.do = "add" BY JobsIn
<1>2. PICK u \in Threads : Job("loaded", <<active>>) \in JobsOf(u) BY DEF ModulesOK, OwnersOK
<1>3. Alone(u) BY <1>2 DEF TurnsOK, Busy
<1>4. u = t BY <1>3 DEF Alone, Does
<1>5. module[active] = "loading" BY <1>2 DEF ModulesOK, LoadedOK
<1>6. e.path \in ToSet(Statics[active]) BY <1>1, <1>2, <1>4 DEF PathsOK, PathOK, Busy
<1> QED BY <1>2, <1>4, <1>5, <1>6

\* A path that is free: the plugin is the active module's, and the event is to come.
LEMMA AddFree ==
  ASSUME RegistryInv, Separate, NEW t \in Threads, AddPlugin(t), NEW p0, Head(todo[t]).path = p0, plugin[p0] = NoPlugin
  PROVE  RegistryInv'
<1> DEFINE e == Head(todo[t])
           event == EventJob("add", p0)
           walk == WalkJob("list", p0, p0)
           missed == MissedSubTreeEvents(p0)
           one == <<event>>
           more == one \o missed
<1> USE DEF RegistryInv
<1>1. /\ Does(t, "add") /\ Continue(t, more) /\ ordered' = ordered \o NodesToNote(p0)
      /\ plugin' = [plugin EXCEPT ![p0] = active]
      /\ association' = [association EXCEPT ![active] = Append(@, p0)]
      /\ UNCHANGED <<table, modules, started, ops>>
  BY DEF AddPlugin
<1>2. e \in JobsOf(t) /\ e.do = "add" /\ e \in AllJobs /\ e.path = p0 BY <1>1, JobsIn
<1>3. p0 \in Paths /\ p0 \in Seq(STRING) BY <1>2, JobKinds, RegistryAssumption
<1>4. PathOK(t, e) BY <1>2 DEF PathsOK
<1>5. active \in Modules \union {NoModule} /\ active # NoPlugin
  BY RegistryAssumption DEF ShapesOK, NoModule, NoPlugin
<1>6. missed \in Seq(AllJobs) /\ ToSet(missed) = IF p0 \in Handlers THEN {walk} ELSE {}
  <2>1. CASE p0 \in Handlers
    <3>1. IsPrefix(p0, p0) BY <1>3, PrefixIs
    <3>2. walk \in AllJobs BY <1>3, <2>1, <3>1, JobsAre
    <3> QED BY <2>1, <3>2, OneJob DEF MissedSubTreeEvents
  <2>2. CASE p0 \notin Handlers BY <2>2, NoJobs DEF MissedSubTreeEvents
  <2> QED BY <2>1, <2>2
<1>7. event \in AllJobs /\ one \in Seq(AllJobs) /\ ToSet(one) = {event} BY <1>3, JobsAre, OneJob
<1> HIDE DEF event, missed, walk, one
<1>8. more \in Seq(AllJobs) /\ ToSet(more) = {event} \union (IF p0 \in Handlers THEN {walk} ELSE {})
  <2>1. more \in Seq(AllJobs) /\ ToSet(more) = ToSet(one) \union ToSet(missed) BY <1>6, <1>7, BothParts
  <2> HIDE DEF more
  <2> QED BY <1>6, <1>7, <2>1
<1> HIDE DEF more
<1>9. \A j \in ToSet(more) : j.do \in {"event", "list"} /\ j.do \notin Ends /\ Grows(j)
  <2>1. event.do = "event" /\ event.event = "add" /\ walk.do = "list" BY JobFields DEF event, walk
  <2> QED BY <1>8, <2>1 DEF Grows, Ends
<1>10. Middle(t, "add", more)
  <2>1. Grows(e) BY <1>2 DEF Grows
  <2> QED BY <1>1, <1>8, <1>9, <2>1 DEF Middle, Ends
<1> HIDE DEF e
<1>11. plugin' \in [Paths -> Modules \union {NoModule, NoPlugin}] /\ \A p \in Paths : plugin'[p] = IF p = p0 THEN active ELSE plugin[p]
  BY <1>1, <1>3, <1>5 DEF ShapesOK
<1>12. \A p \in Paths : Registered(p)' <=> Registered(p) \/ p = p0 BY <1>5, <1>11 DEF Registered
<1>13. /\ association' \in [Modules \union {NoModule} -> Seq(Paths)]
       /\ association'[active] = Append(association[active], p0)
       /\ \A m \in Modules \union {NoModule} : m # active => association'[m] = association[m]
  BY <1>1, <1>3, <1>5 DEF ShapesOK
<1>14. UNCHANGED <<active, moduleMutex, module, copies, pluginPaths>> BY <1>1 DEF modules
<1>15. ShapesOK'
  <2>1. todo' \in [Threads -> Seq(AllJobs)] BY <1>10, Continued DEF Middle
  <2>2. /\ ordered' \in Seq(Seq(STRING)) /\ IsInjective(ordered')
        /\ ToSet(ordered) \subseteq ToSet(ordered') /\ ToSet(NodesOf(p0)) \subseteq ToSet(ordered')
    BY <1>1, <1>3, NotedIs
  <2>3. \A p \in Paths : Registered(p)' => (ToSet(NodesOf(p)) \subseteq ToSet(ordered))'
    BY <1>12, <2>2 DEF ShapesOK
  <2>4. IsInjective(ordered)' BY <2>2 DEF IsInjective
  <2> QED BY <1>1, <1>11, <1>13, <1>14, <2>1, <2>2, <2>3, <2>4 DEF ShapesOK
<1>16. TurnsOK' /\ CopiesOK' BY <1>1, <1>10, MiddleTurns, MiddleCopies
<1>17. \A u \in Threads : (\A p : Mine(u, p)' <=> Mine(u, p)) /\ \A m : Busy(u, m)' <=> Busy(u, m) BY <1>10, MiddleBusy
<1>18. /\ JobsOf(t)' = ToSet(more) \union ToSet(Tail(todo[t]))
       /\ JobsOf(t) = {e} \union ToSet(Tail(todo[t]))
       /\ \A u \in Threads \ {t} : JobsOf(u)' = JobsOf(u)
  BY <1>10, Continued DEF Middle, e
<1>19. Mine(t, p0) BY <1>2, <1>4 DEF PathOK
<1>20. PathsOK'
  <2>1. ASSUME NEW u \in Threads, NEW j \in JobsOf(u) PROVE PathOK(u, j)'
    <3>1. PathOK(u, j) /\ j \in AllJobs BY <2>1, JobsIn DEF PathsOK
    <3>2. j.do \in {"event", "call"} /\ j.event = "remove" => j.path # p0
      <4> SUFFICES ASSUME j.do \in {"event", "call"}, j.event = "remove", j.path = p0 PROVE FALSE OBVIOUS
      <4>1. u = t BY <1>19, <3>1, MineOne DEF PathOK
      <4>2. ~ Grows(j) /\ Grows(e) BY <1>2 DEF Grows
      <4> QED BY <1>2, <4>1, <4>2 DEF TurnsOK
    <3>3. /\ j.do \in {"event", "call"} => j.path \in Paths
          /\ j.do \in {"list", "get", "call"} => j.handler \in Paths
      BY <3>1, JobKinds, RegistryAssumption
    <3> QED BY <1>1, <1>12, <1>17, <3>1, <3>2, <3>3 DEF PathOK
  <2>2. ASSUME NEW j \in ToSet(more) PROVE PathOK(t, j)'
    <3>1. Mine(t, p0)' /\ Registered(p0)' BY <1>3, <1>12, <1>17, <1>19
    <3>2. CASE j = event
      <4>1. j.do = "event" /\ j.path = p0 /\ j.event = "add" BY <3>2, JobFields DEF event
      <4> QED BY <3>1, <4>1 DEF PathOK
    <3>3. CASE j = walk
      <4>1. j.do = "list" /\ j.handler = p0 BY <3>3, JobFields DEF walk
      <4> QED BY <3>1, <4>1 DEF PathOK
    <3> QED BY <1>8, <3>2, <3>3
  <2>3. \A u \in Threads : \A j \in JobsOf(u)' : j \in JobsOf(u) \/ (u = t /\ j \in ToSet(more)) BY <1>18
  <2> QED BY <2>1, <2>2, <2>3 DEF PathsOK
<1>21. ASSUME NEW m \in Modules, NEW u \in Threads
       PROVE  /\ Job("loaded", <<m>>) \in JobsOf(u)' <=> Job("loaded", <<m>>) \in JobsOf(u)
              /\ Job("unload", <<m>>) \in JobsOf(u)' <=> Job("unload", <<m>>) \in JobsOf(u)
  <2>1. Job("loaded", <<m>>).do \in Ends /\ Job("unload", <<m>>).do \in Ends BY JobFields DEF Ends
  <2> QED BY <1>10, <2>1, EndsStay
<1>22. \A do2, p : Job(do2, p)' = Job(do2, p) BY DEF Job
<1>23. ModulesOK'
  <2>1. ASSUME NEW m \in Modules PROVE OwnersOK(m)' /\ LoadedOK(m)'
    <3>1. OwnersOK(m) /\ LoadedOK(m) BY DEF ModulesOK
    <3>2. p0 \in ToSet(Statics[m]) => active = m /\ m \notin Broken
      <4>1. p0 \in ToSet(Statics[m]) => active = m /\ module[m] = "loading" BY <1>1, LoadsIt DEF e
      <4> QED BY <3>1, <4>1 DEF LoadedOK
    <3>3. active = m /\ m \notin Broken => p0 \in ToSet(Statics[m]) /\ module[m] = "loading" BY <1>1, LoadsOwn DEF e
    <3>4. m \notin Broken => IsInjective(association[m])' /\ (ToSet(association[m]) = {p \in Paths : plugin[p] = m})'
      <4> SUFFICES ASSUME m \notin Broken
                   PROVE  IsInjective(association'[m]) /\ ToSet(association'[m]) = {p \in Paths : plugin'[p] = m}
        BY DEF IsInjective, ToSet
      <4>1. CASE active = m
        <5>1. association[m] \in Seq(Paths) BY DEF ShapesOK
        <5>2. IsInjective(association[m]) /\ ToSet(association[m]) = {p \in Paths : plugin[p] = m} BY <3>1 DEF OwnersOK
        <5>3. p0 \notin ToSet(association[m]) BY <5>2, RegistryAssumption DEF e
        <5>4. association'[m] = Append(association[m], p0) BY <1>13, <4>1
        <5>5. IsInjective(association'[m]) /\ ToSet(association'[m]) = ToSet(association[m]) \union {p0}
          <6> DEFINE s == association[m]
          <6>1. s \in Seq(Paths) /\ IsInjective(s) /\ p0 \notin ToSet(s) BY <5>1, <5>2, <5>3
          <6> HIDE DEF s
          <6>2. IsInjective(Append(s, p0)) /\ ToSet(Append(s, p0)) = ToSet(s) \union {p0} BY <1>3, <6>1, OneMore
          <6> QED BY <5>4, <6>2 DEF s
        <5> QED BY <1>3, <1>11, <4>1, <5>2, <5>5
      <4>2. CASE active # m
        <5>1. {p \in Paths : plugin'[p] = m} = {p \in Paths : plugin[p] = m} BY <1>11, <4>2, RegistryAssumption DEF e
        <5> QED BY <1>13, <3>1, <4>2, <5>1 DEF OwnersOK
      <4> QED BY <4>1, <4>2
    <3>5. active = m /\ m \notin Broken => \E u \in Threads : Job("loaded", <<m>>) \in JobsOf(u)'
      BY <1>21, <3>1 DEF OwnersOK
    <3>6. OwnersOK(m)'
      <4>1. \A p \in ToSet(Statics[m]) : plugin'[p] \in {NoPlugin} \union ({m} \ Broken)
        <5>1. ToSet(Statics[m]) \subseteq Paths BY RegistryAssumption DEF ToSet
        <5> QED BY <1>11, <3>1, <3>2, <5>1 DEF OwnersOK
      <4>2. m \notin Broken => \A p \in Paths : plugin'[p] = m => p \in ToSet(Statics[m])
        BY <1>11, <3>1, <3>3 DEF OwnersOK
      <4>3. module[m] = "out" /\ m \notin Broken => \A p \in Paths : plugin'[p] # m
        BY <1>11, <3>1, <3>3 DEF OwnersOK
      <4> QED BY <1>14, <1>22, <3>4, <3>5, <4>1, <4>2, <4>3 DEF OwnersOK
    <3>7. LoadedOK(m)'
      <4>1. module[m] = "loaded" => {p \in Paths : plugin'[p] = m} \subseteq ToSet(pluginPaths[m])
        BY <1>11, <3>1, <3>3 DEF LoadedOK
      <4>2. \A u \in Threads : Job("unload", <<m>>) \notin JobsOf(u)
        <5> SUFFICES ASSUME NEW u \in Threads, Job("unload", <<m>>) \in JobsOf(u) PROVE FALSE OBVIOUS
        <5>1. Alone(u) BY DEF TurnsOK, Busy
        <5>2. u = t BY <1>1, <5>1 DEF Alone, Does
        <5>3. Grows(e) /\ ~ Grows(Job("unload", <<m>>)) BY <1>2, JobFields DEF Grows
        <5> QED BY <1>2, <5>2, <5>3 DEF TurnsOK
      <4>3. IsInjective(pluginPaths[m])' BY <1>14, <3>1 DEF LoadedOK, IsInjective
      <4> QED BY <1>14, <1>21, <1>22, <3>1, <4>1, <4>2, <4>3 DEF LoadedOK
    <3> QED BY <3>6, <3>7
  <2> QED BY <2>1 DEF ModulesOK
<1>24. \A h, p : ~ Tells(e, h, p) /\ ~ Untells(e, h, p) BY <1>2, TellKinds
<1>25. HandlersOK'
  <2>1. ASSUME NEW h \in Handlers, NEW p \in Below(h), Registered(h)', Registered(p)' PROVE Told(h, p)'
    <3>0. h \in Paths /\ p \in Paths /\ p # h /\ IsPrefix(h, p) BY RegistryAssumption DEF Below
    <3>1. \A j : Tells(j, h, p)' <=> Tells(j, h, p) BY DEF Tells, EventJob, CallJob, WalkJob
    <3>2. CASE p = p0
      <4>1. Tells(event, h, p) BY <3>2 DEF Tells, event
      <4>2. event \in JobsOf(t)' BY <1>8, <1>18
      <4> QED BY <3>1, <4>1, <4>2 DEF Told
    <3>3. CASE h = p0
      <4>1. Tells(walk, h, p) BY <3>0, <3>3, JobFields DEF Tells, IsStrictPrefix, walk
      <4>2. walk \in JobsOf(t)' BY <1>8, <1>18, <3>3
      <4> QED BY <3>1, <4>1, <4>2 DEF Told
    <3>4. CASE p # p0 /\ h # p0
      <4>1. Told(h, p) BY <1>12, <2>1, <3>0, <3>4 DEF HandlersOK
      <4> QED BY <1>1, <1>10, <1>24, <4>1, MiddleTold DEF e
    <3> QED BY <3>2, <3>3, <3>4
  <2> QED BY <2>1, HandlersPrimed
<1>26. TablesOK'
  <2>1. ASSUME NEW h \in Handlers \intersect Core, NEW k \in AllKeys, NEW p \in Paths, table'[h][k] = p
        PROVE  EntryOK(h, k, p)'
    <3>1. EntryOK(h, k, p) BY <1>1, <2>1 DEF TablesOK
    <3>2. Registered(h)' /\ (Registered(p) => Registered(p)') BY <1>12, <3>1, RegistryAssumption DEF EntryOK
    <3> QED BY <1>10, <1>24, <3>1, <3>2, MiddleUntold DEF e
  <2> QED BY <2>1, TablesPrimed
<1> QED BY <1>15, <1>16, <1>20, <1>23, <1>25, <1>26

\* PluginRegistry::add.
LEMMA AddPluginKeeps ==
  ASSUME RegistryInv, Separate, NEW t \in Threads, AddPlugin(t)
  PROVE  RegistryInv'
<1> DEFINE p0 == Head(todo[t]).path
<1>1. CASE plugin[p0] # NoPlugin BY <1>1, AddTaken
<1>2. CASE plugin[p0] = NoPlugin
  <2>1. \A p : p = p0 /\ plugin[p] = NoPlugin => RegistryInv' BY AddFree
  <2> QED BY <1>2, <2>1
<1> QED BY <1>1, <1>2

\* Finitely many threads destroy a copy (there are finitely many threads).
LEMMA DroppersFinite ==
  ASSUME NEW m
  PROVE  IsFiniteSet(Droppers(m)) /\ Cardinality(Droppers(m)) \in Nat
<1>1. Droppers(m) \subseteq Threads BY DEF Droppers
<1> QED BY <1>1, RegistryAssumption, FS_Subset, FS_CardinalityType

\* A plugin of a module is found to be the module's.
LEMMA OwnerIs ==
  ASSUME ShapesOK, ModulesOK, CopiesOK, NEW p \in Paths
  PROVE  /\ Owner(p) \in {plugin[p], NoModule} /\ Owner(p) \in Modules \union {NoModule}
         /\ plugin[p] \in Modules \ Broken => Owner(p) = plugin[p]
<1>1. Owner(p) \in {plugin[p], NoModule} /\ Owner(p) \in Modules \union {NoModule} BY DEF Owner
<1>2. ASSUME plugin[p] \in Modules \ Broken PROVE Owner(p) = plugin[p]
  <2> DEFINE m == plugin[p]
  <2>1. m \in Modules /\ module[m] # "out" /\ module[m] \in {"out", "loading", "loaded"} /\ copies[m] \in Nat
    <3>1. OwnersOK(m) /\ m \in Modules /\ m \notin Broken BY <1>2 DEF ModulesOK
    <3>2. module[m] # "out" BY <3>1 DEF OwnersOK
    <3>3. module[m] \in {"out", "loading", "loaded"} /\ copies[m] \in 0..MaxCopies BY <3>1 DEF ShapesOK
    <3> QED BY <3>1, <3>2, <3>3
  <2>2. CASE module[m] = "loading"
    <3>1. LoadedOK(m) BY <2>1 DEF ModulesOK
    <3>2. active = plugin[p] BY <2>2, <3>1 DEF LoadedOK
    <3> QED BY <2>1, <3>2 DEF Owner
  <2>3. CASE module[m] = "loaded"
    <3>1. Cardinality(Droppers(m)) < copies[m] \/ copies[m] = 1 BY <2>1, <2>3 DEF CopiesOK, CopyOK
    <3>2. Cardinality(Droppers(m)) \in Nat BY DroppersFinite
    <3>3. copies[m] > 0 BY <2>1, <3>1, <3>2
    <3> QED BY <2>1, <3>3 DEF Owner
  <2> QED BY <2>1, <2>2, <2>3
<1> QED BY <1>1, <1>2

\* PluginRegistry::remove, of a path that is there.
LEMMA RemoveOne ==
  ASSUME RegistryInv, Separate, NEW t \in Threads, RemovePlugin(t), NEW p0, Head(todo[t]).path = p0
  PROVE  RegistryInv'
<1> DEFINE e == Head(todo[t])
           event == EventJob("remove", p0)
           more == <<event>>
           owner == Owner(p0)
           left == Filter(association[owner], ToSet(association[owner]) \ {p0})
<1> USE DEF RegistryInv
<1>1. /\ Does(t, "remove") /\ Continue(t, more) /\ plugin[p0] # NoPlugin
      /\ plugin' = [plugin EXCEPT ![p0] = NoPlugin]
      /\ association' = [association EXCEPT ![owner] = left]
      /\ UNCHANGED <<ordered, table, modules, started, ops>>
  BY DEF RemovePlugin, RemoveEvents
<1>2. e \in JobsOf(t) /\ e.do = "remove" /\ e \in AllJobs /\ e.path = p0 BY <1>1, JobsIn
<1>3. p0 \in Paths /\ Mine(t, p0) /\ ~ Grows(e) BY <1>2, JobKinds DEF PathsOK, PathOK, Grows
<1>4. p0 \notin Core /\ started BY <1>2, <1>3, CoreStays
<1>5. more \in Seq(AllJobs) /\ ToSet(more) = {event}
  <2>1. event \in AllJobs BY <1>3, JobsAre
  <2> HIDE DEF event
  <2> QED BY <2>1, OneJob
<1>6. event.do = "event" /\ event.path = p0 /\ event.event = "remove" BY JobFields
<1> HIDE DEF event, more, left, owner
<1>7. Middle(t, "remove", more)
  <2>1. ~ Grows(event) /\ event.do \notin Ends BY <1>6 DEF Grows, Ends
  <2> QED BY <1>1, <1>3, <1>5, <2>1 DEF Middle, Ends
<1> HIDE DEF e
<1>8. plugin' \in [Paths -> Modules \union {NoModule, NoPlugin}] /\ \A p \in Paths : plugin'[p] = IF p = p0 THEN NoPlugin ELSE plugin[p]
  BY <1>1, <1>3 DEF ShapesOK
<1>9. \A p \in Paths : Registered(p)' <=> Registered(p) /\ p # p0 BY <1>8 DEF Registered
<1>10. owner \in {plugin[p0], NoModule} /\ owner \in Modules \union {NoModule}
       /\ (plugin[p0] \in Modules \ Broken => owner = plugin[p0])
  BY <1>3, OwnerIs DEF owner
<1>11. left \in Seq(Paths) /\ ToSet(left) = ToSet(association[owner]) \ {p0}
       /\ (IsInjective(association[owner]) => IsInjective(left))
  <2> DEFINE s == association[owner]
  <2>1. s \in Seq(Paths) BY <1>10 DEF ShapesOK
  <2> DEFINE S == ToSet(s) \ {p0}
  <2>2. ToSet(s) \intersect S = S OBVIOUS
  <2> HIDE DEF S
  <2>3. Filter(s, S) \in Seq(Paths) /\ ToSet(Filter(s, S)) = S /\ (IsInjective(s) => IsInjective(Filter(s, S)))
    BY <2>1, <2>2, FilterKeeps
  <2>4. left = Filter(s, S) BY DEF left, s, S
  <2> QED BY <2>3, <2>4 DEF s, S
<1>12. /\ association' \in [Modules \union {NoModule} -> Seq(Paths)] /\ association'[owner] = left
       /\ \A m \in Modules \union {NoModule} : m # owner => association'[m] = association[m]
  BY <1>1, <1>10, <1>11 DEF ShapesOK
<1>13. UNCHANGED <<active, moduleMutex, module, copies, pluginPaths>> BY <1>1 DEF modules
<1>14. ShapesOK'
  <2>1. todo' \in [Threads -> Seq(AllJobs)] BY <1>7, Continued DEF Middle
  <2>2. \A p \in Paths : Registered(p)' => (ToSet(NodesOf(p)) \subseteq ToSet(ordered))'
    BY <1>1, <1>9 DEF ShapesOK
  <2>3. IsInjective(ordered)' BY <1>1 DEF ShapesOK, IsInjective
  <2> QED BY <1>1, <1>8, <1>12, <1>13, <2>1, <2>2, <2>3 DEF ShapesOK
<1>15. TurnsOK' /\ CopiesOK' BY <1>1, <1>7, MiddleTurns, MiddleCopies
<1>16. \A u \in Threads : (\A p : Mine(u, p)' <=> Mine(u, p)) /\ \A m : Busy(u, m)' <=> Busy(u, m) BY <1>7, MiddleBusy
<1>17. /\ JobsOf(t)' = {event} \union ToSet(Tail(todo[t]))
       /\ JobsOf(t) = {e} \union ToSet(Tail(todo[t]))
       /\ \A u \in Threads \ {t} : JobsOf(u)' = JobsOf(u)
  BY <1>5, <1>7, Continued DEF Middle, e
<1>18. PathsOK'
  <2>1. ASSUME NEW u \in Threads, NEW j \in JobsOf(u) PROVE PathOK(u, j)'
    <3>1. PathOK(u, j) /\ j \in AllJobs BY <2>1, JobsIn DEF PathsOK
    <3>2. Grows(j) /\ Mine(u, j.path) => j.path # p0
      <4> SUFFICES ASSUME Grows(j), Mine(u, j.path), j.path = p0 PROVE FALSE OBVIOUS
      <4>1. u = t BY <1>3, MineOne
      <4> QED BY <1>2, <1>3, <4>1 DEF TurnsOK
    <3>3. /\ j.do \in {"event", "call"} => j.path \in Paths
          /\ j.do \in {"list", "get", "call"} => j.handler \in Paths
      BY <3>1, JobKinds, RegistryAssumption
    <3>4. j.do = "event" /\ j.event = "add" => Registered(j.path)' BY <1>9, <3>1, <3>2, <3>3 DEF PathOK, Grows
    <3>5. j.do = "call" /\ j.event = "add" =>
            \/ Mine(u, j.path) /\ Registered(j.path)'
            \/ Mine(u, j.handler) /\ j.handler \notin Core
      <4> SUFFICES ASSUME j.do = "call", j.event = "add"
                   PROVE  \/ Mine(u, j.path) /\ Registered(j.path)'
                          \/ Mine(u, j.handler) /\ j.handler \notin Core
        OBVIOUS
      <4>1. Grows(j) BY DEF Grows
      <4>2. Mine(u, j.handler) => j.handler \notin Core BY <1>4, <2>1, CoreStays
      <4> QED BY <1>9, <3>1, <3>2, <3>3, <4>1, <4>2 DEF PathOK
    <3> QED BY <1>1, <1>4, <1>9, <1>16, <3>1, <3>3, <3>4, <3>5 DEF PathOK
  <2>2. PathOK(t, event)' BY <1>3, <1>6, <1>9, <1>16 DEF PathOK
  <2>3. \A u \in Threads : \A j \in JobsOf(u)' : j \in JobsOf(u) \/ (u = t /\ j = event) BY <1>17
  <2> QED BY <2>1, <2>2, <2>3 DEF PathsOK
<1>19. ASSUME NEW m \in Modules, NEW u \in Threads
       PROVE  /\ Job("loaded", <<m>>) \in JobsOf(u)' <=> Job("loaded", <<m>>) \in JobsOf(u)
              /\ Job("unload", <<m>>) \in JobsOf(u)' <=> Job("unload", <<m>>) \in JobsOf(u)
  <2>1. Job("loaded", <<m>>).do \in Ends /\ Job("unload", <<m>>).do \in Ends BY JobFields DEF Ends
  <2> QED BY <1>7, <2>1, EndsStay
<1>20. \A do2, p : Job(do2, p)' = Job(do2, p) BY DEF Job
<1>21. ModulesOK'
  <2>1. ASSUME NEW m \in Modules PROVE OwnersOK(m)' /\ LoadedOK(m)'
    <3>1. OwnersOK(m) /\ LoadedOK(m) BY DEF ModulesOK
    <3>2. m # NoModule /\ m # NoPlugin BY RegistryAssumption
    <3>3. \A p \in Paths : plugin'[p] = m <=> plugin[p] = m /\ p # p0 BY <1>8, <3>2
    <3>4. m \notin Broken => IsInjective(association[m])' /\ (ToSet(association[m]) = {p \in Paths : plugin[p] = m})'
      <4> SUFFICES ASSUME m \notin Broken
                   PROVE  IsInjective(association'[m]) /\ ToSet(association'[m]) = {p \in Paths : plugin'[p] = m}
        BY DEF IsInjective, ToSet
      <4>1. IsInjective(association[m]) /\ ToSet(association[m]) = {p \in Paths : plugin[p] = m} BY <3>1 DEF OwnersOK
      <4>2. {p \in Paths : plugin'[p] = m} = {p \in Paths : plugin[p] = m} \ {p0} BY <3>3
      <4>3. CASE plugin[p0] = m
        <5>1. owner = m BY <1>10, <4>3
        <5>2. association'[m] = left BY <1>12, <5>1
        <5> QED BY <1>11, <4>1, <4>2, <5>1, <5>2
      <4>4. CASE plugin[p0] # m
        <5>1. owner # m BY <1>10, <3>2, <4>4
        <5>2. association'[m] = association[m] BY <1>12, <5>1
        <5> QED BY <4>1, <4>2, <4>4, <5>2
      <4> QED BY <4>3, <4>4
    <3>5. active = m /\ m \notin Broken => \E u \in Threads : Job("loaded", <<m>>) \in JobsOf(u)'
      BY <1>19, <3>1 DEF OwnersOK
    <3>6. OwnersOK(m)'
      <4>1. \A p \in ToSet(Statics[m]) : plugin'[p] \in {NoPlugin} \union ({m} \ Broken)
        <5>1. ToSet(Statics[m]) \subseteq Paths BY RegistryAssumption DEF ToSet
        <5> QED BY <1>8, <3>1, <5>1 DEF OwnersOK
      <4> QED BY <1>13, <1>20, <3>1, <3>3, <3>4, <3>5, <4>1 DEF OwnersOK
    <3>7. LoadedOK(m)'
      <4>1. ASSUME NEW u \in Threads, Job("unload", <<m>>) \in JobsOf(u), NEW p \in Paths, plugin[p] = m, p # p0
            PROVE  Job("remove", p) \in JobsOf(u)'
        <5>1. Job("remove", p) \in JobsOf(u) BY <3>1, <4>1 DEF LoadedOK
        <5>2. Job("remove", p) # e BY <1>2, <4>1, JobFields
        <5> QED BY <1>17, <5>1, <5>2
      <4>2. IsInjective(pluginPaths[m])' BY <1>13, <3>1 DEF LoadedOK, IsInjective
      <4> QED BY <1>13, <1>19, <1>20, <3>1, <3>3, <4>1, <4>2 DEF LoadedOK
    <3> QED BY <3>6, <3>7
  <2> QED BY <2>1 DEF ModulesOK
<1>22. \A h, p : ~ Tells(e, h, p) /\ ~ Untells(e, h, p) BY <1>2, TellKinds
<1>23. HandlersOK'
  <2>1. ASSUME NEW h \in Handlers, NEW p \in Below(h), Registered(h)', Registered(p)' PROVE Told(h, p)'
    <3>1. h \in Paths /\ p \in Paths BY RegistryAssumption DEF Below
    <3>2. Told(h, p) BY <1>9, <2>1, <3>1 DEF HandlersOK
    <3> QED BY <1>1, <1>7, <1>22, <3>2, MiddleTold DEF e
  <2> QED BY <2>1, HandlersPrimed
<1>24. TablesOK'
  <2>1. ASSUME NEW h \in Handlers \intersect Core, NEW k \in AllKeys, NEW p \in Paths, table'[h][k] = p
        PROVE  EntryOK(h, k, p)'
    <3>1. EntryOK(h, k, p) BY <1>1, <2>1 DEF TablesOK
    <3>2. Registered(h)' BY <1>4, <1>9, <3>1, RegistryAssumption DEF EntryOK
    <3>3. Registered(p) => Registered(p)' \/ \E j \in ToSet(more) : Untells(j, h, p)
      BY <1>5, <1>9 DEF Untells, event
    <3> QED BY <1>7, <1>22, <3>1, <3>2, <3>3, MiddleUntold DEF e
  <2> QED BY <2>1, TablesPrimed
<1> QED BY <1>14, <1>15, <1>18, <1>21, <1>23, <1>24

\* PluginRegistry::remove.
LEMMA RemovePluginKeeps ==
  ASSUME RegistryInv, Separate, NEW t \in Threads, RemovePlugin(t)
  PROVE  RegistryInv'
<1>1. \A p : p = Head(todo[t]).path => RegistryInv' BY RemoveOne
<1> QED BY <1>1

-----------------------------------------------------------------------------
(* A step at the beginning or the end of what a thread does.               *)

Turn(t, more) ==
  /\ more \in Seq(AllJobs) /\ todo' = [todo EXCEPT ![t] = more] /\ UNCHANGED registry /\ started' = TRUE
  /\ \A j \in JobsOf(t) : j.do \in Ends
  /\ started \/ \A u \in Threads \ {t} : JobsOf(u) = {}
  /\ \A u \in Threads \ {t} : \A m \in Modules : ~ Busy(u, m)

\* A thread that begins an operation had nothing to do, and nobody loads or unloads.
LEMMA BeginTurns ==
  ASSUME RegistryInv, Separate, NEW t \in Threads, NEW more \in Seq(AllJobs), Begin(t, more)
  PROVE  /\ Turn(t, more) /\ todo[t] = <<>> /\ JobsOf(t) = {} /\ started /\ ops' \in 0..MaxOps /\ UNCHANGED registry
         /\ \A u \in Threads : \A j \in JobsOf(u) : j.do \notin {"loaded", "drop", "unload"}
<1> USE DEF RegistryInv
<1>1. started = TRUE /\ started' = TRUE /\ todo[t] = <<>> BY DEF Begin, ShapesOK
<1>2. JobsOf(t) = {} BY <1>1, JobsIn
<1>3. ops' \in 0..MaxOps
  <2>1. ops \in 0..MaxOps /\ ops < MaxOps /\ ops' = ops + 1 /\ MaxOps \in Nat BY RegistryAssumption DEF Begin, ShapesOK
  <2> QED BY <2>1
<1>4. ~ Reloading BY DEF Begin, Separate
<1>5. \A u \in Threads : \A j \in JobsOf(u) : j.do \notin {"loaded", "drop", "unload"} BY <1>4 DEF Reloading, JobsOf
<1>6. \A u \in Threads : \A m \in Modules : ~ Busy(u, m) BY <1>5, JobFields DEF Busy
<1> QED BY <1>1, <1>2, <1>3, <1>5, <1>6 DEF Turn, Begin

\* A thread that comes to its last job has no other, and nobody else loads or unloads.
LEMMA EndTurns ==
  ASSUME RegistryInv, NEW t \in Threads, NEW do \in Ends, Does(t, do), NEW more \in Seq(AllJobs), Continue(t, more),
         UNCHANGED registry, IF do = "started" THEN started' = TRUE ELSE UNCHANGED started
  PROVE  /\ Turn(t, more) /\ todo[t] # <<>> /\ JobsOf(t) = {Head(todo[t])}
         /\ Head(todo[t]) \in AllJobs /\ Head(todo[t]).do = do
         /\ \A u \in Threads \ {t} : ~ Alone(u)
<1> DEFINE s == todo[t]
           r == Tail(s)
           e == Head(s)
<1> USE DEF RegistryInv
<1>1. /\ JobsOf(t) = {e} \union ToSet(r) /\ e = s[1] /\ e \in AllJobs /\ e.do = do /\ s # <<>> BY Continued
<1>2. s \in Seq(AllJobs) BY DEF ShapesOK
<1>3. 1 \in DOMAIN s BY <1>1, <1>2
<1>4. Len(s) = 1
  <2>1. \A i \in DOMAIN s : s[i].do \in Ends => i = Len(s) BY DEF TurnsOK
  <2>2. s[1].do = do BY <1>1
  <2> QED BY <1>3, <2>1, <2>2
<1>5. r = <<>>
  <2>1. r \in Seq(AllJobs) /\ Len(r) = Len(s) - 1 BY <1>1, <1>2, HeadTailProperties
  <2>2. r \in Seq(AllJobs) /\ Len(r) = 0 BY <1>4, <2>1
  <2> HIDE DEF r
  <2> QED BY <2>2
<1>6. ToSet(r) = {} BY <1>5, NoJobs
<1>7. todo' = [todo EXCEPT ![t] = more]
  <2>1. more \o r = more BY <1>5, ConcatEmptySeq
  <2> QED BY <2>1 DEF Continue
<1>8. \A u \in Threads \ {t} : ~ Alone(u) BY <1>1 DEF Alone
<1>9. \A u \in Threads \ {t} : \A m \in Modules : ~ Busy(u, m) BY <1>8 DEF TurnsOK
<1>10. ~ started => do = "started" /\ \A u \in Threads \ {t} : JobsOf(u) = {}
  <2> SUFFICES ASSUME ~ started PROVE do = "started" /\ \A u \in Threads \ {t} : JobsOf(u) = {} OBVIOUS
  <2>1. Alone(Main) /\ Main \in Threads /\ Job("started", <<>>) \in JobsOf(Main) BY RegistryAssumption DEF TurnsOK
  <2>2. t = Main BY <1>8, <2>1
  <2>3. e = Job("started", <<>>) BY <1>1, <1>6, <2>1, <2>2
  <2>4. \A u \in Threads \ {t} : todo[u] = <<>> BY <2>1, <2>2 DEF Alone
  <2> QED BY <1>1, <2>3, <2>4, JobFields, JobsIn
<1>11. started' = TRUE BY <1>10 DEF ShapesOK
<1>12. \A j \in JobsOf(t) : j.do \in Ends BY <1>1, <1>6
<1> QED BY <1>1, <1>6, <1>7, <1>8, <1>9, <1>10, <1>11, <1>12 DEF Turn

\* The thread has the new jobs, and the others what they had.
LEMMA TurnJobs ==
  ASSUME ShapesOK, NEW t \in Threads, NEW more, Turn(t, more)
  PROVE  /\ todo' \in [Threads -> Seq(AllJobs)] /\ todo'[t] = more /\ JobsOf(t)' = ToSet(more)
         /\ \A u \in Threads \ {t} : todo'[u] = todo[u] /\ JobsOf(u)' = JobsOf(u)
         /\ ToSet(more) \subseteq AllJobs
<1>1. /\ todo' \in [Threads -> Seq(AllJobs)] /\ todo'[t] = more /\ \A u \in Threads \ {t} : todo'[u] = todo[u]
  BY DEF Turn, ShapesOK
<1>2. ToSet(more) \subseteq AllJobs BY DEF Turn, ToSet
<1>3. JobsOf(t)' = ToSet(more) BY <1>1 DEF JobsOf, ToSet
<1> QED BY <1>1, <1>2, <1>3 DEF JobsOf

\* The tables stay accounted for: the step is about no event.
LEMMA TurnKeeps ==
  ASSUME RegistryInv, NEW t \in Threads, NEW more, Turn(t, more)
  PROVE  HandlersOK' /\ TablesOK'
<1> USE DEF RegistryInv
<1>1. UNCHANGED <<plugin, table>> BY DEF Turn, registry
<1>2. ASSUME NEW u \in Threads, NEW j \in JobsOf(u), j.do \in {"event", "call", "get", "list"}
      PROVE  j \in JobsOf(u)'
  <2>1. u # t BY <1>2 DEF Turn, Ends
  <2> QED BY <2>1, TurnJobs
<1>3. \A p : Registered(p)' <=> Registered(p) BY <1>1 DEF Registered
<1>4. HandlersOK'
  <2>1. ASSUME NEW h \in Handlers, NEW p \in Below(h), Registered(h)', Registered(p)' PROVE Told(h, p)'
    <3>1. Told(h, p) BY <1>3, <2>1 DEF HandlersOK
    <3>2. \A j : Tells(j, h, p)' <=> Tells(j, h, p) BY DEF Tells, EventJob, CallJob, WalkJob
    <3> QED BY <1>1, <1>2, <3>1, <3>2, TellKinds DEF Told
  <2> QED BY <2>1, HandlersPrimed
<1>5. TablesOK'
  <2>1. ASSUME NEW h \in Handlers \intersect Core, NEW k \in AllKeys, NEW p \in Paths, table'[h][k] = p
        PROVE  EntryOK(h, k, p)'
    <3>1. EntryOK(h, k, p) BY <1>1, <2>1 DEF TablesOK
    <3>2. \A j : Untells(j, h, p)' <=> Untells(j, h, p) BY DEF Untells, EventJob, CallJob
    <3>3. Below(h)' = Below(h) BY DEF Below
    <3> QED BY <1>2, <1>3, <3>1, <3>2, <3>3, TellKinds DEF EntryOK
  <2> QED BY <2>1, TablesPrimed
<1> QED BY <1>4, <1>5

\* The order of what a thread does is kept.
LEMMA TurnTurns ==
  ASSUME RegistryInv, NEW t \in Threads, NEW more, Turn(t, more),
         \A i \in DOMAIN more : more[i].do \in Ends => i = Len(more),
         \A j, k \in ToSet(more) : Grows(j) <=> Grows(k),
         \A m \in Modules : Busy(t, m)' => Alone(t)
  PROVE  TurnsOK'
<1> USE DEF RegistryInv
<1>1. /\ todo'[t] = more /\ JobsOf(t)' = ToSet(more)
      /\ \A u \in Threads \ {t} : todo'[u] = todo[u] /\ JobsOf(u)' = JobsOf(u)
  BY TurnJobs
<1>2. \A j : Grows(j)' <=> Grows(j) BY DEF Grows
<1>3. ASSUME NEW u \in Threads
      PROVE  /\ (\A i \in DOMAIN todo[u] : todo[u][i].do \in Ends => i = Len(todo[u]))'
             /\ (\A j, k \in JobsOf(u) : Grows(j) <=> Grows(k))'
  <2>1. CASE u # t BY <1>1, <1>2, <2>1 DEF TurnsOK
  <2>2. CASE u = t BY <1>1, <1>2, <2>2
  <2> QED BY <2>1, <2>2
<1>4. ASSUME NEW u \in Threads, NEW m \in Modules, Busy(u, m)' PROVE Alone(u)'
  <2>1. u = t
    <3> SUFFICES ASSUME u # t PROVE FALSE OBVIOUS
    <3>1. Busy(u, m) BY <1>1, <1>4 DEF Busy, Job
    <3> QED BY <3>1 DEF Turn
  <2>2. Alone(t) BY <1>4, <2>1
  <2> QED BY <1>1, <2>1, <2>2 DEF Alone
<1>5. started' = TRUE BY DEF Turn
<1> QED BY <1>3, <1>4, <1>5 DEF TurnsOK

\* The paths of the jobs are right, if those of the new jobs are.
LEMMA TurnPaths ==
  ASSUME RegistryInv, NEW t \in Threads, NEW more, Turn(t, more), \A j \in ToSet(more) : PathOK(t, j)'
  PROVE  PathsOK'
<1> USE DEF RegistryInv
<1>1. JobsOf(t)' = ToSet(more) /\ \A u \in Threads \ {t} : JobsOf(u)' = JobsOf(u) BY TurnJobs
<1>2. ASSUME NEW u \in Threads \ {t}, NEW j \in JobsOf(u) PROVE PathOK(u, j)'
  <2>1. PathOK(u, j) BY DEF PathsOK
  <2>2. started = TRUE /\ started' = TRUE BY <1>2 DEF Turn, ShapesOK
  <2>3. \A m : Busy(u, m)' <=> Busy(u, m) BY <1>1 DEF Busy, Job
  <2>4. \A p : Mine(u, p)' <=> Mine(u, p) BY <2>2, <2>3 DEF Mine
  <2>5. \A p : Registered(p)' <=> Registered(p) BY DEF Registered, Turn, registry
  <2> QED BY <2>1, <2>2, <2>3, <2>4, <2>5 DEF PathOK
<1> QED BY <1>1, <1>2 DEF PathsOK

\* Nobody else loads or unloads.
LEMMA TurnBusy ==
  ASSUME RegistryInv, NEW t \in Threads, NEW more, Turn(t, more), NEW u \in Threads, NEW m \in Modules
  PROVE  /\ u # t => Job("loaded", <<m>>) \notin JobsOf(u)' /\ Job("unload", <<m>>) \notin JobsOf(u)'
         /\ u # t => Job("loaded", <<m>>) \notin JobsOf(u) /\ Job("unload", <<m>>) \notin JobsOf(u)
         /\ JobsOf(t)' = ToSet(more)
<1>1. JobsOf(t)' = ToSet(more) /\ (u # t => JobsOf(u)' = JobsOf(u)) BY TurnJobs DEF RegistryInv
<1> QED BY <1>1 DEF Turn, Busy

\* Who destroys a copy, after the step.
LEMMA TurnDroppers ==
  ASSUME RegistryInv, NEW t \in Threads, NEW more, Turn(t, more), NEW m \in Modules
  PROVE  /\ \A u \in Threads \ {t} : u \in Droppers(m)' <=> u \in Droppers(m)
         /\ t \in Droppers(m)' <=> \E j \in ToSet(more) : j.do \in {"drop", "decrement", "unload"} /\ j.path = <<m>>
         /\ Droppers(m)' \subseteq Threads
<1>1. JobsOf(t)' = ToSet(more) /\ \A u \in Threads \ {t} : JobsOf(u)' = JobsOf(u) BY TurnJobs DEF RegistryInv
<1> QED BY <1>1 DEF Droppers

\* A step that neither begins nor ends the loading or the unloading of a module
LEMMA TurnModules ==
  ASSUME RegistryInv, NEW t \in Threads, NEW more, Turn(t, more), UNCHANGED <<active, module, pluginPaths>>,
         \A m \in Modules : Job("loaded", <<m>>) \notin JobsOf(t) /\ Job("loaded", <<m>>) \notin ToSet(more)
                              /\ Job("unload", <<m>>) \notin ToSet(more)
  PROVE  ModulesOK'
<1>1. UNCHANGED <<plugin, association>> BY DEF Turn, registry
<1>2. \A do2, p : Job(do2, p)' = Job(do2, p) BY DEF Job
<1>3. \A u \in Threads : \A m \in Modules :
        /\ Job("loaded", <<m>>) \notin JobsOf(u) /\ Job("loaded", <<m>>) \notin JobsOf(u)'
        /\ Job("unload", <<m>>) \notin JobsOf(u)'
  <2> SUFFICES ASSUME NEW u \in Threads, NEW m \in Modules
               PROVE  /\ Job("loaded", <<m>>) \notin JobsOf(u) /\ Job("loaded", <<m>>) \notin JobsOf(u)'
                      /\ Job("unload", <<m>>) \notin JobsOf(u)'
    OBVIOUS
  <2>1. CASE u # t BY <2>1, TurnBusy
  <2>2. CASE u = t
    <3>1. JobsOf(t)' = ToSet(more) BY TurnBusy
    <3> QED BY <2>2, <3>1
  <2> QED BY <2>1, <2>2
<1>4. ASSUME NEW m \in Modules PROVE OwnersOK(m)' /\ LoadedOK(m)'
  <2>1. OwnersOK(m) /\ LoadedOK(m) BY DEF RegistryInv, ModulesOK
  <2>2. OwnersOK(m)' BY <1>1, <1>2, <1>3, <2>1 DEF OwnersOK
  <2>3. LoadedOK(m)' BY <1>1, <1>2, <1>3, <2>1 DEF LoadedOK
  <2> QED BY <2>2, <2>3
<1> QED BY <1>4 DEF ModulesOK

\* A module that the step is not about
LEMMA TurnCopies ==
  ASSUME RegistryInv, NEW t \in Threads, NEW more, Turn(t, more), NEW m \in Modules,
         copies'[m] = copies[m], module'[m] = module[m], Droppers(m)' = Droppers(m),
         \A u \in Threads : Alone(u) => /\ Job("drop", <<m>>) \notin JobsOf(u) /\ Job("unload", <<m>>) \notin JobsOf(u),
         Job("unload", <<m>>) \notin ToSet(more)
  PROVE  CopyOK(m)'
<1>1. CopyOK(m) BY DEF RegistryInv, CopiesOK
<1>2. \A u \in Threads : Job("unload", <<m>>) \notin JobsOf(u)'
  <2> SUFFICES ASSUME NEW u \in Threads PROVE Job("unload", <<m>>) \notin JobsOf(u)' OBVIOUS
  <2>1. CASE u # t BY <2>1, TurnBusy
  <2>2. CASE u = t
    <3>1. JobsOf(t)' = ToSet(more) BY TurnBusy
    <3> QED BY <2>2, <3>1
  <2> QED BY <2>1, <2>2
<1>3. Job("unload", <<m>>)' = Job("unload", <<m>>) BY DEF Job
<1>4. module[m] = "loaded" => Cardinality(Droppers(m)) < copies[m] BY <1>1 DEF CopyOK
<1> QED BY <1>1, <1>2, <1>3, <1>4 DEF CopyOK

\* A job is about one module.
LEMMA ModuleJobs ==
  /\ \A d1, d2, p1, p2 : Job(d1, p1) = Job(d2, p2) => d1 = d2 /\ p1 = p2
  /\ \A m, n : <<m>> = <<n>> => m = n
  /\ \A m : <<m>>[1] = m
<1>1. \A d1, d2, p1, p2 : Job(d1, p1) = Job(d2, p2) => d1 = d2 /\ p1 = p2
  <2> SUFFICES ASSUME NEW d1, NEW d2, NEW p1, NEW p2, Job(d1, p1) = Job(d2, p2) PROVE d1 = d2 /\ p1 = p2 OBVIOUS
  <2>1. Job(d1, p1).do = d1 /\ Job(d2, p2).do = d2 /\ Job(d1, p1).path = p1 /\ Job(d2, p2).path = p2 BY JobFields
  <2> QED BY <2>1
<1>2. \A m, n : <<m>> = <<n>> => m = n
  <2> SUFFICES ASSUME NEW m, NEW n, <<m>> = <<n>> PROVE m = n OBVIOUS
  <2>1. <<m>>[1] = m /\ <<n>>[1] = n OBVIOUS
  <2> QED BY <2>1
<1> QED BY <1>1, <1>2

\* The state keeps its form.
LEMMA TurnShapes ==
  ASSUME RegistryInv, NEW t \in Threads, NEW more, Turn(t, more),
         active' \in Modules \union {NoModule}, moduleMutex' \in BOOLEAN, module' \in [Modules -> {"out", "loading", "loaded"}],
         copies' \in [Modules -> 0..MaxCopies], pluginPaths' \in [Modules -> Seq(Paths)], ops' \in 0..MaxOps
  PROVE  ShapesOK'
<1>1. UNCHANGED <<plugin, ordered, table, association>> /\ started' = TRUE BY DEF Turn, registry
<1>2. todo' \in [Threads -> Seq(AllJobs)] BY TurnJobs DEF RegistryInv
<1>3. ShapesOK BY DEF RegistryInv
<1>4. IsInjective(ordered)' BY <1>1, <1>3 DEF ShapesOK, IsInjective
<1>5. (\A p \in Paths : Registered(p) => ToSet(NodesOf(p)) \subseteq ToSet(ordered))'
  BY <1>1, <1>3 DEF ShapesOK, Registered
<1> QED BY <1>1, <1>2, <1>3, <1>4, <1>5 DEF ShapesOK

\* A step after which the thread has nothing to do.
LEMMA TurnNothing ==
  ASSUME RegistryInv, NEW t \in Threads, Turn(t, <<>>)
  PROVE  TurnsOK' /\ PathsOK' /\ JobsOf(t)' = {} /\ ToSet(<<>>) = {}
<1>1. ToSet(<<>>) = {} /\ DOMAIN <<>> = {}
  <2>1. DOMAIN <<>> = {} OBVIOUS
  <2> QED BY <2>1, NoJobs
<1>2. JobsOf(t)' = {} BY <1>1, TurnJobs DEF RegistryInv
<1>3. \A m \in Modules : ~ Busy(t, m)' BY <1>2 DEF Busy
<1>4. TurnsOK' BY <1>1, <1>3, TurnTurns
<1>5. PathsOK' BY <1>1, TurnPaths
<1> QED BY <1>1, <1>2, <1>4, <1>5

\* A step after which it has one job.
LEMMA TurnOne ==
  ASSUME RegistryInv, NEW t \in Threads, NEW j \in AllJobs, Turn(t, <<j>>), j.do \notin {"loaded", "unload"},
         \/ j.do \in {"drop", "decrement"}
         \/ j.do \in {"add", "remove"} /\ j.path \in Users[t]
  PROVE  TurnsOK' /\ PathsOK' /\ JobsOf(t)' = {j} /\ ToSet(<<j>>) = {j}
<1>1. ToSet(<<j>>) = {j} BY OneJob
<1>2. JobsOf(t)' = {j} BY <1>1, TurnJobs DEF RegistryInv
<1>3. \A m \in Modules : ~ Busy(t, m)' BY <1>2, JobFields DEF Busy, Job
<1>4. DOMAIN <<j>> = {1} /\ Len(<<j>>) = 1
  <2>1. DOMAIN <<j>> = 1..1 /\ 1..1 = {1} OBVIOUS
  <2> QED BY <2>1
<1> DEFINE more == <<j>>
<1>5. DOMAIN more = {1} /\ Len(more) = 1 /\ ToSet(more) = {j} /\ Turn(t, more) BY <1>1, <1>4
<1> HIDE DEF more
<1>6. TurnsOK'
  <2>1. \A i \in DOMAIN more : more[i].do \in Ends => i = Len(more) BY <1>5
  <2>2. \A a, b \in ToSet(more) : Grows(a) <=> Grows(b) BY <1>5
  <2>3. \A m \in Modules : Busy(t, m)' => Alone(t) BY <1>3
  <2> QED BY <1>5, <2>1, <2>2, <2>3, TurnTurns
<1>7. PathOK(t, j)'
  <2>1. started' = TRUE BY DEF Turn
  <2>2. j.do \in {"add", "remove"} => Mine(t, j.path)' BY DEF Mine
  <2> QED BY <1>3, <2>1, <2>2 DEF PathOK
<1>8. PathsOK' BY <1>5, <1>7, TurnPaths
<1> QED BY <1>1, <1>2, <1>6, <1>8

\* The thread was going to drop a copy exactly if it still is.
LEMMA DroppersSame ==
  ASSUME RegistryInv, NEW t \in Threads, NEW more, Turn(t, more), NEW m \in Modules,
         (\E j \in JobsOf(t) : j.do \in {"drop", "decrement", "unload"} /\ j.path = <<m>>)
           <=> \E j \in ToSet(more) : j.do \in {"drop", "decrement", "unload"} /\ j.path = <<m>>
  PROVE  Droppers(m)' = Droppers(m)
<1>1. t \in Droppers(m)' <=> t \in Droppers(m) BY TurnDroppers DEF Droppers
<1>2. Droppers(m)' \subseteq Threads /\ Droppers(m) \subseteq Threads BY TurnDroppers DEF Droppers
<1>3. \A u \in Threads \ {t} : u \in Droppers(m)' <=> u \in Droppers(m) BY TurnDroppers
<1> QED BY <1>1, <1>2, <1>3

\* The static blocks of the runtime library have run.
LEMMA StartedKeeps ==
  ASSUME RegistryInv, NEW t \in Threads, Started(t)
  PROVE  RegistryInv'
<1> DEFINE e == Head(todo[t])
<1>1. /\ Turn(t, <<>>) /\ todo[t] # <<>> /\ JobsOf(t) = {e} /\ e.do = "started"
      /\ \A u \in Threads \ {t} : ~ Alone(u)
  BY NoJobs, EndTurns DEF Started, Ends
<1> HIDE DEF e
<1>2. TurnsOK' /\ PathsOK' /\ JobsOf(t)' = {} /\ ToSet(<<>>) = {} BY <1>1, TurnNothing
<1>3. UNCHANGED <<active, moduleMutex, module, copies, pluginPaths, ops>> BY DEF Started, modules
<1>4. ShapesOK' BY <1>1, <1>3, TurnShapes DEF RegistryInv, ShapesOK
<1>5. HandlersOK' /\ TablesOK' BY <1>1, TurnKeeps
<1>6. \A m : Job("loaded", <<m>>) # e /\ Job("unload", <<m>>) # e /\ Job("drop", <<m>>) # e BY <1>1, JobFields
<1>7. ModulesOK' BY <1>1, <1>2, <1>3, <1>6, TurnModules
<1>8. ASSUME NEW m \in Modules PROVE CopyOK(m)'
  <2>1. Droppers(m)' = Droppers(m) BY <1>1, <1>2, DroppersSame
  <2>2. \A u \in Threads : Alone(u) => /\ Job("drop", <<m>>) \notin JobsOf(u) /\ Job("unload", <<m>>) \notin JobsOf(u)
    BY <1>1, <1>6
  <2> QED BY <1>1, <1>2, <1>3, <2>1, <2>2, TurnCopies
<1> QED BY <1>2, <1>4, <1>5, <1>7, <1>8 DEF RegistryInv, CopiesOK

\* What a thread begins that has to do with no module
LEMMA BeginsKeep ==
  ASSUME RegistryInv, Separate, NEW t \in Threads, NEW more \in Seq(AllJobs), Begin(t, more), TurnsOK', PathsOK',
         \A j \in ToSet(more) : j.do \in {"add", "remove"}, UNCHANGED modules
  PROVE  RegistryInv'
<1>1. /\ Turn(t, more) /\ JobsOf(t) = {} /\ ops' \in 0..MaxOps
      /\ \A u \in Threads : \A j \in JobsOf(u) : j.do \notin {"loaded", "drop", "unload"}
  BY BeginTurns
<1>2. UNCHANGED <<active, moduleMutex, module, copies, pluginPaths>> BY DEF modules
<1>3. ShapesOK' BY <1>1, <1>2, TurnShapes DEF RegistryInv, ShapesOK
<1>4. HandlersOK' /\ TablesOK' BY <1>1, TurnKeeps
<1>5. \A m : Job("loaded", <<m>>) \notin ToSet(more) /\ Job("unload", <<m>>) \notin ToSet(more) BY JobFields
<1>6. ModulesOK' BY <1>1, <1>2, <1>5, TurnModules
<1>7. ASSUME NEW m \in Modules PROVE CopyOK(m)'
  <2>1. Droppers(m)' = Droppers(m) BY <1>1, DroppersSame
  <2>2. \A u \in Threads : Job("drop", <<m>>) \notin JobsOf(u) /\ Job("unload", <<m>>) \notin JobsOf(u)
    BY <1>1, JobFields
  <2> QED BY <1>1, <1>2, <1>5, <2>1, <2>2, TurnCopies
<1> QED BY <1>3, <1>4, <1>6, <1>7 DEF RegistryInv, CopiesOK

\* A user begins to add or to remove a path.
LEMMA UsersKeep ==
  ASSUME RegistryInv, Separate, NEW t \in Threads, NEW p \in Users[t], UserAdd(t, p) \/ UserRemove(t, p)
  PROVE  RegistryInv'
<1>1. PICK do \in {"add", "remove"} : Begin(t, <<Job(do, p)>>) /\ UNCHANGED modules BY DEF UserAdd, UserRemove
<1> DEFINE j == Job(do, p)
<1>2. p \in Paths BY RegistryAssumption
<1>3. j \in AllJobs /\ j.do = do /\ j.path = p BY <1>2, JobsAre, JobFields
<1> HIDE DEF j
<1>4. <<j>> \in Seq(AllJobs) /\ ToSet(<<j>>) = {j} BY <1>3, OneJob
<1>5. Begin(t, <<j>>) BY <1>1 DEF j
<1>6. Turn(t, <<j>>) BY <1>4, <1>5, BeginTurns
<1>7. TurnsOK' /\ PathsOK' BY <1>3, <1>6, TurnOne
<1> QED BY <1>1, <1>3, <1>4, <1>5, <1>7, BeginsKeep

\* One path after the other, and then the end
JobsThen(do, s, end) == Jobs(do, s) \o <<end>>

\* What such a sequence of jobs is.
LEMMA JobsEnd ==
  ASSUME NEW do \in {"add", "remove"}, NEW s \in Seq(Paths), NEW end \in AllJobs, end.do \in Ends,
         do = "add" => Grows(end), do = "remove" => ~ Grows(end), NEW more, more = JobsThen(do, s, end)
  PROVE  /\ more \in Seq(AllJobs) /\ \A j : j \in ToSet(more) <=> j = end \/ \E p \in ToSet(s) : j = Job(do, p)
         /\ \A i \in DOMAIN more : more[i].do \in Ends => i = Len(more)
         /\ \A j, k \in ToSet(more) : Grows(j) <=> Grows(k)
<1> DEFINE first == Jobs(do, s)
           last == <<end>>
<1>1. DOMAIN s = 1..Len(s) /\ Len(s) \in Nat /\ \A i \in 1..Len(s) : s[i] \in Paths OBVIOUS
<1>2. first \in [1..Len(s) -> AllJobs] /\ \A i \in 1..Len(s) : first[i] = Job(do, s[i])
  BY <1>1, JobsAre DEF Jobs
<1>3. first \in Seq(AllJobs) /\ Len(first) = Len(s) BY <1>1, <1>2, SeqDef
<1>4. \A j : j \in ToSet(first) <=> \E p \in ToSet(s) : j = Job(do, p) BY <1>1, <1>2 DEF ToSet
<1>5. last \in Seq(AllJobs) /\ ToSet(last) = {end} /\ Len(last) = 1 /\ last[1] = end BY OneJob
<1> HIDE DEF first, last
<1>6. more = first \o last BY DEF first, last, JobsThen
<1>7. more \in Seq(AllJobs) /\ ToSet(more) = ToSet(first) \union ToSet(last)
  <2>1. first \o last \in Seq(AllJobs) /\ ToSet(first \o last) = ToSet(first) \union ToSet(last) BY <1>3, <1>5, BothParts
  <2> QED BY <1>6, <2>1
<1>8. Len(more) = Len(s) + 1 /\ \A i \in 1..(Len(s) + 1) : more[i] = IF i <= Len(s) THEN first[i] ELSE last[i - Len(s)]
  <2> DEFINE c == first \o last
  <2>0. first \in Seq(AllJobs) /\ last \in Seq(AllJobs) BY <1>3, <1>5
  <2>1. /\ c \in Seq(AllJobs) /\ Len(c) = Len(first) + Len(last)
        /\ \A i \in 1..(Len(first) + Len(last)) : c[i] = IF i <= Len(first) THEN first[i] ELSE last[i - Len(first)]
    BY <2>0, ConcatProperties
  <2>2. Len(first) = Len(s) /\ Len(last) = 1 /\ more = c BY <1>3, <1>5, <1>6
  <2> HIDE DEF c
  <2> QED BY <2>1, <2>2
<1>9. ASSUME NEW i \in DOMAIN more, more[i].do \in Ends PROVE i = Len(more)
  <2>1. i \in 1..(Len(s) + 1) BY <1>7, <1>8
  <2> SUFFICES ASSUME i <= Len(s) PROVE FALSE BY <1>1, <1>8, <2>1
  <2>2. i \in 1..Len(s) BY <1>1, <2>1
  <2>3. more[i] = Job(do, s[i]) BY <1>2, <1>8, <2>1, <2>2
  <2>4. more[i].do = do BY <2>3, JobFields
  <2> QED BY <1>9, <2>4 DEF Ends
<1>10. \A j \in ToSet(more) : Grows(j) <=> do = "add"
  <2>1. \A p : Grows(Job(do, p)) <=> do = "add" BY JobFields DEF Grows
  <2> QED BY <1>4, <1>5, <1>7, <2>1
<1> QED BY <1>4, <1>5, <1>7, <1>9, <1>10

\* Nothing loads while a thread begins something.
LEMMA BeginsIdle ==
  ASSUME RegistryInv, NEW m \in Modules,
         \A u \in Threads : \A j \in JobsOf(u) : j.do \notin {"loaded", "drop", "unload"}
  PROVE  /\ module[m] # "loading" /\ (active = m => m \in Broken)
         /\ \A u \in Threads : /\ Job("loaded", <<m>>) \notin JobsOf(u) /\ Job("unload", <<m>>) \notin JobsOf(u)
                               /\ Job("drop", <<m>>) \notin JobsOf(u)
<1>1. OwnersOK(m) /\ LoadedOK(m) BY DEF RegistryInv, ModulesOK
<1>2. \A u \in Threads : /\ Job("loaded", <<m>>) \notin JobsOf(u) /\ Job("unload", <<m>>) \notin JobsOf(u)
                         /\ Job("drop", <<m>>) \notin JobsOf(u)
  BY JobFields
<1>3. active = m => m \in Broken BY <1>1, <1>2 DEF OwnersOK
<1>4. module[m] # "loading" BY <1>1, <1>3 DEF LoadedOK
<1> QED BY <1>2, <1>3, <1>4

\* A library that does not load: nothing but the active module changes.
LEMMA LoadFailsKeeps ==
  ASSUME RegistryInv, Separate, NEW t \in Threads, NEW m \in Modules, LoadFails(t, m)
  PROVE  RegistryInv'
<1>1. /\ Turn(t, <<>>) /\ JobsOf(t) = {} /\ ops' \in 0..MaxOps
      /\ \A u \in Threads : \A j \in JobsOf(u) : j.do \notin {"loaded", "drop", "unload"}
  BY NoJobs, BeginTurns DEF LoadFails
<1>2. TurnsOK' /\ PathsOK' /\ JobsOf(t)' = {} /\ ToSet(<<>>) = {} BY <1>1, TurnNothing
<1>3. m \in Broken /\ active' = m /\ UNCHANGED <<moduleMutex, module, copies, pluginPaths>> BY DEF LoadFails
<1>4. ShapesOK' BY <1>1, <1>3, TurnShapes DEF RegistryInv, ShapesOK
<1>5. HandlersOK' /\ TablesOK' BY <1>1, TurnKeeps
<1>6. UNCHANGED <<plugin, association>> BY <1>1 DEF Turn, registry
<1>7. \A do2, p : Job(do2, p)' = Job(do2, p) BY DEF Job
<1>8. ASSUME NEW n \in Modules PROVE OwnersOK(n)' /\ LoadedOK(n)'
  <2>1. OwnersOK(n) /\ LoadedOK(n) BY DEF RegistryInv, ModulesOK
  <2>2. module[n] # "loading" BY <1>1, BeginsIdle
  <2>3. ASSUME NEW u \in Threads PROVE Job("loaded", <<n>>) \notin JobsOf(u)' /\ Job("unload", <<n>>) \notin JobsOf(u)'
    <3>1. CASE u # t BY <1>1, <3>1, TurnBusy
    <3>2. CASE u = t BY <1>2, <3>2
    <3> QED BY <3>1, <3>2
  <2>4. OwnersOK(n)' BY <1>3, <1>6, <1>7, <2>1 DEF OwnersOK
  <2>5. LoadedOK(n)' BY <1>3, <1>6, <1>7, <2>1, <2>2, <2>3 DEF LoadedOK
  <2> QED BY <2>4, <2>5
<1>9. ASSUME NEW n \in Modules PROVE CopyOK(n)'
  <2>1. Droppers(n)' = Droppers(n) BY <1>1, <1>2, DroppersSame
  <2>2. \A u \in Threads : Job("drop", <<n>>) \notin JobsOf(u) /\ Job("unload", <<n>>) \notin JobsOf(u)
    BY <1>1, BeginsIdle
  <2> QED BY <1>1, <1>2, <1>3, <2>1, <2>2, TurnCopies
<1> QED BY <1>2, <1>4, <1>5, <1>8, <1>9 DEF RegistryInv, CopiesOK, ModulesOK

\* A block made by a plugin holds the module.
LEMMA CopyModuleKeeps ==
  ASSUME RegistryInv, Separate, NEW t \in Threads, NEW m \in Modules, CopyModule(t, m)
  PROVE  RegistryInv'
<1>1. /\ Turn(t, <<>>) /\ JobsOf(t) = {} /\ ops' \in 0..MaxOps
      /\ \A u \in Threads : \A j \in JobsOf(u) : j.do \notin {"loaded", "drop", "unload"}
  BY NoJobs, BeginTurns DEF CopyModule
<1>2. TurnsOK' /\ PathsOK' /\ JobsOf(t)' = {} /\ ToSet(<<>>) = {} BY <1>1, TurnNothing
<1>3. /\ copies[m] \in 1..(MaxCopies - 1) /\ copies' = [copies EXCEPT ![m] = copies[m] + 1]
      /\ UNCHANGED <<active, moduleMutex, module, pluginPaths>>
  BY DEF CopyModule
<1>4. copies' \in [Modules -> 0..MaxCopies] /\ copies'[m] = copies[m] + 1
      /\ \A n \in Modules \ {m} : copies'[n] = copies[n]
  <2>1. copies \in [Modules -> 0..MaxCopies] /\ MaxCopies \in Nat BY RegistryAssumption DEF RegistryInv, ShapesOK
  <2>2. copies[m] + 1 \in 0..MaxCopies BY <1>3, <2>1
  <2> QED BY <1>3, <2>1, <2>2
<1>5. ShapesOK' BY <1>1, <1>3, <1>4, TurnShapes DEF RegistryInv, ShapesOK
<1>6. HandlersOK' /\ TablesOK' BY <1>1, TurnKeeps
<1>7. ModulesOK' BY <1>1, <1>2, <1>3, TurnModules
<1>8. ASSUME NEW n \in Modules PROVE CopyOK(n)'
  <2>1. Droppers(n)' = Droppers(n) BY <1>1, <1>2, DroppersSame
  <2>2. \A u \in Threads : Job("drop", <<n>>) \notin JobsOf(u) /\ Job("unload", <<n>>) \notin JobsOf(u)
    BY <1>1, BeginsIdle
  <2>3. CASE n # m BY <1>1, <1>2, <1>3, <1>4, <2>1, <2>2, <2>3, TurnCopies
  <2>4. CASE n = m
    <3>1. CopyOK(m) BY DEF RegistryInv, CopiesOK
    <3>2. module[m] = "loaded" BY <1>3, <3>1 DEF CopyOK
    <3>3. Cardinality(Droppers(m)) < copies[m] /\ Cardinality(Droppers(m)) \in Nat
      BY <2>2, <2>4, <3>1, <3>2, DroppersFinite DEF CopyOK
    <3>4. Cardinality(Droppers(m)') < copies'[m] BY <1>3, <1>4, <2>1, <2>4, <3>3
    <3>5. \A u \in Threads : Job("unload", <<m>>)' \notin JobsOf(u)'
      <4>1. Job("unload", <<m>>)' = Job("unload", <<m>>) BY DEF Job
      <4>2. ASSUME NEW u \in Threads PROVE Job("unload", <<m>>) \notin JobsOf(u)'
        <5>1. CASE u # t BY <1>1, <5>1, TurnBusy
        <5>2. CASE u = t BY <1>2, <5>2
        <5> QED BY <5>1, <5>2
      <4> QED BY <4>1, <4>2
    <3> QED BY <1>3, <2>4, <3>2, <3>4, <3>5 DEF CopyOK
  <2> QED BY <2>3, <2>4
<1> QED BY <1>2, <1>5, <1>6, <1>7, <1>8 DEF RegistryInv, CopiesOK

\* The bound of DropCopy counts the threads that destroy a copy.
LEMMA DroppingIs ==
  ASSUME NEW m \in Modules
  PROVE  Dropping(m) = Cardinality(Droppers(m))
<1>1. \A t \in Threads : (\E i \in DOMAIN todo[t] : todo[t][i].do \in {"drop", "decrement", "unload"} /\ todo[t][i].path = <<m>>)
                           <=> \E j \in JobsOf(t) : j.do \in {"drop", "decrement", "unload"} /\ j.path = <<m>>
  BY DEF JobsOf
<1>2. {t \in Threads : \E i \in DOMAIN todo[t] : todo[t][i].do \in {"drop", "decrement", "unload"} /\ todo[t][i].path = <<m>>}
        = Droppers(m)
  BY <1>1 DEF Droppers
<1> QED BY <1>2 DEF Dropping

\* A thread begins to destroy a copy of a module.
LEMMA DropCopyKeeps ==
  ASSUME RegistryInv, Separate, NEW t \in Threads, NEW m \in Modules, DropCopy(t, m)
  PROVE  RegistryInv'
<1> DEFINE j == Job("drop", <<m>>)
<1>0. j \in AllJobs /\ j.do = "drop" /\ j.path = <<m>> BY JobsAre, JobFields
<1>00. <<j>> \in Seq(AllJobs) /\ Begin(t, <<j>>) /\ UNCHANGED modules
  <2>1. Begin(t, <<j>>) /\ UNCHANGED modules BY DEF DropCopy
  <2> HIDE DEF j
  <2> QED BY <1>0, <2>1, OneJob
<1> HIDE DEF j
<1>1. /\ Turn(t, <<j>>) /\ JobsOf(t) = {} /\ ops' \in 0..MaxOps /\ todo[t] = <<>>
      /\ \A u \in Threads : \A i \in JobsOf(u) : i.do \notin {"loaded", "drop", "unload"}
  BY <1>00, BeginTurns
<1>2. TurnsOK' /\ PathsOK' /\ JobsOf(t)' = {j} /\ ToSet(<<j>>) = {j} BY <1>0, <1>1, TurnOne
<1>3. UNCHANGED <<active, moduleMutex, module, copies, pluginPaths>> BY <1>00 DEF modules
<1>4. ShapesOK' BY <1>1, <1>3, TurnShapes DEF RegistryInv, ShapesOK
<1>5. HandlersOK' /\ TablesOK' BY <1>1, TurnKeeps
<1>6. \A n : Job("loaded", <<n>>) # j /\ Job("unload", <<n>>) # j BY <1>0, JobFields
<1>7. ModulesOK' BY <1>1, <1>2, <1>3, <1>6, TurnModules
<1>8. ASSUME NEW n \in Modules, n # m PROVE CopyOK(n)'
  <2>1. <<n>> # <<m>> BY <1>8, ModuleJobs
  <2>2. Droppers(n)' = Droppers(n) BY <1>0, <1>1, <1>2, <2>1, DroppersSame
  <2>3. \A u \in Threads : Job("drop", <<n>>) \notin JobsOf(u) /\ Job("unload", <<n>>) \notin JobsOf(u)
    BY <1>1, BeginsIdle
  <2> QED BY <1>1, <1>2, <1>3, <1>6, <2>2, <2>3, TurnCopies
<1>9. CopyOK(m)'
  <2> DEFINE D == Droppers(m)
  <2>1. module[m] = "loaded" /\ Cardinality(D) < copies[m] /\ (Alone(t) \/ Cardinality(D) < copies[m] - 1)
    BY DroppingIs DEF DropCopy, Separate
  <2>2. IsFiniteSet(D) /\ Cardinality(D) \in Nat /\ copies[m] \in Nat BY DroppersFinite DEF RegistryInv, ShapesOK
  <2>3. t \notin D BY <1>1 DEF Droppers
  <2>4. D' = D \union {t}
    <3>1. t \in D' BY <1>0, <1>1, <1>2, TurnDroppers
    <3>2. D \subseteq Threads /\ D' \subseteq Threads BY <1>1, TurnDroppers DEF Droppers
    <3> QED BY <1>1, <3>1, <3>2, TurnDroppers
  <2>5. Cardinality(D') = Cardinality(D) + 1
    <3> HIDE DEF D
    <3> QED BY <2>2, <2>3, <2>4, FS_AddElement
  <2>6. ASSUME NEW u \in Threads PROVE Job("unload", <<m>>)' \notin JobsOf(u)'
    <3>1. Job("unload", <<m>>)' = Job("unload", <<m>>) BY DEF Job
    <3>2. CASE u # t BY <1>1, <3>1, <3>2, TurnBusy
    <3>3. CASE u = t BY <1>2, <1>6, <3>1, <3>3
    <3> QED BY <3>2, <3>3
  <2>7. \/ Cardinality(D') < copies'[m]
        \/ /\ copies'[m] = 1
           /\ \E u \in Threads : D' = {u} /\ Alone(u)' /\ Job("drop", <<m>>)' \in JobsOf(u)'
    <3>1. CASE Cardinality(D) < copies[m] - 1 BY <1>3, <2>2, <2>5, <3>1
    <3>2. CASE ~ (Cardinality(D) < copies[m] - 1)
      <4>1. Alone(t) BY <2>1, <3>2
      <4>2. D = {}
        <5>1. \A u \in Threads : todo[u] = <<>> BY <1>1, <4>1 DEF Alone
        <5>2. \A u \in Threads : JobsOf(u) = {} BY <5>1, JobsIn DEF RegistryInv
        <5> QED BY <5>2 DEF Droppers
      <4>3. copies[m] = 1 BY <2>1, <2>2, <3>2, <4>2, FS_EmptySet
      <4>4. D' = {t} BY <2>4, <4>2
      <4>5. Alone(t)' BY <1>1, <4>1, TurnJobs DEF Alone, RegistryInv
      <4>6. Job("drop", <<m>>)' \in JobsOf(t)' BY <1>2 DEF j, Job
      <4> QED BY <1>3, <4>3, <4>4, <4>5, <4>6
    <3> QED BY <3>1, <3>2
  <2> QED BY <1>3, <2>1, <2>6, <2>7 DEF CopyOK
<1> QED BY <1>2, <1>4, <1>5, <1>7, <1>8, <1>9 DEF RegistryInv, CopiesOK

\* A thread begins to load a module.
LEMMA LoadModuleKeeps ==
  ASSUME RegistryInv, Separate, NEW t \in Threads, NEW m \in Modules, LoadModule(t, m)
  PROVE  RegistryInv'
<1> DEFINE end == Job("loaded", <<m>>)
<1>1. end \in AllJobs /\ end.do = "loaded" /\ end.do \in Ends /\ Grows(end) /\ Statics[m] \in Seq(Paths)
  BY JobsAre, JobFields, RegistryAssumption DEF Ends, Grows
<1> HIDE DEF end
<1>0. PICK more : more = JobsThen("add", Statics[m], end) OBVIOUS
<1>2. /\ more \in Seq(AllJobs) /\ \A j : j \in ToSet(more) <=> j = end \/ \E p \in ToSet(Statics[m]) : j = Job("add", p)
      /\ \A i \in DOMAIN more : more[i].do \in Ends => i = Len(more)
      /\ \A j, k \in ToSet(more) : Grows(j) <=> Grows(k)
  
  BY <1>0, <1>1, JobsEnd
<1>3. Begin(t, more) /\ Alone(t) BY <1>0 DEF LoadModule, Separate, end, JobsThen
<1>4. /\ Turn(t, more) /\ JobsOf(t) = {} /\ ops' \in 0..MaxOps /\ todo[t] = <<>>
      /\ \A u \in Threads : \A j \in JobsOf(u) : j.do \notin {"loaded", "drop", "unload"}
  BY <1>2, <1>3, BeginTurns
<1>5. /\ module[m] = "out" /\ m \notin Broken /\ moduleMutex' = TRUE /\ active' = m
      /\ module' = [module EXCEPT ![m] = "loading"] /\ UNCHANGED <<copies, pluginPaths>>
  BY DEF LoadModule
<1>6. module' \in [Modules -> {"out", "loading", "loaded"}] /\ module'[m] = "loading"
      /\ \A n \in Modules \ {m} : module'[n] = module[n]
  BY <1>5 DEF RegistryInv, ShapesOK
<1>7. ShapesOK' BY <1>4, <1>5, <1>6, TurnShapes DEF RegistryInv, ShapesOK
<1>8. HandlersOK' /\ TablesOK' BY <1>4, TurnKeeps
<1>9. TurnsOK' BY <1>2, <1>3, <1>4, TurnTurns
<1>10. JobsOf(t)' = ToSet(more) BY <1>4, TurnJobs DEF RegistryInv
<1>11. \A n : /\ Job("unload", <<n>>) \notin ToSet(more) /\ Job("drop", <<n>>) \notin ToSet(more)
              /\ (Job("loaded", <<n>>) \in ToSet(more) <=> n = m)
  <2>1. \A n, p : /\ Job("unload", <<n>>) # Job("add", p) /\ Job("drop", <<n>>) # Job("add", p)
                  /\ Job("loaded", <<n>>) # Job("add", p)
    BY JobFields
  <2>2. \A n : Job("unload", <<n>>) # end /\ Job("drop", <<n>>) # end BY <1>1, JobFields
  <2>3. \A n : Job("loaded", <<n>>) = end <=> n = m BY ModuleJobs DEF end
  <2> QED BY <1>2, <2>1, <2>2, <2>3
<1>12. \A n : Busy(t, n)' <=> n = m
  <2> SUFFICES ASSUME NEW n PROVE Busy(t, n)' <=> n = m OBVIOUS
  <2>1. Busy(t, n)' <=> Job("loaded", <<n>>) \in JobsOf(t)' \/ Job("unload", <<n>>) \in JobsOf(t)' BY DEF Busy, Job
  <2> QED BY <1>10, <1>11, <2>1
<1>13. PathsOK'
  <2>1. ASSUME NEW p \in ToSet(Statics[m]) PROVE PathOK(t, Job("add", p))'
    <3> DEFINE j == Job("add", p)
    <3>1. j.do = "add" /\ j.path = p BY JobFields
    <3>2. Mine(t, p)' BY <1>12 DEF Mine
    <3>3. started' = TRUE BY <1>4 DEF Turn
    <3> HIDE DEF j
    <3>4. PathOK(t, j)' BY <1>12, <3>1, <3>2, <3>3 DEF PathOK
    <3> QED BY <3>4 DEF j, Job
  <2>2. PathOK(t, end)' BY <1>1 DEF PathOK
  <2>3. ASSUME NEW j \in ToSet(more) PROVE PathOK(t, j)'
    <3>1. CASE j = end BY <2>2, <3>1
    <3>2. CASE j # end
      <4>1. PICK p \in ToSet(Statics[m]) : j = Job("add", p) BY <1>2, <3>2
      <4>2. PathOK(t, Job("add", p))' BY <2>1
      <4> QED BY <4>1, <4>2 DEF Job
    <3> QED BY <3>1, <3>2
  <2> QED BY <1>4, <2>3, TurnPaths
<1>14. UNCHANGED <<plugin, association>> BY <1>4 DEF Turn, registry
<1>15. \A do2, p : Job(do2, p)' = Job(do2, p) BY DEF Job
<1>16. ASSUME NEW n \in Modules, NEW u \in Threads
       PROVE  /\ Job("unload", <<n>>) \notin JobsOf(u)'
              /\ Job("loaded", <<n>>) \in JobsOf(u)' <=> u = t /\ n = m
  <2>1. CASE u # t BY <1>4, <2>1, TurnBusy
  <2>2. CASE u = t BY <1>10, <1>11, <2>2
  <2> QED BY <2>1, <2>2
<1>17. ASSUME NEW n \in Modules PROVE OwnersOK(n)' /\ LoadedOK(n)'
  <2>1. OwnersOK(n) /\ LoadedOK(n) BY DEF RegistryInv, ModulesOK
  <2>2. module[n] # "loading" BY <1>4, BeginsIdle
  <2>3. module'[n] \in {"loading", "out"} => module[n] = "out" BY <1>5, <1>6, <2>2
  <2>4. n = m \/ (module'[n] = module[n] /\ active' # n) BY <1>5, <1>6
  <2>5. OwnersOK(n)'
    <3>1. active' = n => \E u \in Threads : Job("loaded", <<n>>) \in JobsOf(u)' BY <1>5, <1>16
    <3>2. module'[n] = "out" => module[n] = "out" BY <2>3
    <3> QED BY <1>14, <1>15, <2>1, <3>1, <3>2 DEF OwnersOK
  <2>6. LoadedOK(n)' BY <1>5, <1>6, <1>14, <1>15, <1>16, <2>1, <2>2, <2>4 DEF LoadedOK
  <2> QED BY <2>5, <2>6
<1>18. ASSUME NEW n \in Modules PROVE CopyOK(n)'
  <2>1. \A j \in ToSet(more) : j.do \in {"add", "loaded"} BY <1>1, <1>2, JobFields
  <2>2. Droppers(n)' = Droppers(n) BY <1>4, <2>1, DroppersSame
  <2>3. \A u \in Threads : Job("drop", <<n>>) \notin JobsOf(u) /\ Job("unload", <<n>>) \notin JobsOf(u)
    BY <1>4, BeginsIdle
  <2>4. CASE n # m BY <1>4, <1>5, <1>6, <1>11, <2>2, <2>3, <2>4, TurnCopies
  <2>5. CASE n = m
    <3>1. CopyOK(m) BY DEF RegistryInv, CopiesOK
    <3>2. copies[m] = 0 /\ Droppers(m) = {} BY <1>5, <3>1 DEF CopyOK
    <3> QED BY <1>5, <1>6, <1>15, <1>16, <2>2, <2>5, <3>2 DEF CopyOK
  <2> QED BY <2>4, <2>5
<1> QED BY <1>7, <1>8, <1>9, <1>13, <1>17, <1>18 DEF RegistryInv, CopiesOK, ModulesOK

\* The static blocks of the module have run: it keeps the paths of what they added.
LEMMA LoadedKeeps ==
  ASSUME RegistryInv, NEW t \in Threads, Loaded(t)
  PROVE  RegistryInv'
<1> DEFINE e == Head(todo[t])
<1>1. Does(t, "loaded") /\ Continue(t, <<>>) /\ UNCHANGED <<registry, started, ops>> BY DEF Loaded
<1>2. /\ Turn(t, <<>>) /\ todo[t] # <<>> /\ JobsOf(t) = {e} /\ e.do = "loaded" /\ e \in AllJobs
      /\ \A u \in Threads \ {t} : ~ Alone(u)
  BY <1>1, NoJobs, EndTurns DEF Ends
<1>3. PICK m \in Modules : e.path = <<m>> /\ e = Job("loaded", <<m>>) BY <1>2, JobKinds
<1>4. /\ active' = NoModule /\ moduleMutex' = FALSE
      /\ pluginPaths' = [pluginPaths EXCEPT ![m] = association[m]]
      /\ module' = [module EXCEPT ![m] = "loaded"] /\ copies' = [copies EXCEPT ![m] = 1]
  BY <1>3, ModuleJobs DEF Loaded, ActiveAfterLoad
<1> HIDE DEF e
<1>5. module' \in [Modules -> {"out", "loading", "loaded"}] /\ module'[m] = "loaded"
      /\ \A n \in Modules \ {m} : module'[n] = module[n]
  BY <1>4 DEF RegistryInv, ShapesOK
<1>6. copies' \in [Modules -> 0..MaxCopies] /\ copies'[m] = 1 /\ \A n \in Modules \ {m} : copies'[n] = copies[n]
  <2>1. 1 \in 0..MaxCopies BY RegistryAssumption
  <2> QED BY <1>4, <2>1 DEF RegistryInv, ShapesOK
<1>7. pluginPaths' \in [Modules -> Seq(Paths)] /\ pluginPaths'[m] = association[m]
      /\ \A n \in Modules \ {m} : pluginPaths'[n] = pluginPaths[n]
  BY <1>4 DEF RegistryInv, ShapesOK
<1>8. TurnsOK' /\ PathsOK' /\ JobsOf(t)' = {} /\ ToSet(<<>>) = {} BY <1>2, TurnNothing
<1>9. ShapesOK' BY <1>1, <1>2, <1>4, <1>5, <1>6, <1>7, TurnShapes DEF RegistryInv, ShapesOK
<1>10. HandlersOK' /\ TablesOK' BY <1>2, TurnKeeps
<1>11. UNCHANGED <<plugin, association>> BY <1>1 DEF registry
<1>12. \A do2, p : Job(do2, p)' = Job(do2, p) BY DEF Job
<1>13. Alone(t) /\ module[m] = "loading" /\ active = m /\ m \notin Broken
  <2>1. LoadedOK(m) /\ Job("loaded", <<m>>) \in JobsOf(t) BY <1>2, <1>3 DEF RegistryInv, ModulesOK
  <2>2. Alone(t) BY <2>1 DEF RegistryInv, TurnsOK, Busy
  <2> QED BY <2>1, <2>2 DEF LoadedOK
<1>14. ASSUME NEW n \in Modules, NEW u \in Threads
       PROVE  Job("unload", <<n>>) \notin JobsOf(u)' /\ Job("loaded", <<n>>) \notin JobsOf(u)'
  <2>1. CASE u # t BY <1>2, <2>1, TurnBusy
  <2>2. CASE u = t BY <1>8, <2>2
  <2> QED BY <2>1, <2>2
<1>15. ASSUME NEW n \in Modules PROVE OwnersOK(n)' /\ LoadedOK(n)'
  <2>1. OwnersOK(n) /\ LoadedOK(n) BY DEF RegistryInv, ModulesOK
  <2>2. active' # n BY <1>4, RegistryAssumption
  <2>3. module'[n] = "out" => module[n] = "out" BY <1>5
  <2>4. OwnersOK(n)' BY <1>11, <1>12, <2>1, <2>2, <2>3 DEF OwnersOK
  <2>5. CASE n # m
    <3>1. module'[n] = module[n] /\ pluginPaths'[n] = pluginPaths[n] BY <1>5, <1>7, <2>5
    <3>2. module[n] # "loading" BY <1>13, <2>1, <2>5 DEF LoadedOK
    <3>3. IsInjective(pluginPaths[n])' BY <2>1, <3>1 DEF LoadedOK, IsInjective
    <3>4. LoadedOK(n)' BY <1>11, <1>12, <1>14, <2>1, <3>1, <3>2, <3>3 DEF LoadedOK
    <3> QED BY <2>4, <3>4
  <2>6. CASE n = m
    <3>1. /\ IsInjective(association[m]) /\ ToSet(association[m]) = {p \in Paths : plugin[p] = m}
          /\ ToSet(association[m]) \subseteq ToSet(Statics[m])
      BY <1>13, <2>1, <2>6 DEF OwnersOK
    <3>2. IsInjective(pluginPaths[m])' BY <1>7, <3>1 DEF IsInjective
    <3>3. LoadedOK(m)' BY <1>5, <1>7, <1>11, <1>12, <1>13, <1>14, <3>1, <3>2 DEF LoadedOK
    <3> QED BY <2>4, <2>6, <3>3
  <2> QED BY <2>5, <2>6
<1>16. ASSUME NEW n \in Modules PROVE CopyOK(n)'
  <2>1. Droppers(n)' = Droppers(n) BY <1>2, <1>8, DroppersSame
  <2>2. \A u \in Threads : Alone(u) => Job("drop", <<n>>) \notin JobsOf(u) /\ Job("unload", <<n>>) \notin JobsOf(u)
    BY <1>2, JobFields
  <2>3. CASE n # m BY <1>2, <1>5, <1>6, <1>8, <2>1, <2>2, <2>3, TurnCopies
  <2>4. CASE n = m
    <3>1. CopyOK(m) BY DEF RegistryInv, CopiesOK
    <3>2. Droppers(m)' = {} BY <1>13, <2>1, <2>4, <3>1 DEF CopyOK
    <3>3. Cardinality(Droppers(m)') < copies'[m] BY <1>6, <3>2, FS_EmptySet
    <3> QED BY <1>5, <1>12, <1>14, <2>4, <3>3 DEF CopyOK
  <2> QED BY <2>3, <2>4
<1> QED BY <1>8, <1>9, <1>10, <1>15, <1>16 DEF RegistryInv, CopiesOK, ModulesOK

\* What a thread that destroys a copy knows
LEMMA DropperIs ==
  ASSUME RegistryInv, NEW t \in Threads, NEW m \in Modules, NEW do \in {"drop", "decrement", "unload"},
         JobsOf(t) = {Job(do, <<m>>)}, \A u \in Threads \ {t} : ~ Alone(u)
  PROVE  /\ t \in Droppers(m) /\ module[m] = "loaded" /\ m \notin Broken
         /\ Cardinality(Droppers(m)) \in Nat /\ IsFiniteSet(Droppers(m)) /\ copies[m] \in 0..MaxCopies
         /\ do = "decrement" => Cardinality(Droppers(m)) < copies[m]
         /\ do = "unload" => copies[m] = 1 /\ Droppers(m) = {t} /\ Alone(t)
         /\ do = "drop" => \/ Cardinality(Droppers(m)) < copies[m]
                           \/ copies[m] = 1 /\ Droppers(m) = {t} /\ Alone(t)
         /\ copies[m] = 1 => Droppers(m) = {t} /\ (do = "drop" => Alone(t))
         /\ copies[m] >= 1
<1> DEFINE e == Job(do, <<m>>)
           D == Droppers(m)
<1>1. e \in JobsOf(t) /\ e.do = do /\ e.path = <<m>> BY JobFields
<1>2. t \in D BY <1>1 DEF Droppers
<1>3. CopyOK(m) /\ LoadedOK(m) BY DEF RegistryInv, CopiesOK, ModulesOK
<1>4. module[m] = "loaded" BY <1>2, <1>3 DEF CopyOK
<1>5. m \notin Broken BY <1>3, <1>4 DEF LoadedOK
<1>6. IsFiniteSet(D) /\ Cardinality(D) \in Nat BY DroppersFinite
<1>7. copies[m] \in 0..MaxCopies BY DEF RegistryInv, ShapesOK
<1>8. Cardinality(D) >= 1
  <2>1. D # {} BY <1>2
  <2> HIDE DEF D
  <2>2. Cardinality(D) # 0 BY <1>6, <2>1, FS_EmptySet
  <2> QED BY <1>6, <2>2
<1>9. do = "unload" => copies[m] = 1 /\ D = {t} /\ Alone(t)
  <2> SUFFICES ASSUME do = "unload" PROVE copies[m] = 1 /\ D = {t} /\ Alone(t) OBVIOUS
  <2>1. Job("unload", <<m>>) \in JobsOf(t) OBVIOUS
  <2>2. Alone(t) BY <2>1 DEF RegistryInv, TurnsOK, Busy
  <2> QED BY <1>3, <2>1, <2>2 DEF CopyOK
<1>10. do # "unload" => \/ Cardinality(D) < copies[m]
                        \/ copies[m] = 1 /\ D = {t} /\ Alone(t) /\ do = "drop"
  <2> SUFFICES ASSUME do # "unload", ~ (Cardinality(D) < copies[m])
               PROVE  copies[m] = 1 /\ D = {t} /\ Alone(t) /\ do = "drop"
    OBVIOUS
  <2>1. /\ copies[m] = 1
        /\ \E u \in Threads : /\ D = {u} /\ Alone(u)
                              /\ Job("drop", <<m>>) \in JobsOf(u) \/ Job("unload", <<m>>) \in JobsOf(u)
    BY <1>3, <1>4 DEF CopyOK
  <2>2. D = {t} /\ Alone(t) /\ (Job("drop", <<m>>) \in JobsOf(t) \/ Job("unload", <<m>>) \in JobsOf(t)) BY <2>1
  <2>3. Job("unload", <<m>>) # e BY <1>1, JobFields
  <2>4. Job("drop", <<m>>) = e BY <2>2, <2>3
  <2>5. do = "drop" BY <1>1, <2>4, JobFields
  <2> QED BY <2>1, <2>2, <2>5
<1> HIDE DEF D
<1>11. copies[m] >= 1 /\ (copies[m] = 1 => D = {t} /\ (do = "drop" => Alone(t))) BY <1>6, <1>7, <1>8, <1>9, <1>10
<1> QED BY <1>2, <1>4, <1>5, <1>6, <1>7, <1>9, <1>10, <1>11 DEF D

\* The other modules
LEMMA OthersKeep ==
  ASSUME RegistryInv, NEW t \in Threads, NEW m \in Modules, NEW do \in {"drop", "decrement", "unload"},
         JobsOf(t) = {Job(do, <<m>>)}, \A u \in Threads \ {t} : ~ Alone(u), NEW more, Turn(t, more),
         \A j \in ToSet(more) : j.do \in {"drop", "decrement", "unload"} => j.path = <<m>>,
         NEW n \in Modules, n # m, copies'[n] = copies[n], module'[n] = module[n]
  PROVE  CopyOK(n)'
<1>1. <<n>> # <<m>> BY ModuleJobs
<1>2. Droppers(n)' = Droppers(n) BY <1>1, JobFields, DroppersSame
<1>3. Job("drop", <<n>>) # Job(do, <<m>>) /\ Job("unload", <<n>>) # Job(do, <<m>>) BY <1>1, ModuleJobs
<1>4. \A u \in Threads : Alone(u) => Job("drop", <<n>>) \notin JobsOf(u) /\ Job("unload", <<n>>) \notin JobsOf(u)
  BY <1>3
<1>5. Job("unload", <<n>>) \notin ToSet(more) BY <1>1, JobFields
<1> QED BY <1>2, <1>4, <1>5, TurnCopies

\* One of several copies is gone.
LEMMA DecrementKeeps ==
  ASSUME RegistryInv, NEW t \in Threads, Decrement(t)
  PROVE  RegistryInv'
<1> DEFINE e == Head(todo[t])
<1>1. Does(t, "decrement") /\ Continue(t, <<>>) /\ UNCHANGED <<registry, active, moduleMutex, module, pluginPaths, started, ops>>
  BY DEF Decrement
<1>2. /\ Turn(t, <<>>) /\ todo[t] # <<>> /\ JobsOf(t) = {e} /\ e.do = "decrement" /\ e \in AllJobs
      /\ \A u \in Threads \ {t} : ~ Alone(u)
  BY <1>1, NoJobs, EndTurns DEF Ends
<1>3. PICK m \in Modules : e.path = <<m>> /\ e = Job("decrement", <<m>>) BY <1>2, JobKinds
<1>4. copies' = [copies EXCEPT ![m] = copies[m] - 1] BY <1>3, ModuleJobs DEF Decrement
<1> HIDE DEF e
<1> DEFINE D == Droppers(m)
<1>5. /\ t \in D /\ module[m] = "loaded" /\ Cardinality(D) \in Nat /\ IsFiniteSet(D) /\ copies[m] \in 0..MaxCopies
      /\ Cardinality(D) < copies[m] /\ copies[m] >= 1
      /\ (copies[m] = 1 => D = {t})
  BY <1>2, <1>3, DropperIs
<1>6. copies' \in [Modules -> 0..MaxCopies] /\ copies'[m] = copies[m] - 1 /\ \A n \in Modules \ {m} : copies'[n] = copies[n]
  <2>1. copies[m] - 1 \in 0..MaxCopies BY <1>5, RegistryAssumption
  <2> QED BY <1>4, <2>1 DEF RegistryInv, ShapesOK
<1>7. TurnsOK' /\ PathsOK' /\ JobsOf(t)' = {} /\ ToSet(<<>>) = {} BY <1>2, TurnNothing
<1>8. ShapesOK' BY <1>1, <1>2, <1>6, TurnShapes DEF RegistryInv, ShapesOK
<1>9. HandlersOK' /\ TablesOK' BY <1>2, TurnKeeps
<1>10. \A n : Job("loaded", <<n>>) # e /\ Job("unload", <<n>>) # e BY <1>2, JobFields
<1>11. ModulesOK' BY <1>1, <1>2, <1>7, <1>10, TurnModules
<1>12. CopyOK(m)'
  <2>1. D' = D \ {t}
    <3>1. t \notin D' BY <1>2, <1>7, TurnDroppers
    <3>2. D \subseteq Threads /\ D' \subseteq Threads BY <1>2, TurnDroppers DEF Droppers
    <3> QED BY <1>2, <3>1, <3>2, TurnDroppers
  <2>2. Cardinality(D') = Cardinality(D) - 1
    <3> HIDE DEF D
    <3> QED BY <1>5, <2>1, FS_RemoveElement
  <2>3. Cardinality(D') < copies'[m] BY <1>5, <1>6, <2>2
  <2>4. \A u \in Threads : Job("unload", <<m>>)' \notin JobsOf(u)'
    <3>1. Job("unload", <<m>>)' = Job("unload", <<m>>) BY DEF Job
    <3>2. ASSUME NEW u \in Threads PROVE Job("unload", <<m>>) \notin JobsOf(u)'
      <4>1. CASE u # t BY <1>2, <4>1, TurnBusy
      <4>2. CASE u = t BY <1>7, <4>2
      <4> QED BY <4>1, <4>2
    <3> QED BY <3>1, <3>2
  <2> QED BY <1>1, <1>5, <2>3, <2>4 DEF CopyOK
<1>13. ASSUME NEW n \in Modules, n # m PROVE CopyOK(n)' BY <1>1, <1>2, <1>3, <1>6, <1>7, <1>13, OthersKeep
<1> QED BY <1>7, <1>8, <1>9, <1>11, <1>12, <1>13 DEF RegistryInv, CopiesOK

\* The last copy is gone, and with it the library: no plugin of it is left.
LEMMA UnloadKeeps ==
  ASSUME RegistryInv, NEW t \in Threads, Unload(t)
  PROVE  RegistryInv'
<1> DEFINE e == Head(todo[t])
<1>1. Does(t, "unload") /\ Continue(t, <<>>) /\ UNCHANGED <<registry, active, moduleMutex, pluginPaths, started, ops>>
  BY DEF Unload
<1>2. /\ Turn(t, <<>>) /\ todo[t] # <<>> /\ JobsOf(t) = {e} /\ e.do = "unload" /\ e \in AllJobs
      /\ \A u \in Threads \ {t} : ~ Alone(u)
  BY <1>1, NoJobs, EndTurns DEF Ends
<1>3. PICK m \in Modules : e.path = <<m>> /\ e = Job("unload", <<m>>) BY <1>2, JobKinds
<1>4. module' = [module EXCEPT ![m] = "out"] /\ copies' = [copies EXCEPT ![m] = copies[m] - 1]
  BY <1>3, ModuleJobs DEF Unload
<1> HIDE DEF e
<1>5. /\ module[m] = "loaded" /\ m \notin Broken /\ copies[m] = 1 /\ Droppers(m) = {t} /\ Alone(t)
  BY <1>2, <1>3, DropperIs
<1>6. copies' \in [Modules -> 0..MaxCopies] /\ copies'[m] = 0 /\ \A n \in Modules \ {m} : copies'[n] = copies[n]
  <2>1. copies[m] - 1 = 0 /\ 0 \in 0..MaxCopies BY <1>5, RegistryAssumption
  <2> QED BY <1>4, <2>1 DEF RegistryInv, ShapesOK
<1>7. module' \in [Modules -> {"out", "loading", "loaded"}] /\ module'[m] = "out"
      /\ \A n \in Modules \ {m} : module'[n] = module[n]
  BY <1>4 DEF RegistryInv, ShapesOK
<1>8. TurnsOK' /\ PathsOK' /\ JobsOf(t)' = {} /\ ToSet(<<>>) = {} BY <1>2, TurnNothing
<1>9. ShapesOK' BY <1>1, <1>2, <1>6, <1>7, TurnShapes DEF RegistryInv, ShapesOK
<1>10. HandlersOK' /\ TablesOK' BY <1>2, TurnKeeps
<1>11. UNCHANGED <<plugin, association>> BY <1>1 DEF registry
<1>12. \A do2, p : Job(do2, p)' = Job(do2, p) BY DEF Job
<1>13. \A u \in Threads : \A n : Job("loaded", <<n>>) \notin JobsOf(u)
  <2>1. \A u \in Threads \ {t} : JobsOf(u) = {} BY <1>5, JobsIn DEF Alone, RegistryInv
  <2>2. \A n : Job("loaded", <<n>>) # e BY <1>2, JobFields
  <2> QED BY <1>2, <2>1, <2>2
<1>14. ASSUME NEW n \in Modules, NEW u \in Threads
       PROVE  Job("unload", <<n>>) \notin JobsOf(u)' /\ Job("loaded", <<n>>) \notin JobsOf(u)'
  <2>1. CASE u # t BY <1>2, <2>1, TurnBusy
  <2>2. CASE u = t BY <1>8, <2>2
  <2> QED BY <2>1, <2>2
<1>15. \A p \in Paths : plugin[p] # m
  <2>1. LoadedOK(m) /\ Job("unload", <<m>>) \in JobsOf(t) BY <1>2, <1>3 DEF RegistryInv, ModulesOK
  <2>2. \A p \in Paths : plugin[p] = m => Job("remove", p) \in JobsOf(t) BY <2>1 DEF LoadedOK
  <2>3. \A p : Job("remove", p) # e BY <1>2, JobFields
  <2> QED BY <1>2, <2>2, <2>3
<1>16. ASSUME NEW n \in Modules PROVE OwnersOK(n)' /\ LoadedOK(n)'
  <2>1. OwnersOK(n) /\ LoadedOK(n) BY DEF RegistryInv, ModulesOK
  <2>2. active = n => n \in Broken BY <1>13, <2>1 DEF OwnersOK
  <2>3. n = m \/ module'[n] = module[n] BY <1>7
  <2>4. OwnersOK(n)' BY <1>1, <1>11, <1>12, <1>15, <2>1, <2>2, <2>3 DEF OwnersOK
  <2>5. IsInjective(pluginPaths[n])' BY <1>1, <2>1 DEF LoadedOK, IsInjective
  <2>6. LoadedOK(n)' BY <1>1, <1>7, <1>11, <1>12, <1>14, <2>1, <2>3, <2>5 DEF LoadedOK
  <2> QED BY <2>4, <2>6
<1>17. CopyOK(m)'
  <2>1. Droppers(m)' = {}
    <3>1. t \notin Droppers(m)' BY <1>2, <1>8, TurnDroppers
    <3>2. Droppers(m)' \subseteq Threads BY <1>2, TurnDroppers
    <3>3. \A u \in Threads \ {t} : u \notin Droppers(m)' BY <1>2, <1>5, TurnDroppers
    <3> QED BY <3>1, <3>2, <3>3
  <2> QED BY <1>6, <1>7, <1>12, <1>14, <2>1 DEF CopyOK
<1>18. ASSUME NEW n \in Modules, n # m PROVE CopyOK(n)' BY <1>2, <1>3, <1>6, <1>7, <1>8, <1>18, OthersKeep
<1> QED BY <1>8, <1>9, <1>10, <1>16, <1>17, <1>18 DEF RegistryInv, CopiesOK, ModulesOK

\* One of several copies
LEMMA DropOne ==
  ASSUME RegistryInv, NEW t \in Threads, Does(t, "drop"), UNCHANGED <<registry, modules, started, ops>>,
         NEW m \in Modules, Head(todo[t]) = Job("drop", <<m>>), copies[m] # 1,
         NEW j, j = Job("decrement", <<m>>), Continue(t, <<j>>)
  PROVE  RegistryInv'
<1> DEFINE e == Head(todo[t])
<1>1. j \in AllJobs /\ <<j>> \in Seq(AllJobs) /\ j.do = "decrement" /\ j.path = <<m>> BY JobsAre, OneJob, JobFields
<1>2. /\ Turn(t, <<j>>) /\ JobsOf(t) = {e} /\ e.do = "drop" /\ e.path = <<m>>
      /\ \A u \in Threads \ {t} : ~ Alone(u)
  <2>1. UNCHANGED registry /\ UNCHANGED started /\ "drop" \in Ends /\ "drop" # "started" BY DEF Ends
  <2>2. /\ Turn(t, <<j>>) /\ JobsOf(t) = {Head(todo[t])} /\ Head(todo[t]).do = "drop"
        /\ \A u \in Threads \ {t} : ~ Alone(u)
    BY <1>1, <2>1, EndTurns
  <2>3. e.path = <<m>> BY JobFields
  <2> QED BY <2>2, <2>3
<1>3. e = Job("drop", <<m>>) OBVIOUS
<1> HIDE DEF e
<1> DEFINE D == Droppers(m)
<1>4. module[m] = "loaded" /\ t \in D /\ Cardinality(D) < copies[m] BY <1>2, <1>3, DropperIs
<1>5. TurnsOK' /\ PathsOK' /\ JobsOf(t)' = {j} /\ ToSet(<<j>>) = {j} BY <1>1, <1>2, TurnOne
<1>6. UNCHANGED <<active, moduleMutex, module, copies, pluginPaths>> BY DEF modules
<1>7. ShapesOK' BY <1>2, <1>6, TurnShapes DEF RegistryInv, ShapesOK
<1>8. HandlersOK' /\ TablesOK' BY <1>2, TurnKeeps
<1>9. \A n : /\ Job("loaded", <<n>>) # e /\ Job("loaded", <<n>>) # j /\ Job("unload", <<n>>) # j
             /\ Job("unload", <<n>>) # e
  BY <1>1, <1>2, JobFields
<1>10. ModulesOK' BY <1>2, <1>5, <1>6, <1>9, TurnModules
<1>11. D' = D BY <1>1, <1>2, <1>5, DroppersSame
<1>12. \A u \in Threads : Job("unload", <<m>>)' \notin JobsOf(u)'
  <2>1. Job("unload", <<m>>)' = Job("unload", <<m>>) BY DEF Job
  <2>2. ASSUME NEW u \in Threads PROVE Job("unload", <<m>>) \notin JobsOf(u)'
    <3>1. CASE u # t BY <1>2, <3>1, TurnBusy
    <3>2. CASE u = t BY <1>5, <1>9, <3>2
    <3> QED BY <3>1, <3>2
  <2> QED BY <2>1, <2>2
<1>13. CopyOK(m)' BY <1>4, <1>6, <1>11, <1>12 DEF CopyOK
<1>14. ASSUME NEW n \in Modules, n # m PROVE CopyOK(n)'
  <2>1. \A i \in ToSet(<<j>>) : i.do \in {"drop", "decrement", "unload"} => i.path = <<m>> BY <1>1, <1>5
  <2> QED BY <1>2, <1>3, <1>6, <1>14, <2>1, OthersKeep
<1> QED BY <1>5, <1>7, <1>8, <1>10, <1>13, <1>14 DEF RegistryInv, CopiesOK

\* The last copy: what the module has is removed before its library goes.
LEMMA DropLast ==
  ASSUME RegistryInv, NEW t \in Threads, Does(t, "drop"), UNCHANGED <<registry, modules, started, ops>>,
         NEW m \in Modules, Head(todo[t]) = Job("drop", <<m>>), copies[m] = 1,
         NEW end, end = Job("unload", <<m>>), NEW more, more = JobsThen("remove", pluginPaths[m], end), Continue(t, more)
  PROVE  RegistryInv'
<1> DEFINE e == Head(todo[t])
<1>1. end \in AllJobs /\ end.do = "unload" /\ end.path = <<m>> /\ end.do \in Ends /\ ~ Grows(end)
      /\ pluginPaths[m] \in Seq(Paths)
  BY JobsAre, JobFields DEF Ends, Grows, RegistryInv, ShapesOK
<1>2. /\ more \in Seq(AllJobs)
      /\ \A j : j \in ToSet(more) <=> j = end \/ \E p \in ToSet(pluginPaths[m]) : j = Job("remove", p)
      /\ \A i \in DOMAIN more : more[i].do \in Ends => i = Len(more)
      /\ \A j, k \in ToSet(more) : Grows(j) <=> Grows(k)
  BY <1>1, JobsEnd
<1>3. /\ Turn(t, more) /\ JobsOf(t) = {e} /\ e.do = "drop" /\ e.path = <<m>> /\ todo[t] # <<>>
      /\ \A u \in Threads \ {t} : ~ Alone(u)
  <2>1. UNCHANGED registry /\ UNCHANGED started /\ "drop" \in Ends /\ "drop" # "started" BY DEF Ends
  <2>2. /\ Turn(t, more) /\ JobsOf(t) = {Head(todo[t])} /\ Head(todo[t]).do = "drop" /\ todo[t] # <<>>
        /\ \A u \in Threads \ {t} : ~ Alone(u)
    BY <1>2, <2>1, EndTurns DEF Does
  <2>3. e.path = <<m>> BY JobFields
  <2> QED BY <2>2, <2>3
<1>4. e = Job("drop", <<m>>) OBVIOUS
<1> HIDE DEF e
<1> DEFINE D == Droppers(m)
<1>5. module[m] = "loaded" /\ m \notin Broken /\ D = {t} /\ Alone(t) BY <1>3, <1>4, DropperIs
<1>6. UNCHANGED <<active, moduleMutex, module, copies, pluginPaths>> BY DEF modules
<1>7. ShapesOK' BY <1>3, <1>6, TurnShapes DEF RegistryInv, ShapesOK
<1>8. HandlersOK' /\ TablesOK' BY <1>3, TurnKeeps
<1>9. TurnsOK' BY <1>2, <1>3, <1>5, TurnTurns
<1>10. JobsOf(t)' = ToSet(more) BY <1>3, TurnJobs DEF RegistryInv
<1>11. \A n : Job("loaded", <<n>>) \notin ToSet(more) /\ (Job("unload", <<n>>) \in ToSet(more) <=> n = m)
  <2>1. \A n, p : Job("unload", <<n>>) # Job("remove", p) /\ Job("loaded", <<n>>) # Job("remove", p) BY JobFields
  <2>2. \A n : Job("loaded", <<n>>) # end BY <1>1, JobFields
  <2>3. \A n : Job("unload", <<n>>) = end <=> n = m BY ModuleJobs
  <2> QED BY <1>2, <2>1, <2>2, <2>3
<1>12. \A n : Busy(t, n)' <=> n = m
  <2> SUFFICES ASSUME NEW n PROVE Busy(t, n)' <=> n = m OBVIOUS
  <2>1. Busy(t, n)' <=> Job("loaded", <<n>>) \in JobsOf(t)' \/ Job("unload", <<n>>) \in JobsOf(t)' BY DEF Busy, Job
  <2> QED BY <1>10, <1>11, <2>1
<1>13. OwnersOK(m) /\ LoadedOK(m) BY DEF RegistryInv, ModulesOK
<1>14. PathsOK'
  <2>1. ASSUME NEW p \in ToSet(pluginPaths[m]) PROVE PathOK(t, Job("remove", p))'
    <3> DEFINE j == Job("remove", p)
    <3>1. j.do = "remove" /\ j.path = p BY JobFields
    <3>2. p \in ToSet(Statics[m]) BY <1>5, <1>13 DEF LoadedOK
    <3>3. Mine(t, p)' BY <1>12, <3>2 DEF Mine
    <3>4. started' = TRUE BY <1>3 DEF Turn
    <3> HIDE DEF j
    <3>5. PathOK(t, j)' BY <1>12, <3>1, <3>2, <3>3, <3>4 DEF PathOK
    <3> QED BY <3>5 DEF j, Job
  <2>2. PathOK(t, end)' BY <1>1 DEF PathOK
  <2>3. ASSUME NEW j \in ToSet(more) PROVE PathOK(t, j)'
    <3>1. CASE j = end BY <2>2, <3>1
    <3>2. CASE j # end
      <4>1. PICK p \in ToSet(pluginPaths[m]) : j = Job("remove", p) BY <1>2, <3>2
      <4>2. PathOK(t, Job("remove", p))' BY <2>1
      <4> QED BY <4>1, <4>2 DEF Job
    <3> QED BY <3>1, <3>2
  <2> QED BY <1>3, <2>3, TurnPaths
<1>15. UNCHANGED <<plugin, association>> BY DEF registry
<1>16. \A do2, p : Job(do2, p)' = Job(do2, p) BY DEF Job
<1>17. ASSUME NEW n \in Modules, NEW u \in Threads
       PROVE  /\ Job("loaded", <<n>>) \notin JobsOf(u)' /\ Job("loaded", <<n>>) \notin JobsOf(u)
              /\ Job("unload", <<n>>) \in JobsOf(u)' <=> u = t /\ n = m
  <2>1. CASE u # t BY <1>3, <2>1, TurnBusy
  <2>2. CASE u = t
    <3>1. Job("loaded", <<n>>) # e BY <1>3, JobFields
    <3> QED BY <1>3, <1>10, <1>11, <2>2, <3>1
  <2> QED BY <2>1, <2>2
<1>18. ASSUME NEW n \in Modules PROVE OwnersOK(n)' /\ LoadedOK(n)'
  <2>1. OwnersOK(n) /\ LoadedOK(n) BY DEF RegistryInv, ModulesOK
  <2>2. OwnersOK(n)' BY <1>6, <1>15, <1>16, <1>17, <2>1 DEF OwnersOK
  <2>3. ASSUME NEW u \in Threads, Job("unload", <<n>>) \in JobsOf(u)', NEW p \in Paths, plugin[p] = n
        PROVE  Job("remove", p) \in JobsOf(u)'
    <3>1. u = t /\ n = m BY <1>17, <2>3
    <3>2. p \in ToSet(pluginPaths[m]) BY <1>5, <1>13, <2>3, <3>1 DEF LoadedOK
    <3> QED BY <1>2, <1>10, <3>1, <3>2
  <2>4. IsInjective(pluginPaths[n])' BY <1>6, <2>1 DEF LoadedOK, IsInjective
  <2>5. LoadedOK(n)' BY <1>6, <1>15, <1>16, <1>17, <2>1, <2>3, <2>4 DEF LoadedOK
  <2> QED BY <2>2, <2>5
<1>19. CopyOK(m)'
  <2>1. D' = {t}
    <3>1. t \in D' BY <1>1, <1>2, <1>3, TurnDroppers
    <3>2. D' \subseteq Threads BY <1>3, TurnDroppers
    <3>3. \A u \in Threads \ {t} : u \notin D' BY <1>3, <1>5, TurnDroppers
    <3> QED BY <3>1, <3>2, <3>3
  <2>2. Alone(t)' BY <1>3, <1>5, TurnJobs DEF Alone, RegistryInv
  <2>3. Job("unload", <<m>>)' \in JobsOf(t)' BY <1>2, <1>10, <1>16
  <2> QED BY <1>5, <1>6, <1>16, <1>17, <2>1, <2>2, <2>3 DEF CopyOK
<1>20. ASSUME NEW n \in Modules, n # m PROVE CopyOK(n)'
  <2>1. \A i \in ToSet(more) : i.do \in {"drop", "decrement", "unload"} => i.path = <<m>> BY <1>1, <1>2, JobFields
  <2> QED BY <1>3, <1>4, <1>6, <1>20, <2>1, OthersKeep
<1> QED BY <1>7, <1>8, <1>9, <1>14, <1>18, <1>19, <1>20 DEF RegistryInv, CopiesOK, ModulesOK

\* ~PluginModule.
LEMMA DropKeeps ==
  ASSUME RegistryInv, NEW t \in Threads, Drop(t)
  PROVE  RegistryInv'
<1> DEFINE e == Head(todo[t])
<1>1. Does(t, "drop") /\ UNCHANGED <<registry, modules, started, ops>> BY DEF Drop
<1>2. e \in AllJobs /\ e.do = "drop" BY <1>1, JobsIn DEF RegistryInv
<1>3. PICK m \in Modules : e.path = <<m>> /\ e = Job("drop", <<m>>) BY <1>2, JobKinds
<1>4. Continue(t, IF copies[m] = 1 THEN JobsThen("remove", pluginPaths[m], Job("unload", <<m>>))
                  ELSE <<Job("decrement", <<m>>)>>)
  BY <1>3, ModuleJobs DEF Drop, Unique, JobsThen
<1>5. CASE copies[m] = 1
  <2>1. PICK end, more : end = Job("unload", <<m>>) /\ more = JobsThen("remove", pluginPaths[m], end) OBVIOUS
  <2>2. Continue(t, more) BY <1>4, <1>5, <2>1
  <2> QED BY <1>1, <1>3, <1>5, <2>1, <2>2, DropLast
<1>6. CASE copies[m] # 1
  <2>1. PICK j : j = Job("decrement", <<m>>) OBVIOUS
  <2>2. Continue(t, <<j>>) BY <1>4, <1>6, <2>1
  <2> QED BY <1>1, <1>3, <1>6, <2>1, <2>2, DropOne
<1> QED BY <1>5, <1>6

-----------------------------------------------------------------------------
(* From the start on.                                                      *)

\* At the start Main has the static blocks of the runtime library to run, in any order.
LEMMA FirstJobs ==
  ASSUME Init
  PROVE  \E more : /\ todo = [t \in Threads |-> IF t = Main THEN more ELSE <<>>]
                   /\ more \in Seq(AllJobs) /\ Job("started", <<>>) \in ToSet(more)
                   /\ \A j \in ToSet(more) : j = Job("started", <<>>) \/ \E p \in Core : j = Job("add", p)
                   /\ \A i \in DOMAIN more : more[i].do \in Ends => i = Len(more)
                   /\ \A j, k \in ToSet(more) : Grows(j) <=> Grows(k)
<1>1. PICK order \in SetToSeqs(Core) :
        todo = [t \in Threads |-> IF t = Main THEN JobsThen("add", order, Job("started", <<>>)) ELSE <<>>]
  BY DEF Init, JobsThen
<1>2. Cardinality(Core) \in Nat /\ order \in [1..Cardinality(Core) -> Core]
  BY RegistryAssumption, FS_CardinalityType DEF SetToSeqs
<1>3. order \in Seq(Paths) /\ ToSet(order) \subseteq Core
  <2>1. Core \subseteq Paths BY RegistryAssumption
  <2>2. order \in [1..Cardinality(Core) -> Paths] BY <1>2, <2>1
  <2>3. order \in Seq(Paths) BY <1>2, <2>2, SeqDef
  <2> QED BY <1>2, <2>3 DEF ToSet
<1>4. PICK end, more : end = Job("started", <<>>) /\ more = JobsThen("add", order, end) OBVIOUS
<1>5. end \in AllJobs /\ end.do \in Ends /\ Grows(end) BY <1>4, JobsAre, JobFields DEF Ends, Grows
<1>6. /\ more \in Seq(AllJobs) /\ \A j : j \in ToSet(more) <=> j = end \/ \E p \in ToSet(order) : j = Job("add", p)
      /\ \A i \in DOMAIN more : more[i].do \in Ends => i = Len(more)
      /\ \A j, k \in ToSet(more) : Grows(j) <=> Grows(k)
  BY <1>3, <1>4, <1>5, JobsEnd
<1>7. todo = [t \in Threads |-> IF t = Main THEN more ELSE <<>>] BY <1>1, <1>4
<1>8. Job("started", <<>>) \in ToSet(more) BY <1>4, <1>6
<1>9. ASSUME NEW j \in ToSet(more) PROVE j = Job("started", <<>>) \/ \E p \in Core : j = Job("add", p)
  BY <1>3, <1>4, <1>6
<1> QED BY <1>6, <1>7, <1>8, <1>9

\* The invariant holds at the start.
LEMMA RegistryInit == ASSUME Init PROVE RegistryInv
<1>1. PICK more : /\ todo = [t \in Threads |-> IF t = Main THEN more ELSE <<>>]
                  /\ more \in Seq(AllJobs) /\ Job("started", <<>>) \in ToSet(more)
                  /\ \A j \in ToSet(more) : j = Job("started", <<>>) \/ \E p \in Core : j = Job("add", p)
                  /\ \A i \in DOMAIN more : more[i].do \in Ends => i = Len(more)
                  /\ \A j, k \in ToSet(more) : Grows(j) <=> Grows(k)
  BY FirstJobs
<1>2. /\ plugin = [p \in Paths |-> NoPlugin] /\ ordered = <<>> /\ started = FALSE /\ ops = 0
      /\ table = [h \in Handlers |-> [k \in AllKeys |-> Absent]]
      /\ active = NoModule /\ association = [m \in Modules \union {NoModule} |-> <<>>]
      /\ moduleMutex = FALSE /\ module = [m \in Modules |-> "out"]
      /\ copies = [m \in Modules |-> 0] /\ pluginPaths = [m \in Modules |-> <<>>]
  BY DEF Init
<1>3. /\ Main \in Threads /\ Core \subseteq Paths /\ NoModule \notin Modules /\ NoPlugin \notin Modules
      /\ MaxOps \in Nat /\ MaxCopies \in Nat \ {0} /\ Absent \notin Paths
  BY RegistryAssumption
<1>4. JobsOf(Main) = ToSet(more) /\ \A t \in Threads \ {Main} : JobsOf(t) = {} /\ todo[t] = <<>>
  BY <1>1, <1>3 DEF JobsOf, ToSet
<1>5. \A p : ~ Registered(p) \/ p \notin Paths BY <1>2 DEF Registered
<1>6. \A S : <<>> \in Seq(S) OBVIOUS
<1>7. IsInjective(<<>>) /\ ToSet(<<>>) = {} BY NoJobs DEF IsInjective
<1>8. ShapesOK
  <2>1. todo \in [Threads -> Seq(AllJobs)] BY <1>1, <1>6
  <2>2. plugin \in [Paths -> Modules \union {NoModule, NoPlugin}] /\ ordered \in Seq(Seq(STRING)) BY <1>2, <1>6
  <2>3. \A p \in Paths : Registered(p) => ToSet(NodesOf(p)) \subseteq ToSet(ordered) BY <1>5
  <2>4. table \in [Handlers -> [AllKeys -> Paths \union {Null, Absent}]] BY <1>2
  <2>5. /\ association \in [Modules \union {NoModule} -> Seq(Paths)] /\ pluginPaths \in [Modules -> Seq(Paths)]
        /\ copies \in [Modules -> 0..MaxCopies] /\ ops \in 0..MaxOps
    BY <1>2, <1>3, <1>6
  <2>6. module \in [Modules -> {"out", "loading", "loaded"}] BY <1>2
  <2> QED BY <1>2, <1>7, <2>1, <2>2, <2>3, <2>4, <2>5, <2>6 DEF ShapesOK
<1>9. ASSUME NEW t \in Threads, NEW m
      PROVE  Job("loaded", <<m>>) \notin JobsOf(t) /\ Job("unload", <<m>>) \notin JobsOf(t)
  <2>1. \A p : /\ Job("loaded", <<m>>) # Job("add", p) /\ Job("unload", <<m>>) # Job("add", p)
               /\ Job("loaded", <<m>>) # Job("started", <<>>) /\ Job("unload", <<m>>) # Job("started", <<>>)
    BY ModuleJobs
  <2> QED BY <1>1, <1>4, <2>1
<1>10. \A t \in Threads : \A m : ~ Busy(t, m) BY <1>9 DEF Busy
<1>11. TurnsOK
  <2>1. Alone(Main) /\ Job("started", <<>>) \in JobsOf(Main) BY <1>1, <1>4 DEF Alone
  <2>2. ASSUME NEW t \in Threads
        PROVE  /\ \A i \in DOMAIN todo[t] : todo[t][i].do \in Ends => i = Len(todo[t])
               /\ \A j, k \in JobsOf(t) : Grows(j) <=> Grows(k)
    <3>1. CASE t = Main
      <4>1. todo[t] = more /\ JobsOf(t) = ToSet(more) BY <1>1, <1>4, <3>1
      <4> QED BY <1>1, <4>1
    <3>2. CASE t # Main
      <4>1. todo[t] = <<>> /\ JobsOf(t) = {} BY <1>4, <3>2
      <4> QED BY <4>1
    <3> QED BY <3>1, <3>2
  <2> QED BY <1>10, <2>1, <2>2 DEF TurnsOK
<1>12. PathsOK
  <2>1. ASSUME NEW t \in Threads, NEW j \in JobsOf(t) PROVE PathOK(t, j)
    <3>1. t = Main /\ j \in ToSet(more) BY <1>4, <2>1
    <3>2. CASE j = Job("started", <<>>)
      <4>1. j.do = "started" BY <3>2, JobFields
      <4> QED BY <4>1 DEF PathOK
    <3>3. CASE j # Job("started", <<>>)
      <4>1. PICK p \in Core : j = Job("add", p) BY <1>1, <3>1, <3>3
      <4>2. j.do = "add" /\ j.path = p BY <4>1, JobFields
      <4>3. Mine(t, p) BY <1>2, <3>1 DEF Mine
      <4> QED BY <1>10, <4>2, <4>3 DEF PathOK
    <3> QED BY <3>2, <3>3
  <2> QED BY <2>1 DEF PathsOK
<1>13. ASSUME NEW m \in Modules PROVE OwnersOK(m) /\ LoadedOK(m)
  <2>1. \A p \in Paths : plugin[p] = NoPlugin /\ plugin[p] # m BY <1>2, <1>3
  <2>2. ToSet(Statics[m]) \subseteq Paths BY RegistryAssumption DEF ToSet
  <2>3. /\ association[m] = <<>> /\ pluginPaths[m] = <<>> /\ module[m] = "out" /\ active # m BY <1>2, <1>3
  <2>4. OwnersOK(m) BY <1>7, <2>1, <2>2, <2>3 DEF OwnersOK
  <2>5. LoadedOK(m) BY <1>7, <1>9, <2>3 DEF LoadedOK
  <2> QED BY <2>4, <2>5
<1>14. ASSUME NEW m \in Modules PROVE CopyOK(m)
  <2>1. Droppers(m) = {}
    <3>1. \A t \in Threads : \A j \in JobsOf(t) : j.do \notin {"drop", "decrement", "unload"} BY <1>1, <1>4, JobFields
    <3> QED BY <3>1 DEF Droppers
  <2> QED BY <1>2, <1>9, <2>1 DEF CopyOK
<1>15. HandlersOK BY <1>5 DEF HandlersOK, Below
<1>16. TablesOK BY <1>2, <1>3 DEF TablesOK
<1> QED BY <1>8, <1>11, <1>12, <1>13, <1>14, <1>15, <1>16 DEF RegistryInv, ModulesOK, CopiesOK

\* It holds after a step that changes nothing.
LEMMA RegistryStutters == ASSUME RegistryInv, UNCHANGED vars PROVE RegistryInv'
<1>1. /\ UNCHANGED <<plugin, ordered, table, association, active, moduleMutex, module, copies, pluginPaths>>
      /\ UNCHANGED <<todo, started, ops>>
  BY DEF vars, registry, modules
<1> USE DEF RegistryInv
<1>2. \A t : JobsOf(t)' = JobsOf(t) BY <1>1 DEF JobsOf
<1>3. \A do, p : Job(do, p)' = Job(do, p) BY DEF Job
<1>4. /\ \A t, m : Busy(t, m)' <=> Busy(t, m)
      /\ \A t : Alone(t)' <=> Alone(t)
      /\ \A p : Registered(p)' <=> Registered(p)
      /\ \A m : Droppers(m)' = Droppers(m)
  BY <1>1, <1>2, <1>3 DEF Busy, Alone, Registered, Droppers
<1>5. \A t, p : Mine(t, p)' <=> Mine(t, p) BY <1>1, <1>4 DEF Mine
<1>6. ShapesOK' BY <1>1, <1>4 DEF ShapesOK, AllJobs, Below, NodesOf, AllKeys
<1>7. TurnsOK' BY <1>1, <1>2, <1>3, <1>4 DEF TurnsOK
<1>8. PathsOK' BY <1>1, <1>2, <1>4, <1>5 DEF PathsOK, PathOK
<1>9. ModulesOK' BY <1>1, <1>2, <1>3 DEF ModulesOK, OwnersOK, LoadedOK
<1>10. CopiesOK' BY <1>1, <1>2, <1>3, <1>4 DEF CopiesOK, CopyOK
<1>11. HandlersOK'
  <2>1. ASSUME NEW h \in Handlers, NEW p \in Below(h), Registered(h)', Registered(p)' PROVE Told(h, p)'
    <3>1. Told(h, p) BY <1>4, <2>1 DEF HandlersOK
    <3>2. \A j : Tells(j, h, p)' <=> Tells(j, h, p) BY DEF Tells, EventJob, CallJob, WalkJob
    <3> QED BY <1>1, <1>2, <3>1, <3>2 DEF Told
  <2> QED BY <2>1, HandlersPrimed
<1>12. TablesOK'
  <2>1. ASSUME NEW h \in Handlers \intersect Core, NEW k \in AllKeys, NEW p \in Paths, table'[h][k] = p
        PROVE  EntryOK(h, k, p)'
    <3>1. EntryOK(h, k, p) BY <1>1, <2>1 DEF TablesOK
    <3>2. \A j : Untells(j, h, p)' <=> Untells(j, h, p) BY DEF Untells, EventJob, CallJob
    <3>3. Below(h)' = Below(h) BY DEF Below
    <3> QED BY <1>2, <1>4, <3>1, <3>2, <3>3 DEF EntryOK
  <2> QED BY <2>1, TablesPrimed
<1> QED BY <1>6, <1>7, <1>8, <1>9, <1>10, <1>11, <1>12

\* It holds after every step.
LEMMA RegistryKeeps == ASSUME RegistryInv, Separate, [Next]_vars PROVE RegistryInv'
<1>1. CASE UNCHANGED vars BY <1>1, RegistryStutters
<1>2. ASSUME NEW t \in Threads, Operation(t) PROVE RegistryInv'
  <2>1. ASSUME NEW p \in Users[t], UserAdd(t, p) \/ UserRemove(t, p) PROVE RegistryInv' BY <2>1, UsersKeep
  <2>2. ASSUME NEW m \in Modules, LoadModule(t, m) \/ LoadFails(t, m) \/ CopyModule(t, m) \/ DropCopy(t, m)
        PROVE  RegistryInv'
    BY <2>2, LoadModuleKeeps, LoadFailsKeeps, CopyModuleKeeps, DropCopyKeeps
  <2> QED BY <1>2, <2>1, <2>2 DEF Operation
<1>3. ASSUME NEW t \in Threads, Step(t) PROVE RegistryInv'
  BY <1>3, AddPluginKeeps, RemovePluginKeeps, RemoveThrowsKeeps, EventKeeps, CallKeeps, ListNodeKeeps, GetNodeKeeps,
     StartedKeeps, LoadedKeeps, DropKeeps, DecrementKeeps, UnloadKeeps DEF Step
<1> QED BY <1>1, <1>2, <1>3 DEF Next

\* No table of the runtime library has a plugin of a module that is out: it would be the path
\* of a thread that loads or unloads the module.
LEMMA SoundTables ==
  ASSUME RegistryInv, Separate, NEW m \in Modules, module[m] = "out", NEW h \in Handlers \intersect Core, NEW k \in AllKeys
  PROVE  table[h][k] \notin ToSet(Statics[m])
<1> SUFFICES ASSUME NEW p \in ToSet(Statics[m]), table[h][k] = p PROVE FALSE OBVIOUS
<1> USE DEF RegistryInv
<1>1. p \in Paths BY RegistryAssumption DEF ToSet
<1>2. EntryOK(h, k, p) BY <1>1 DEF TablesOK
<1>3. OwnersOK(m) /\ LoadedOK(m) /\ CopyOK(m) BY DEF ModulesOK, CopiesOK
<1>4. plugin[p] \in {NoPlugin} \union ({m} \ Broken) BY <1>3 DEF OwnersOK
<1>5. ~ Registered(p) BY <1>1, <1>3, <1>4 DEF OwnersOK, Registered
<1>6. PICK t \in Threads : \E j \in JobsOf(t) : Untells(j, h, p) BY <1>2, <1>5 DEF EntryOK
<1>7. PICK j \in JobsOf(t) : Untells(j, h, p) BY <1>6
<1>8. j.do \in {"event", "call"} /\ j.event = "remove" /\ j.path = p BY <1>7, JobFields DEF Untells
<1>9. Mine(t, p) BY <1>8 DEF PathsOK, PathOK
<1>10. p \notin Users[t] /\ p \notin Core BY DEF Separate
<1>11. PICK n \in Modules : p \in ToSet(Statics[n]) /\ Busy(t, n) BY <1>9, <1>10 DEF Mine
<1>12. n = m BY <1>11 DEF Separate
<1>13. Busy(t, m) BY <1>11, <1>12
<1>14. module[m] # "loading" /\ copies[m] = 0 BY <1>3 DEF CopyOK
<1>15. Job("loaded", <<m>>) \notin JobsOf(t) BY <1>3, <1>14 DEF LoadedOK
<1>16. Job("unload", <<m>>) \notin JobsOf(t) BY <1>3, <1>14 DEF CopyOK
<1> QED BY <1>13, <1>15, <1>16 DEF Busy

\* When nothing is under way, everything has been told.
LEMMA SoundInSync == ASSUME RegistryInv PROVE HandlersInSync
<1> USE DEF RegistryInv
<1> SUFFICES ASSUME Quiet, NEW h \in Handlers, plugin[h] # NoPlugin
             PROVE  /\ \A p \in Below(h) : plugin[p] # NoPlugin => \A k \in Keys[p] : table[h][k] = p
                    /\ h \in Core => \A k \in AllKeys :
                         table[h][k] \in {Null, Absent} \union {p \in Below(h) : plugin[p] # NoPlugin}
  BY DEF HandlersInSync
<1>1. \A t \in Threads : JobsOf(t) = {} BY JobsIn DEF Quiet
<1>2. ASSUME NEW p \in Below(h), plugin[p] # NoPlugin, NEW k \in Keys[p] PROVE table[h][k] = p
  <2>1. Told(h, p) BY <1>2 DEF HandlersOK, Registered
  <2> QED BY <1>1, <2>1 DEF Told
<1>3. ASSUME h \in Core, NEW k \in AllKeys
      PROVE  table[h][k] \in {Null, Absent} \union {p \in Below(h) : plugin[p] # NoPlugin}
  <2>1. table[h][k] \in Paths \union {Null, Absent} BY DEF ShapesOK
  <2>2. ASSUME NEW p \in Paths, table[h][k] = p PROVE p \in Below(h) /\ plugin[p] # NoPlugin
    <3>1. EntryOK(h, k, p) BY <1>3, <2>2 DEF TablesOK
    <3> QED BY <1>1, <3>1 DEF EntryOK, Registered
  <2> QED BY <2>1, <2>2
<1> QED BY <1>2, <1>3

\* What the invariant is for.
LEMMA RegistryImplies == ASSUME RegistryInv, Separate PROVE RegistrySound
<1> USE DEF RegistryInv
<1>1. \A m \in Modules : OwnersOK(m) /\ LoadedOK(m) /\ CopyOK(m) BY DEF ModulesOK, CopiesOK
<1>2. TypeOK
  <2>1. ASSUME NEW p \in Paths, plugin[p] # NoPlugin PROVE p \in ToSet(ordered)
    <3>1. p \in Seq(STRING) /\ p # <<>> BY RegistryAssumption
    <3>2. IsPrefix(p, p) BY <3>1, PrefixIs
    <3>3. p \in ToSet(NodesOf(p)) BY <3>1, <3>2, NodesAre
    <3> QED BY <2>1, <3>3 DEF ShapesOK, Registered
  <2>2. \A m \in Modules : IsInjective(pluginPaths[m]) BY <1>1 DEF LoadedOK
  <2> QED BY <2>1, <2>2 DEF TypeOK, ShapesOK
<1>3. HandlersInSync BY SoundInSync
<1>4. NoDanglingCode
  <2> SUFFICES ASSUME NEW m \in Modules, module[m] = "out"
               PROVE  /\ copies[m] = 0
                      /\ \A p \in Paths : plugin[p] = m => m \in Broken
                      /\ \A h \in Handlers \intersect Core : \A k \in AllKeys : table[h][k] \notin ToSet(Statics[m])
    BY DEF NoDanglingCode
  <2>1. copies[m] = 0 BY <1>1 DEF CopyOK
  <2>2. \A p \in Paths : plugin[p] = m => m \in Broken BY <1>1 DEF OwnersOK
  <2> QED BY <2>1, <2>2, SoundTables
<1>5. OwnPaths BY <1>1 DEF OwnPaths, LoadedOK
<1> QED BY <1>2, <1>3, <1>4, <1>5 DEF RegistrySound

(* RegistrySound, for any threads, paths, handlers, modules and orders of  *)
(* static blocks and any number of operations and copies: the tables of    *)
(* the event handlers follow the registry (handlePluginEvent and           *)
(* handleMissedSubTreeEvents), no plugin is left of a module that was      *)
(* unloaded, and a module removes its own paths only (~PluginModule).      *)
THEOREM RegistryIsSound ==
  ASSUME Separate
  PROVE  Spec => []RegistrySound
<1>1. Init => RegistryInv BY RegistryInit
<1>2. RegistryInv /\ [Next]_vars => RegistryInv' BY RegistryKeeps
<1>3. RegistryInv => RegistrySound BY RegistryImplies
<1> QED BY <1>1, <1>2, <1>3, PTL DEF Spec
=============================================================================
