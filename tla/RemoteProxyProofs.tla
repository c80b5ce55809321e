------------------------- MODULE RemoteProxyProofs --------------------------
(***************************************************************************)
(* Proofs about RemoteProxy, for any number of threads whose hashes        *)
(* differ, of requests and of handles, with and without a lost connection. *)
(***************************************************************************)
EXTENDS RemoteProxy, FiniteSetTheorems, TLAPS

\* The client's threads tell themselves apart by these hashes.
HashesDiffer == \A t, u \in Threads : Tid[t] = Tid[u] => t = u

PCs == {"idle", "loop", "towait", "waiting", "reading", "lock",
        "fail1", "fail2", "fail3", "return", "throw"}
Actions == Makes \union Queries \union Special
Msg == [action : Actions, id : Nat, tid : {Tid[t] : t \in Threads} \union {0}, key : Nat, arg : Nat]

\* What the variables hold.
Types ==
  /\ env \in {"none", "making", "up", "closing", "closed"}
  /\ connectionActive \in BOOLEAN /\ isBlocking \in BOOLEAN
  /\ up \in BOOLEAN /\ lost \in BOOLEAN /\ handler \in BOOLEAN
  /\ isMutex \in Threads \union {None}
  /\ tidToReply \subseteq Msg
  /\ pc \in [Threads -> PCs] /\ req \in [Threads -> Msg] /\ got \in [Threads -> Msg]
  /\ argument \in [Threads -> [at : {None, "convert", "drop", "call"}, handle : Nat, id : Nat]]
  /\ toServer \in Seq(Msg) /\ toClient \in Seq(Msg)
  /\ lastId \in Nat /\ requests \in Nat
  /\ handles \subseteq 1..lastId /\ objects \subseteq Nat /\ empties \subseteq objects

-----------------------------------------------------------------------------
(* Where the one message of each thread is.                                *)

\* In transact, without a reply.
Asking == {"loop", "towait", "waiting", "reading", "lock"}

\* t has left transact by an exception, or will, and sends no more requests: the
\* one that it has sent, or its reply, may still be under way.
Failed == {"fail1", "fail2", "fail3"}
Dead(t) == pc[t] \in Failed \union {"throw"} \/ (pc[t] = "idle" /\ ~ connectionActive)

\* m is about the request that its thread waits for, or has given up.
Current(m) ==
  \E t \in Threads : m.tid = Tid[t] /\ ((pc[t] \in Asking /\ m.id = req[t].id) \/ Dead(t))

\* The thread that reads, or has just failed to, has isBlocking set and is alone.
OneReader ==
  /\ \A t \in Threads : pc[t] \in {"reading", "lock", "fail1"} => isBlocking
  /\ \A t, u \in Threads :
       pc[t] \in {"reading", "lock", "fail1"} /\ pc[u] \in {"reading", "lock", "fail1"} => t = u

\* Requests in the stream are those their threads wait on, or have given up.
Pending(m) ==
  \E t \in Threads : m.tid = Tid[t] /\ ((pc[t] \in Asking /\ m = req[t]) \/ Dead(t))
RequestsCurrent == \A i \in 1..Len(toServer) : Pending(toServer[i])

\* A reply, in the stream, in the cache or read, is of such a request.
RepliesCurrent ==
  /\ \A i \in 1..Len(toClient) : Current(toClient[i])
  /\ \A r \in tidToReply : Current(r)
  /\ \A t \in Threads : pc[t] = "lock" => Current(got[t])
  /\ \A t \in Threads : pc[t] = "return" => got[t].tid = Tid[t] /\ got[t].id = req[t].id

\* No two messages are of the same thread.
StreamsOnce ==
  /\ \A i, j \in 1..Len(toServer) : toServer[i].tid = toServer[j].tid => i = j
  /\ \A i, j \in 1..Len(toClient) : toClient[i].tid = toClient[j].tid => i = j
  /\ \A i \in 1..Len(toServer), j \in 1..Len(toClient) : toServer[i].tid # toClient[j].tid
CacheOnce ==
  \A r \in tidToReply :
    /\ \A s \in tidToReply : r.tid = s.tid => r = s
    /\ \A i \in 1..Len(toServer) : r.tid # toServer[i].tid
    /\ \A i \in 1..Len(toClient) : r.tid # toClient[i].tid
    /\ \A t \in Threads : pc[t] = "lock" => got[t].tid # r.tid
    /\ \A t \in Threads : pc[t] \in {"reading", "lock"} => r.tid # Tid[t]
ReadOnce ==
  \A t \in Threads : pc[t] = "lock" =>
    /\ \A i \in 1..Len(toServer) : got[t].tid # toServer[i].tid
    /\ \A i \in 1..Len(toClient) : got[t].tid # toClient[i].tid

\* The stream has ended when the handler has, and nothing is left to handle; who
\* throws has marked the connection.
StreamLife ==
  /\ handler => up
  /\ lost => ~ up
  /\ ~ handler => toServer = <<>>
  /\ \A t \in Threads : pc[t] = "throw" => ~ connectionActive

Flow ==
  /\ OneReader /\ RequestsCurrent /\ RepliesCurrent
  /\ StreamsOnce /\ CacheOnce /\ ReadOnce /\ StreamLife

-----------------------------------------------------------------------------
(* Who owns the server's objects.                                          *)

Requests == {toServer[i] : i \in 1..Len(toServer)}
Replies ==
  {toClient[i] : i \in 1..Len(toClient)} \union tidToReply
    \union {got[t] : t \in {u \in Threads : pc[u] \in {"lock", "return"}}}

Creating == Makes \union {"call", "RemoteProxyEnvironment"}
Begins(m) == m.action = "RemoteProxyEnvironment"
Ends(m) == m.action = "~RemoteProxyEnvironment"
Destroys(m) == m.action = "~RemoteProxyHandle"

\* What the calls under way have to do with the environment.
EnvLife ==
  /\ env = "none" => connectionActive /\ lastId = 0 /\ \A t \in Threads : pc[t] = "idle"
  /\ env # "up" => handles = {}
  /\ env = "up" => lastId > 0
  /\ \A t \in Threads : pc[t] # "idle" =>
       CASE Begins(req[t]) -> env = "making"
         [] Ends(req[t]) -> env = "closing"
         [] OTHER -> env = "up"
  /\ env \in {"making", "closing"} =>
       \A t, u \in Threads : pc[t] # "idle" /\ pc[u] # "idle" => t = u

\* What the requests under way have: the first and the last are alone, and a
\* handle that is destroyed is destroyed once.
RequestKeys ==
  /\ \A t \in Threads : pc[t] # "idle" => req[t].tid = Tid[t]
  /\ \A m \in Requests :
       /\ Begins(m) => env \in {"making", "closed"} /\ lastId = 0 /\ Requests = {m}
       /\ Ends(m) => env \in {"closing", "closed"} /\ m.key = 0 /\ Requests = {m}
       /\ ~ Begins(m) => lastId > 0 /\ env # "making"
       /\ Destroys(m) => m.key \in 2..lastId /\ m.key \notin handles
       /\ \A n \in Requests : Destroys(m) /\ Destroys(n) /\ m.key = n.key => m = n

\* The keys of replies are new, or 0.
ReplyKeys ==
  /\ 1 \notin handles
  /\ \A m \in Replies :
       /\ m.key <= lastId /\ m.key \notin handles
       /\ m.key # 0 =>
            \A t \in Threads : m.tid = Tid[t] /\ pc[t] \in Asking \union {"return"} =>
              req[t].action \in Creating
       /\ m.key = 1 => env \in {"making", "closed"} /\ \A n \in Requests : ~ Ends(n)
       /\ env = "making" => m.key \in {0, 1}
       /\ \A n \in Replies : m.key = n.key /\ m.key # 0 => m = n
       /\ \A n \in Requests : Destroys(n) => m.key # n.key

\* A converted argument has a handle of its own until that is destroyed.
Arguments ==
  \A t \in Threads :
    /\ argument[t].at # None => argument[t].handle \in handles
    /\ argument[t].at = "convert" => pc[t] # "idle" /\ req[t].action = "convertObjectToProxy"
    /\ argument[t].at = "drop" =>
         /\ argument[t].id \in handles
         /\ \A u \in Threads :
              /\ argument[u].at # None => argument[u].handle # argument[t].id
              /\ argument[u].at = "drop" /\ argument[u].id = argument[t].id => u = t

\* The server keeps what the client owns or is about to own, to release, and
\* its environment.
Owned ==
  handles \union {m.key : m \in {n \in Replies : n.key # 0}}
    \union {m.key : m \in {n \in Requests : Destroys(n)}}
    \union (IF env = "up" \/ \E m \in Requests : Ends(m) THEN {1} ELSE {})

\* No read and no write has failed so far.
Healthy == connectionActive /\ \A t \in Threads : pc[t] \notin Failed

\* While the connection holds, what is owned is there, and until a read or a
\* write fails nothing else is.
Connected ==
  ~ lost =>
    /\ handler \/ env \in {"closing", "closed"}
    /\ Owned \subseteq objects \ empties
    /\ Healthy => objects \ empties = Owned

IInv == Types /\ Flow /\ EnvLife /\ RequestKeys /\ ReplyKeys /\ Arguments /\ Connected

-----------------------------------------------------------------------------
(* Facts about sequences.                                                  *)

\* A message at the end of a queue.
LEMMA AppendFacts ==
  ASSUME NEW S, NEW s \in Seq(S), NEW e \in S
  PROVE  /\ Append(s, e) \in Seq(S) /\ Len(Append(s, e)) = Len(s) + 1
         /\ \A i \in 1..Len(s) : Append(s, e)[i] = s[i]
         /\ Append(s, e)[Len(s) + 1] = e
OBVIOUS

\* A message taken from the front of a queue.
LEMMA TailFacts ==
  ASSUME NEW S, NEW s \in Seq(S), s # <<>>
  PROVE  /\ Head(s) \in S /\ Head(s) = s[1] /\ 1 \in 1..Len(s)
         /\ Tail(s) \in Seq(S) /\ Len(Tail(s)) = Len(s) - 1
         /\ \A i \in 1..(Len(s) - 1) : Tail(s)[i] = s[i + 1] /\ i + 1 \in 1..Len(s)
OBVIOUS

\* A stream that is cut loses its last messages.
LEMMA PrefixFacts ==
  ASSUME NEW S, NEW s \in Seq(S), NEW n \in 0..Len(s)
  PROVE  /\ SubSeq(s, 1, n) \in Seq(S) /\ Len(SubSeq(s, 1, n)) = n
         /\ \A i \in 1..n : SubSeq(s, 1, n)[i] = s[i] /\ i \in 1..Len(s)
OBVIOUS

\* The elements of a sequence after Append, and with its head apart.
LEMMA AppendRange ==
  ASSUME NEW S, NEW s \in Seq(S), NEW e \in S
  PROVE  {Append(s, e)[i] : i \in 1..Len(Append(s, e))} = {s[i] : i \in 1..Len(s)} \union {e}
<1>1. 1..(Len(s) + 1) = (1..Len(s)) \union {Len(s) + 1} OBVIOUS
<1> QED BY <1>1, AppendFacts

\* What is in a queue is in front of it or behind.
LEMMA TailRange ==
  ASSUME NEW S, NEW s \in Seq(S), s # <<>>
  PROVE  {s[i] : i \in 1..Len(s)} = {Tail(s)[i] : i \in 1..Len(Tail(s))} \union {Head(s)}
<1>1. \A i \in 1..Len(s) : i = 1 \/ i - 1 \in 1..(Len(s) - 1) OBVIOUS
<1>2. \A i \in 1..Len(s) : s[i] = Head(s) \/ \E j \in 1..Len(Tail(s)) : s[i] = Tail(s)[j]
  <2> TAKE i \in 1..Len(s)
  <2>1. CASE i = 1 BY <2>1, TailFacts
  <2>2. CASE i - 1 \in 1..(Len(s) - 1)
    <3>1. Tail(s)[i - 1] = s[(i - 1) + 1] BY <2>2, TailFacts
    <3> QED BY <2>2, <3>1, TailFacts, SMTT(40)
  <2> QED BY <1>1, <2>1, <2>2
<1>3. \A j \in 1..Len(Tail(s)) : \E i \in 1..Len(s) : Tail(s)[j] = s[i] BY TailFacts
<1>4. Head(s) = s[1] /\ 1 \in 1..Len(s) BY TailFacts
<1> QED BY <1>2, <1>3, <1>4

-----------------------------------------------------------------------------
(* Types and initial states.                                               *)

\* A reply has the thread and the number of its request.
LEMMA MsgFacts ==
  /\ NoReq \in Msg
  /\ \A r \in Msg, k \in Nat :
       /\ Reply(r, k) \in Msg /\ Reply(r, k).key = k /\ Reply(r, k).tid = r.tid
       /\ Reply(r, k).id = r.id
BY DEF NoReq, None, Msg, Actions, Special, Reply

\* Before the environment is made there is no message.
LEMMA InitIInv == Init => IInv
<1> SUFFICES ASSUME Init PROVE IInv OBVIOUS
<1>1. Types
  <2>1. <<>> \in Seq(Msg) OBVIOUS
  <2>2. req \in [Threads -> Msg] /\ got \in [Threads -> Msg] /\ pc \in [Threads -> PCs]
    BY MsgFacts DEF Init, PCs
  <2>3. argument \in [Threads -> [at : {None, "convert", "drop", "call"}, handle : Nat, id : Nat]]
    BY DEF Init, NoArgument
  <2> QED BY <2>1, <2>2, <2>3 DEF Init, Types
<1>2. toServer = <<>> /\ toClient = <<>> /\ Len(toServer) = 0 /\ Len(toClient) = 0 BY DEF Init
<1>3. Requests = {} /\ Replies = {} BY <1>2 DEF Requests, Replies, Init
<1>4. Flow
  BY <1>2 DEF Init, Flow, OneReader, RequestsCurrent, RepliesCurrent, StreamsOnce, CacheOnce,
              ReadOnce, StreamLife, Asking
<1>5. EnvLife /\ RequestKeys /\ ReplyKeys /\ Connected
  BY <1>3 DEF Init, EnvLife, RequestKeys, ReplyKeys, Connected, Owned
<1>6. Arguments BY DEF Init, Arguments, NoArgument, None
<1> QED BY <1>1, <1>4, <1>5, <1>6 DEF IInv

\* The request that Send makes.
Sent(t, action, key, arg) ==
  [action |-> action, id |-> requests + 1, tid |-> Tid[t], key |-> key, arg |-> arg]

\* A request is a message, with a number of its own.
LEMMA SendTypes ==
  ASSUME IInv, NEW t \in Threads, NEW action \in Actions, NEW key \in Nat, NEW arg \in Nat,
         Send(t, action, key, arg),
         env' \in {"none", "making", "up", "closing", "closed"}, handles' \subseteq handles,
         argument' \in [Threads -> [at : {None, "convert", "drop", "call"}, handle : Nat, id : Nat]]
  PROVE  Types' /\ Sent(t, action, key, arg) \in Msg
<1>1. requests \in Nat /\ requests' \in Nat BY DEF IInv, Types, Send
<1>2. Sent(t, action, key, arg) \in Msg BY <1>1 DEF Sent, Msg
<1>3. req' \in [Threads -> Msg] BY <1>2 DEF Send, Sent, IInv, Types
<1>4. toServer' \in Seq(Msg)
  <2>1. toServer' = toServer \/ toServer' = Append(toServer, Sent(t, action, key, arg))
    BY DEF Send, Sent
  <2>2. toServer \in Seq(Msg) BY DEF IInv, Types
  <2>3. Append(toServer, Sent(t, action, key, arg)) \in Seq(Msg) BY <1>2, <2>2, AppendFacts
  <2> QED BY <2>1, <2>2, <2>3
<1>5. pc' \in [Threads -> PCs] BY DEF Send, Goto, IInv, Types, PCs
<1>6. connectionActive' \in BOOLEAN BY DEF Send, IInv, Types
<1> QED BY <1>1, <1>2, <1>3, <1>4, <1>5, <1>6 DEF Send, IInv, Types, server

\* notify_all changes a waiting thread at most.
LEMMA NotifiedFacts ==
  ASSUME NEW map \in [Threads -> PCs]
  PROVE  /\ Notified(map) \in [Threads -> PCs]
         /\ \A u \in Threads :
              \/ map[u] # "waiting" /\ Notified(map)[u] = map[u]
              \/ map[u] = "waiting" /\ Notified(map)[u] = "loop"
BY DEF Notified, PCs

\* notify_all: those that wait look again, and nobody else moves.
LEMMA NotifiedStep ==
  ASSUME pc \in [Threads -> PCs], NEW t \in Threads, NEW l \in PCs \ {"waiting"},
         pc' = Notified([pc EXCEPT ![t] = l])
  PROVE  /\ pc'[t] = l
         /\ \A u \in Threads \ {t} : pc'[u] = pc[u] \/ (pc[u] = "waiting" /\ pc'[u] = "loop")
<1> DEFINE map == [pc EXCEPT ![t] = l]
<1>1. map \in [Threads -> PCs] /\ map[t] = l /\ \A u \in Threads \ {t} : map[u] = pc[u] OBVIOUS
<1>2. pc' = Notified(map) OBVIOUS
<1> HIDE DEF map
<1>3. \A u \in Threads :
        \/ map[u] # "waiting" /\ pc'[u] = map[u]
        \/ map[u] = "waiting" /\ pc'[u] = "loop"
  BY <1>1, <1>2, NotifiedFacts
<1> QED BY <1>1, <1>3

\* A step of transact keeps the types.
LEMMA TransactTypes ==
  ASSUME IInv, NEW t \in Threads, Transact(t)
  PROVE  Types'
<1> USE DEF IInv, Types, Inside, streams, server
<1>0. \A l \in PCs : [pc EXCEPT ![t] = l] \in [Threads -> PCs] OBVIOUS
<1>1. CASE TakeReply(t)
  <2>1. pc' \in [Threads -> PCs] BY <1>0, <1>1, NotifiedFacts DEF TakeReply, PCs
  <2> QED BY <1>1, <2>1 DEF TakeReply
<1>2. CASE BeginWait(t) BY <1>2 DEF BeginWait, Goto, PCs
<1>3. CASE Wait(t) BY <1>3 DEF Wait, Goto, PCs
<1>4. CASE BeginRead(t) BY <1>4 DEF BeginRead, Goto, PCs
<1>5. CASE Recv(t)
  <2>1. Head(toClient) \in Msg /\ toClient' \in Seq(Msg) BY <1>5, TailFacts DEF Recv
  <2> QED BY <1>5, <2>1 DEF Recv, Goto, PCs
<1>6. CASE RecvThrows(t)
  <2>1. toClient' = toClient \/ (toClient # <<>> /\ toClient' = Tail(toClient))
    BY <1>6 DEF RecvThrows, StreamEnds, NotUnderstood
  <2>2. toClient \in Seq(Msg) OBVIOUS
  <2>3. toClient # <<>> => Tail(toClient) \in Seq(Msg) BY <2>2, TailFacts
  <2>4. toClient' \in Seq(Msg) BY <2>1, <2>2, <2>3
  <2> QED BY <1>6, <2>4 DEF RecvThrows, Goto, PCs
<1>7. CASE Fail1(t) BY <1>7 DEF Fail1, Goto, PCs
<1>8. CASE Fail2(t)
  <2>1. pc' \in [Threads -> PCs] BY <1>0, <1>8, NotifiedFacts DEF Fail2, PCs
  <2> QED BY <1>8, <2>1 DEF Fail2
<1>9. CASE Fail3(t) BY <1>9 DEF Fail3, Goto, PCs
<1>10. CASE Sort(t)
  <2>1. pc' \in [Threads -> PCs] BY <1>0, <1>10, NotifiedFacts DEF Sort, PCs
  <2>2. tidToReply' \subseteq Msg BY <1>10 DEF Sort
  <2> QED BY <1>10, <2>1, <2>2 DEF Sort
<1> QED BY <1>1, <1>2, <1>3, <1>4, <1>5, <1>6, <1>7, <1>8, <1>9, <1>10 DEF Transact

-----------------------------------------------------------------------------
(* The messages, one action after the other.                               *)

\* No message is under way for t.
NoneFor(t) ==
  /\ \A i \in 1..Len(toServer) : toServer[i].tid # Tid[t]
  /\ \A i \in 1..Len(toClient) : toClient[i].tid # Tid[t]
  /\ \A r \in tidToReply : r.tid # Tid[t]
  /\ \A u \in Threads : pc[u] = "lock" => got[u].tid # Tid[t]

\* None is for a thread that neither waits for a reply nor has given up.
LEMMA NoMessage ==
  ASSUME Flow, HashesDiffer, NEW t \in Threads, pc[t] \notin Asking, ~ Dead(t)
  PROVE  NoneFor(t)
BY DEF Flow, RequestsCurrent, Pending, RepliesCurrent, Current, HashesDiffer, NoneFor

\* A request that is sent is the only message of its thread.
LEMMA SendFlow ==
  ASSUME IInv, HashesDiffer, NEW t \in Threads,
         NEW action \in Actions, NEW key \in Nat, NEW arg \in Nat,
         Send(t, action, key, arg), env \in {"none", "up"},
         Sent(t, action, key, arg) \in Msg
  PROVE  Flow'
<1> DEFINE r == Sent(t, action, key, arg)
<1>0. /\ pc[t] = "idle" /\ pc \in [Threads -> PCs] /\ req \in [Threads -> Msg]
      /\ got' = got /\ tidToReply' = tidToReply /\ toClient' = toClient
      /\ up' = up /\ lost' = lost /\ handler' = handler /\ isBlocking' = isBlocking
      /\ toServer \in Seq(Msg)
  BY DEF Send, IInv, Types, server
<1>1. /\ \A u \in Threads \ {t} : pc'[u] = pc[u] /\ req'[u] = req[u]
      /\ pc'[t] \in {"loop", "throw"} /\ req'[t] = r
      /\ pc'[t] = "loop" => connectionActive /\ connectionActive'
      /\ pc'[t] = "throw" => ~ connectionActive'
      /\ connectionActive' => connectionActive
  BY <1>0 DEF Send, Goto, Sent
<1>2. r.tid = Tid[t] BY DEF Sent
<1>3. /\ \A u \in Threads : Dead(u) => Dead(u)'
      /\ \A u \in Threads : pc[u] \in Asking => pc'[u] = pc[u] /\ req'[u] = req[u]
  BY <1>0, <1>1 DEF Dead, Asking, Failed
<1>4. /\ \A m : Current(m) => Current(m)'
      /\ \A m : Pending(m) => Pending(m)'
  BY <1>3 DEF Current, Pending
<1>5. \A u \in Threads : pc'[u] \in {"reading", "lock", "fail1", "return"} => u # t /\ pc[u] = pc'[u]
  BY <1>1
<1>6. OneReader' BY <1>0, <1>5 DEF IInv, Flow, OneReader
<1>7. RepliesCurrent'
  <2>1. \A i \in 1..Len(toClient) : Current(toClient[i])' BY <1>4, <1>0 DEF IInv, Flow, RepliesCurrent
  <2>2. \A s \in tidToReply : Current(s)' BY <1>4 DEF IInv, Flow, RepliesCurrent
  <2>3. \A u \in Threads : pc'[u] = "lock" => Current(got[u])'
    BY <1>4, <1>5, <1>0 DEF IInv, Flow, RepliesCurrent
  <2>4. \A u \in Threads : pc'[u] = "return" => got[u].tid = Tid[u] /\ got[u].id = req'[u].id
    BY <1>1, <1>5 DEF IInv, Flow, RepliesCurrent
  <2> QED BY <1>0, <2>1, <2>2, <2>3, <2>4 DEF RepliesCurrent, Current, Dead
<1>7a. \A u \in Threads : pc'[u] = "throw" => ~ connectionActive'
  BY <1>1 DEF IInv, Flow, StreamLife
<1>8. CASE pc'[t] = "loop" /\ up
  <2>0. NoneFor(t) BY <1>0, <1>1, <1>8, NoMessage DEF IInv, Asking, Dead, Failed
  <2>0a. /\ \A i \in 1..Len(toServer) : toServer[i].tid # Tid[t]
         /\ \A i \in 1..Len(toClient) : toClient[i].tid # Tid[t]
         /\ \A s \in tidToReply : s.tid # Tid[t]
         /\ \A u \in Threads : pc[u] = "lock" => got[u].tid # Tid[t]
    BY <2>0 DEF NoneFor
  <2>1. handler \/ toServer = <<>> BY DEF IInv, Flow, StreamLife
  <2>2. toServer' = Append(toServer, r)
    <3>1. pc' = [pc EXCEPT ![t] = "loop"] BY <1>0, <1>8 DEF Send, Goto
    <3> QED BY <1>0, <1>8 DEF Send, Sent, Goto
  <2>3. /\ Len(toServer') = Len(toServer) + 1 /\ Len(toServer) \in Nat
        /\ \A i \in 1..Len(toServer) : toServer'[i] = toServer[i]
        /\ toServer'[Len(toServer) + 1] = r
    BY <1>0, <2>2, AppendFacts
  <2>4. \A i \in 1..Len(toServer') : i \in 1..Len(toServer) \/ i = Len(toServer) + 1 BY <2>3
  <2>5. RequestsCurrent'
    <3>1. \A i \in 1..Len(toServer) : \E u \in Threads :
             /\ toServer[i].tid = Tid[u]
             /\ (pc'[u] \in Asking /\ toServer[i] = req'[u]) \/ Dead(u)'
      BY <1>4 DEF IInv, Flow, RequestsCurrent, Pending
    <3>2. \E u \in Threads : r.tid = Tid[u] /\ pc'[u] \in Asking /\ r = req'[u]
      BY <1>1, <1>2, <1>8 DEF Asking
    <3>3. \A i \in 1..Len(toServer') : \E u \in Threads :
             /\ toServer'[i].tid = Tid[u]
             /\ (pc'[u] \in Asking /\ toServer'[i] = req'[u]) \/ Dead(u)'
      BY <2>3, <2>4, <3>1, <3>2
    <3> QED BY <3>3 DEF RequestsCurrent, Pending
  <2>6. StreamsOnce'
    <3>0. \A i \in 1..Len(toServer') : toServer'[i].tid = Tid[t] \/ i \in 1..Len(toServer)
      BY <1>2, <2>3, <2>4
    <3>1. ASSUME NEW i \in 1..Len(toServer'), NEW j \in 1..Len(toServer'),
                 toServer'[i].tid = toServer'[j].tid
          PROVE  i = j
      <4>1. CASE i \in 1..Len(toServer) /\ j \in 1..Len(toServer)
        BY <2>3, <3>1, <4>1 DEF IInv, Flow, StreamsOnce
      <4>2. CASE i \in 1..Len(toServer) /\ j = Len(toServer) + 1 BY <1>2, <2>0a, <2>3, <3>1, <4>2
      <4>3. CASE j \in 1..Len(toServer) /\ i = Len(toServer) + 1 BY <1>2, <2>0a, <2>3, <3>1, <4>3
      <4> QED BY <2>4, <4>1, <4>2, <4>3
    <3>2. \A i \in 1..Len(toServer'), j \in 1..Len(toClient) : toServer'[i].tid # toClient[j].tid
      BY <2>0a, <2>3, <3>0 DEF IInv, Flow, StreamsOnce
    <3> QED BY <1>0, <3>1, <3>2 DEF IInv, Flow, StreamsOnce
  <2>7. CacheOnce'
    BY <1>0, <1>2, <2>0a, <1>5, <2>3, <2>4 DEF IInv, Flow, CacheOnce
  <2>8. ReadOnce' BY <1>0, <1>2, <2>0a, <1>5, <2>3, <2>4 DEF IInv, Flow, ReadOnce
  <2>9. StreamLife'
    <3>1. handler
      <4>1. handler \/ env \in {"closing", "closed"} \/ lost BY DEF IInv, Connected
      <4>2. lost => ~ up BY DEF IInv, Flow, StreamLife
      <4> QED BY <1>8, <4>1, <4>2
    <3> QED BY <1>0, <1>7a, <3>1 DEF IInv, Flow, StreamLife
  <2> QED BY <1>6, <1>7, <2>5, <2>6, <2>7, <2>8, <2>9 DEF Flow
<1>9. CASE ~ (pc'[t] = "loop" /\ up)
  <2>1. toServer' = toServer
    <3>1. CASE up
      <4>1. pc' # [pc EXCEPT ![t] = "loop"] BY <1>0, <1>9, <3>1
      <4> QED BY <4>1 DEF Send, Goto
    <3>2. CASE ~ up BY <3>2 DEF Send
    <3> QED BY <3>1, <3>2
  <2>2. RequestsCurrent'
    <3>1. \A i \in 1..Len(toServer) : Pending(toServer[i])'
      BY <1>4, <2>1 DEF IInv, Flow, RequestsCurrent
    <3> QED BY <2>1, <3>1 DEF RequestsCurrent, Pending, Dead
  <2>3. StreamsOnce' /\ StreamLife' BY <1>0, <1>7a, <2>1 DEF IInv, Flow, StreamsOnce, StreamLife
  <2>4. CacheOnce' /\ ReadOnce' BY <1>0, <1>5, <2>1 DEF IInv, Flow, CacheOnce, ReadOnce
  <2> QED BY <1>6, <1>7, <2>2, <2>3, <2>4 DEF Flow
<1> QED BY <1>8, <1>9

\* A step that moves no message and ends no wait, but by a failure: where a
\* thread stands in transact changes, no thread starts or stops reading but t.
LEMMA QuietFlow ==
  ASSUME IInv, UNCHANGED <<toServer, toClient, tidToReply, got, req, up, lost, handler>>,
         NEW t \in Threads, pc' \in [Threads -> PCs],
         \A u \in Threads \ {t} : pc'[u] = pc[u] \/ (pc[u] = "waiting" /\ pc'[u] = "loop"),
         pc[t] \in Asking => pc'[t] \in Asking \union Failed,
         pc[t] \in Failed => pc'[t] \in Failed \union {"throw"},
         pc[t] \in Asking \union Failed,
         pc'[t] \notin {"lock", "return"},
         pc'[t] = "reading" => \A r \in tidToReply : r.tid # Tid[t],
         pc'[t] = "throw" => ~ connectionActive', connectionActive' => connectionActive,
         OneReader'
  PROVE  Flow'
<1>1. /\ \A u \in Threads : pc[u] \in Asking => pc'[u] \in Asking \/ Dead(u)'
      /\ \A u \in Threads : Dead(u) => Dead(u)'
  BY DEF Asking, Dead, Failed
<1>2. \A u \in Threads : pc'[u] \in {"lock", "return"} => pc[u] = pc'[u] OBVIOUS
<1>3. /\ \A m : Current(m) => Current(m)'
      /\ \A m : Pending(m) => Pending(m)'
  BY <1>1 DEF Current, Pending
<1>4. RequestsCurrent'
  <2>1. \A i \in 1..Len(toServer) : Pending(toServer[i])' BY <1>3 DEF IInv, Flow, RequestsCurrent
  <2> QED BY <2>1 DEF RequestsCurrent, Pending
<1>5. RepliesCurrent'
  <2>1. \A i \in 1..Len(toClient) : Current(toClient[i])' BY <1>3 DEF IInv, Flow, RepliesCurrent
  <2>2. \A s \in tidToReply : Current(s)' BY <1>3 DEF IInv, Flow, RepliesCurrent
  <2>3. \A u \in Threads : pc'[u] = "lock" => Current(got[u])'
    BY <1>2, <1>3 DEF IInv, Flow, RepliesCurrent
  <2>4. \A u \in Threads : pc'[u] = "return" => got[u].tid = Tid[u] /\ got[u].id = req[u].id
    BY <1>2 DEF IInv, Flow, RepliesCurrent
  <2> QED BY <2>1, <2>2, <2>3, <2>4 DEF RepliesCurrent, Current
<1>6. StreamsOnce' BY DEF IInv, Flow, StreamsOnce
<1>6a. StreamLife'
  <2>1. \A u \in Threads : pc'[u] = "throw" => ~ connectionActive'
    BY DEF IInv, Flow, StreamLife
  <2> QED BY <2>1 DEF IInv, Flow, StreamLife
<1>7. CacheOnce' BY <1>2 DEF IInv, Flow, CacheOnce
<1>8. ReadOnce' BY <1>2 DEF IInv, Flow, ReadOnce
<1> QED BY <1>4, <1>5, <1>6, <1>6a, <1>7, <1>8 DEF Flow

\* A thread takes the reply that another one filed for it.
LEMMA TakeReplyFlow ==
  ASSUME IInv, HashesDiffer, NEW t \in Threads, TakeReply(t)
  PROVE  Flow'
<1> USE DEF IInv, Flow
<1>0. /\ pc[t] = "loop" /\ pc \in [Threads -> PCs] /\ got \in [Threads -> Msg]
      /\ UNCHANGED <<req, toServer, toClient, up, lost, handler, isBlocking, connectionActive>>
  BY DEF TakeReply, Types, Inside, streams, server
<1>1. PICK r \in tidToReply : /\ r.tid = Tid[t] /\ tidToReply' = tidToReply \ {r}
                             /\ got' = [got EXCEPT ![t] = r]
  BY DEF TakeReply
<1>3. /\ pc'[t] = "return" /\ got'[t] = r
      /\ \A u \in Threads \ {t} : got'[u] = got[u]
      /\ \A u \in Threads \ {t} : pc'[u] = pc[u] \/ (pc[u] = "waiting" /\ pc'[u] = "loop")
  BY <1>0, <1>1, NotifiedStep DEF TakeReply, PCs
<1>4. \A u \in Threads \ {t} :
        /\ pc'[u] \in {"reading", "lock", "return", "fail1"} => pc[u] = pc'[u]
        /\ pc[u] \in Asking => pc'[u] \in Asking
        /\ pc'[u] = "throw" => pc[u] = "throw"
        /\ Dead(u) => Dead(u)'
  BY <1>0, <1>3 DEF Asking, Dead, Failed
<1>5. r.id = req[t].id
  <2>1. ~ Dead(t) BY <1>0 DEF Dead, Failed
  <2> QED BY <1>1, <2>1 DEF RepliesCurrent, Current, HashesDiffer
<1>6. /\ \A m : Current(m) /\ m.tid # Tid[t] => Current(m)'
      /\ \A m : Pending(m) /\ m.tid # Tid[t] => Pending(m)'
  BY <1>0, <1>4 DEF Current, Pending
<1>7. /\ \A i \in 1..Len(toServer) : toServer[i].tid # Tid[t]
      /\ \A i \in 1..Len(toClient) : toClient[i].tid # Tid[t]
      /\ \A s \in tidToReply \ {r} : s.tid # Tid[t]
      /\ \A u \in Threads : pc[u] = "lock" => got[u].tid # Tid[t]
  BY <1>1 DEF CacheOnce
<1>8. OneReader' BY <1>0, <1>3, <1>4 DEF OneReader
<1>9. RequestsCurrent'
  <2>1. \A i \in 1..Len(toServer) : Pending(toServer[i])' BY <1>0, <1>6, <1>7 DEF RequestsCurrent
  <2> QED BY <1>0, <2>1 DEF RequestsCurrent, Pending
<1>10. RepliesCurrent'
  <2>1. \A i \in 1..Len(toClient) : Current(toClient[i])' BY <1>6, <1>7, <1>0 DEF RepliesCurrent
  <2>2. \A s \in tidToReply \ {r} : Current(s)' BY <1>6, <1>7 DEF RepliesCurrent
  <2>3. \A u \in Threads : pc'[u] = "lock" => u # t /\ Current(got[u])'
    BY <1>3, <1>4, <1>6, <1>7 DEF RepliesCurrent
  <2>4. \A u \in Threads : pc'[u] = "return" => got'[u].tid = Tid[u] /\ got'[u].id = req[u].id
    BY <1>1, <1>3, <1>4, <1>5 DEF RepliesCurrent
  <2> QED BY <1>0, <1>1, <1>3, <2>1, <2>2, <2>3, <2>4 DEF RepliesCurrent, Current
<1>11. StreamsOnce' /\ StreamLife' BY <1>0, <1>3, <1>4 DEF StreamsOnce, StreamLife
<1>12. CacheOnce' BY <1>0, <1>1, <1>3, <1>4 DEF CacheOnce
<1>13. ReadOnce' BY <1>0, <1>3, <1>4 DEF ReadOnce
<1> QED BY <1>8, <1>9, <1>10, <1>11, <1>12, <1>13

\* A thread reads the next reply from the stream.
LEMMA RecvFlow ==
  ASSUME IInv, HashesDiffer, NEW t \in Threads, Recv(t)
  PROVE  Flow'
<1> USE DEF IInv, Flow
<1> DEFINE m == Head(toClient)
<1>0. /\ pc[t] = "reading" /\ pc \in [Threads -> PCs] /\ got \in [Threads -> Msg]
      /\ UNCHANGED <<req, toServer, tidToReply, up, lost, handler, isBlocking, connectionActive>>
      /\ toClient \in Seq(Msg) /\ toClient # <<>> /\ toClient' = Tail(toClient)
  BY DEF Recv, Types, server
<1>1. /\ pc'[t] = "lock" /\ got'[t] = m
      /\ \A u \in Threads \ {t} : pc'[u] = pc[u] /\ got'[u] = got[u]
  BY <1>0 DEF Recv, Goto
<1>2. /\ m = toClient[1] /\ 1 \in 1..Len(toClient)
      /\ Len(toClient') = Len(toClient) - 1 /\ Len(toClient) \in Nat
      /\ \A i \in 1..Len(toClient') : toClient'[i] = toClient[i + 1] /\ i + 1 \in 1..Len(toClient)
  BY <1>0, TailFacts
<1>3. /\ \A u \in Threads : pc[u] \in Asking => pc'[u] \in Asking
      /\ \A u \in Threads : Dead(u) => Dead(u)'
      /\ \A n : Current(n) => Current(n)'
      /\ \A n : Pending(n) => Pending(n)'
  <2>1. /\ \A u \in Threads : pc[u] \in Asking => pc'[u] \in Asking
        /\ \A u \in Threads : Dead(u) => Dead(u)'
    BY <1>0, <1>1 DEF Asking, Dead, Failed
  <2> QED BY <1>0, <2>1 DEF Current, Pending
<1>4. \A u \in Threads \ {t} : pc[u] \notin {"reading", "lock", "fail1"} BY <1>0 DEF OneReader
<1>5. OneReader' BY <1>0, <1>1, <1>4 DEF OneReader
<1>6. RequestsCurrent' BY <1>0, <1>3 DEF RequestsCurrent
<1>7. RepliesCurrent'
  <2>1. \A i \in 1..Len(toClient') : Current(toClient'[i])
    BY <1>2 DEF RepliesCurrent
  <2>2. Current(m) BY <1>2 DEF RepliesCurrent
  <2>3. \A u \in Threads : pc'[u] = "lock" => u = t BY <1>1, <1>4
  <2>4. \A i \in 1..Len(toClient') : \E u \in Threads :
           /\ toClient'[i].tid = Tid[u]
           /\ (pc'[u] \in Asking /\ toClient'[i].id = req'[u].id) \/ Dead(u)'
    BY <2>1, <1>0, <1>3 DEF Current
  <2>5. \A r \in tidToReply : Current(r)' BY <1>3 DEF RepliesCurrent
  <2>6. \E u \in Threads :
           m.tid = Tid[u] /\ ((pc'[u] \in Asking /\ m.id = req'[u].id) \/ Dead(u)')
    BY <2>2, <1>0, <1>3 DEF Current
  <2>7. \A u \in Threads : pc'[u] = "return" => got'[u].tid = Tid[u] /\ got'[u].id = req'[u].id
    BY <1>0, <1>1 DEF RepliesCurrent
  <2> QED BY <1>0, <1>1, <2>3, <2>4, <2>5, <2>6, <2>7 DEF RepliesCurrent, Current
<1>8. StreamsOnce'
  <2>1. ASSUME NEW i \in 1..Len(toClient'), NEW j \in 1..Len(toClient'),
               toClient'[i].tid = toClient'[j].tid
        PROVE  i + 1 = j + 1
    <3>1. /\ toClient'[i] = toClient[i + 1] /\ i + 1 \in 1..Len(toClient)
          /\ toClient'[j] = toClient[j + 1] /\ j + 1 \in 1..Len(toClient)
      BY <1>2
    <3> QED BY <2>1, <3>1 DEF StreamsOnce
  <2>2. \A i, j \in 1..Len(toClient') : i + 1 = j + 1 => i = j OBVIOUS
  <2> QED BY <1>0, <1>2, <2>1, <2>2 DEF StreamsOnce
<1>9. StreamLife' BY <1>0, <1>1 DEF StreamLife
<1>10. CacheOnce' BY <1>0, <1>1, <1>2, <1>4 DEF CacheOnce
<1>11. ReadOnce'
  <2>1. \A i \in 1..Len(toClient') : m.tid # toClient'[i].tid
    <3> TAKE i \in 1..Len(toClient')
    <3>1. i + 1 # 1 /\ i + 1 \in 1..Len(toClient) /\ toClient'[i] = toClient[i + 1] BY <1>2
    <3> QED BY <1>2, <3>1 DEF StreamsOnce
  <2>2. \A i \in 1..Len(toServer) : m.tid # toServer[i].tid BY <1>2 DEF StreamsOnce
  <2> QED BY <1>0, <1>1, <1>4, <2>1, <2>2 DEF ReadOnce
<1> QED BY <1>5, <1>6, <1>7, <1>8, <1>9, <1>10, <1>11

\* The reply is the reader's own, or is filed for another.
LEMMA SortFlow ==
  ASSUME IInv, HashesDiffer, NEW t \in Threads, Sort(t)
  PROVE  Flow'
<1> USE DEF IInv, Flow
<1>0. /\ pc[t] = "lock" /\ pc \in [Threads -> PCs]
      /\ UNCHANGED <<req, toServer, toClient, got, up, lost, handler, connectionActive>> /\ isBlocking' = FALSE
  BY DEF Sort, Types, Inside, streams, server
<1>2. /\ pc'[t] = IF OwnTid(t) THEN "return" ELSE "loop"
      /\ \A u \in Threads \ {t} : pc'[u] = pc[u] \/ (pc[u] = "waiting" /\ pc'[u] = "loop")
  BY <1>0, NotifiedStep DEF Sort, PCs
<1>3. \A u \in Threads : pc'[u] \notin {"reading", "lock", "fail1"} BY <1>0, <1>2 DEF OneReader
<1>4. \A u \in Threads \ {t} :
        /\ pc[u] \in Asking => pc'[u] \in Asking
        /\ pc'[u] = "return" => pc[u] = "return"
        /\ pc'[u] = "throw" => pc[u] = "throw"
        /\ Dead(u) => Dead(u)'
  BY <1>0, <1>2 DEF Asking, Dead, Failed
<1>4a. ~ Dead(t) /\ pc'[t] # "throw" BY <1>0, <1>2 DEF Dead, Failed
<1>5. Current(got[t]) BY <1>0 DEF RepliesCurrent
<1>6. OneReader' BY <1>3 DEF OneReader
<1>7. StreamsOnce' /\ StreamLife' /\ ReadOnce' BY <1>0, <1>3, <1>4, <1>4a DEF StreamsOnce, StreamLife, ReadOnce
<1>8. CASE OwnTid(t)
  <2>0. tidToReply' = tidToReply /\ pc'[t] = "return" /\ got[t].tid = Tid[t]
    BY <1>2, <1>8 DEF Sort, OwnTid
  <2>1. /\ \A i \in 1..Len(toServer) : toServer[i].tid # Tid[t]
        /\ \A i \in 1..Len(toClient) : toClient[i].tid # Tid[t]
        /\ \A s \in tidToReply : s.tid # Tid[t]
    BY <1>0, <2>0 DEF ReadOnce, CacheOnce
  <2>2. /\ \A m : Current(m) /\ m.tid # Tid[t] => Current(m)'
        /\ \A m : Pending(m) /\ m.tid # Tid[t] => Pending(m)'
    BY <1>0, <1>4 DEF Current, Pending
  <2>3. got[t].id = req[t].id BY <1>4a, <1>5, <2>0 DEF Current, HashesDiffer
  <2>4. RequestsCurrent'
    <3>1. \A i \in 1..Len(toServer) : Pending(toServer[i])' BY <1>0, <2>1, <2>2 DEF RequestsCurrent
    <3> QED BY <1>0, <3>1 DEF RequestsCurrent, Pending
  <2>5. RepliesCurrent'
    <3>1. \A i \in 1..Len(toClient) : Current(toClient[i])' BY <2>1, <2>2, <1>0 DEF RepliesCurrent
    <3>2. \A s \in tidToReply : Current(s)' BY <2>1, <2>2 DEF RepliesCurrent
    <3>4. \A u \in Threads : pc'[u] = "return" => got[u].tid = Tid[u] /\ got[u].id = req[u].id
      BY <1>4, <2>0, <2>3 DEF RepliesCurrent
    <3> QED BY <1>0, <1>3, <2>0, <3>1, <3>2, <3>4 DEF RepliesCurrent, Current
  <2>6. CacheOnce' BY <1>0, <1>3, <2>0 DEF CacheOnce
  <2> QED BY <1>6, <1>7, <2>4, <2>5, <2>6
<1>9. CASE ~ OwnTid(t)
  <2>0. pc'[t] = "loop" /\ got[t].tid # Tid[t] BY <1>2, <1>9 DEF OwnTid
  <2>1. tidToReply' = tidToReply \union {got[t]} BY <1>0, <1>9 DEF Sort, CacheOnce
  <2>2. \A u \in Threads : pc[u] \in Asking => pc'[u] \in Asking BY <1>4, <2>0 DEF Asking
  <2>2a. \A u \in Threads : Dead(u) => Dead(u)' BY <1>4, <1>4a
  <2>3. /\ \A m : Current(m) => Current(m)'
        /\ \A m : Pending(m) => Pending(m)'
    BY <1>0, <2>2, <2>2a DEF Current, Pending
  <2>4. RequestsCurrent'
    <3>1. \A i \in 1..Len(toServer) : Pending(toServer[i])' BY <1>0, <2>3 DEF RequestsCurrent
    <3> QED BY <1>0, <3>1 DEF RequestsCurrent, Pending
  <2>5. RepliesCurrent'
    <3>1. \A i \in 1..Len(toClient) : Current(toClient[i])' BY <2>3, <1>0 DEF RepliesCurrent
    <3>2. \A s \in tidToReply' : Current(s) BY <1>5, <2>1 DEF RepliesCurrent
    <3>3. \A s \in tidToReply' : \E u \in Threads :
             s.tid = Tid[u] /\ ((pc'[u] \in Asking /\ s.id = req'[u].id) \/ Dead(u)')
      BY <3>2, <1>0, <2>2, <2>2a DEF Current
    <3>4. \A u \in Threads : pc'[u] = "return" => got[u].tid = Tid[u] /\ got[u].id = req[u].id
      BY <1>4, <2>0 DEF RepliesCurrent
    <3> QED BY <1>0, <1>3, <3>1, <3>3, <3>4 DEF RepliesCurrent, Current
  <2>6. /\ \A i \in 1..Len(toServer) : toServer[i].tid # got[t].tid
        /\ \A i \in 1..Len(toClient) : toClient[i].tid # got[t].tid
        /\ \A s \in tidToReply : s.tid # got[t].tid
    BY <1>0 DEF ReadOnce, CacheOnce
  <2>7. CacheOnce' BY <1>0, <1>3, <2>1, <2>6 DEF CacheOnce
  <2> QED BY <1>6, <1>7, <2>4, <2>5, <2>7
<1> QED BY <1>8, <1>9

\* A reply is read and not understood: the reader fails, and the reply is gone.
LEMMA NotUnderstoodFlow ==
  ASSUME IInv, NEW t \in Threads, RecvThrows(t), NotUnderstood(t)
  PROVE  Flow'
<1> USE DEF IInv, Flow
<1>0. /\ pc[t] = "reading" /\ pc \in [Threads -> PCs]
      /\ UNCHANGED <<req, got, toServer, tidToReply, up, lost, handler, isBlocking, connectionActive>>
      /\ toClient \in Seq(Msg) /\ toClient # <<>> /\ toClient' = Tail(toClient)
  BY DEF RecvThrows, NotUnderstood, Types, server
<1>1. pc'[t] = "fail1" /\ \A u \in Threads \ {t} : pc'[u] = pc[u] BY <1>0 DEF RecvThrows, Goto
<1>2. /\ Len(toClient') = Len(toClient) - 1 /\ Len(toClient) \in Nat
      /\ \A i \in 1..Len(toClient') : toClient'[i] = toClient[i + 1] /\ i + 1 \in 1..Len(toClient)
  BY <1>0, TailFacts
<1>3. /\ \A u \in Threads : pc[u] \in Asking => pc'[u] \in Asking \/ Dead(u)'
      /\ \A u \in Threads : Dead(u) => Dead(u)'
  BY <1>0, <1>1 DEF Asking, Dead, Failed
<1>4. \A u \in Threads \ {t} : pc[u] \notin {"reading", "lock", "fail1"} BY <1>0 DEF OneReader
<1>5. OneReader' BY <1>0, <1>1, <1>4 DEF OneReader
<1>6. RequestsCurrent' BY <1>0, <1>1, <1>3 DEF RequestsCurrent, Pending
<1>7. RepliesCurrent'
  <2>1. \A i \in 1..Len(toClient') : Current(toClient'[i]) BY <1>2 DEF RepliesCurrent
  <2>2. \A i \in 1..Len(toClient') : \E u \in Threads :
           /\ toClient'[i].tid = Tid[u]
           /\ (pc'[u] \in Asking /\ toClient'[i].id = req'[u].id) \/ Dead(u)'
    BY <2>1, <1>0, <1>3 DEF Current
  <2>3. \A r \in tidToReply : Current(r)' BY <1>0, <1>3 DEF RepliesCurrent, Current
  <2>4. \A u \in Threads : pc'[u] # "lock" BY <1>1, <1>4
  <2>5. \A u \in Threads : pc'[u] = "return" => got'[u].tid = Tid[u] /\ got'[u].id = req'[u].id
    BY <1>0, <1>1 DEF RepliesCurrent
  <2> QED BY <1>0, <2>2, <2>3, <2>4, <2>5 DEF RepliesCurrent, Current
<1>8. StreamsOnce'
  <2>1. ASSUME NEW i \in 1..Len(toClient'), NEW j \in 1..Len(toClient'),
               toClient'[i].tid = toClient'[j].tid
        PROVE  i + 1 = j + 1
    <3>1. /\ toClient'[i] = toClient[i + 1] /\ i + 1 \in 1..Len(toClient)
          /\ toClient'[j] = toClient[j + 1] /\ j + 1 \in 1..Len(toClient)
      BY <1>2
    <3> QED BY <2>1, <3>1 DEF StreamsOnce
  <2>2. \A i, j \in 1..Len(toClient') : i + 1 = j + 1 => i = j OBVIOUS
  <2> QED BY <1>0, <1>2, <2>1, <2>2 DEF StreamsOnce
<1>9. StreamLife' BY <1>0, <1>1 DEF StreamLife
<1>10. CacheOnce' BY <1>0, <1>1, <1>2, <1>4 DEF CacheOnce
<1>11. ReadOnce' BY <1>1, <1>4 DEF ReadOnce
<1> QED BY <1>5, <1>6, <1>7, <1>8, <1>9, <1>10, <1>11

\* The steps of transact keep the place of every request's one message.
LEMMA TransactFlow ==
  ASSUME IInv, HashesDiffer, NEW t \in Threads, Transact(t)
  PROVE  Flow'
<1> USE DEF Inside, streams, server
<1>0. pc \in [Threads -> PCs] /\ pc' \in [Threads -> PCs]
  <2>1. Types /\ Types' BY TransactTypes DEF IInv
  <2> QED BY <2>1 DEF Types
<1>a. OneReader BY DEF IInv, Flow
<1>1. CASE BeginWait(t)
  <2>1. pc'[t] = "towait" /\ pc[t] = "loop" /\ \A u \in Threads \ {t} : pc'[u] = pc[u]
    BY <1>0, <1>1 DEF BeginWait, Goto
  <2>2. UNCHANGED <<toServer, toClient, tidToReply, got, req, up, lost, handler, isBlocking, connectionActive>>
    BY <1>1 DEF BeginWait
  <2>3. OneReader' BY <1>a, <2>1, <2>2 DEF OneReader
  <2> QED BY <1>0, <2>1, <2>2, <2>3, QuietFlow DEF Asking, Failed
<1>2. CASE Wait(t)
  <2>1. pc'[t] = "waiting" /\ pc[t] = "towait" /\ \A u \in Threads \ {t} : pc'[u] = pc[u]
    BY <1>0, <1>2 DEF Wait, Goto
  <2>2. UNCHANGED <<toServer, toClient, tidToReply, got, req, up, lost, handler, isBlocking, connectionActive>>
    BY <1>2 DEF Wait
  <2>3. OneReader' BY <1>a, <2>1, <2>2 DEF OneReader
  <2> QED BY <1>0, <2>1, <2>2, <2>3, QuietFlow DEF Asking, Failed
<1>3. CASE BeginRead(t)
  <2>1. pc'[t] = "reading" /\ pc[t] = "loop" /\ \A u \in Threads \ {t} : pc'[u] = pc[u]
    BY <1>0, <1>3 DEF BeginRead, Goto
  <2>2. /\ UNCHANGED <<toServer, toClient, tidToReply, got, req, up, lost, handler, connectionActive>>
        /\ ~ isBlocking /\ isBlocking' /\ \A r \in tidToReply : r.tid # Tid[t]
    BY <1>3 DEF BeginRead, Blocked
  <2>3. OneReader' BY <1>a, <2>1, <2>2 DEF OneReader
  <2> QED BY <1>0, <2>1, <2>2, <2>3, QuietFlow DEF Asking, Failed
<1>4. CASE RecvThrows(t)
  <2>1. pc'[t] = "fail1" /\ pc[t] = "reading" /\ \A u \in Threads \ {t} : pc'[u] = pc[u]
    BY <1>0, <1>4 DEF RecvThrows, StreamEnds, NotUnderstood, Goto
  <2>2. UNCHANGED <<toServer, tidToReply, got, req, up, lost, handler, isBlocking, connectionActive>>
    BY <1>4 DEF RecvThrows
  <2>3. OneReader' BY <1>a, <2>1, <2>2 DEF OneReader
  <2>4. CASE StreamEnds(t)
    <3>1. toClient' = toClient BY <2>4 DEF StreamEnds
    <3> QED BY <1>0, <2>1, <2>2, <2>3, <3>1, QuietFlow DEF Asking, Failed
  <2>5. CASE NotUnderstood(t) BY <1>4, <2>5, NotUnderstoodFlow
  <2> QED BY <1>4, <2>4, <2>5 DEF RecvThrows
<1>5. CASE Fail1(t)
  <2>1. pc'[t] = "fail2" /\ pc[t] = "fail1" /\ \A u \in Threads \ {t} : pc'[u] = pc[u]
    BY <1>0, <1>5 DEF Fail1, Goto
  <2>2. UNCHANGED <<toServer, toClient, tidToReply, got, req, up, lost, handler, connectionActive>>
    BY <1>5 DEF Fail1
  <2>3. OneReader' BY <1>a, <2>1 DEF OneReader
  <2> QED BY <1>0, <2>1, <2>2, <2>3, QuietFlow DEF Asking, Failed
<1>6. CASE Fail2(t)
  <2>1. /\ pc'[t] = "fail3" /\ pc[t] = "fail2"
        /\ \A u \in Threads \ {t} : pc'[u] = pc[u] \/ (pc[u] = "waiting" /\ pc'[u] = "loop")
    BY <1>0, <1>6, NotifiedStep DEF Fail2, PCs
  <2>2. UNCHANGED <<toServer, toClient, tidToReply, got, req, up, lost, handler, isBlocking, connectionActive>>
    BY <1>6 DEF Fail2
  <2>3. OneReader' BY <1>a, <2>1, <2>2 DEF OneReader
  <2> QED BY <1>0, <2>1, <2>2, <2>3, QuietFlow DEF Asking, Failed
<1>7. CASE Fail3(t)
  <2>1. pc'[t] = "throw" /\ pc[t] = "fail3" /\ \A u \in Threads \ {t} : pc'[u] = pc[u]
    BY <1>0, <1>7 DEF Fail3, Goto
  <2>2. /\ UNCHANGED <<toServer, toClient, tidToReply, got, req, up, lost, handler, isBlocking>>
        /\ ~ connectionActive'
    BY <1>7 DEF Fail3
  <2>3. OneReader' BY <1>a, <2>1, <2>2 DEF OneReader
  <2> QED BY <1>0, <2>1, <2>2, <2>3, QuietFlow DEF Asking, Failed
<1>8. CASE TakeReply(t) BY <1>8, TakeReplyFlow
<1>9. CASE Recv(t) BY <1>9, RecvFlow
<1>10. CASE Sort(t) BY <1>10, SortFlow
<1> QED BY <1>1, <1>2, <1>3, <1>4, <1>5, <1>6, <1>7, <1>8, <1>9, <1>10 DEF Transact

\* transact is over: the thread's request and reply are forgotten.
LEMMA LeaveFlow ==
  ASSUME IInv, HashesDiffer, NEW t \in Threads, pc[t] \in {"return", "throw"},
         pc' = [pc EXCEPT ![t] = "idle"], req' = [req EXCEPT ![t] = NoReq],
         got' = [got EXCEPT ![t] = NoReq],
         UNCHANGED <<toServer, toClient, tidToReply, up, lost, handler, isBlocking, connectionActive>>
  PROVE  Flow'
<1> USE DEF IInv, Flow
<1>1. /\ pc'[t] = "idle"
      /\ \A u \in Threads \ {t} : pc'[u] = pc[u] /\ req'[u] = req[u] /\ got'[u] = got[u]
  BY DEF Types
<1>2. /\ \A u \in Threads : pc[u] \in Asking \union {"fail1"} => u # t
      /\ \A u \in Threads : Dead(u) => Dead(u)'
  BY <1>1 DEF Asking, Dead, Failed, StreamLife
<1>3. OneReader' BY <1>1 DEF OneReader
<1>4. RequestsCurrent' BY <1>1, <1>2 DEF RequestsCurrent, Pending
<1>5. \A m : Current(m) => Current(m)' BY <1>1, <1>2 DEF Current
<1>6. RepliesCurrent'
  <2>1. \A i \in 1..Len(toClient) : Current(toClient[i])' BY <1>5 DEF RepliesCurrent
  <2>2. \A s \in tidToReply : Current(s)' BY <1>5 DEF RepliesCurrent
  <2>3. \A u \in Threads : pc'[u] = "lock" => u # t /\ Current(got[u])'
    BY <1>1, <1>5 DEF RepliesCurrent
  <2>4. \A u \in Threads : pc'[u] = "return" => got'[u].tid = Tid[u] /\ got'[u].id = req'[u].id
    BY <1>1 DEF RepliesCurrent
  <2> QED BY <1>1, <2>1, <2>2, <2>3, <2>4 DEF RepliesCurrent, Current
<1>7. StreamsOnce' /\ StreamLife' BY <1>1 DEF StreamsOnce, StreamLife
<1>8. CacheOnce' BY <1>1 DEF CacheOnce
<1>9. ReadOnce' BY <1>1 DEF ReadOnce
<1> QED BY <1>3, <1>4, <1>6, <1>7, <1>8, <1>9

\* The handler turns the first request into its reply.
LEMMA AnswerFlow ==
  ASSUME IInv, HandlerRun, NEW key \in Nat, Answer(key), handler' => handler,
         handler' \/ toServer' = <<>>
  PROVE  Flow'
<1> USE DEF IInv, Flow
<1> DEFINE h == Head(toServer)
           r == Reply(h, key)
<1>0. /\ toServer \in Seq(Msg) /\ toServer # <<>> /\ toClient \in Seq(Msg) /\ handler
      /\ toServer' = Tail(toServer) /\ toClient' = Append(toClient, r)
      /\ UNCHANGED <<pc, req, got, tidToReply, isBlocking, up, lost, connectionActive>>
  BY DEF HandlerRun, Answer, Types, client
<1>1. /\ h = toServer[1] /\ 1 \in 1..Len(toServer) /\ h \in Msg
      /\ Len(toServer') = Len(toServer) - 1 /\ Len(toServer) \in Nat
      /\ \A i \in 1..Len(toServer') : toServer'[i] = toServer[i + 1] /\ i + 1 \in 1..Len(toServer)
  BY <1>0, TailFacts
<1>2. r \in Msg /\ r.tid = h.tid /\ r.id = h.id BY <1>1, MsgFacts
<1> HIDE DEF h, r
<1>3. /\ Len(toClient') = Len(toClient) + 1 /\ Len(toClient) \in Nat
      /\ \A i \in 1..Len(toClient) : toClient'[i] = toClient[i]
      /\ toClient'[Len(toClient) + 1] = r
  BY <1>0, <1>2, AppendFacts
<1>4. \A i \in 1..Len(toClient') : i \in 1..Len(toClient) \/ i = Len(toClient) + 1 BY <1>3
<1>5. /\ \A i \in 1..Len(toServer') : toServer'[i].tid # r.tid
      /\ \A i \in 1..Len(toClient) : toClient[i].tid # r.tid
      /\ \A s \in tidToReply : s.tid # r.tid
      /\ \A t \in Threads : pc[t] = "lock" => got[t].tid # r.tid
  <2>1. \A i \in 1..Len(toServer') : toServer'[i].tid # r.tid
    <3> TAKE i \in 1..Len(toServer')
    <3>1. i + 1 # 1 /\ i + 1 \in 1..Len(toServer) /\ toServer'[i] = toServer[i + 1] BY <1>1
    <3> QED BY <1>1, <1>2, <3>1 DEF StreamsOnce
  <2>2. \A i \in 1..Len(toClient) : toClient[i].tid # r.tid BY <1>1, <1>2 DEF StreamsOnce
  <2>3. \A s \in tidToReply : s.tid # r.tid BY <1>1, <1>2 DEF CacheOnce
  <2>4. \A t \in Threads : pc[t] = "lock" => got[t].tid # r.tid BY <1>1, <1>2 DEF ReadOnce
  <2> QED BY <2>1, <2>2, <2>3, <2>4
<1>6. OneReader' BY <1>0 DEF OneReader
<1>6a. \A u \in Threads : Dead(u)' = Dead(u) BY <1>0 DEF Dead
<1>7. RequestsCurrent'
  <2>1. \A i \in 1..Len(toServer') : Pending(toServer'[i]) BY <1>1 DEF RequestsCurrent
  <2> QED BY <1>0, <1>6a, <2>1 DEF RequestsCurrent, Pending
<1>8. RepliesCurrent'
  <2>1. Current(r) BY <1>1, <1>2 DEF RequestsCurrent, Pending, Current
  <2>2. \A i \in 1..Len(toClient') : Current(toClient'[i]) BY <1>3, <1>4, <2>1 DEF RepliesCurrent
  <2> QED BY <1>0, <1>6a, <2>2 DEF RepliesCurrent, Current
<1>9. StreamsOnce'
  <2>1. ASSUME NEW i \in 1..Len(toServer'), NEW j \in 1..Len(toServer'),
               toServer'[i].tid = toServer'[j].tid
        PROVE  i + 1 = j + 1
    <3>1. /\ toServer'[i] = toServer[i + 1] /\ i + 1 \in 1..Len(toServer)
          /\ toServer'[j] = toServer[j + 1] /\ j + 1 \in 1..Len(toServer)
      BY <1>1
    <3> QED BY <2>1, <3>1 DEF StreamsOnce
  <2>2. \A i, j \in 1..Len(toServer') : i + 1 = j + 1 => i = j OBVIOUS
  <2>3. ASSUME NEW i \in 1..Len(toClient'), NEW j \in 1..Len(toClient'),
               toClient'[i].tid = toClient'[j].tid
        PROVE  i = j
    <3>1. CASE i \in 1..Len(toClient) /\ j \in 1..Len(toClient) BY <1>3, <2>3, <3>1 DEF StreamsOnce
    <3>2. CASE i \in 1..Len(toClient) /\ j = Len(toClient) + 1 BY <1>3, <1>5, <2>3, <3>2
    <3>3. CASE j \in 1..Len(toClient) /\ i = Len(toClient) + 1 BY <1>3, <1>5, <2>3, <3>3
    <3> QED BY <1>4, <3>1, <3>2, <3>3
  <2>4. \A i \in 1..Len(toServer'), j \in 1..Len(toClient') : toServer'[i].tid # toClient'[j].tid
    <3> TAKE i \in 1..Len(toServer'), j \in 1..Len(toClient')
    <3>1. CASE j \in 1..Len(toClient) BY <1>1, <1>3, <3>1 DEF StreamsOnce
    <3>2. CASE j = Len(toClient) + 1 BY <1>3, <1>5, <3>2
    <3> QED BY <1>4, <3>1, <3>2
  <2> QED BY <2>1, <2>2, <2>3, <2>4 DEF StreamsOnce
<1>10. CacheOnce' BY <1>0, <1>1, <1>3, <1>4, <1>5 DEF CacheOnce
<1>11. ReadOnce'
  <2> SUFFICES ASSUME NEW t \in Threads, pc[t] = "lock"
               PROVE  /\ \A i \in 1..Len(toServer') : got[t].tid # toServer'[i].tid
                      /\ \A i \in 1..Len(toClient') : got[t].tid # toClient'[i].tid
    BY <1>0 DEF ReadOnce
  <2>1. \A i \in 1..Len(toServer') : got[t].tid # toServer'[i].tid BY <1>1 DEF ReadOnce
  <2>2. \A i \in 1..Len(toClient') : got[t].tid # toClient'[i].tid
    BY <1>3, <1>4, <1>5 DEF ReadOnce
  <2> QED BY <2>1, <2>2
<1>12. StreamLife' BY <1>0 DEF StreamLife
<1> QED BY <1>6, <1>7, <1>8, <1>9, <1>10, <1>11, <1>12

\* A connection that ends loses messages, and makes none.
LEMMA EndFlow ==
  ASSUME IInv, StreamEnd \/ LoseConnection
  PROVE  Flow'
<1> USE DEF IInv, Flow
<1>1. CASE StreamEnd
  <2>0. /\ UNCHANGED <<pc, req, got, tidToReply, isBlocking, toServer, toClient, lost, handler,
                       connectionActive>>
        /\ ~ handler /\ ~ up'
    BY <1>1 DEF StreamEnd, client, server
  <2>1. OneReader' /\ RequestsCurrent' /\ StreamLife'
    BY <2>0 DEF OneReader, RequestsCurrent, Pending, Dead, StreamLife
  <2>2. RepliesCurrent' BY <2>0 DEF RepliesCurrent, Current, Dead
  <2>3. StreamsOnce' /\ CacheOnce' /\ ReadOnce' BY <2>0 DEF StreamsOnce, CacheOnce, ReadOnce
  <2> QED BY <2>1, <2>2, <2>3
<1>2. CASE LoseConnection
  <2>0. /\ UNCHANGED <<pc, req, got, tidToReply, isBlocking, connectionActive>>
        /\ toServer' = <<>> /\ Len(toServer') = 0 /\ ~ up' /\ lost' /\ ~ handler'
    BY <1>2 DEF LoseConnection, client
  <2>1. PICK n \in 0..Len(toClient) : toClient' = SubSeq(toClient, 1, n)
    BY <1>2 DEF LoseConnection
  <2>2. /\ Len(toClient') = n
        /\ \A i \in 1..Len(toClient') : toClient'[i] = toClient[i] /\ i \in 1..Len(toClient)
    BY <2>1, PrefixFacts DEF Types
  <2>3. OneReader' /\ RequestsCurrent' /\ StreamLife'
    BY <2>0 DEF OneReader, RequestsCurrent, StreamLife
  <2>4. RepliesCurrent' BY <2>0, <2>2 DEF RepliesCurrent, Current, Dead
  <2>5. StreamsOnce' BY <2>0, <2>2 DEF StreamsOnce
  <2>6. CacheOnce' /\ ReadOnce' BY <2>0, <2>2 DEF CacheOnce, ReadOnce
  <2> QED BY <2>3, <2>4, <2>5, <2>6
<1> QED BY <1>1, <1>2

-----------------------------------------------------------------------------
(* The objects, one action after the other.                                *)

\* Where a reply may be.
LEMMA InReplies ==
  \A m : m \in Replies <=> \/ \E i \in 1..Len(toClient) : m = toClient[i]
                           \/ m \in tidToReply
                           \/ \E t \in Threads : pc[t] \in {"lock", "return"} /\ m = got[t]
BY DEF Replies

\* Each message under way has its thread.
LEMMA Owners ==
  ASSUME IInv
  PROVE  /\ \A m \in Requests : Pending(m)
         /\ \A m \in Replies : \E t \in Threads :
              m.tid = Tid[t] /\ (pc[t] \in Asking \union {"return"} \/ Dead(t))
<1>1. \A m \in Requests : Pending(m) BY DEF IInv, Flow, RequestsCurrent, Requests
<1>2. \A m \in Replies : \E t \in Threads :
        m.tid = Tid[t] /\ (pc[t] \in Asking \union {"return"} \/ Dead(t))
  <2>1. \A m : Current(m) => \E t \in Threads : m.tid = Tid[t] /\ (pc[t] \in Asking \/ Dead(t))
    BY DEF Current
  <2> QED BY <2>1, InReplies DEF IInv, Flow, RepliesCurrent
<1> QED BY <1>1, <1>2

\* All that is on its way is a message.
LEMMA MessageTypes ==
  ASSUME IInv
  PROVE  Requests \subseteq Msg /\ Replies \subseteq Msg /\ \A m \in Msg : m.key \in Nat
<1>1. \A i \in 1..Len(toServer) : toServer[i] \in Msg BY DEF IInv, Types
<1>2. \A i \in 1..Len(toClient) : toClient[i] \in Msg BY DEF IInv, Types
<1>3. Requests \subseteq Msg BY <1>1 DEF Requests
<1>4. Replies \subseteq Msg
  <2>1. tidToReply \subseteq Msg /\ \A t \in Threads : got[t] \in Msg BY DEF IInv, Types
  <2> QED BY <1>2, <2>1, InReplies
<1>5. \A m \in Msg : m.key \in Nat BY DEF Msg
<1> QED BY <1>3, <1>4, <1>5

\* A step of transact moves or loses replies and changes nothing of the rest.
LEMMA KeysKept ==
  ASSUME IInv, UNCHANGED <<env, handles, argument, req, objects, empties, lastId, toServer>>,
         Replies' \subseteq Replies,
         \A t \in Threads : pc'[t] = "idle" <=> pc[t] = "idle",
         \A t \in Threads : pc'[t] \in Asking \union {"return"} => pc[t] \in Asking \union {"return"},
         connectionActive' = connectionActive \/ \E t \in Threads : pc[t] # "idle"
  PROVE  /\ EnvLife' /\ RequestKeys' /\ ReplyKeys' /\ Arguments'
         /\ Requests' = Requests /\ Owned' \subseteq Owned
         /\ Replies' = Replies => Owned' = Owned
<1>1. Requests' = Requests BY DEF Requests
<1>2. EnvLife' BY <1>1 DEF IInv, EnvLife, Begins, Ends
<1>3. RequestKeys' BY <1>1 DEF IInv, RequestKeys, Begins, Ends, Destroys
<1>4. ReplyKeys' BY <1>1 DEF IInv, ReplyKeys, Ends, Destroys
<1>5. Arguments' BY DEF IInv, Arguments
<1>6. Owned' \subseteq Owned /\ (Replies' = Replies => Owned' = Owned)
  BY <1>1 DEF Owned, Destroys, Ends
<1> QED BY <1>1, <1>2, <1>3, <1>4, <1>5, <1>6

\* It moves the replies within Replies, and loses one that is not understood.
LEMMA RepliesMoved ==
  ASSUME IInv, NEW t \in Threads, Transact(t)
  PROVE  Replies' \subseteq Replies /\ (~ RecvThrows(t) => Replies' = Replies)
<1> USE DEF Inside, streams, server
<1>0. pc \in [Threads -> PCs] /\ got \in [Threads -> Msg] BY DEF IInv, Types
<1>1. CASE TakeReply(t)
  <2>1. PICK r \in tidToReply : tidToReply' = tidToReply \ {r} /\ got' = [got EXCEPT ![t] = r]
    BY <1>1 DEF TakeReply
  <2>2. /\ pc[t] = "loop" /\ pc'[t] = "return" /\ toClient' = toClient
        /\ \A u \in Threads \ {t} : pc'[u] = pc[u] \/ (pc[u] = "waiting" /\ pc'[u] = "loop")
    BY <1>0, <1>1, NotifiedStep DEF TakeReply, PCs
  <2>3. got'[t] = r /\ \A u \in Threads \ {t} : got'[u] = got[u] BY <1>0, <2>1
  <2>4. tidToReply = tidToReply' \union {got'[t]} BY <2>1, <2>3
  <2> DEFINE R == {got[u] : u \in {v \in Threads : pc[v] \in {"lock", "return"}}}
  <2>5. R' = R \union {got'[t]} BY <2>2, <2>3
  <2> QED BY <2>2, <2>4, <2>5 DEF Replies
<1>2. CASE BeginWait(t) BY <1>0, <1>2 DEF BeginWait, Goto, Replies
<1>3. CASE Wait(t) BY <1>0, <1>3 DEF Wait, Goto, Replies
<1>4. CASE BeginRead(t) BY <1>0, <1>4 DEF BeginRead, Goto, Replies
<1>5. CASE Recv(t)
  <2> DEFINE C == {toClient[i] : i \in 1..Len(toClient)}
             R == {got[u] : u \in {v \in Threads : pc[v] \in {"lock", "return"}}}
  <2>1. /\ pc[t] = "reading" /\ pc'[t] = "lock" /\ got'[t] = Head(toClient)
        /\ \A u \in Threads \ {t} : pc'[u] = pc[u] /\ got'[u] = got[u]
        /\ tidToReply' = tidToReply
    BY <1>0, <1>5 DEF Recv, Goto
  <2>2. C = C' \union {got'[t]}
    <3>1. toClient \in Seq(Msg) /\ toClient # <<>> /\ toClient' = Tail(toClient)
      BY <1>5 DEF Recv, IInv, Types
    <3>2. C = {Tail(toClient)[i] : i \in 1..Len(Tail(toClient))} \union {Head(toClient)}
      BY <3>1, TailRange
    <3> QED BY <2>1, <3>1, <3>2
  <2>3. R' = R \union {got'[t]} BY <2>1
  <2> QED BY <2>1, <2>2, <2>3 DEF Replies
<1>6. CASE RecvThrows(t)
  <2>1. /\ pc[t] = "reading" /\ pc'[t] = "fail1" /\ \A u \in Threads \ {t} : pc'[u] = pc[u]
        /\ tidToReply' = tidToReply /\ got' = got
    BY <1>0, <1>6 DEF RecvThrows, StreamEnds, NotUnderstood, Goto
  <2>2. {toClient'[i] : i \in 1..Len(toClient')} \subseteq {toClient[i] : i \in 1..Len(toClient)}
    <3>1. CASE StreamEnds(t) BY <3>1 DEF StreamEnds
    <3>2. CASE NotUnderstood(t)
      <4>1. toClient \in Seq(Msg) /\ toClient # <<>> /\ toClient' = Tail(toClient)
        BY <3>2 DEF NotUnderstood, IInv, Types
      <4>2. {toClient[i] : i \in 1..Len(toClient)}
              = {Tail(toClient)[i] : i \in 1..Len(Tail(toClient))} \union {Head(toClient)}
        BY <4>1, TailRange
      <4> QED BY <4>1, <4>2
    <3> QED BY <1>6, <3>1, <3>2 DEF RecvThrows
  <2>3. {got'[u] : u \in {v \in Threads : pc'[v] \in {"lock", "return"}}}
          = {got[u] : u \in {v \in Threads : pc[v] \in {"lock", "return"}}}
    BY <2>1
  <2> QED BY <1>6, <2>1, <2>2, <2>3 DEF Replies
<1>7. CASE Fail1(t) BY <1>0, <1>7 DEF Fail1, Goto, Replies
<1>8. CASE Fail2(t)
  <2>1. /\ pc'[t] = "fail3" /\ pc[t] = "fail2"
        /\ \A u \in Threads \ {t} : pc'[u] = pc[u] \/ (pc[u] = "waiting" /\ pc'[u] = "loop")
    BY <1>0, <1>8, NotifiedStep DEF Fail2, PCs
  <2> QED BY <1>8, <2>1 DEF Fail2, Replies
<1>9. CASE Fail3(t) BY <1>0, <1>9 DEF Fail3, Goto, Replies
<1>10. CASE Sort(t)
  <2>1. /\ pc[t] = "lock" /\ pc'[t] = IF OwnTid(t) THEN "return" ELSE "loop"
        /\ \A u \in Threads \ {t} : pc'[u] = pc[u] \/ (pc[u] = "waiting" /\ pc'[u] = "loop")
        /\ toClient' = toClient /\ got' = got
    BY <1>0, <1>10, NotifiedStep DEF Sort, PCs
  <2> DEFINE R == {got[u] : u \in {v \in Threads : pc[v] \in {"lock", "return"}}}
  <2>2. CASE OwnTid(t)
    <3>1. tidToReply' = tidToReply BY <1>10, <2>2 DEF Sort
    <3>2. R' = R BY <2>1, <2>2
    <3> QED BY <2>1, <3>1, <3>2 DEF Replies
  <2>3. CASE ~ OwnTid(t)
    <3>1. tidToReply' = tidToReply \union {got[t]}
      BY <1>10, <2>1, <2>3 DEF Sort, IInv, Flow, CacheOnce
    <3>2. R = R' \union {got[t]} BY <2>1, <2>3
    <3> QED BY <2>1, <3>1, <3>2 DEF Replies
  <2> QED BY <2>2, <2>3
<1> QED BY <1>1, <1>2, <1>3, <1>4, <1>5, <1>6, <1>7, <1>8, <1>9, <1>10 DEF Transact

\* transact
LEMMA TransactIInv ==
  ASSUME IInv, HashesDiffer, NEW t \in Threads, Transact(t)
  PROVE  IInv'
<1>0. Types' /\ Flow' BY TransactTypes, TransactFlow
<1>1. UNCHANGED <<env, handles, argument, req, objects, empties, lastId, toServer, lost, handler>>
  BY DEF Transact, TakeReply, BeginWait, Wait, BeginRead, Recv, RecvThrows, Fail1, Fail2, Fail3, Sort,
         Inside, streams, server
<1>2. Replies' \subseteq Replies /\ (~ RecvThrows(t) => Replies' = Replies) BY RepliesMoved
<1>3. /\ pc[t] \in Asking \union Failed /\ pc'[t] # "idle"
      /\ pc'[t] \in Asking \union {"return"} => pc[t] \in Asking
      /\ RecvThrows(t) => pc'[t] \in Failed
      /\ pc[t] \in Failed => pc'[t] \in Failed \/ ~ connectionActive'
      /\ connectionActive' = connectionActive \/ (pc[t] = "fail3" /\ ~ connectionActive')
      /\ \A u \in Threads \ {t} : pc'[u] = pc[u] \/ (pc[u] = "waiting" /\ pc'[u] = "loop")
  <2> USE DEF IInv, Types, Asking, Failed, Inside
  <2>0. ASSUME NEW l \in PCs \ {"waiting"}, pc' = Notified([pc EXCEPT ![t] = l])
        PROVE  /\ pc'[t] = l
               /\ \A u \in Threads \ {t} : pc'[u] = pc[u] \/ (pc[u] = "waiting" /\ pc'[u] = "loop")
    BY <2>0, NotifiedStep
  <2>1. CASE TakeReply(t)
    <3>1. pc[t] = "loop" /\ ~ RecvThrows(t) /\ connectionActive' = connectionActive
          /\ pc' = Notified([pc EXCEPT ![t] = "return"]) /\ "return" \in PCs \ {"waiting"}
      BY <2>1 DEF TakeReply, RecvThrows, StreamEnds, NotUnderstood, PCs
    <3> QED BY <2>0, <3>1
  <2>2. CASE BeginWait(t) BY <2>2 DEF BeginWait, RecvThrows, StreamEnds, NotUnderstood, Goto
  <2>3. CASE Wait(t) BY <2>3 DEF Wait, RecvThrows, StreamEnds, NotUnderstood, Goto
  <2>4. CASE BeginRead(t) BY <2>4 DEF BeginRead, RecvThrows, StreamEnds, NotUnderstood, Goto
  <2>5. CASE Recv(t) BY <2>5 DEF Recv, RecvThrows, StreamEnds, NotUnderstood, Goto
  <2>6. CASE RecvThrows(t) BY <2>6 DEF RecvThrows, StreamEnds, NotUnderstood, Goto
  <2>7. CASE Fail1(t) BY <2>7 DEF Fail1, RecvThrows, StreamEnds, NotUnderstood, Goto
  <2>8. CASE Fail2(t)
    <3>1. pc[t] = "fail2" /\ ~ RecvThrows(t) /\ connectionActive' = connectionActive
          /\ pc' = Notified([pc EXCEPT ![t] = "fail3"]) /\ "fail3" \in PCs \ {"waiting"}
      BY <2>8 DEF Fail2, RecvThrows, StreamEnds, NotUnderstood, PCs
    <3> QED BY <2>0, <3>1
  <2>9. CASE Fail3(t) BY <2>9 DEF Fail3, RecvThrows, StreamEnds, NotUnderstood, Goto
  <2>10. CASE Sort(t)
    <3>1. PICK l \in {"return", "loop"} : pc' = Notified([pc EXCEPT ![t] = l])
      BY <2>10 DEF Sort
    <3>2. pc[t] = "lock" /\ ~ RecvThrows(t) /\ connectionActive' = connectionActive /\ l \in PCs \ {"waiting"}
      BY <2>10 DEF Sort, RecvThrows, StreamEnds, NotUnderstood, PCs
    <3> QED BY <2>0, <3>1, <3>2
  <2> QED BY <2>1, <2>2, <2>3, <2>4, <2>5, <2>6, <2>7, <2>8, <2>9, <2>10 DEF Transact
<1>4. \A u \in Threads : pc'[u] = "idle" <=> pc[u] = "idle" BY <1>3 DEF Asking, Failed
<1>5. /\ EnvLife' /\ RequestKeys' /\ ReplyKeys' /\ Arguments' /\ Owned' \subseteq Owned
      /\ Replies' = Replies => Owned' = Owned
  <2>1. \A u \in Threads : pc'[u] \in Asking \union {"return"} => pc[u] \in Asking \union {"return"}
    BY <1>3 DEF Asking
  <2>2. connectionActive' = connectionActive \/ \E u \in Threads : pc[u] # "idle" BY <1>3
  <2> QED BY <1>1, <1>2, <1>4, <2>1, <2>2, KeysKept
<1>6. Connected'
  <2> SUFFICES ASSUME ~ lost PROVE Connected' BY <1>1 DEF Connected
  <2>1. Healthy' => Healthy /\ ~ RecvThrows(t)
    <3>1. Healthy' => connectionActive
      BY <1>3 DEF Healthy
    <3>2. Healthy' => pc[t] \notin Failed /\ ~ RecvThrows(t) BY <1>3 DEF Healthy
    <3>3. Healthy' => \A u \in Threads \ {t} : pc[u] \notin Failed BY <1>3 DEF Healthy, Failed
    <3> QED BY <3>1, <3>2, <3>3 DEF Healthy
  <2>2. Owned' \subseteq objects \ empties BY <1>5 DEF IInv, Connected
  <2>3. Healthy' => objects \ empties = Owned' BY <1>2, <1>5, <2>1 DEF IInv, Connected
  <2> QED BY <1>1, <2>2, <2>3 DEF IInv, Connected
<1> QED BY <1>0, <1>5, <1>6 DEF IInv

\* What a call of transact adds to the messages.
LEMMA SendSets ==
  ASSUME IInv, HashesDiffer, NEW t \in Threads,
         NEW action \in Actions, NEW key \in Nat, NEW arg \in Nat,
         Send(t, action, key, arg), env \in {"none", "up"}, Sent(t, action, key, arg) \in Msg
  PROVE  /\ \/ Requests' = Requests
            \/ connectionActive /\ Requests' = Requests \union {Sent(t, action, key, arg)}
         /\ ~ lost /\ connectionActive' => Requests' = Requests \union {Sent(t, action, key, arg)}
         /\ Replies' = Replies
         /\ pc[t] = "idle" /\ pc'[t] \in {"loop", "throw"} /\ req'[t] = Sent(t, action, key, arg)
         /\ pc'[t] = "loop" => \A m \in Replies : m.tid # Tid[t]
         /\ \A u \in Threads \ {t} : pc'[u] = pc[u] /\ req'[u] = req[u]
         /\ UNCHANGED <<objects, empties, lastId, lost, handler>>
         /\ connectionActive' => connectionActive
<1> DEFINE r == Sent(t, action, key, arg)
<1>0. /\ pc[t] = "idle" /\ pc \in [Threads -> PCs] /\ req \in [Threads -> Msg]
      /\ got' = got /\ tidToReply' = tidToReply /\ toClient' = toClient
      /\ toServer \in Seq(Msg) /\ UNCHANGED <<objects, empties, lastId, lost, handler>>
  BY DEF Send, IInv, Types, server
<1>1. /\ \A u \in Threads \ {t} : pc'[u] = pc[u] /\ req'[u] = req[u]
      /\ pc'[t] \in {"loop", "throw"} /\ req'[t] = r
      /\ pc'[t] = "loop" => connectionActive /\ connectionActive'
      /\ connectionActive' => connectionActive
  BY <1>0 DEF Send, Goto, Sent
<1>2. pc'[t] = "loop" => \A m \in Replies : m.tid # Tid[t]
  <2>1. pc'[t] = "loop" => ~ Dead(t) BY <1>0, <1>1 DEF Dead, Failed
  <2> QED BY <1>0, <2>1, Owners DEF HashesDiffer, Asking
<1>3. Replies' = Replies BY <1>0, <1>1 DEF Replies
<1>4. \/ toServer' = toServer /\ (~ connectionActive' \/ ~ up)
      \/ connectionActive /\ toServer' = Append(toServer, r)
  BY DEF Send, Sent
<1>5. lost \/ up
  <2>1. handler \/ env \in {"closing", "closed"} \/ lost BY DEF IInv, Connected
  <2> QED BY <2>1 DEF IInv, Flow, StreamLife
<1>6. toServer' = Append(toServer, r) => Requests' = Requests \union {r}
  BY <1>0, AppendRange DEF Requests
<1>7. toServer' = toServer => Requests' = Requests BY DEF Requests
<1> QED BY <1>0, <1>1, <1>2, <1>3, <1>4, <1>5, <1>6, <1>7

\* A connection that holds stays one.
LEMMA SendConnected ==
  ASSUME IInv, HashesDiffer, NEW t \in Threads,
         NEW action \in Actions, NEW key \in Nat, NEW arg \in Nat,
         Send(t, action, key, arg), env \in {"none", "up"}, Sent(t, action, key, arg) \in Msg,
         Owned' \subseteq Owned, ~ lost /\ connectionActive' => Owned' = Owned
  PROVE  Connected'
<1> SUFFICES ASSUME ~ lost PROVE Connected' BY SendSets DEF Connected
<1>1. handler /\ Owned \subseteq objects \ empties /\ (Healthy => objects \ empties = Owned)
  BY DEF IInv, Connected
<1>2. UNCHANGED <<objects, empties, handler>> BY SendSets
<1>3. Healthy' => Healthy /\ connectionActive'
  <2>1. /\ pc[t] = "idle" /\ \A u \in Threads \ {t} : pc'[u] = pc[u]
        /\ connectionActive' => connectionActive
    BY SendSets
  <2> QED BY <2>1 DEF Healthy, Failed
<1> QED BY <1>1, <1>2, <1>3 DEF Connected

\* Nothing is on its way when nothing has failed and no thread waits.
LEMMA IdleEmpty ==
  ASSUME IInv, \A t \in Threads : pc[t] = "idle", connectionActive
  PROVE  Requests = {} /\ Replies = {}
BY Owners DEF Pending, Asking, Dead, Failed

\* The kinds of requests are different.
LEMMA SpecialFacts ==
  /\ Special \cap Makes = {} /\ Special \cap Queries = {} /\ Makes \cap Queries = {}
  /\ {"call", "RemoteProxyEnvironment", "~RemoteProxyEnvironment", "~RemoteProxyHandle"} \subseteq Special
  /\ "convertObjectToProxy" \in Makes /\ Special \subseteq Actions /\ Makes \subseteq Actions
  /\ Queries \subseteq Actions
BY RemoteAssumption DEF Special, Actions

\* Without handles there are no arguments.
LEMMA NoArguments ==
  ASSUME IInv, handles = {}
  PROVE  \A t \in Threads : argument[t].at = None
BY DEF IInv, Arguments

\* RemoteProxyEnvironment's constructor
LEMMA MakeEnvironmentIInv ==
  ASSUME IInv, HashesDiffer, NEW t \in Threads, MakeEnvironment(t)
  PROVE  IInv'
<1> DEFINE r == Sent(t, "RemoteProxyEnvironment", 0, 0)
<1>0. /\ Send(t, "RemoteProxyEnvironment", 0, 0) /\ env = "none" /\ env' = "making"
      /\ handles' = handles /\ argument' = argument
      /\ "RemoteProxyEnvironment" \in Actions /\ 0 \in Nat
  BY SpecialFacts DEF MakeEnvironment
<1>1. Types' /\ r \in Msg
  <2>1. argument' \in [Threads -> [at : {None, "convert", "drop", "call"}, handle : Nat, id : Nat]]
    BY <1>0 DEF IInv, Types
  <2> QED BY <1>0, <2>1, SendTypes
<1>2. Flow' BY <1>0, <1>1, SendFlow
<1>3. /\ connectionActive /\ lastId = 0 /\ handles = {} /\ \A u \in Threads : pc[u] = "idle"
  BY <1>0 DEF IInv, EnvLife, Types
<1>4. Requests = {} /\ Replies = {} BY <1>3, IdleEmpty
<1>5. /\ Requests' \subseteq {r} /\ Replies' = {} /\ pc'[t] # "idle" /\ req'[t] = r
      /\ \A u \in Threads \ {t} : pc'[u] = "idle"
      /\ UNCHANGED <<objects, empties, lastId>>
  BY <1>0, <1>1, <1>3, <1>4, SendSets
<1>6. Begins(r) /\ ~ Ends(r) /\ ~ Destroys(r) /\ r.tid = Tid[t]
  BY DEF Sent, Begins, Ends, Destroys
<1>6a. Arguments' BY <1>0, <1>3, NoArguments DEF Arguments, None
<1> HIDE DEF r
<1>7. EnvLife' BY <1>0, <1>3, <1>5, <1>6 DEF EnvLife, Begins, Ends
<1>8. RequestKeys' BY <1>0, <1>3, <1>5, <1>6 DEF RequestKeys, Begins, Ends, Destroys
<1>9. ReplyKeys' BY <1>0, <1>3, <1>5 DEF ReplyKeys
<1>10. Owned = {} /\ Owned' = {} BY <1>0, <1>3, <1>4, <1>5, <1>6 DEF Owned, Ends, Destroys
<1>11. Connected' BY <1>0, <1>1, <1>10, SendConnected DEF r
<1> QED BY <1>1, <1>2, <1>6a, <1>7, <1>8, <1>9, <1>11 DEF IInv

\* A call while the environment is up; a handle that it destroys is the client's.
LEMMA CallIInv ==
  ASSUME IInv, HashesDiffer, NEW t \in Threads,
         NEW action \in Makes \union Queries \union {"call", "~RemoteProxyHandle"},
         NEW key \in Nat, NEW arg \in Nat, Send(t, action, key, arg), env = "up", env' = env,
         handles' = IF action = "~RemoteProxyHandle" THEN handles \ {key} ELSE handles,
         action = "~RemoteProxyHandle" => key \in handles,
         argument' \in [Threads -> [at : {None, "convert", "drop", "call"}, handle : Nat, id : Nat]],
         Arguments'
  PROVE  IInv'
<1> DEFINE r == Sent(t, action, key, arg)
<1>0. action \in Actions BY SpecialFacts
<1>1. Types' /\ r \in Msg
  <2>1. handles' \subseteq handles OBVIOUS
  <2>2. env' \in {"none", "making", "up", "closing", "closed"} OBVIOUS
  <2> QED BY <1>0, <2>1, <2>2, SendTypes
<1>2. Flow' BY <1>0, <1>1, SendFlow
<1>3. /\ Requests' = Requests \/ Requests' = Requests \union {r}
      /\ ~ lost /\ connectionActive' => Requests' = Requests \union {r}
      /\ Replies' = Replies /\ pc'[t] \in {"loop", "throw"} /\ req'[t] = r
      /\ pc'[t] = "loop" => \A m \in Replies : m.tid # Tid[t]
      /\ \A u \in Threads \ {t} : pc'[u] = pc[u] /\ req'[u] = req[u]
      /\ UNCHANGED <<objects, empties, lastId>>
  BY <1>0, <1>1, SendSets
<1>4. r.action = action /\ r.key = key /\ r.tid = Tid[t] BY DEF Sent
<1>5. ~ Begins(r) /\ ~ Ends(r) /\ (Destroys(r) <=> action = "~RemoteProxyHandle")
  BY <1>4, SpecialFacts DEF Begins, Ends, Destroys
<1> HIDE DEF r
<1>6. handles \subseteq 2..lastId /\ lastId \in Nat /\ lastId > 0 /\ handles' \subseteq handles
  BY DEF IInv, Types, ReplyKeys, EnvLife
<1>7. \A m \in Requests : ~ Begins(m) /\ ~ Ends(m) /\ (Destroys(m) => m.key \notin handles)
  BY DEF IInv, RequestKeys
<1>8. EnvLife'
  <2>1. \A u \in Threads : pc'[u] # "idle" => ~ Begins(req'[u]) /\ ~ Ends(req'[u])
    BY <1>3, <1>5 DEF IInv, EnvLife
  <2> QED BY <1>3, <1>6, <2>1 DEF EnvLife, Begins, Ends
<1>9. RequestKeys'
  <2>1. \A u \in Threads : pc'[u] # "idle" => req'[u].tid = Tid[u]
    BY <1>3, <1>4 DEF IInv, RequestKeys
  <2>2. \A m \in Requests' : m \in Requests \/ m = r BY <1>3
  <2>3. \A m \in Requests' : Destroys(m) => m.key \in 2..lastId /\ m.key \notin handles'
    BY <1>4, <1>5, <1>6, <2>2 DEF IInv, RequestKeys
  <2>4. \A m, n \in Requests' : Destroys(m) /\ Destroys(n) /\ m.key = n.key => m = n
    BY <1>4, <1>5, <1>7, <2>2 DEF IInv, RequestKeys
  <2>5. \A m \in Requests' : ~ Begins(m) /\ ~ Ends(m) BY <1>5, <1>7, <2>2
  <2> QED BY <1>3, <1>6, <2>1, <2>3, <2>4, <2>5 DEF RequestKeys, Begins, Ends, Destroys
<1>10. ReplyKeys'
  <2>1. \A n \in Requests' : Destroys(n) => n \in Requests \/ n.key \in handles
    BY <1>3, <1>4, <1>5
  <2>2. \A m \in Replies, u \in Threads :
          m.tid = Tid[u] /\ pc'[u] \in Asking \union {"return"} => pc'[u] = pc[u] /\ req'[u] = req[u]
    BY <1>3 DEF Asking
  <2>3. \A m \in Replies : m.key # 1 BY DEF IInv, ReplyKeys
  <2>4. \A m \in Replies :
          /\ m.key <= lastId /\ m.key \notin handles'
          /\ m.key # 0 =>
               \A u \in Threads : m.tid = Tid[u] /\ pc'[u] \in Asking \union {"return"} =>
                 req'[u].action \in Creating
          /\ \A n \in Replies : m.key = n.key /\ m.key # 0 => m = n
          /\ \A n \in Requests' : Destroys(n) => m.key # n.key
    BY <1>6, <2>1, <2>2 DEF IInv, ReplyKeys
  <2> QED BY <1>3, <1>6, <2>3, <2>4 DEF ReplyKeys, Destroys, Ends
<1>11. Owned' \subseteq Owned /\ (~ lost /\ connectionActive' => Owned' = Owned)
  <2> DEFINE D == {m.key : m \in {n \in Requests : Destroys(n)}}
             K == {m.key : m \in {n \in Replies : n.key # 0}}
  <2>1. D' = {m.key : m \in {n \in Requests' : Destroys(n)}} BY DEF Destroys
  <2>2. CASE Requests' = Requests \union {r}
    <3>1. D' = D \union (IF Destroys(r) THEN {key} ELSE {}) BY <1>4, <2>1, <2>2
    <3>2. Owned = handles \union K \union D \union {1} BY DEF Owned
    <3>3. Owned' = handles' \union K \union D' \union {1} BY <1>3 DEF Owned
    <3> HIDE DEF D, K
    <3> QED BY <1>5, <3>1, <3>2, <3>3
  <2>3. CASE Requests' = Requests /\ ~ (~ lost /\ connectionActive')
    <3>1. D' = D BY <2>1, <2>3
    <3>2. Owned = handles \union K \union D \union {1} BY DEF Owned
    <3>3. Owned' = handles' \union K \union D' \union {1} BY <1>3 DEF Owned
    <3> HIDE DEF D, K
    <3> QED BY <1>6, <2>3, <3>1, <3>2, <3>3
  <2> QED BY <1>3, <2>2, <2>3
<1>12. Connected' BY <1>0, <1>1, <1>11, SendConnected DEF r
<1> QED BY <1>1, <1>2, <1>8, <1>9, <1>10, <1>12 DEF IInv

\* RemoteProxyEnvironment's destructor
LEMMA DestroyEnvironmentIInv ==
  ASSUME IInv, HashesDiffer, NEW t \in Threads, DestroyEnvironment(t)
  PROVE  IInv'
<1> DEFINE r == Sent(t, "~RemoteProxyEnvironment", 0, 0)
<1>0. /\ Send(t, "~RemoteProxyEnvironment", 0, 0) /\ env = "up" /\ env' = "closing"
      /\ handles' = handles /\ argument' = argument
      /\ handles = {} /\ \A u \in Threads : pc[u] = "idle"
      /\ "~RemoteProxyEnvironment" \in Actions /\ 0 \in Nat
  BY SpecialFacts DEF DestroyEnvironment
<1>1. Types' /\ r \in Msg
  <2>1. argument' \in [Threads -> [at : {None, "convert", "drop", "call"}, handle : Nat, id : Nat]]
    BY <1>0 DEF IInv, Types
  <2> QED BY <1>0, <2>1, SendTypes
<1>2. Flow' BY <1>0, <1>1, SendFlow
<1>3. /\ Requests' = Requests \/ (connectionActive /\ Requests' = Requests \union {r})
      /\ ~ lost /\ connectionActive' => connectionActive /\ Requests' = Requests \union {r}
      /\ Replies' = Replies /\ pc'[t] \in {"loop", "throw"} /\ req'[t] = r
      /\ pc'[t] = "loop" => \A m \in Replies : m.tid # Tid[t]
      /\ \A u \in Threads \ {t} : pc'[u] = "idle"
      /\ UNCHANGED <<objects, empties, lastId>>
  BY <1>0, <1>1, SendSets
<1>4. connectionActive => Requests = {} /\ Replies = {} BY <1>0, IdleEmpty
<1>5. Requests' = Requests \/ Requests' = {r} BY <1>3, <1>4
<1>6. Ends(r) /\ ~ Begins(r) /\ ~ Destroys(r) /\ r.tid = Tid[t] /\ r.key = 0
  BY DEF Sent, Begins, Ends, Destroys
<1>6a. Arguments' BY <1>0, NoArguments DEF Arguments, None
<1> HIDE DEF r
<1>7. EnvLife' BY <1>0, <1>3, <1>6 DEF EnvLife, Begins, Ends
<1>7a. lastId > 0 BY <1>0 DEF IInv, EnvLife
<1>8. RequestKeys'
  <2>1. \A u \in Threads : pc'[u] # "idle" => req'[u].tid = Tid[u] BY <1>3, <1>6
  <2>2. \A m \in Requests : ~ Begins(m) /\ ~ Ends(m) BY <1>0 DEF IInv, RequestKeys
  <2>3. CASE Requests' = Requests
    BY <1>0, <1>3, <1>7a, <2>1, <2>2, <2>3 DEF IInv, RequestKeys, Begins, Ends, Destroys
  <2>4. CASE Requests' = {r}
    BY <1>0, <1>3, <1>6, <1>7a, <2>1, <2>4 DEF RequestKeys, Begins, Ends, Destroys
  <2> QED BY <1>5, <2>3, <2>4
<1>9. ReplyKeys'
  <2>1. \A m \in Replies : m.key # 1 BY <1>0 DEF IInv, ReplyKeys
  <2>2. \A m \in Replies, u \in Threads : m.tid = Tid[u] => pc'[u] \notin Asking \union {"return"}
    BY <1>3 DEF Asking
  <2>3. \A n \in Requests' : Destroys(n) => n \in Requests BY <1>5, <1>6
  <2> QED BY <1>0, <1>3, <2>1, <2>2, <2>3 DEF IInv, ReplyKeys, Destroys, Ends
<1>10. Owned' \subseteq Owned /\ (~ lost /\ connectionActive' => Owned' = Owned)
  <2> DEFINE D == {m.key : m \in {n \in Requests : Destroys(n)}}
             K == {m.key : m \in {n \in Replies : n.key # 0}}
  <2>1. D' = {m.key : m \in {n \in Requests' : Destroys(n)}} BY DEF Destroys
  <2>2. D' \subseteq D BY <1>5, <1>6, <2>1
  <2>3. K' = K BY <1>3
  <2>4. Owned = K \union D \union {1} BY <1>0 DEF Owned
  <2>5. Owned' \subseteq K' \union D' \union {1} BY <1>0 DEF Owned
  <2>6. ~ lost /\ connectionActive' => Owned = {1} /\ Owned' = {1}
    <3> SUFFICES ASSUME ~ lost /\ connectionActive' PROVE Owned = {1} /\ Owned' = {1} OBVIOUS
    <3>1. Requests = {} /\ Replies = {} /\ Requests' = {r} /\ Replies' = {} BY <1>3, <1>4
    <3>2. D = {} /\ K = {} BY <3>1
    <3>3. D' = {} /\ \E m \in Requests' : Ends(m) BY <1>6, <2>1, <3>1
    <3> QED BY <1>0, <2>3, <2>4, <3>2, <3>3 DEF Owned, Ends
  <2> HIDE DEF D, K
  <2> QED BY <2>2, <2>3, <2>4, <2>5, <2>6
<1>11. Connected' BY <1>0, <1>1, <1>10, SendConnected DEF r
<1> QED BY <1>1, <1>2, <1>6a, <1>7, <1>8, <1>9, <1>11 DEF IInv

\* A call without a converted argument leaves the arguments of the others alone.
LEMMA ArgumentsKept ==
  ASSUME IInv, HashesDiffer, NEW t \in Threads,
         NEW action \in Actions, NEW key \in Nat, NEW arg \in Nat,
         Send(t, action, key, arg), argument[t].at = None, argument' = argument,
         \A h \in handles \ handles' : ~ InUse(h)
  PROVE  Arguments'
<1>1. \A u \in Threads \ {t} : pc'[u] = pc[u] /\ req'[u] = req[u]
  BY DEF Send, Goto, IInv, Types
<1>2. \A u \in Threads : argument[u].at # None =>
        /\ argument[u].handle \in handles /\ ~ (argument[u].handle \in handles \ handles')
        /\ argument[u].id \in handles => ~ (argument[u].id \in handles \ handles')
  BY DEF IInv, Arguments, InUse
<1>3. None \notin {"convert", "drop"} BY DEF None
<1> QED BY <1>1, <1>2, <1>3 DEF IInv, Arguments

\* getHandle converts an argument of another environment
LEMMA ConvertArgumentIInv ==
  ASSUME IInv, HashesDiffer, NEW t \in Threads, NEW h \in handles, ConvertArgument(t, h),
         argument[t].at = None
  PROVE  IInv'
<1> DEFINE a == [at |-> "convert", handle |-> h, id |-> 0]
<1>1. /\ Send(t, "convertObjectToProxy", 0, 0) /\ env' = env /\ handles' = handles
      /\ h \notin Private /\ argument' = [argument EXCEPT ![t] = a]
      /\ h \in Nat /\ 0 \in Nat
  BY DEF ConvertArgument, IInv, Types
<1>2. env = "up" BY DEF IInv, EnvLife
<1>3. "convertObjectToProxy" \in Makes /\ "convertObjectToProxy" # "~RemoteProxyHandle" BY SpecialFacts
<1>4. a \in [at : {None, "convert", "drop", "call"}, handle : Nat, id : Nat] BY <1>1
<1>5. argument' \in [Threads -> [at : {None, "convert", "drop", "call"}, handle : Nat, id : Nat]]
  BY <1>1, <1>4 DEF IInv, Types
<1>6. a.at = "convert" /\ a.handle = h OBVIOUS
<1> HIDE DEF a
<1>7. argument'[t] = a /\ \A u \in Threads \ {t} : argument'[u] = argument[u]
  BY <1>1 DEF IInv, Types
<1>8. Arguments'
  <2>1. /\ pc'[t] # "idle" /\ req'[t].action = "convertObjectToProxy"
        /\ \A u \in Threads \ {t} : pc'[u] = pc[u] /\ req'[u] = req[u]
    BY <1>1 DEF Send, Goto, IInv, Types
  <2>2. \A u \in Threads : argument[u].at = "drop" => argument[u].id # h BY <1>1 DEF Private
  <2>3. None \notin {"convert", "drop"} BY DEF None
  <2>4. \A u \in Threads : argument'[u].at # None => argument'[u].handle \in handles'
    BY <1>1, <1>6, <1>7 DEF IInv, Arguments
  <2>5. \A u \in Threads : argument'[u].at = "convert" =>
          pc'[u] # "idle" /\ req'[u].action = "convertObjectToProxy"
    BY <1>7, <2>1 DEF IInv, Arguments
  <2>6. \A u \in Threads : argument'[u].at = "drop" => u # t /\ argument'[u] = argument[u]
    BY <1>6, <1>7
  <2>7. \A u \in Threads : argument'[u].at = "drop" =>
          /\ argument'[u].id \in handles'
          /\ \A v \in Threads :
               /\ argument'[v].at # None => argument'[v].handle # argument'[u].id
               /\ argument'[v].at = "drop" /\ argument'[v].id = argument'[u].id => v = u
    BY <1>1, <1>6, <1>7, <2>2, <2>6 DEF IInv, Arguments
  <2> QED BY <2>4, <2>5, <2>7 DEF Arguments
<1> QED BY <1>1, <1>2, <1>3, <1>5, <1>8, CallIInv

\* The loop over the arguments ends: the handle that the conversion made goes.
LEMMA DropArgumentIInv ==
  ASSUME IInv, HashesDiffer, NEW t \in Threads, DropArgument(t)
  PROVE  IInv'
<1> DEFINE k == argument[t].id
<1>1. /\ argument[t].at = "drop" /\ Send(t, "~RemoteProxyHandle", k, 0)
      /\ argument' = [argument EXCEPT ![t].at = "call"] /\ handles' = handles \ {k} /\ env' = env
      /\ k \in Nat /\ 0 \in Nat
  BY DEF DropArgument, IInv, Types
<1>2. k \in handles BY <1>1 DEF IInv, Arguments
<1>3. env = "up" BY <1>2 DEF IInv, EnvLife
<1>4. /\ argument'[t] = [argument[t] EXCEPT !.at = "call"]
      /\ \A u \in Threads \ {t} : argument'[u] = argument[u]
  BY <1>1 DEF IInv, Types
<1>5. argument'[t].at = "call" /\ argument'[t].handle = argument[t].handle
  BY <1>4 DEF IInv, Types
<1>6. argument' \in [Threads -> [at : {None, "convert", "drop", "call"}, handle : Nat, id : Nat]]
  BY <1>1 DEF IInv, Types
<1>7. Arguments'
  <2>1. \A u \in Threads \ {t} : pc'[u] = pc[u] /\ req'[u] = req[u]
    BY <1>1 DEF Send, Goto, IInv, Types
  <2>2. None \notin {"convert", "drop"} BY DEF None
  <2>3. \A u \in Threads : argument'[u].at # None =>
          argument[u].at # None /\ argument'[u].handle = argument[u].handle
    BY <1>1, <1>4, <1>5, <2>2
  <2>4. \A u \in Threads : argument'[u].at \in {"convert", "drop"} => u # t /\ argument'[u] = argument[u]
    BY <1>4, <1>5
  <2>5. \A u \in Threads : argument[u].at # None => argument[u].handle \in handles /\ argument[u].handle # k
    BY <1>1 DEF IInv, Arguments
  <2>6. \A u \in Threads \ {t} : argument[u].at = "drop" => argument[u].id \in handles /\ argument[u].id # k
    BY <1>1 DEF IInv, Arguments
  <2> HIDE DEF k
  <2>7. \A u \in Threads : argument'[u].at # None => argument'[u].handle \in handles'
    BY <1>1, <2>3, <2>5
  <2>8. \A u \in Threads : argument'[u].at = "convert" =>
          pc'[u] # "idle" /\ req'[u].action = "convertObjectToProxy"
    BY <2>1, <2>4 DEF IInv, Arguments
  <2>9. \A u \in Threads : argument'[u].at = "drop" => argument'[u].id \in handles'
    BY <1>1, <2>4, <2>6
  <2>10. \A u, v \in Threads : argument'[u].at = "drop" /\ argument'[v].at # None =>
           argument'[v].handle # argument'[u].id
    BY <2>3, <2>4 DEF IInv, Arguments
  <2>11. \A u, v \in Threads :
           argument'[u].at = "drop" /\ argument'[v].at = "drop" /\ argument'[v].id = argument'[u].id
             => v = u
    <3> TAKE u, v \in Threads
    <3> HAVE argument'[u].at = "drop" /\ argument'[v].at = "drop" /\ argument'[v].id = argument'[u].id
    <3>1. argument'[u] = argument[u] /\ argument'[v] = argument[v] BY <2>4
    <3>2. argument[u].at = "drop" /\ argument[v].at = "drop" /\ argument[v].id = argument[u].id
      BY <3>1
    <3> QED BY <3>2, <2>2 DEF IInv, Arguments
  <2> QED BY <2>7, <2>8, <2>9, <2>10, <2>11 DEF Arguments
<1> HIDE DEF k
<1> QED BY <1>1, <1>2, <1>3, <1>6, <1>7, CallIInv

\* The call is sent with the id of a handle that is no more.
LEMMA CallWithArgumentIInv ==
  ASSUME IInv, HashesDiffer, NEW t \in Threads, CallWithArgument(t)
  PROVE  IInv'
<1> DEFINE k == argument[t].id
           h == argument[t].handle
<1>1. /\ argument[t].at = "call" /\ Send(t, "call", h, k)
      /\ argument' = [argument EXCEPT ![t] = NoArgument] /\ handles' = handles /\ env' = env
      /\ k \in Nat /\ h \in Nat
  BY DEF CallWithArgument, IInv, Types
<1>2. h \in handles BY <1>1 DEF IInv, Arguments, None
<1>3. env = "up" BY <1>2 DEF IInv, EnvLife
<1>4. argument'[t] = NoArgument /\ \A u \in Threads \ {t} : argument'[u] = argument[u]
  BY <1>1 DEF IInv, Types
<1>5. NoArgument.at = None BY DEF NoArgument
<1>6. argument' \in [Threads -> [at : {None, "convert", "drop", "call"}, handle : Nat, id : Nat]]
  <2>1. NoArgument \in [at : {None, "convert", "drop", "call"}, handle : Nat, id : Nat] BY DEF NoArgument
  <2> QED BY <1>1, <2>1 DEF IInv, Types
<1>7. Arguments'
  <2>1. \A u \in Threads \ {t} : pc'[u] = pc[u] /\ req'[u] = req[u]
    BY <1>1 DEF Send, Goto, IInv, Types
  <2>2. \A u \in Threads : argument'[u].at # None => u # t /\ argument'[u] = argument[u] BY <1>4, <1>5
  <2>3. None \notin {"convert", "drop"} BY DEF None
  <2> HIDE DEF h, k
  <2> QED BY <1>1, <2>1, <2>2, <2>3 DEF IInv, Arguments
<1>8. "call" # "~RemoteProxyHandle" OBVIOUS
<1> HIDE DEF h, k
<1> QED BY <1>1, <1>3, <1>6, <1>7, <1>8, CallIInv

\* The reply that transact returns is the only message of its thread.
LEMMA ReturnSets ==
  ASSUME IInv, HashesDiffer, NEW t \in Threads, pc[t] \in {"return", "throw"},
         pc' = [pc EXCEPT ![t] = "idle"], got' = [got EXCEPT ![t] = NoReq],
         UNCHANGED <<toServer, toClient, tidToReply>>
  PROVE  /\ Requests' = Requests
         /\ Replies' \subseteq Replies
         /\ \A m \in Replies : m \in Replies' \/ (pc[t] = "return" /\ m = got[t])
         /\ pc[t] = "return" =>
              /\ got[t] \in Replies /\ got[t].tid = Tid[t]
              /\ \A m \in Requests \union Replies' : m.tid # Tid[t]
<1>1. /\ pc'[t] = "idle"
      /\ \A u \in Threads \ {t} : pc'[u] = pc[u] /\ got'[u] = got[u]
  BY DEF IInv, Types
<1>2. pc[t] = "return" => NoneFor(t) BY NoMessage DEF IInv, Asking, Dead, Failed
<1>3. Requests' = Requests BY DEF Requests
<1>4. \A m : m \in Replies' <=> \/ \E i \in 1..Len(toClient) : m = toClient[i]
                                \/ m \in tidToReply
                                \/ \E u \in Threads : pc'[u] \in {"lock", "return"} /\ m = got'[u]
  BY DEF Replies
<1>5. Replies' \subseteq Replies BY <1>1, <1>4, InReplies
<1>6. \A m \in Replies : m \in Replies' \/ (pc[t] = "return" /\ m = got[t]) BY <1>1, <1>4, InReplies
<1>7. pc[t] = "return" => got[t] \in Replies /\ got[t].tid = Tid[t]
  BY InReplies DEF IInv, Flow, RepliesCurrent
<1>8. \A u \in Threads \ {t} : pc[u] = "return" => got[u].tid # Tid[t]
  BY DEF IInv, Flow, RepliesCurrent, HashesDiffer
<1>9. pc[t] = "return" => \A m \in Replies' : m.tid # Tid[t] BY <1>1, <1>2, <1>4, <1>8 DEF NoneFor
<1>10. pc[t] = "return" => \A m \in Requests : m.tid # Tid[t] BY <1>2 DEF NoneFor, Requests
<1> QED BY <1>3, <1>5, <1>6, <1>7, <1>9, <1>10

\* What a caller does with the reply: a handle is made of the key in it.
LEMMA AfterReplyIInv ==
  ASSUME IInv, HashesDiffer, NEW t \in Threads, AfterReply(t)
  PROVE  IInv'
<1> DEFINE action == req[t].action
           k == got[t].key
<1>0. /\ pc[t] = "return" /\ pc' = [pc EXCEPT ![t] = "idle"]
      /\ req' = [req EXCEPT ![t] = NoReq] /\ got' = [got EXCEPT ![t] = NoReq]
      /\ UNCHANGED <<toServer, toClient, tidToReply, up, lost, handler, isBlocking, connectionActive,
                     isMutex, requests, objects, empties, lastId>>
      /\ handles' = IF action \in Makes \union {"call"} /\ k # 0 THEN handles \union {k} ELSE handles
      /\ env' = CASE action = "RemoteProxyEnvironment" -> IF k # 0 THEN "up" ELSE "closed"
                  [] action = "~RemoteProxyEnvironment" -> "closed"
                  [] OTHER -> env
      /\ argument' = [argument EXCEPT ![t] = Converted(t)]
  BY DEF AfterReply, Goto, streams, server
<1>1. Flow' BY <1>0, LeaveFlow
<1>2. /\ Requests' = Requests
      /\ Replies' \subseteq Replies
      /\ \A m \in Replies : m \in Replies' \/ m = got[t]
      /\ got[t] \in Replies /\ got[t].tid = Tid[t]
      /\ \A m \in Requests \union Replies' : m.tid # Tid[t]
  BY <1>0, ReturnSets
<1>3. /\ pc'[t] = "idle"
      /\ \A u \in Threads \ {t} : pc'[u] = pc[u] /\ req'[u] = req[u]
  BY <1>0 DEF IInv, Types
<1>4. /\ k \in Nat /\ k <= lastId /\ k \notin handles /\ lastId \in Nat
      /\ k # 0 => action \in Creating
      /\ k = 1 => env \in {"making", "closed"} /\ \A n \in Requests : ~ Ends(n)
      /\ env = "making" => k \in {0, 1}
      /\ \A m \in Replies' : k # 0 => m.key # k
      /\ \A m \in Requests : Destroys(m) => m.key # k
  <2>1. got[t] \notin Replies' BY <1>2
  <2>2. k \in Nat BY MessageTypes, <1>2
  <2> QED BY <1>0, <1>2, <2>1, <2>2 DEF IInv, ReplyKeys, Types
<1>5. /\ argument'[t] = Converted(t) /\ \A u \in Threads \ {t} : argument'[u] = argument[u]
  BY <1>0 DEF IInv, Types
<1>6. /\ action = "RemoteProxyEnvironment" => env = "making"
      /\ action = "~RemoteProxyEnvironment" => env = "closing"
      /\ action \notin {"RemoteProxyEnvironment", "~RemoteProxyEnvironment"} => env = "up"
  BY <1>0 DEF IInv, EnvLife, Begins, Ends
<1>7. env \in {"making", "closing"} =>
        (\A u \in Threads : pc'[u] = "idle") /\ handles = {}
  BY <1>0, <1>3 DEF IInv, EnvLife
<1>8. action \in Makes \union {"call"} =>
        action \notin {"RemoteProxyEnvironment", "~RemoteProxyEnvironment"}
  BY SpecialFacts
<1>9. action = "~RemoteProxyEnvironment" => k = 0 BY <1>4, SpecialFacts DEF Creating
<1>10. /\ argument[t].at # "convert" => Converted(t) = argument[t]
       /\ argument[t].at = "convert" /\ k = 0 => Converted(t) = NoArgument
       /\ argument[t].at = "convert" /\ k # 0 =>
            Converted(t) = [argument[t] EXCEPT !.at = "drop", !.id = k]
  BY DEF Converted
<1>11. argument[t].at = "convert" /\ k # 0 =>
         /\ Converted(t).at = "drop" /\ Converted(t).id = k
         /\ Converted(t).handle = argument[t].handle
         /\ Converted(t) \in [at : {None, "convert", "drop", "call"}, handle : Nat, id : Nat]
  <2> SUFFICES ASSUME argument[t].at = "convert", k # 0
               PROVE  /\ Converted(t).at = "drop" /\ Converted(t).id = k
                      /\ Converted(t).handle = argument[t].handle
                      /\ Converted(t) \in [at : {None, "convert", "drop", "call"}, handle : Nat, id : Nat]
    OBVIOUS
  <2>1. argument[t] \in [at : {None, "convert", "drop", "call"}, handle : Nat, id : Nat]
    BY DEF IInv, Types
  <2>2. Converted(t) = [argument[t] EXCEPT !.at = "drop", !.id = k] BY <1>10
  <2> HIDE DEF k
  <2> QED BY <1>4, <2>1, <2>2
<1> HIDE DEF action, k
<1>12. Types'
  <2>1. handles' \subseteq 1..lastId BY <1>0, <1>4 DEF IInv, Types
  <2>2. env' \in {"none", "making", "up", "closing", "closed"} BY <1>0 DEF IInv, Types
  <2>3. pc' \in [Threads -> PCs] /\ req' \in [Threads -> Msg] /\ got' \in [Threads -> Msg]
    BY <1>0, MsgFacts DEF IInv, Types, PCs
  <2>4. argument' \in [Threads -> [at : {None, "convert", "drop", "call"}, handle : Nat, id : Nat]]
    <3>1. NoArgument \in [at : {None, "convert", "drop", "call"}, handle : Nat, id : Nat] BY DEF NoArgument
    <3>2. argument[t] \in [at : {None, "convert", "drop", "call"}, handle : Nat, id : Nat]
      BY DEF IInv, Types
    <3>3. Converted(t) \in [at : {None, "convert", "drop", "call"}, handle : Nat, id : Nat]
      BY <1>10, <1>11, <3>1, <3>2
    <3> QED BY <1>0, <3>3 DEF IInv, Types
  <2> QED BY <1>0, <2>1, <2>2, <2>3, <2>4 DEF IInv, Types
<1>13. handles \subseteq handles' /\ (handles' # handles => k # 0 /\ handles' = handles \union {k} /\ env = "up")
  BY <1>0, <1>6, <1>8
<1>14. /\ env = "making" => env' = IF k # 0 THEN "up" ELSE "closed"
       /\ env = "closing" => env' = "closed"
       /\ env \notin {"making", "closing"} => env = "up" /\ env' = "up"
  BY <1>0, <1>6
<1>15. EnvLife'
  <2>1. \A u \in Threads : pc'[u] # "idle" => u # t /\ pc[u] # "idle" /\ req'[u] = req[u] BY <1>3
  <2>2. env' # "none" /\ env' \notin {"making", "closing"} BY <1>14
  <2>3. env' # "up" => handles' = {} BY <1>7, <1>13, <1>14
  <2>4. env' = "up" => lastId > 0
    <3>1. env = "up" => lastId > 0 BY DEF IInv, EnvLife
    <3>2. env = "making" /\ k # 0 => lastId > 0 BY <1>4
    <3> QED BY <1>14, <3>1, <3>2
  <2>5. \A u \in Threads : pc'[u] # "idle" =>
          env' = "up" /\ ~ Begins(req'[u]) /\ ~ Ends(req'[u])
    BY <1>7, <1>14, <2>1 DEF IInv, EnvLife
  <2> QED BY <1>0, <2>2, <2>3, <2>4, <2>5 DEF EnvLife, Begins, Ends
<1>16. RequestKeys'
  <2>1. \A u \in Threads : pc'[u] # "idle" => req'[u].tid = Tid[u] BY <1>3 DEF IInv, RequestKeys
  <2>2. \A m \in Requests : Begins(m) => env' \in {"making", "closed"} /\ lastId = 0 /\ Requests = {m}
    <3> SUFFICES ASSUME NEW m \in Requests, Begins(m) PROVE env' = "closed" /\ lastId = 0 /\ Requests = {m}
      OBVIOUS
    <3>1. lastId = 0 /\ Requests = {m} /\ env \in {"making", "closed"} BY DEF IInv, RequestKeys
    <3>2. k = 0 BY <1>4, <3>1
    <3> QED BY <1>14, <3>1, <3>2
  <2>3. \A m \in Requests : Ends(m) => env' \in {"closing", "closed"} /\ m.key = 0 /\ Requests = {m}
    BY <1>14 DEF IInv, RequestKeys
  <2>4. \A m \in Requests : ~ Begins(m) => lastId > 0 /\ env' # "making"
    BY <1>14 DEF IInv, RequestKeys
  <2>5. \A m \in Requests : Destroys(m) => m.key \in 2..lastId /\ m.key \notin handles'
    BY <1>4, <1>13 DEF IInv, RequestKeys
  <2>6. \A m, n \in Requests : Destroys(m) /\ Destroys(n) /\ m.key = n.key => m = n
    BY DEF IInv, RequestKeys
  <2> QED BY <1>0, <1>2, <2>1, <2>2, <2>3, <2>4, <2>5, <2>6 DEF RequestKeys, Begins, Ends, Destroys
<1>17. ReplyKeys'
  <2>1. 1 \notin handles' BY <1>4, <1>13 DEF IInv, ReplyKeys
  <2>2. \A m \in Replies' : m.key <= lastId /\ m.key \notin handles'
    BY <1>2, <1>4, <1>13 DEF IInv, ReplyKeys
  <2>3. \A m \in Replies' : m.key # 0 =>
          \A u \in Threads : m.tid = Tid[u] /\ pc'[u] \in Asking \union {"return"} =>
            req'[u].action \in Creating
    BY <1>2, <1>3 DEF IInv, ReplyKeys
  <2>4. ASSUME NEW m \in Replies', m.key = 1
        PROVE  env' \in {"making", "closed"} /\ \A n \in Requests : ~ Ends(n)
    <3>1. env \in {"making", "closed"} /\ \A n \in Requests : ~ Ends(n) BY <1>2, <2>4 DEF IInv, ReplyKeys
    <3>2. k # 1 BY <1>4, <2>4
    <3> QED BY <1>4, <1>14, <3>1, <3>2
  <2>5. env' # "making" BY <1>14
  <2>6. \A m, n \in Replies' : m.key = n.key /\ m.key # 0 => m = n BY <1>2 DEF IInv, ReplyKeys
  <2>7. \A m \in Replies', n \in Requests : Destroys(n) => m.key # n.key BY <1>2 DEF IInv, ReplyKeys
  <2> QED BY <1>0, <1>2, <2>1, <2>2, <2>3, <2>4, <2>5, <2>6, <2>7 DEF ReplyKeys, Ends, Destroys
<1>18. Arguments'
  <2>0. None \notin {"convert", "drop"} /\ NoArgument.at = None BY DEF None, NoArgument
  <2>1. \A u \in Threads : argument'[u].at # None =>
          argument[u].at # None /\ argument'[u].handle = argument[u].handle
    BY <1>5, <1>10, <1>11, <2>0
  <2>2. \A u \in Threads : argument'[u].at = "drop" =>
          (argument[u].at = "drop" /\ argument'[u].id = argument[u].id) \/ (u = t /\ argument'[t].id = k /\ k \in handles')
    <3>1. argument[t].at = "convert" /\ k # 0 => k \in handles'
      <4>1. argument[t].at = "convert" => action = "convertObjectToProxy"
        BY DEF IInv, Arguments, action
      <4> QED BY <1>0, <4>1, SpecialFacts
    <3> QED BY <1>5, <1>10, <1>11, <2>0, <3>1
  <2>3. \A u \in Threads : argument'[u].at = "convert" => u # t /\ argument[u].at = "convert"
    BY <1>5, <1>10, <1>11, <2>0
  <2>4. \A u \in Threads : argument[u].at # None => argument[u].handle \in handles
    BY DEF IInv, Arguments
  <2>5. \A u \in Threads : argument[u].at = "drop" =>
          /\ argument[u].id \in handles
          /\ \A v \in Threads :
               /\ argument[v].at # None => argument[v].handle # argument[u].id
               /\ argument[v].at = "drop" /\ argument[v].id = argument[u].id => v = u
    BY DEF IInv, Arguments
  <2>6. \A u \in Threads : argument'[u].at # None => argument'[u].handle \in handles'
    BY <1>13, <2>1, <2>4
  <2>7. \A u \in Threads : argument'[u].at = "convert" =>
          pc'[u] # "idle" /\ req'[u].action = "convertObjectToProxy"
    BY <1>3, <2>3 DEF IInv, Arguments
  <2>8. \A u \in Threads : argument'[u].at = "drop" => argument'[u].id \in handles'
    BY <1>13, <2>2, <2>5
  <2>9. \A u, v \in Threads : argument'[u].at = "drop" /\ argument'[v].at # None =>
           argument'[v].handle # argument'[u].id
    BY <1>4, <2>1, <2>2, <2>4, <2>5
  <2>10. \A u, v \in Threads :
           argument'[u].at = "drop" /\ argument'[v].at = "drop" /\ argument'[v].id = argument'[u].id => v = u
    BY <1>4, <2>2, <2>5
  <2> QED BY <2>6, <2>7, <2>8, <2>9, <2>10 DEF Arguments
<1>19. Owned' = Owned
  <2> DEFINE K == {m.key : m \in {n \in Replies : n.key # 0}}
             D == {m.key : m \in {n \in Requests : Destroys(n)}}
             E == IF env = "up" \/ \E m \in Requests : Ends(m) THEN {1} ELSE {}
  <2>1. K = K' \union (IF k # 0 THEN {k} ELSE {}) BY <1>2 DEF k
  <2>2. D' = D BY <1>2 DEF Destroys
  <2>3. Owned = handles \union K \union D \union E BY DEF Owned
  <2>4. Owned' = handles' \union K' \union D' \union E' BY DEF Owned, Destroys, Ends
  <2>5. E' = IF env' = "up" \/ \E m \in Requests : Ends(m) THEN {1} ELSE {} BY <1>2 DEF Ends
  <2>6. CASE env = "making"
    <3>1. \A m \in Requests : ~ Ends(m) BY <2>6 DEF IInv, RequestKeys
    <3>2. E = {} /\ E' = IF k # 0 THEN {1} ELSE {} BY <1>14, <2>5, <2>6, <3>1
    <3>3. handles' = handles /\ k \in {0, 1} BY <1>4, <1>13, <2>6
    <3> HIDE DEF K, D, E
    <3> QED BY <2>1, <2>2, <2>3, <2>4, <3>2, <3>3
  <2>7. CASE env = "closing"
    <3>1. E' = E BY <1>14, <2>5, <2>7
    <3>2. handles' = handles BY <1>13, <2>7
    <3>3. k = 0 BY <1>6, <1>9, <2>7
    <3> HIDE DEF K, D, E
    <3> QED BY <2>1, <2>2, <2>3, <2>4, <3>1, <3>2, <3>3
  <2>8. CASE env = "up"
    <3>1. E' = E BY <1>14, <2>5, <2>8
    <3>2. k # 0 => action \in Makes \union {"call"} BY <1>4, <1>6, <2>8 DEF Creating
    <3>3. handles' = handles \union (IF k # 0 THEN {k} ELSE {}) BY <1>0, <3>2
    <3> HIDE DEF K, D, E
    <3> QED BY <2>1, <2>2, <2>3, <2>4, <3>1, <3>3
  <2> QED BY <1>14, <2>6, <2>7, <2>8
<1>20. Connected'
  <2>1. Healthy' => Healthy BY <1>0, <1>3 DEF Healthy, Failed
  <2>2. env \in {"closing", "closed"} => env' \in {"closing", "closed"} BY <1>14
  <2> QED BY <1>0, <1>19, <2>1, <2>2 DEF IInv, Connected
<1> QED BY <1>1, <1>12, <1>15, <1>16, <1>17, <1>18, <1>20 DEF IInv

\* What a caller does when the connection was lost.
LEMMA AfterThrowIInv ==
  ASSUME IInv, HashesDiffer, NEW t \in Threads, AfterThrow(t)
  PROVE  IInv'
<1> DEFINE action == req[t].action
           a == IF argument[t].at = "convert" THEN NoArgument ELSE argument[t]
<1>0. /\ pc[t] = "throw" /\ pc' = [pc EXCEPT ![t] = "idle"]
      /\ req' = [req EXCEPT ![t] = NoReq] /\ got' = [got EXCEPT ![t] = NoReq]
      /\ UNCHANGED <<toServer, toClient, tidToReply, up, lost, handler, isBlocking, connectionActive,
                     isMutex, requests, objects, empties, lastId, handles>>
      /\ env' = IF action \in {"RemoteProxyEnvironment", "~RemoteProxyEnvironment"} THEN "closed" ELSE env
      /\ argument' = [argument EXCEPT ![t] = a]
  BY DEF AfterThrow, Goto, streams, server
<1>1. Flow' BY <1>0, LeaveFlow
<1>2. Requests' = Requests /\ Replies' = Replies BY <1>0, ReturnSets
<1>3. /\ pc'[t] = "idle" /\ \A u \in Threads \ {t} : pc'[u] = pc[u] /\ req'[u] = req[u]
  BY <1>0 DEF IInv, Types
<1>4. ~ connectionActive BY <1>0 DEF IInv, Flow, StreamLife
<1>5. /\ env \in {"making", "closing"} => env' = "closed" /\ \A u \in Threads : pc'[u] = "idle"
      /\ env \notin {"making", "closing"} => env = "up" /\ env' = "up"
  BY <1>0, <1>3 DEF IInv, EnvLife, Begins, Ends
<1>6. Types'
  <2>1. env' \in {"none", "making", "up", "closing", "closed"} BY <1>5
  <2>2. pc' \in [Threads -> PCs] /\ req' \in [Threads -> Msg] /\ got' \in [Threads -> Msg]
    BY <1>0, MsgFacts DEF IInv, Types, PCs
  <2>3. argument' \in [Threads -> [at : {None, "convert", "drop", "call"}, handle : Nat, id : Nat]]
    <3>1. NoArgument \in [at : {None, "convert", "drop", "call"}, handle : Nat, id : Nat] BY DEF NoArgument
    <3>2. a \in [at : {None, "convert", "drop", "call"}, handle : Nat, id : Nat] BY <3>1 DEF IInv, Types
    <3> QED BY <1>0, <3>2 DEF IInv, Types
  <2> QED BY <1>0, <2>1, <2>2, <2>3 DEF IInv, Types
<1>7. EnvLife'
  <2>1. \A u \in Threads : pc'[u] # "idle" => u # t /\ pc[u] # "idle" /\ req'[u] = req[u] BY <1>3
  <2>2. env' # "none" /\ env' \notin {"making", "closing"} BY <1>5
  <2>3. env' # "up" => handles' = {} BY <1>0, <1>5 DEF IInv, EnvLife
  <2>4. env' = "up" => lastId > 0 BY <1>5 DEF IInv, EnvLife
  <2>5. \A u \in Threads : pc'[u] # "idle" =>
          env' = "up" /\ ~ Begins(req'[u]) /\ ~ Ends(req'[u])
    BY <1>5, <2>1 DEF IInv, EnvLife
  <2> QED BY <1>0, <2>2, <2>3, <2>4, <2>5 DEF EnvLife, Begins, Ends
<1>8. RequestKeys'
  <2>1. \A u \in Threads : pc'[u] # "idle" => req'[u].tid = Tid[u] BY <1>3 DEF IInv, RequestKeys
  <2> QED BY <1>0, <1>2, <1>5, <2>1 DEF IInv, RequestKeys, Begins, Ends, Destroys
<1>9. ReplyKeys'
  <2>1. \A m \in Replies : m.key # 0 =>
          \A u \in Threads : m.tid = Tid[u] /\ pc'[u] \in Asking \union {"return"} =>
            req'[u].action \in Creating
    BY <1>3 DEF IInv, ReplyKeys, Asking
  <2> QED BY <1>0, <1>2, <1>5, <2>1 DEF IInv, ReplyKeys, Ends, Destroys
<1>10. Arguments'
  <2>1. argument'[t] = a /\ \A u \in Threads \ {t} : argument'[u] = argument[u]
    BY <1>0 DEF IInv, Types
  <2>2. None \notin {"convert", "drop"} /\ NoArgument.at = None BY DEF None, NoArgument
  <2>3. \A u \in Threads : argument'[u].at # None => argument'[u] = argument[u]
    BY <2>1, <2>2
  <2>4. argument'[t].at # "convert" BY <2>1, <2>2
  <2> HIDE DEF a
  <2> QED BY <1>0, <1>3, <2>2, <2>3, <2>4 DEF IInv, Arguments
<1>11. Owned' = Owned
  <2>1. env' = "up" <=> env = "up" BY <1>5
  <2> QED BY <1>0, <1>2, <2>1 DEF Owned, Ends, Destroys
<1>12. Connected'
  <2>1. ~ Healthy' BY <1>0, <1>4 DEF Healthy
  <2>2. env \in {"closing", "closed"} => env' \in {"closing", "closed"} BY <1>5
  <2> QED BY <1>0, <1>11, <2>1, <2>2 DEF IInv, Connected
<1> QED BY <1>1, <1>6, <1>7, <1>8, <1>9, <1>10, <1>12 DEF IInv

-----------------------------------------------------------------------------
\* What the handler does to the messages.
LEMMA AnswerSets ==
  ASSUME IInv, HandlerRun, NEW key \in Nat, Answer(key)
  PROVE  /\ Requests = Requests' \union {Head(toServer)} /\ Head(toServer) \notin Requests'
         /\ Head(toServer) \in Msg /\ Reply(Head(toServer), key) \in Msg
         /\ Replies' = Replies \union {Reply(Head(toServer), key)}
         /\ toServer' \in Seq(Msg) /\ toClient' \in Seq(Msg)
<1> DEFINE h == Head(toServer)
           r == Reply(h, key)
<1>0. /\ toServer \in Seq(Msg) /\ toServer # <<>> /\ toClient \in Seq(Msg)
      /\ toServer' = Tail(toServer) /\ toClient' = Append(toClient, r)
      /\ UNCHANGED <<pc, got, tidToReply>>
  BY DEF HandlerRun, Answer, IInv, Types, client
<1>1. h \in Msg /\ toServer' \in Seq(Msg) BY <1>0, TailFacts
<1>2. r \in Msg BY <1>1, MsgFacts
<1>3. {toServer[i] : i \in 1..Len(toServer)}
        = {Tail(toServer)[i] : i \in 1..Len(Tail(toServer))} \union {h}
  BY <1>0, TailRange
<1>4. Requests = Requests' \union {h} BY <1>0, <1>3 DEF Requests
<1>5. h \notin Requests'
  <2> SUFFICES ASSUME NEW i \in 1..Len(toServer'), toServer'[i] = h PROVE FALSE BY DEF Requests
  <2>1. /\ h = toServer[1] /\ 1 \in 1..Len(toServer)
        /\ toServer'[i] = toServer[i + 1] /\ i + 1 \in 1..Len(toServer) /\ i + 1 # 1
    BY <1>0, TailFacts
  <2> QED BY <2>1 DEF IInv, Flow, StreamsOnce
<1> HIDE DEF r
<1>6. toClient' \in Seq(Msg) BY <1>0, <1>2, AppendFacts
<1>7. {Append(toClient, r)[i] : i \in 1..Len(Append(toClient, r))}
        = {toClient[i] : i \in 1..Len(toClient)} \union {r}
  BY <1>0, <1>2, AppendRange
<1>8. Replies' = Replies \union {r} BY <1>0, <1>7 DEF Replies
<1> QED BY <1>1, <1>2, <1>4, <1>5, <1>6, <1>8 DEF r

\* The server handles the next request: objects appear and go.
LEMMA HandlerIInv ==
  ASSUME IInv, HashesDiffer, Handler
  PROVE  IInv'
<1> DEFINE h == Head(toServer)
           V == objects \ empties
\* The three cases of the handler, as one step that answers with key.
<1>1. PICK key \in {0, lastId + 1} :
        /\ HandlerRun /\ Answer(key)
        /\ lastId' = IF key = 0 THEN lastId ELSE lastId + 1
        /\ objects' \subseteq Nat /\ empties' \subseteq objects'
        /\ key # 0 => h.action \in Creating /\ V' = V \union {lastId + 1}
        /\ key = 0 /\ ~ Destroys(h) /\ ~ Ends(h) => V' = V
        /\ key = 0 /\ (Destroys(h) \/ Ends(h)) => V' = V \ {IF h.key = 0 THEN 1 ELSE h.key}
        /\ handler' = (key # 0 \/ ~ Ends(h))
  <2>0. lastId \in Nat /\ lastId + 1 # 0 /\ lastId + 1 \in Nat /\ objects \subseteq Nat /\ empties \subseteq objects
    BY DEF IInv, Types
  <2>1. CASE HandlerMake
    <3>1. h.action \in Creating BY <2>1 DEF HandlerMake, Creating
    <3>2. handler' BY <2>1 DEF HandlerMake, HandlerRun
    <3>3. /\ HandlerRun /\ Answer(lastId + 1) /\ lastId' = lastId + 1
          /\ objects' = objects \union {lastId + 1} /\ empties' = empties \ {lastId + 1}
      BY <2>1 DEF HandlerMake, NewObjectId
    <3> HIDE DEF h
    <3>4. V' = V \union {lastId + 1} BY <3>3
    <3>5. objects' \subseteq Nat /\ empties' \subseteq objects' BY <2>0, <3>3
    <3> HIDE DEF V
    <3> QED BY <2>0, <3>1, <3>2, <3>3, <3>4, <3>5
  <2>2. CASE HandlerQuery
    <3>1. ~ Destroys(h) /\ ~ Ends(h) BY <2>2, SpecialFacts DEF HandlerQuery, Destroys, Ends
    <3>2. handler' BY <2>2 DEF HandlerQuery, HandlerRun
    <3>3. /\ HandlerRun /\ Answer(0) /\ lastId' = lastId
          /\ objects' = objects \union LookedUp(h) /\ empties' = empties \union (LookedUp(h) \ objects)
      BY <2>2 DEF HandlerQuery
    <3>4. LookedUp(h) \subseteq Nat
      <4>1. h \in Msg BY <3>3, TailFacts DEF HandlerRun, IInv, Types
      <4>2. h.key \in Nat /\ h.arg \in Nat BY <4>1 DEF Msg
      <4> QED BY <4>2 DEF LookedUp
    <3> HIDE DEF h
    <3>5. V' = V BY <2>0, <3>3
    <3>6. objects' \subseteq Nat /\ empties' \subseteq objects' BY <2>0, <3>3, <3>4
    <3> HIDE DEF V
    <3> QED BY <2>0, <3>1, <3>2, <3>3, <3>5, <3>6
  <2>3. CASE HandlerRemove
    <3>1. Destroys(h) \/ Ends(h) BY <2>3 DEF HandlerRemove, Destroys, Ends
    <3>2. /\ HandlerRun /\ Answer(0) /\ lastId' = lastId
          /\ objects' = objects \ {Removed(h)} /\ empties' = empties \ {Removed(h)}
          /\ handler' = ~ Ends(h)
      BY <2>3 DEF HandlerRemove, RemoveObjectAtId, Ends
    <3>3. Removed(h) = IF h.key = 0 THEN 1 ELSE h.key BY DEF Removed
    <3> HIDE DEF h
    <3>4. V' = V \ {Removed(h)} BY <3>2
    <3>5. objects' \subseteq Nat /\ empties' \subseteq objects' BY <2>0, <3>2
    <3> HIDE DEF V
    <3> QED BY <2>0, <3>1, <3>2, <3>3, <3>4, <3>5
  <2> QED BY <2>1, <2>2, <2>3 DEF Handler
<1> DEFINE r == Reply(h, key)
<1>2. /\ lastId \in Nat /\ key \in Nat /\ handler /\ ~ lost /\ lost' = lost /\ up' = up
      /\ UNCHANGED <<env, connectionActive, isMutex, isBlocking, tidToReply, pc, req, got, handles,
                     argument, requests>>
      /\ handles \subseteq 1..lastId
  BY <1>1 DEF HandlerRun, Answer, client, IInv, Types, Flow, StreamLife
<1>3. /\ Requests = Requests' \union {h} /\ h \notin Requests' /\ h \in Msg /\ r \in Msg
      /\ Replies' = Replies \union {r}
      /\ toServer' \in Seq(Msg) /\ toClient' \in Seq(Msg)
  BY <1>1, <1>2, AnswerSets
<1>4. r.key = key /\ r.tid = h.tid BY <1>2, <1>3, MsgFacts
<1>5. PICK t \in Threads : h.tid = Tid[t] /\ ((pc[t] \in Asking /\ h = req[t]) \/ Dead(t))
  BY <1>3, Owners DEF Pending
<1>6. \A u \in Threads : h.tid = Tid[u] => u = t BY <1>5 DEF HashesDiffer
<1>6a. h.action \in Creating => ~ Destroys(h) /\ ~ Ends(h)
  BY SpecialFacts DEF Creating, Destroys, Ends
<1> HIDE DEF h, r
<1>7. Begins(h) \/ Ends(h) => Requests' = {} BY <1>3 DEF IInv, RequestKeys
<1>8. /\ Begins(h) => env \in {"making", "closed"} /\ lastId = 0
      /\ Ends(h) => env \in {"closing", "closed"} /\ h.key = 0
      /\ ~ Begins(h) => lastId > 0 /\ env # "making"
      /\ Destroys(h) => h.key \in 2..lastId /\ h.key \notin handles
  BY <1>3 DEF IInv, RequestKeys
<1>9. \A m \in Requests' : ~ Begins(m) /\ ~ Ends(m) BY <1>3 DEF IInv, RequestKeys
<1>10. Types'
  <2>1. lastId' \in Nat /\ handles' \subseteq 1..lastId' BY <1>1, <1>2
  <2>2. handler' \in BOOLEAN BY <1>1
  <2> QED BY <1>1, <1>2, <1>3, <2>1, <2>2 DEF IInv, Types
<1>11. Flow'
  <2>1. handler' \/ toServer' = <<>>
    <3> SUFFICES ASSUME ~ handler' PROVE toServer' = <<>> OBVIOUS
    <3>1. Requests' = {} BY <1>1, <1>7
    <3>2. \A i \in 1..Len(toServer') : FALSE BY <3>1 DEF Requests
    <3> QED BY <1>3, <3>2
  <2> QED BY <1>1, <1>2, <2>1, AnswerFlow
<1>12. EnvLife'
  <2>1. env # "none" BY <1>3, IdleEmpty DEF IInv, EnvLife
  <2>2. env = "up" => lastId' > 0 BY <1>1, <1>2 DEF IInv, EnvLife
  <2> QED BY <1>2, <2>1, <2>2 DEF IInv, EnvLife, Begins, Ends
<1>13. RequestKeys'
  <2>1. \A m \in Requests' : m \in Requests BY <1>3
  <2>2. \A m \in Requests' : lastId' > 0 /\ env # "making"
    BY <1>1, <1>2, <1>9, <2>1 DEF IInv, RequestKeys
  <2>3. \A m \in Requests' : Destroys(m) => m.key \in 2..lastId' /\ m.key \notin handles
    BY <1>1, <1>2, <2>1 DEF IInv, RequestKeys
  <2>4. \A m, n \in Requests' : Destroys(m) /\ Destroys(n) /\ m.key = n.key => m = n
    BY <2>1 DEF IInv, RequestKeys
  <2>5. \A u \in Threads : pc'[u] # "idle" => req'[u].tid = Tid[u] BY <1>2 DEF IInv, RequestKeys
  <2> QED BY <1>2, <1>9, <2>2, <2>3, <2>4, <2>5 DEF RequestKeys, Begins, Ends, Destroys
<1>14. ReplyKeys'
  <2>1. \A n \in Requests : Destroys(n) => n.key \in 2..lastId BY DEF IInv, RequestKeys
  <2>2. key # 0 => key = lastId + 1 /\ lastId' = lastId + 1 /\ h.action \in Creating BY <1>1
  <2>3. key = 1 => env \in {"making", "closed"} /\ Requests' = {}
    <3> SUFFICES ASSUME key = 1 PROVE env \in {"making", "closed"} /\ Requests' = {} OBVIOUS
    <3>1. lastId = 0 BY <2>2, <1>2
    <3>2. Begins(h) BY <1>8, <3>1
    <3> QED BY <1>7, <1>8, <3>2
  <2>4. env = "making" => key \in {0, 1} BY <1>8, <2>2
  <2>5. key <= lastId' /\ key \notin handles BY <1>1, <1>2, <2>2
  <2>6. \A m \in Replies : m.key \in Nat /\ m.key <= lastId /\ m.key <= lastId'
    BY <1>1, <1>2, MessageTypes DEF IInv, ReplyKeys
  <2>7. \A m \in Replies : key # 0 => m.key # key BY <1>2, <2>2, <2>6
  <2>8. \A m, n \in Replies' : m.key = n.key /\ m.key # 0 => m = n
    BY <1>3, <1>4, <2>7 DEF IInv, ReplyKeys
  <2>9. \A n \in Requests' : Destroys(n) => key # n.key BY <1>2, <1>3, <2>1, <2>2
  <2>9a. key # 0 => \A u \in Threads : h.tid = Tid[u] /\ pc[u] \in Asking \union {"return"} =>
           req[u].action \in Creating
    <3> SUFFICES ASSUME key # 0, NEW u \in Threads, h.tid = Tid[u], pc[u] \in Asking \union {"return"}
                 PROVE  req[u].action \in Creating
      OBVIOUS
    <3>1. u = t BY <1>6
    <3>2. ~ Dead(u) BY DEF Asking, Dead, Failed
    <3> QED BY <1>5, <2>2, <3>1, <3>2
  <2>10. \A m \in Replies' :
           /\ m.key <= lastId' /\ m.key \notin handles
           /\ m.key # 0 => \A u \in Threads :
                 m.tid = Tid[u] /\ pc[u] \in Asking \union {"return"} => req[u].action \in Creating
           /\ m.key = 1 => env \in {"making", "closed"} /\ \A n \in Requests' : ~ Ends(n)
           /\ env = "making" => m.key \in {0, 1}
           /\ \A n \in Requests' : Destroys(n) => m.key # n.key
    <3> SUFFICES ASSUME NEW m \in Replies'
                 PROVE  /\ m.key <= lastId' /\ m.key \notin handles
                        /\ m.key # 0 => \A u \in Threads :
                              m.tid = Tid[u] /\ pc[u] \in Asking \union {"return"} =>
                                req[u].action \in Creating
                        /\ m.key = 1 => env \in {"making", "closed"} /\ \A n \in Requests' : ~ Ends(n)
                        /\ env = "making" => m.key \in {0, 1}
                        /\ \A n \in Requests' : Destroys(n) => m.key # n.key
      OBVIOUS
    <3>1. CASE m = r BY <1>4, <2>3, <2>4, <2>5, <2>9, <2>9a, <3>1
    <3>2. CASE m \in Replies BY <1>3, <1>9, <2>6, <3>2 DEF IInv, ReplyKeys
    <3> QED BY <1>3, <3>1, <3>2
  <2>11. 1 \notin handles BY DEF IInv, ReplyKeys
  <2> QED BY <1>2, <2>8, <2>10, <2>11 DEF ReplyKeys, Ends, Destroys
<1>15. Arguments' BY <1>2 DEF IInv, Arguments
<1>16. Connected'
  <2> DEFINE K == {m.key : m \in {n \in Replies : n.key # 0}}
             D == {m.key : m \in {n \in Requests : Destroys(n)}}
             E == IF env = "up" \/ \E m \in Requests : Ends(m) THEN {1} ELSE {}
  <2>1. Owned = handles \union K \union D \union E BY DEF Owned
  <2>2. Owned' = handles \union K' \union D' \union E' BY <1>2 DEF Owned, Ends, Destroys
  <2>3. K' = K \union (IF key # 0 THEN {key} ELSE {}) BY <1>3, <1>4
  <2>4. D' = {m.key : m \in {n \in Requests' : Destroys(n)}} BY DEF Destroys
  <2>5. E' = IF env = "up" THEN {1} ELSE {} BY <1>2, <1>9 DEF Ends
  <2>6. \/ Owned' = Owned \union {lastId + 1} /\ V' = V \union {lastId + 1}
        \/ Owned' = Owned /\ V' = V
        \/ \E k \in Nat : Owned' = Owned \ {k} /\ V' = V \ {k}
    <3>1. CASE ~ Destroys(h) /\ ~ Ends(h)
      <4>1. D' = D BY <1>3, <2>4, <3>1
      <4>2. E' = E BY <1>3, <1>9, <2>5, <3>1
      <4>3. V' = V \union (IF key # 0 THEN {lastId + 1} ELSE {}) BY <1>1, <3>1
      <4>4. key # 0 => key = lastId + 1 BY <1>1
      <4> HIDE DEF K, D, E, V
      <4> QED BY <2>1, <2>2, <2>3, <4>1, <4>2, <4>3, <4>4
    <3>2. CASE Destroys(h)
      <4>1. key = 0 /\ ~ Ends(h) BY <1>1, <1>6a, <3>2 DEF Destroys, Ends
      <4>2. h.key \in Nat /\ h.key # 0 /\ h.key # 1 BY <1>2, <1>8, <3>2
      <4>3. V' = V \ {h.key} BY <1>1, <3>2, <4>1, <4>2
      <4>4. D = D' \union {h.key} BY <1>3, <2>4, <3>2
      <4>5. h.key \notin D' BY <1>3, <2>4, <3>2 DEF IInv, RequestKeys
      <4>6. h.key \notin handles /\ h.key \notin K BY <1>3, <3>2 DEF IInv, RequestKeys, ReplyKeys
      <4>7. E' = E BY <1>3, <1>9, <2>5, <4>1
      <4>8. h.key \notin E BY <4>2
      <4>9. Owned' = Owned \ {h.key}
        <5> HIDE DEF K, D, E, V
        <5> QED BY <2>1, <2>2, <2>3, <4>1, <4>4, <4>5, <4>6, <4>7, <4>8
      <4> HIDE DEF V
      <4> QED BY <4>2, <4>3, <4>9
    <3>3. CASE Ends(h)
      <4>1. key = 0 /\ h.key = 0 /\ env \in {"closing", "closed"} BY <1>1, <1>6a, <1>8, <3>3
      <4>2. V' = V \ {1} BY <1>1, <3>3, <4>1
      <4>3. handles = {} BY <4>1 DEF IInv, EnvLife
      <4>4. Requests = {h} /\ Requests' = {} BY <1>3, <1>7, <3>3
      <4>5. D = {} /\ D' = {} BY <2>4, <3>3, <4>4 DEF Destroys, Ends
      <4>6. E = {1} /\ E' = {} BY <2>5, <3>3, <4>1, <4>4
      <4>7. 1 \notin K BY <3>3, <4>4 DEF IInv, ReplyKeys
      <4>8. Owned' = Owned \ {1}
        <5> HIDE DEF K, D, E, V
        <5> QED BY <2>1, <2>2, <2>3, <4>1, <4>3, <4>5, <4>6, <4>7
      <4> HIDE DEF V
      <4> QED BY <4>2, <4>8
    <3> QED BY <3>1, <3>2, <3>3
  <2>7. Owned \subseteq V /\ (Healthy => V = Owned) BY <1>2 DEF IInv, Connected
  <2>8. Owned' \subseteq V' /\ (Healthy => V' = Owned')
    <3> HIDE DEF V
    <3> QED BY <2>6, <2>7
  <2>9. Healthy' = Healthy BY <1>2 DEF Healthy
  <2>10. handler' \/ env \in {"closing", "closed"} BY <1>1, <1>8
  <2> QED BY <1>2, <2>8, <2>9, <2>10 DEF Connected
<1> QED BY <1>10, <1>11, <1>12, <1>13, <1>14, <1>15, <1>16 DEF IInv

\* The end of the stream
LEMMA EndIInv ==
  ASSUME IInv, StreamEnd \/ LoseConnection
  PROVE  IInv'
<1>1. Flow' BY EndFlow
<1>2. CASE StreamEnd
  <2>1. /\ UNCHANGED <<env, handles, argument, req, objects, empties, lastId, toServer, toClient, got, pc,
                       tidToReply, lost, handler, connectionActive, isMutex, isBlocking, requests>>
        /\ up' = FALSE
    BY <1>2 DEF StreamEnd, client, server
  <2>2. Replies' = Replies BY <2>1 DEF Replies
  <2>3. EnvLife' /\ RequestKeys' /\ ReplyKeys' /\ Arguments' /\ Owned' = Owned
    BY <2>1, <2>2, KeysKept
  <2>4. Types' BY <2>1 DEF IInv, Types
  <2>5. Connected' BY <2>1, <2>3 DEF IInv, Connected, Healthy
  <2> QED BY <1>1, <2>3, <2>4, <2>5 DEF IInv
<1>3. CASE LoseConnection
  <2>1. /\ UNCHANGED <<env, handles, argument, req, objects, empties, lastId, got, pc, tidToReply,
                       connectionActive, isMutex, isBlocking, requests>>
        /\ up' = FALSE /\ lost' = TRUE /\ handler' = FALSE /\ toServer' = <<>> /\ Len(toServer') = 0
    BY <1>3 DEF LoseConnection, client
  <2>2. PICK n \in 0..Len(toClient) : toClient' = SubSeq(toClient, 1, n)
    BY <1>3 DEF LoseConnection
  <2>3. /\ Len(toClient') = n /\ toClient' \in Seq(Msg)
        /\ \A i \in 1..Len(toClient') : toClient'[i] = toClient[i] /\ i \in 1..Len(toClient)
    BY <2>2, PrefixFacts DEF IInv, Types
  <2>4. Requests' = {} BY <2>1 DEF Requests
  <2>5. Replies' \subseteq Replies BY <2>1, <2>3 DEF Replies
  <2>6. EnvLife' BY <2>1 DEF IInv, EnvLife, Begins, Ends
  <2>7. RequestKeys' BY <2>1, <2>4 DEF IInv, RequestKeys
  <2>8. ReplyKeys' BY <2>1, <2>4, <2>5 DEF IInv, ReplyKeys
  <2>9. Connected' /\ Arguments' BY <2>1 DEF IInv, Connected, Arguments
  <2>10. <<>> \in Seq(Msg) OBVIOUS
  <2>11. Types' BY <2>1, <2>3, <2>10 DEF IInv, Types
  <2> QED BY <1>1, <2>6, <2>7, <2>8, <2>9, <2>11 DEF IInv
<1> QED BY <1>2, <1>3

\* A step of something else.
LEMMA StutterIInv == IInv /\ UNCHANGED vars => IInv'
<1> SUFFICES ASSUME IInv, UNCHANGED vars PROVE IInv' OBVIOUS
<1> USE DEF vars, client, streams, server, IInv
<1>1. Types' BY DEF Types
<1>2. Flow'
  BY DEF Flow, OneReader, RequestsCurrent, Pending, RepliesCurrent, Current, Dead, StreamsOnce, CacheOnce,
         ReadOnce, StreamLife
<1>3. Replies' = Replies BY DEF Replies
<1>4. EnvLife' /\ RequestKeys' /\ ReplyKeys' /\ Arguments' /\ Owned' = Owned
  BY <1>3, KeysKept
<1>5. Connected' BY <1>4 DEF Connected, Healthy
<1> QED BY <1>1, <1>2, <1>4, <1>5

\* Every step keeps the invariant.
LEMMA NextIInv == ASSUME HashesDiffer PROVE IInv /\ [Next]_vars => IInv'
<1> SUFFICES ASSUME IInv, Next PROVE IInv' BY StutterIInv
<1>0. /\ handles \subseteq Nat /\ 0 \in Nat
      /\ argument \in [Threads -> [at : {None, "convert", "drop", "call"}, handle : Nat, id : Nat]]
      /\ handles # {} => env = "up"
  BY DEF IInv, Types, EnvLife
<1>1. ASSUME NEW t \in Threads, UserCall(t) PROVE IInv'
  <2>0. argument[t].at = None BY <1>1 DEF UserCall
  <2>1. CASE MakeEnvironment(t) BY <2>1, MakeEnvironmentIInv
  <2>2. ASSUME NEW a \in Makes, Make(t, a) PROVE IInv'
    <3>1. Send(t, a, 0, 0) /\ env = "up" /\ UNCHANGED <<env, handles, argument>> BY <2>2 DEF Make
    <3>2. a # "~RemoteProxyHandle" /\ a \in Actions BY SpecialFacts
    <3>3. Arguments' BY <1>0, <2>0, <3>1, <3>2, ArgumentsKept
    <3> QED BY <1>0, <3>1, <3>2, <3>3, CallIInv
  <2>3. ASSUME NEW a \in Queries \union {"call"}, NEW h \in handles, UseHandle(t, a, h) PROVE IInv'
    <3>1. Send(t, a, h, 0) /\ env = "up" /\ UNCHANGED <<env, handles, argument>>
      BY <1>0, <2>3 DEF UseHandle
    <3>2. a # "~RemoteProxyHandle" /\ a \in Actions BY SpecialFacts
    <3>3. Arguments' BY <1>0, <2>0, <3>1, <3>2, ArgumentsKept
    <3> QED BY <1>0, <3>1, <3>2, <3>3, CallIInv
  <2>4. ASSUME NEW h \in handles, DestroyHandle(t, h) PROVE IInv'
    <3>1. /\ Send(t, "~RemoteProxyHandle", h, 0) /\ env = "up" /\ UNCHANGED <<env, argument>>
          /\ handles' = handles \ {h} /\ ~ InUse(h)
      BY <1>0, <2>4 DEF DestroyHandle
    <3>2. "~RemoteProxyHandle" \in Actions /\ \A g \in handles \ handles' : ~ InUse(g)
      BY <3>1, SpecialFacts
    <3>3. Arguments' BY <1>0, <2>0, <3>1, <3>2, ArgumentsKept
    <3> QED BY <1>0, <3>1, <3>3, CallIInv
  <2>5. CASE DestroyEnvironment(t) BY <2>5, DestroyEnvironmentIInv
  <2>6. ASSUME NEW h \in handles, ConvertArgument(t, h) PROVE IInv' BY <2>0, <2>6, ConvertArgumentIInv
  <2> QED BY <1>1, <2>1, <2>2, <2>3, <2>4, <2>5, <2>6 DEF UserCall
<1>2. ASSUME NEW t \in Threads, ThreadStep(t) PROVE IInv'
  BY <1>2, TransactIInv, AfterReplyIInv, AfterThrowIInv, DropArgumentIInv, CallWithArgumentIInv DEF ThreadStep
<1>3. CASE Handler BY <1>3, HandlerIInv
<1>4. CASE StreamEnd \/ LoseConnection BY <1>4, EndIInv
<1> QED BY <1>1, <1>2, <1>3, <1>4 DEF Next

-----------------------------------------------------------------------------
\* It implies the types,
LEMMA IInvTypeOK == ASSUME IInv PROVE TypeOK
<1> DEFINE R == {t \in Threads : pc[t] \in {"reading", "lock"}}
<1>1. \A t, u \in R : t = u BY DEF IInv, Flow, OneReader
<1>2. Cardinality(R) <= 1
  <2>1. CASE R = {} BY <2>1, FS_EmptySet
  <2>2. CASE R # {}
    <3>1. PICK t \in R : TRUE BY <2>2
    <3>2. R = {t} BY <1>1, <3>1
    <3> QED BY <3>2, FS_Singleton
  <2> QED BY <2>1, <2>2
<1>3. \A r, s \in tidToReply : r.tid = s.tid => r = s BY DEF IInv, Flow, CacheOnce
<1>4. \A t \in Threads : argument[t].at \in {None, "convert", "drop", "call"} BY DEF IInv, Types
<1>5. /\ env \in {"none", "making", "up", "closing", "closed"} /\ isMutex \in Threads \union {None}
      /\ handles \subseteq 1..lastId /\ empties \subseteq objects /\ objects \subseteq Nat
      /\ requests \in Nat
  BY DEF IInv, Types
<1>6. pc \in [Threads -> PCs] BY DEF IInv, Types
<1> QED BY <1>2, <1>3, <1>4, <1>5, <1>6 DEF TypeOK, PCs

\* and that handles and objects of the server go together.
LEMMA IInvHandles == ASSUME IInv PROVE HandlesMatchObjects
<1> SUFFICES ASSUME ~ lost
             PROVE  /\ handles \subseteq objects \ empties
                    /\ connectionActive /\ (\A t \in Threads : pc[t] = "idle") =>
                         objects \ empties = handles \union IF env = "up" THEN {1} ELSE {}
  BY DEF HandlesMatchObjects
<1>1. Owned \subseteq objects \ empties /\ (Healthy => objects \ empties = Owned) BY DEF IInv, Connected
<1>2. handles \subseteq objects \ empties BY <1>1 DEF Owned
<1>3. ASSUME connectionActive, \A t \in Threads : pc[t] = "idle"
      PROVE  objects \ empties = handles \union IF env = "up" THEN {1} ELSE {}
  <2>1. Requests = {} /\ Replies = {} BY <1>3, IdleEmpty
  <2>2. Healthy BY <1>3 DEF Healthy, Failed
  <2>3. Owned = handles \union IF env = "up" THEN {1} ELSE {} BY <2>1 DEF Owned
  <2> QED BY <1>1, <2>2, <2>3
<1> QED BY <1>2, <1>3

\* Provided that the hashes of the client's threads differ: transact returns the reply to
\* the request its thread sent, one thread reads at a time, and as long as the connection
\* is not lost every handle of the client denotes an object of the server that is not
\* empty; the server keeps nothing else when no call is under way and the client takes
\* the connection for active.  This is for any number of threads, of requests and of
\* objects, with arguments that are converted, requests that cannot be serialized and
\* replies that are not understood.
THEOREM ProxyIsSound == HashesDiffer => (Spec => []ProxySound)
<1> SUFFICES ASSUME HashesDiffer PROVE Spec => []ProxySound OBVIOUS
<1>1. Init => IInv BY InitIInv
<1>2. IInv /\ [Next]_vars => IInv' BY NextIInv
<1>3. IInv => ProxySound
  BY IInvTypeOK, IInvHandles DEF ProxySound, OwnReply, IInv, Flow, RepliesCurrent
<1> QED BY <1>1, <1>2, <1>3, PTL DEF Spec
=============================================================================
