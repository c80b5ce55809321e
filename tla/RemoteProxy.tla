---------------------------- MODULE RemoteProxy ----------------------------
(***************************************************************************)
(* A remote environment: threads of the client send requests over one      *)
(* stream and share the replies, the handler of the server runs them       *)
(* against its table of objects.  The connection may be lost at any time,  *)
(* and a datagram that carries an object of the user may fail to be        *)
(* serialized, or to be understood by the one that has read it.            *)
(*                                                                         *)
(* A datagram is a record; its bytes and the header and trailer words are  *)
(* left out.  "id" numbers the requests and is not sent.                   *)
(***************************************************************************)
EXTENDS Naturals, Sequences, FiniteSets

CONSTANTS
  Threads,
  Tid,           \* the hash of each thread, as sent
  Makes,         \* requests answered with a new handle: findProxy, convertObjectToProxy
  Queries,       \* requests on a handle answered with a value: compareTo, hashCode,
                 \* toString, getClassName, convertProxyToObject (with an object)
  Losses,        \* how often the connection may be lost, 0 or 1
  MaxRequests    \* bound: after this many requests the user begins no more,
                 \* and with the last of them no call that converts an argument

\* Actions with a meaning of their own.
Special == {"none", "reply", "local", "call", "RemoteProxyEnvironment", "~RemoteProxyEnvironment",
            "~RemoteProxyHandle"}

ASSUME RemoteAssumption ==
  /\ DOMAIN Tid = Threads /\ "none" \notin Threads
  /\ "convertObjectToProxy" \in Makes
  /\ Makes \cap Queries = {} /\ (Makes \union Queries) \cap Special = {}
  /\ Losses \in {0, 1} /\ MaxRequests \in Nat

VARIABLES
  env,          \* the life of the RemoteProxyEnvironment
  connectionActive,
  isMutex,      \* the thread that holds it, or None
  isBlocking,
  tidToReply,   \* set of replies, one for a tid at most
  pc, req,      \* where each thread is in transact, and its request
  got,          \* the reply that transact returns
  handles,      \* remoteID of the handles that exist
  argument,     \* the argument of another environment that a thread's call has converted
  toServer, toClient,   \* the two directions of the stream
  up,           \* the stream is good
  lost,         \* it was lost while the environment was in use
  objects,      \* keys of the server's object map
  empties,      \* those of them that hold an empty object
  lastId,       \* the static id of getNewObjectId
  handler,      \* the server is in runHandler
  requests,
  forsaken      \* history: the requests under way from which a read that failed has kept their
                \* reply or a notification

client == <<env, connectionActive, isMutex, isBlocking, tidToReply, pc, req, got, handles, argument,
            requests, forsaken>>
streams == <<toServer, toClient, up, lost>>
server == <<objects, empties, lastId, handler>>
vars == <<client, streams, server>>

None == "none"
NoReq == [action |-> None, id |-> 0, tid |-> 0, key |-> 0, arg |-> 0]
NoArgument == [at |-> None, handle |-> 0, id |-> 0]

(* What the variables hold, and at most one thread reads the stream.       *)
TypeOK ==
  /\ env \in {"none", "making", "up", "closing", "closed"}
  /\ isMutex \in Threads \union {None}
  /\ pc \in [Threads -> {"idle", "loop", "towait", "waiting", "reading",
                         "lock", "fail1", "fail2", "fail3", "return", "throw"}]
  /\ Cardinality({t \in Threads : pc[t] \in {"reading", "lock"}}) <= 1
  /\ \A r, s \in tidToReply : r.tid = s.tid => r = s
  /\ handles \subseteq 1..lastId /\ empties \subseteq objects /\ objects \subseteq Nat
  /\ \A t \in Threads : argument[t].at \in {None, "convert", "drop", "call"}
  /\ requests \in Nat

Init ==
  /\ env = "none" /\ connectionActive = TRUE
  /\ isMutex = None /\ isBlocking = FALSE /\ tidToReply = {}
  /\ pc = [t \in Threads |-> "idle"] /\ req = [t \in Threads |-> NoReq]
  /\ got = [t \in Threads |-> NoReq] /\ handles = {} /\ requests = 0
  /\ argument = [t \in Threads |-> NoArgument] /\ forsaken = {}
  /\ toServer = <<>> /\ toClient = <<>> /\ up = TRUE /\ lost = FALSE
  /\ objects = {} /\ empties = {} /\ lastId = 0 /\ handler = TRUE

Goto(t, l) == pc' = [pc EXCEPT ![t] = l]

-----------------------------------------------------------------------------
(* The calls that end in transact, up to its wait for the reply.  A write  *)
(* to a bad stream does not throw: the request is lost.  But the object of *)
(* a convertObjectToProxy may have no serialization.                       *)
Send(t, action, key, arg) ==
  LET r == [action |-> action, id |-> requests + 1, tid |-> Tid[t], key |-> key, arg |-> arg]
  IN  /\ pc[t] = "idle"
      /\ requests' = requests + 1
      /\ req' = [req EXCEPT ![t] = r]
      /\ \/ /\ connectionActive /\ Goto(t, "loop") /\ UNCHANGED connectionActive
            /\ toServer' = IF up THEN Append(toServer, r) ELSE toServer
         \/ /\ ~ connectionActive /\ Goto(t, "throw") /\ UNCHANGED <<connectionActive, toServer>>
         \/ /\ connectionActive /\ action = "convertObjectToProxy"
            /\ connectionActive' = FALSE /\ Goto(t, "throw") /\ UNCHANGED toServer
      /\ UNCHANGED <<isMutex, isBlocking, tidToReply, got, forsaken, toClient, up, lost, server>>

(* A handle is shared: it is destroyed when no thread uses it, and its     *)
(* environment after the last handle.                                      *)
InUse(h) ==
  \E t \in Threads :
    \/ pc[t] # "idle" /\ req[t].key = h
    \/ argument[t].at # None /\ h \in {argument[t].handle, argument[t].id}
Private == {argument[t].id : t \in {u \in Threads : argument[u].at = "drop"}}

MakeEnvironment(t) ==
  /\ env = "none" /\ env' = "making"
  /\ Send(t, "RemoteProxyEnvironment", 0, 0) /\ UNCHANGED <<handles, argument>>
Make(t, action) ==
  env = "up" /\ Send(t, action, 0, 0) /\ UNCHANGED <<env, handles, argument>>
UseHandle(t, action, h) ==
  h \in handles \ Private /\ Send(t, action, h, 0) /\ UNCHANGED <<env, handles, argument>>
DestroyHandle(t, h) ==
  /\ h \in handles /\ ~ InUse(h) /\ handles' = handles \ {h}
  /\ Send(t, "~RemoteProxyHandle", h, 0) /\ UNCHANGED <<env, argument>>
DestroyEnvironment(t) ==
  /\ env = "up" /\ handles = {} /\ \A u \in Threads : pc[u] = "idle"
  /\ env' = "closing"
  /\ Send(t, "~RemoteProxyEnvironment", 0, 0) /\ UNCHANGED <<handles, argument>>

(* A call with an argument of another environment: getHandle converts it.  *)
(* Only the loop over the arguments holds the handle that this makes: the  *)
(* handle is destroyed, and only then is the call sent with its id.        *)
ConvertArgument(t, h) ==
  /\ h \in handles \ Private /\ requests + 1 < MaxRequests
  /\ argument' = [argument EXCEPT ![t] = [at |-> "convert", handle |-> h, id |-> 0]]
  /\ Send(t, "convertObjectToProxy", 0, 0) /\ UNCHANGED <<env, handles>>
DropArgument(t) ==
  /\ argument[t].at = "drop" /\ argument' = [argument EXCEPT ![t].at = "call"]
  /\ handles' = handles \ {argument[t].id}
  /\ Send(t, "~RemoteProxyHandle", argument[t].id, 0) /\ UNCHANGED env
CallWithArgument(t) ==
  /\ argument[t].at = "call" /\ argument' = [argument EXCEPT ![t] = NoArgument]
  /\ Send(t, "call", argument[t].handle, argument[t].id) /\ UNCHANGED <<env, handles>>

UserCall(t) ==
  /\ argument[t].at = None /\ requests < MaxRequests
  /\ \/ MakeEnvironment(t)
     \/ \E a \in Makes : Make(t, a)
     \/ \E a \in Queries \union {"call"}, h \in handles : UseHandle(t, a, h)
     \/ \E h \in handles : ConvertArgument(t, h) \/ DestroyHandle(t, h)
     \/ DestroyEnvironment(t)

-----------------------------------------------------------------------------
(* The rest of transact.                                                   *)
Inside == <<env, connectionActive, req, handles, argument, requests, streams, server>>

\* What a thread does between lock and unlock is one step, but for isCond.wait.
Lockable == isMutex = None

\* Mutant: the reader keeps to itself that it stored a reply.
NotNotified(map) == map

\* notify_all: the threads in isCond.wait go back to the start of the loop.
Notified(map) == [u \in Threads |-> IF map[u] = "waiting" THEN "loop" ELSE map[u]]

\* A reply in the cache: it is taken, the lock given back, the others notified.
TakeReply(t) ==
  /\ pc[t] = "loop" /\ Lockable
  /\ \E r \in tidToReply :
       /\ r.tid = Tid[t]
       /\ tidToReply' = tidToReply \ {r}
       /\ got' = [got EXCEPT ![t] = r]
  /\ pc' = Notified([pc EXCEPT ![t] = "return"])
  /\ UNCHANGED <<Inside, forsaken, isMutex, isBlocking>>

Blocked == isBlocking

BeginWait(t) ==
  /\ pc[t] = "loop" /\ Lockable /\ \A r \in tidToReply : r.tid # Tid[t]
  /\ Blocked /\ isMutex' = t /\ Goto(t, "towait")
  /\ UNCHANGED <<Inside, forsaken, isBlocking, tidToReply, got>>

\* isCond.wait gives the mutex back and sleeps in one step.
Wait(t) ==
  /\ pc[t] = "towait" /\ isMutex' = None /\ Goto(t, "waiting")
  /\ UNCHANGED <<Inside, forsaken, isBlocking, tidToReply, got>>

BeginRead(t) ==
  /\ pc[t] = "loop" /\ Lockable /\ \A r \in tidToReply : r.tid # Tid[t]
  /\ ~ Blocked /\ isBlocking' = TRUE /\ Goto(t, "reading")
  /\ UNCHANGED <<Inside, forsaken, isMutex, tidToReply, got>>

\* recvDatagram.
Recv(t) ==
  /\ pc[t] = "reading" /\ toClient # <<>>
  /\ got' = [got EXCEPT ![t] = Head(toClient)]
  /\ toClient' = Tail(toClient)
  /\ Goto(t, "lock")
  /\ UNCHANGED <<env, connectionActive, isMutex, isBlocking, tidToReply, req, handles, argument,
                 requests, forsaken, toServer, up, lost, server>>

\* The stream ends; or an object in the reply, of whichever thread, is not understood.
StreamEnds(t) == pc[t] = "reading" /\ toClient = <<>> /\ ~ up /\ UNCHANGED <<toClient, forsaken>>
NotUnderstood(t) ==
  /\ pc[t] = "reading" /\ toClient # <<>> /\ Head(toClient).action = "local"
  /\ toClient' = Tail(toClient)
  /\ forsaken' = forsaken \union ({Head(toClient).id} \ {req[t].id})
RecvThrows(t) ==
  /\ StreamEnds(t) \/ NotUnderstood(t)
  /\ Goto(t, "fail1")
  /\ UNCHANGED <<env, connectionActive, isMutex, isBlocking, tidToReply, req, got, handles, argument,
                 requests, toServer, up, lost, server>>

(* The handler of that exception takes no lock: isBlocking is reset, the   *)
(* waiting threads are notified and the connection is marked, one by one.  *)
Fail1(t) ==
  /\ pc[t] = "fail1" /\ isBlocking' = FALSE /\ Goto(t, "fail2")
  /\ UNCHANGED <<Inside, forsaken, isMutex, tidToReply, got>>
Fail2(t) ==
  /\ pc[t] = "fail2" /\ pc' = Notified([pc EXCEPT ![t] = "fail3"])
  /\ forsaken' = forsaken \union {req[u].id : u \in {v \in Threads : pc[v] = "towait"}}
  /\ UNCHANGED <<Inside, isMutex, isBlocking, tidToReply, got>>
Fail3(t) ==
  /\ pc[t] = "fail3" /\ connectionActive' = FALSE /\ Goto(t, "throw")
  /\ UNCHANGED <<env, isMutex, isBlocking, tidToReply, req, got, handles, argument, requests,
                 forsaken, streams, server>>

\* Mutant: the first reply read is taken for one's own.
AnyReply(t) == TRUE

OwnTid(t) == got[t].tid = Tid[t]

\* lock.lock() after the read: our own reply is returned, another is stored for its thread.
Sort(t) ==
  /\ pc[t] = "lock" /\ Lockable /\ isBlocking' = FALSE
  /\ tidToReply' = IF OwnTid(t) THEN tidToReply
                   ELSE {r \in tidToReply : r.tid # got[t].tid} \union {got[t]}
  /\ pc' = Notified([pc EXCEPT ![t] = IF OwnTid(t) THEN "return" ELSE "loop"])
  /\ UNCHANGED <<Inside, forsaken, isMutex, got>>

Transact(t) ==
  \/ TakeReply(t) \/ BeginWait(t) \/ Wait(t) \/ BeginRead(t)
  \/ Recv(t) \/ RecvThrows(t) \/ Fail1(t) \/ Fail2(t) \/ Fail3(t) \/ Sort(t)

\* What a thread that converted an argument does next: nothing, when there is none.
Converted(t) ==
  IF argument[t].at # "convert" THEN argument[t]
  ELSE IF got[t].key = 0 THEN NoArgument
  ELSE [argument[t] EXCEPT !.at = "drop", !.id = got[t].key]

(* After transact: a handle is made for a reply that carries an id.        *)
AfterReply(t) ==
  LET action == req[t].action
  IN  /\ pc[t] = "return"
      /\ argument' = [argument EXCEPT ![t] = Converted(t)]
      /\ forsaken' = forsaken \ {req[t].id}
      /\ handles' = IF action \in Makes \union {"call"} /\ got[t].key # 0
                    THEN handles \union {got[t].key} ELSE handles
      /\ env' = CASE action = "RemoteProxyEnvironment" -> IF got[t].key # 0 THEN "up" ELSE "closed"
                  [] action = "~RemoteProxyEnvironment" -> "closed"
                  [] OTHER -> env
      /\ req' = [req EXCEPT ![t] = NoReq] /\ got' = [got EXCEPT ![t] = NoReq]
      /\ Goto(t, "idle")
      /\ UNCHANGED <<connectionActive, isMutex, isBlocking, tidToReply, requests, streams, server>>

\* The destructor of a handle catches what transact throws: the call goes on.
AfterThrow(t) ==
  /\ pc[t] = "throw"
  /\ argument' = [argument EXCEPT ![t] = IF @.at = "convert" THEN NoArgument ELSE @]
  /\ forsaken' = forsaken \ {req[t].id}
  /\ env' = IF req[t].action \in {"RemoteProxyEnvironment", "~RemoteProxyEnvironment"}
            THEN "closed" ELSE env
  /\ req' = [req EXCEPT ![t] = NoReq] /\ got' = [got EXCEPT ![t] = NoReq]
  /\ Goto(t, "idle")
  /\ UNCHANGED <<connectionActive, isMutex, isBlocking, tidToReply, handles, requests, streams, server>>

-----------------------------------------------------------------------------
(* runHandlerOnce.  Requests are run one after the other; the key of the   *)
(* environment is 1.  A call may throw on the server: the reply carries an *)
(* error and no id.  A key that is not in the map is looked up as an empty *)
(* object, which stays in the map.                                         *)

NewObjectId == lastId + 1

RemoveObjectAtId(key) == objects \ {key}

\* The answer to convertProxyToObject carries the object.
Reply(r, key) ==
  [r EXCEPT !.action = IF @ = "convertProxyToObject" THEN "local" ELSE "reply", !.key = key]
HandlerRun == handler /\ toServer # <<>>
Answer(key) ==
  /\ toServer' = Tail(toServer)
  /\ toClient' = Append(toClient, Reply(Head(toServer), key))
  /\ UNCHANGED <<client, up, lost>>

\* "RemoteProxyEnvironment", findProxy, convertObjectToProxy and call: a new id.
HandlerMake ==
  /\ HandlerRun
  /\ LET r == Head(toServer)
     IN  /\ r.action \in Makes \union {"RemoteProxyEnvironment", "call"}
         /\ {r.key, r.arg} \subseteq (objects \ empties) \union {0}
         /\ objects' = objects \union {NewObjectId} /\ empties' = empties \ {NewObjectId}
  /\ lastId' = lastId + 1
  /\ Answer(NewObjectId)
  /\ UNCHANGED handler

\* The keys that are looked up: an empty object is no Proxy, and the others are not reached.
LookedUp(r) == (IF r.key \in objects \ empties THEN {r.key, r.arg} ELSE {r.key}) \ {0}

\* Requests that make nothing, calls that throw, and errors.
HandlerQuery ==
  /\ HandlerRun
  /\ LET r == Head(toServer)
     IN  /\ r.action \in Queries \union Makes \union {"RemoteProxyEnvironment", "call"}
         /\ objects' = objects \union LookedUp(r)
         /\ empties' = empties \union (LookedUp(r) \ objects)
  /\ Answer(0)
  /\ UNCHANGED <<lastId, handler>>

Removed(r) == IF r.key = 0 THEN 1 ELSE r.key

HandlerRemove ==
  /\ HandlerRun
  /\ LET r == Head(toServer)
     IN  /\ r.action \in {"~RemoteProxyHandle", "~RemoteProxyEnvironment"}
         /\ objects' = RemoveObjectAtId(Removed(r)) /\ empties' = empties \ {Removed(r)}
         /\ handler' = (r.action # "~RemoteProxyEnvironment")
  /\ Answer(0)
  /\ UNCHANGED lastId

Handler == HandlerMake \/ HandlerQuery \/ HandlerRemove

(* The stream ends when the handler has returned, or when it breaks: what  *)
(* is under way is lost, from some point on.                               *)
StreamEnd ==
  /\ up /\ ~ handler /\ up' = FALSE
  /\ UNCHANGED <<client, toServer, toClient, lost, server>>

LoseConnection ==
  /\ up /\ handler /\ Losses = 1
  /\ up' = FALSE /\ lost' = TRUE /\ handler' = FALSE
  /\ toServer' = <<>>
  /\ \E n \in 0..Len(toClient) : toClient' = SubSeq(toClient, 1, n)
  /\ UNCHANGED <<client, objects, empties, lastId>>

ThreadStep(t) ==
  Transact(t) \/ AfterReply(t) \/ AfterThrow(t) \/ DropArgument(t) \/ CallWithArgument(t)

Next ==
  \/ \E t \in Threads : UserCall(t) \/ ThreadStep(t)
  \/ Handler \/ StreamEnd \/ LoseConnection

Spec == Init /\ [][Next]_vars

-----------------------------------------------------------------------------
(* transact returns the reply to the request that its thread sent, however *)
(* the threads take turns at reading the stream.                           *)
OwnReply == \A t \in Threads : pc[t] = "return" => got[t].id = req[t].id

(* Every handle of the client denotes an object of the server, and no      *)
(* object is left behind while the client takes the connection for active: *)
(* when no call is under way, the server keeps the environment and what    *)
(* the client holds (getNewObjectId, removeObjectAtId).  What a look-up of *)
(* a removed key leaves is empty, and never one of a handle.               *)
HandlesMatchObjects ==
  ~ lost =>
    /\ handles \subseteq objects \ empties
    /\ connectionActive /\ (\A t \in Threads : pc[t] = "idle") =>
         objects \ empties = handles \union IF env = "up" THEN {1} ELSE {}

\* transact returns the reply to its thread's request, and the client's handles
\* and the server's objects agree.
ProxySound == TypeOK /\ OwnReply /\ HandlesMatchObjects

(* Every transact returns or throws, whatever becomes of the connection,   *)
(* but for a thread whose reply was read by another one that did not       *)
(* understand it, or that was not yet asleep when a read that failed       *)
(* notified the others (RemoteProxy.cpp:71-77).                            *)
Returned(t) == pc[t] = "idle" \/ req[t].id \in forsaken
TransactReturns == \A t \in Threads : ~ Returned(t) ~> Returned(t)

(* Every transact returns or throws, also when the connection is lost: a   *)
(* thread that waits is notified by the one that was reading.              *)
TransactEnds == \A t \in Threads : (pc[t] # "idle") ~> (pc[t] = "idle")
=============================================================================
