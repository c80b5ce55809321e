---------------------------- MODULE RemoteServer ----------------------------
(***************************************************************************)
(* A RemoteServer handle and the proxy server process that it started with *)
(* --require-active: the process ends by itself when its last connection   *)
(* does.  The handle keeps a connection of its own for that.               *)
(*                                                                         *)
(* A connection that a client has made waits in a queue of the server      *)
(* until one of the server's threads creates its handler; the threads take *)
(* connections at the same time, so in any order.                          *)
(***************************************************************************)
EXTENDS Naturals, FiniteSets

CONSTANTS Own,     \* the connection of the handle
          Others   \* connections of other clients

ServerAssumption == Own \notin Others /\ IsFiniteSet(Others)

Conns == Others \union {Own}

VARIABLES
  handle,     \* where the construction or destruction of the handle is
  process,    \* the server process
  terminate,  \* its termination was requested
  open,       \* the connections whose client has not closed them
  served,     \* what the server has done with each connection
  numConnections

vars == <<handle, process, terminate, open, served, numConnections>>

Init ==
  /\ handle = "none" /\ process = "none" /\ terminate = FALSE /\ open = {}
  /\ served = [c \in Conns |-> "none"] /\ numConnections = 0

Goto(from, to) == handle \in from /\ handle' = to

-----------------------------------------------------------------------------
(* The handle.                                                             *)
Launch ==
  /\ Goto({"none"}, "reading") /\ process = "none" /\ process' = "booting"
  /\ UNCHANGED <<terminate, open, served, numConnections>>

\* The port is read from the output of the process.
ReadPort ==
  /\ process = "listening" /\ Goto({"reading"}, "connecting")
  /\ UNCHANGED <<process, terminate, open, served, numConnections>>

\* The output ends without a port: the process is gone, the constructor throws.
ReadPortError ==
  /\ process = "ended" /\ Goto({"reading"}, "waiting") /\ terminate' = TRUE
  /\ UNCHANGED <<process, open, served, numConnections>>

Connect(c) ==
  /\ process = "listening" /\ served[c] = "none"
  /\ open' = open \union {c} /\ served' = [served EXCEPT ![c] = "queued"]

StoreClient ==
  /\ Goto({"connecting"}, "made") /\ Connect(Own)
  /\ UNCHANGED <<process, terminate, numConnections>>

\* RemoteClient throws (timeout, name): the handle is destroyed on the way out.
ConnectThrows ==
  /\ Goto({"connecting"}, "terminating")
  /\ UNCHANGED <<process, terminate, open, served, numConnections>>

\* ~Impl: the client is reset, ...
ResetClient ==
  /\ Goto({"made"}, "terminating") /\ open' = open \ {Own}
  /\ UNCHANGED <<process, terminate, served, numConnections>>

Request == Goto({"terminating"}, "waiting") /\ terminate' = TRUE

\* ... the termination requested ...
RequestTermination == Request /\ UNCHANGED <<process, open, served, numConnections>>

\* ... and the process waited for.
Wait ==
  /\ process = "ended" /\ Goto({"waiting"}, "destroyed")
  /\ UNCHANGED <<process, terminate, open, served, numConnections>>

\* The process of the handle is killed.
Crash ==
  /\ Goto({"reading", "connecting", "made", "terminating", "waiting"}, "crashed")
  /\ open' = open \ {Own}
  /\ UNCHANGED <<process, terminate, served, numConnections>>

-----------------------------------------------------------------------------
(* The server process.                                                     *)
Listen ==
  /\ process = "booting" /\ process' = "listening"
  /\ UNCHANGED <<handle, terminate, open, served, numConnections>>

\* The address cannot be bound: an exception ends the process.
BindError ==
  /\ process = "booting" /\ process' = "ended"
  /\ UNCHANGED <<handle, terminate, open, served, numConnections>>

\* createConnection, connectionStart
ConnectionStart(c) ==
  /\ process = "listening" /\ served[c] = "queued"
  /\ served' = [served EXCEPT ![c] = "running"] /\ numConnections' = numConnections + 1
  /\ UNCHANGED <<handle, process, terminate, open>>

\* Mutant: any connection that ends, ends the process.
AnyEnds(n) == TRUE

NoneLeft(n) == n = 0

OneLess(n) == n - 1

\* runHandler returned; ~MyTCPServerConnection, connectionStop
ConnectionStop(c) ==
  /\ process = "listening" /\ served[c] = "running" /\ c \notin open
  /\ served' = [served EXCEPT ![c] = "done"] /\ numConnections' = OneLess(numConnections)
  /\ terminate' = (terminate \/ NoneLeft(numConnections'))
  /\ UNCHANGED <<handle, process, open>>

\* waitForTerminationRequest returns; a signal that came while booting ends it too.
Terminate ==
  /\ terminate /\ process \in {"booting", "listening"} /\ process' = "ended" /\ open' = {}
  /\ UNCHANGED <<handle, terminate, served, numConnections>>

-----------------------------------------------------------------------------
(* Other clients.                                                          *)
Join(c) == c \in Others /\ Connect(c) /\ UNCHANGED <<handle, process, terminate, numConnections>>

Leave(c) ==
  /\ c \in Others \intersect open /\ open' = open \ {c}
  /\ UNCHANGED <<handle, process, terminate, served, numConnections>>

Handle ==
  \/ ReadPort \/ ReadPortError \/ StoreClient \/ ConnectThrows \/ RequestTermination \/ Wait

Server ==
  Listen \/ BindError \/ Terminate \/ \E c \in Conns : ConnectionStart(c) \/ ConnectionStop(c)

Next ==
  \/ Launch \/ Handle \/ ResetClient \/ Crash \/ Server
  \/ \E c \in Others : Join(c) \/ Leave(c)

Spec == Init /\ [][Next]_vars

-----------------------------------------------------------------------------
\* The variables have their types, and the count is that of the handlers that run.
TypeOK ==
  /\ handle \in {"none", "reading", "connecting", "made", "terminating", "waiting",
                 "destroyed", "crashed"}
  /\ process \in {"none", "booting", "listening", "ended"} /\ terminate \in BOOLEAN
  /\ open \subseteq Conns /\ served \in [Conns -> {"none", "queued", "running", "done"}]
  /\ numConnections = Cardinality({c \in Conns : served[c] = "running"})

(* Once the connection of a handle is being served, no step tells the      *)
(* process to end while the handle is there, whichever other clients come  *)
(* and go.  (Before that, the end of another client's connection can.)     *)
HandleKeepsServer ==
  [][handle = "made" /\ handle' = "made" /\ served[Own] = "running" /\ ~ terminate
       => ~ terminate']_vars

(* A handle that is being destroyed, or whose construction failed, sees    *)
(* its process end and is gone (~Impl); nobody is left waiting.            *)
DestructionEnds ==
  (handle \in {"terminating", "waiting"}) ~> (handle \in {"destroyed", "crashed"})

(* The process ends when the process of its handle dies without a word, if *)
(* it has been connected to, and the other clients are gone.               *)
OrphanEnds ==
  (handle = "crashed" /\ process # "none" /\ served[Own] # "none" /\ open = {})
     ~> (process = "ended" \/ open # {})

(* "proxy server shuts off without active clients": when the handle's      *)
(* process is dead and nobody is connected, the process ends.              *)
ShutsOff ==
  (handle = "crashed" /\ open = {}) ~> (process = "ended" \/ open # {})
=============================================================================
