--------------------------- MODULE MCRemoteProxy ---------------------------
(* Remote environments: the proxy's client and server, the making of       *)
(* clients and of servers, and the datagrams between them.  They have no   *)
(* state in common: part says which of them runs, and the others stay in   *)
(* their initial states.                                                   *)
EXTENDS RemoteProxy

CONSTANT Parts

VARIABLES
  part,
  lookups, futures, mutex, clientPc, host, mine, leaving,
  handle, process, terminate, open, served, numConnections,
  sent, transit, arrived, cut, reader, size, payload, received

\* Three threads of one client whose hashes differ.
MCThreads == {"t1", "t2", "t3"}
MCTid == [t \in MCThreads |-> CASE t = "t1" -> 1 [] t = "t2" -> 2 [] t = "t3" -> 3]

Client == INSTANCE RemoteClient WITH
  Threads <- {"t1", "t2"}, Hosts <- {"h"}, None <- "none", MaxLookups <- 3, pc <- clientPc
Server == INSTANCE RemoteServer WITH Own <- "own", Others <- {"c1", "c2"}
\* Payloads of every length up to one more than payloadBytes can count.
Wire == INSTANCE Datagram WITH
  Payloads <- {<<>>, <<"a">>, <<"b", "a">>, <<"a", "b", "b">>},
  HeaderWord <- "PRPC", TrailerWord <- "CPRP", Word <- 3, MaxSent <- 3

ASSUME PartsAssumption ==
  Client!ClientAssumption /\ Server!ServerAssumption /\ Wire!DatagramAssumption

making == <<lookups, futures, mutex, clientPc, host, mine, leaving>>
serving == <<handle, process, terminate, open, served, numConnections>>
wire == <<sent, transit, arrived, cut, reader, size, payload, received>>
all == <<part, vars, making, serving, wire>>

MCInit == part \in Parts /\ Init /\ Client!Init /\ Server!Init /\ Wire!Init

MCNext ==
  \/ part = "proxy" /\ Next /\ UNCHANGED <<part, making, serving, wire>>
  \/ part = "client" /\ Client!Next /\ UNCHANGED <<part, vars, serving, wire>>
  \/ part = "server" /\ Server!Next /\ UNCHANGED <<part, vars, making, wire>>
  \/ part = "wire" /\ Wire!Next /\ UNCHANGED <<part, vars, making, serving>>

(* The threads of both processes and of both servers are scheduled.  A     *)
(* look-up has an answer, if only that there is none, and who waits for    *)
(* its mutex gets it when it is free; what is in transit arrives.  Nothing *)
(* makes a user call, a handle be destroyed or a client leave.             *)
MCFairness ==
  /\ \A t \in Threads : WF_vars(part = "proxy" /\ ThreadStep(t))
  /\ WF_vars(part = "proxy" /\ (Handler \/ StreamEnd))
  /\ \A t \in {"t1", "t2"} :
       /\ WF_making(part = "client" /\ Client!Inside(t))
       /\ SF_making(part = "client" /\ Client!GetFuture(t)) /\ SF_making(part = "client" /\ Client!Erase(t))
  /\ \A f \in 1..3 : WF_making(part = "client" /\ f \in DOMAIN lookups /\ Client!Answer(f))
  /\ WF_serving(part = "server" /\ Server!Handle) /\ WF_serving(part = "server" /\ Server!Terminate)
  /\ WF_serving(part = "server" /\ (Server!Listen \/ Server!BindError))
  /\ \A c \in Server!Conns :
       /\ WF_serving(part = "server" /\ Server!ConnectionStart(c))
       /\ WF_serving(part = "server" /\ Server!ConnectionStop(c))
  /\ WF_wire(part = "wire" /\ Wire!Arrives) /\ WF_wire(part = "wire" /\ Wire!Receive)

MCSpec == MCInit /\ [][MCNext]_all /\ MCFairness

-----------------------------------------------------------------------------
(* A thread that asks the server has its reply or an exception in the end, *)
(* unless a read that failed kept it from its reply or its notification;   *)
(* and the making of a RemoteClient returns or throws, whoever shares its  *)
(* look-up.  This is TransactReturns and Client!ClientReturns: threads may *)
(* be exchanged, and what holds of one holds of all.                       *)
CallReturned == Returned("t1") /\ Client!Returned("t1")
CallsReturn == [](Client!TypeOK) /\ (~ CallReturned ~> CallReturned)

(* A server process does not end while its handle is served, ends when its *)
(* handle is destroyed, and ends after the handle's process has died.      *)
ServerEndsWithHandle ==
  [](Server!TypeOK) /\ Server!HandleKeepsServer /\ Server!DestructionEnds /\ Server!OrphanEnds

(* recvDatagram returns whole datagrams in order, or throws: it does not  *)
(* wait for ever.                                                          *)
DatagramsWhole == [](Wire!TypeOK /\ Wire!ReceivedAreSent) /\ Wire!ReceivedOrTold
=============================================================================
