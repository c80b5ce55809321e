---------------------------- MODULE RemoteClient ----------------------------
(***************************************************************************)
(* The making of a RemoteClient: the name of the host is looked up by an   *)
(* asynchronous future, which the threads of the process share through a   *)
(* map, with a timeout; then the socket is connected.                      *)
(*                                                                         *)
(* The future comes from std::async: who gives up the last reference to it *)
(* waits until the lookup is over.  References are those of the map and of *)
(* the threads.                                                            *)
(***************************************************************************)
EXTENDS Naturals, Sequences

CONSTANTS
  Threads, Hosts,
  None,
  MaxLookups   \* bound: lookups that are started

ClientAssumption == None \notin Threads /\ MaxLookups \in Nat

VARIABLES
  lookups,   \* the lookups started, in order: their host and how they are
  futures,   \* getDNSFutures: the lookup of a host, 0 when there is none
  mutex,     \* getDNSLookupMutex: who waits with the mutex held, or None
  pc,        \* where each thread is
  host,      \* the host it wants
  mine,      \* its dnsFuture, 0 when it has none
  leaving    \* the lookup that it has to wait for to give up its last reference

vars == <<lookups, futures, mutex, pc, host, mine, leaving>>

Init ==
  /\ lookups = <<>> /\ futures = [h \in Hosts |-> 0] /\ mutex = None
  /\ pc = [t \in Threads |-> "idle"] /\ host \in [Threads -> Hosts]
  /\ mine = [t \in Threads |-> 0] /\ leaving = [t \in Threads |-> 0]

Goto(t, from, to) == pc[t] = from /\ pc' = [pc EXCEPT ![t] = to]
Running(f) == f # 0 /\ lookups[f].state = "running"
Holds(u, f) == mine[u] = f

\* dnsLookup begins, for a host that the URI names.
Begin(t, h) ==
  /\ Goto(t, "idle", "get") /\ host' = [host EXCEPT ![t] = h]
  /\ UNCHANGED <<lookups, futures, mutex, mine, leaving>>

NewFuture == Len(lookups) + 1

\* Create a future, or get the existing one, under the mutex.
GetFuture(t) ==
  /\ mutex = None /\ Goto(t, "get", "wait")
  /\ IF futures[host[t]] = 0
     THEN /\ Len(lookups) < MaxLookups
          /\ lookups' = Append(lookups, [host |-> host[t], state |-> "running"])
          /\ futures' = [futures EXCEPT ![host[t]] = NewFuture]
          /\ mine' = [mine EXCEPT ![t] = NewFuture]
     ELSE /\ mine' = [mine EXCEPT ![t] = futures[host[t]]]
          /\ UNCHANGED <<lookups, futures>>
  /\ UNCHANGED <<mutex, host, leaving>>

\* dnsLookupBlocking, in the thread of the future, has an answer.
Answer(f) ==
  /\ Running(f)
  /\ \E s \in {"ok", "failed"} : lookups' = [lookups EXCEPT ![f].state = s]
  /\ UNCHANGED <<futures, mutex, pc, host, mine, leaving>>

\* Is the reference of t to f, which it gives up, the last one?
Last(t, f, map) ==
  /\ \A h \in Hosts : map[h] # f
  /\ \A u \in Threads \ {t} : ~ Holds(u, f)

\* wait_for ran out: throw, and with that give up the reference.
TimeOut(t) ==
  /\ Running(mine[t])
  /\ LET waits == Last(t, mine[t], futures)
     IN  /\ Goto(t, "wait", IF waits THEN "leave" ELSE "idle")
         /\ leaving' = [leaving EXCEPT ![t] = IF waits THEN mine[t] ELSE 0]
  /\ mine' = [mine EXCEPT ![t] = 0]
  /\ UNCHANGED <<lookups, futures, mutex, host>>

\* get throws what the lookup threw.  The map keeps the future.
GetThrows(t) ==
  /\ mine[t] # 0 /\ lookups[mine[t]].state = "failed" /\ Goto(t, "wait", "idle")
  /\ mine' = [mine EXCEPT ![t] = 0]
  /\ UNCHANGED <<lookups, futures, mutex, host, leaving>>

GetReturns(t) ==
  /\ mine[t] # 0 /\ lookups[mine[t]].state = "ok" /\ Goto(t, "wait", "erase")
  /\ UNCHANGED <<lookups, futures, mutex, host, mine, leaving>>

\* Mutant: the mutex is not free again after a wait with it.
KeepsMutex(t) == t

MutexAfterWait(t) == None

(* The future of the host is erased, under the mutex: the one that was got *)
(* or one that another thread has started since.                           *)
Erase(t) ==
  /\ mutex = None
  /\ futures' = [futures EXCEPT ![host[t]] = 0]
  /\ LET f == futures[host[t]]
         waits == f # mine[t] /\ Running(f) /\ Last(t, f, futures')
     IN  /\ Goto(t, "erase", IF waits THEN "leave" ELSE "connect")
         /\ leaving' = [leaving EXCEPT ![t] = IF waits THEN f ELSE 0]
         /\ mutex' = IF waits THEN t ELSE None
  /\ mine' = [mine EXCEPT ![t] = 0]
  /\ UNCHANGED <<lookups, host>>

\* The lookup whose last reference was given up is over.
Left(t) ==
  /\ pc[t] = "leave" /\ ~ Running(leaving[t])
  /\ pc' = [pc EXCEPT ![t] = IF mutex = t THEN "connect" ELSE "idle"]
  /\ mutex' = IF mutex = t THEN MutexAfterWait(t) ELSE mutex
  /\ leaving' = [leaving EXCEPT ![t] = 0]
  /\ UNCHANGED <<lookups, futures, host, mine>>

\* connect with the address and a timeout: the client is made, or it throws.
Connect(t) ==
  /\ Goto(t, "connect", "made") \/ Goto(t, "connect", "idle")
  /\ UNCHANGED <<lookups, futures, mutex, host, mine, leaving>>

\* The client is destroyed.
Close(t) == Goto(t, "made", "idle") /\ UNCHANGED <<lookups, futures, mutex, host, mine, leaving>>

Inside(t) ==
  \/ GetFuture(t) \/ TimeOut(t) \/ GetThrows(t) \/ GetReturns(t) \/ Erase(t) \/ Left(t) \/ Connect(t)

Next ==
  \/ \E t \in Threads : Inside(t) \/ Close(t) \/ \E h \in Hosts : Begin(t, h)
  \/ \E f \in DOMAIN lookups : Answer(f)

Spec == Init /\ [][Next]_vars

-----------------------------------------------------------------------------
\* The variables have their types; a thread that waits has a lookup of its host.
TypeOK ==
  /\ futures \in [Hosts -> 0..Len(lookups)] /\ mutex \in Threads \union {None}
  /\ pc \in [Threads -> {"idle", "get", "wait", "erase", "leave", "connect", "made"}]
  /\ \A h \in Hosts : futures[h] # 0 => lookups[futures[h]].host = h
  /\ \A t \in Threads : pc[t] \in {"wait", "erase"} =>
       mine[t] \in DOMAIN lookups /\ lookups[mine[t]].host = host[t]

(* The making of a client ends, in success or with an exception, however   *)
(* the threads share, give up and erase the futures of the hosts, or the   *)
(* bound on the lookups is reached.                                        *)
Returned(t) == pc[t] \in {"idle", "made"} \/ (pc[t] = "get" /\ Len(lookups) = MaxLookups)
ClientReturns == \A t \in Threads : ~ Returned(t) ~> Returned(t)

(* A lookup has a timeout (dnsLookup): no thread waits without one for a   *)
(* lookup to end, with the mutex that all the others need or without.      *)
LookupHasTimeout == \A t \in Threads : pc[t] # "leave"

(* A completed future is removed from the map (dnsLookup): who asks again  *)
(* when all who waited for a failed lookup have been told is not answered  *)
(* with that.                                                              *)
FailureForgotten ==
  [][\A t \in Threads :
       pc[t] = "get" /\ pc'[t] = "wait" /\ lookups'[mine'[t]].state = "failed"
         => \E u \in Threads : Holds(u, mine'[t])]_vars
=============================================================================
