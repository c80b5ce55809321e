--------------------------- MODULE ActorInterface ---------------------------
(***************************************************************************)
(* Exclusive access to one block's actor: lib/Framework/ActorInterface.hpp *)
(* and WorkerActor::processTask.  One worker thread loops over             *)
(* processTask; external callers enter the actor through                   *)
(* ActorInterfaceLock; flaggers (upstream and downstream workers, buffer   *)
(* returns, message posts) change state the actor reads and then call      *)
(* flagExternalChange.  Every atomic access, mutex operation and           *)
(* condition-variable operation is a step of its own; atomics are          *)
(* sequentially consistent, except for the relaxed read of _aquireWaiting. *)
(***************************************************************************)
EXTENDS Naturals, FiniteSets

CONSTANTS Callers,    \* threads that construct an ActorInterfaceLock
          Flaggers,   \* threads that call flagExternalChange
          Worker,     \* the thread that runs processTask on this actor
          NoThread,   \* "no owner" of _acquireMutex
          MaxCalls    \* bound: operations each caller or flagger performs

Clients == Callers \cup Flaggers
Threads == Clients \cup {Worker}

ASSUME ThreadsAssumption ==
    /\ IsFiniteSet(Callers)
    /\ Callers \cap Flaggers = {}
    /\ Worker \notin Clients
    /\ NoThread \notin Threads
    /\ MaxCalls \in Nat

VARIABLES
    changeFlagged,     \* _changeFlagged is clear: a change is to be looked at
    externalAcquired,  \* _externalAcquired
    extCallLock,       \* _extCallLock is held
    acquireMutex,      \* owner of _acquireMutex
    acquireWaiting,    \* _aquireWaiting
    pc,                \* where each thread is
    phase,             \* which evaluation of isReady the worker is in
    waitEnabled,       \* argument of the worker's current processTask
    budget,            \* operations left to each client
    unseen,            \* clients whose last change no workTask has looked at
    bypass             \* history: worker acquisitions since a caller registered

actorVars == <<changeFlagged, externalAcquired, extCallLock, acquireMutex, acquireWaiting>>
workerVars == <<phase, waitEnabled>>
ghostVars == <<unseen, bypass>>
vars == <<actorVars, pc, workerVars, budget, ghostVars>>

CallerPCs == {"idle", "try", "block", "waiting", "relock", "inCall", "rel1", "rel2", "rel3", "rel4"}
FlaggerPCs == {"idle", "flag", "load", "notify"}
WorkerPCs == {"idle", "chk", "tas", "arm", "lock", "sleep", "waiting", "relock",
              "disarmReady", "disarmIdle", "gotFlag", "reflag", "work", "wrel1", "wrel2", "wrel3"}

\* The worker evaluates isReady once unlocked ("first"), again whenever the
\* wait wakes ("poll"), and once more after the 1 ms timeout ("last").
Phases == {"first", "poll", "last"}

\* Threads blocked in a wait on _acquireCond.
Waiting == {t \in Threads : pc[t] = "waiting"}

Goto(t, label) == pc' = [pc EXCEPT ![t] = label]

\* t performs a notify that wakes the waiters in S, and goes to label.
NotifyGoto(t, S, label) ==
    pc' = [u \in Threads |-> IF u = t THEN label ELSE IF u \in S THEN "relock" ELSE pc[u]]

\* Callers between the increment and the decrement of _externalAcquired.
Registered == {c \in Callers : pc[c] \in {"try", "block", "waiting", "relock", "inCall", "rel1"}}

\* The threads that own the actor's context.
Holders == {c \in Callers : pc[c] \in {"inCall", "rel1", "rel2"}}
           \cup {w \in {Worker} : pc[w] \in {"work", "wrel1"}}

Init ==
    /\ changeFlagged = FALSE       \* the constructor's test_and_set
    /\ externalAcquired = 0
    /\ extCallLock = FALSE
    /\ acquireMutex = NoThread
    /\ acquireWaiting = FALSE
    /\ pc = [t \in Threads |-> "idle"]
    /\ phase = "first"
    /\ waitEnabled = FALSE
    /\ budget = [t \in Clients |-> MaxCalls]
    /\ unseen = {}
    /\ bypass = [c \in Callers |-> 0]

-----------------------------------------------------------------------------
(* externalCallAcquire *)

\* Lock _acquireMutex and increment the counter.  Taking a free mutex commutes
\* with every step the other threads can take before the increment, so the
\* two are one step.
CallerEnter(c) ==
    /\ pc[c] = "idle" /\ budget[c] > 0
    /\ acquireMutex = NoThread
    /\ acquireMutex' = c
    /\ externalAcquired' = externalAcquired + 1
    /\ budget' = [budget EXCEPT ![c] = @ - 1]
    /\ bypass' = [bypass EXCEPT ![c] = 0]
    /\ Goto(c, "try")
    /\ UNCHANGED <<changeFlagged, extCallLock, acquireWaiting, workerVars, unseen>>

\* try_lock succeeds: the unique_lock goes out of scope on return.
CallerTryLock(c) ==
    /\ pc[c] = "try" /\ ~extCallLock
    /\ extCallLock' = TRUE
    /\ acquireMutex' = NoThread
    /\ Goto(c, "inCall")
    /\ UNCHANGED <<changeFlagged, externalAcquired, acquireWaiting, workerVars, budget, ghostVars>>

CallerTryFail(c) ==
    /\ pc[c] = "try" /\ extCallLock
    /\ Goto(c, "block")
    /\ UNCHANGED <<actorVars, workerVars, budget, ghostVars>>

\* wait_for releases the mutex and blocks in one step.
CallerWait(c) ==
    /\ pc[c] = "block"
    /\ acquireMutex' = NoThread
    /\ Goto(c, "waiting")
    /\ UNCHANGED <<changeFlagged, externalAcquired, extCallLock, acquireWaiting, workerVars, budget, ghostVars>>

\* Mutant: a wait without a timeout relies on the notifications.
CallerWaitsForNotify(c) == pc[c] = "waiting" /\ FALSE /\ UNCHANGED vars

\* The 1 ms elapse, or the wait returns spuriously.
CallerTimeout(c) ==
    /\ pc[c] = "waiting"
    /\ Goto(c, "relock")
    /\ UNCHANGED <<actorVars, workerVars, budget, ghostVars>>

CallerRelock(c) ==
    /\ pc[c] = "relock" /\ acquireMutex = NoThread
    /\ acquireMutex' = c
    /\ Goto(c, "try")
    /\ UNCHANGED <<changeFlagged, externalAcquired, extCallLock, acquireWaiting, workerVars, budget, ghostVars>>

\* The body of the external call changes the actor's state.
CallerBody(c) ==
    /\ pc[c] = "inCall"
    /\ unseen' = unseen \cup {c}
    /\ Goto(c, "rel1")
    /\ UNCHANGED <<actorVars, workerVars, budget, bypass>>

(* externalCallRelease: four atomic operations, without the mutex *)

CallerDecrement(c) ==
    /\ pc[c] = "rel1"
    /\ externalAcquired' = externalAcquired - 1
    /\ Goto(c, "rel2")
    /\ UNCHANGED <<changeFlagged, extCallLock, acquireMutex, acquireWaiting, workerVars, budget, ghostVars>>

CallerUnlock(c) ==
    /\ pc[c] = "rel2"
    /\ extCallLock' = FALSE
    /\ Goto(c, "rel3")
    /\ UNCHANGED <<changeFlagged, externalAcquired, acquireMutex, acquireWaiting, workerVars, budget, ghostVars>>

CallerFlag(c) ==
    /\ pc[c] = "rel3"
    /\ changeFlagged' = TRUE
    /\ Goto(c, "rel4")
    /\ UNCHANGED <<externalAcquired, extCallLock, acquireMutex, acquireWaiting, workerVars, budget, ghostVars>>

CallerNotify(c) ==
    /\ pc[c] = "rel4"
    /\ NotifyGoto(c, Waiting, "idle")
    /\ UNCHANGED <<actorVars, workerVars, budget, ghostVars>>

Caller(c) ==
    \/ CallerEnter(c) \/ CallerTryLock(c) \/ CallerTryFail(c) \/ CallerWait(c)
    \/ CallerTimeout(c) \/ CallerRelock(c) \/ CallerBody(c) \/ CallerDecrement(c)
    \/ CallerUnlock(c) \/ CallerFlag(c) \/ CallerNotify(c)

-----------------------------------------------------------------------------
(* flagExternalChange, called after the flagger changed what the actor reads *)

FlaggerDeposit(f) ==
    /\ pc[f] = "idle" /\ budget[f] > 0
    /\ unseen' = unseen \cup {f}
    /\ budget' = [budget EXCEPT ![f] = @ - 1]
    /\ Goto(f, "flag")
    /\ UNCHANGED <<actorVars, workerVars, bypass>>

FlaggerFlag(f) ==
    /\ pc[f] = "flag"
    /\ changeFlagged' = TRUE
    /\ Goto(f, "load")
    /\ UNCHANGED <<externalAcquired, extCallLock, acquireMutex, acquireWaiting, workerVars, budget, ghostVars>>

\* The worker's store is relaxed: the load may return the older FALSE.
FlaggerLoad(f) ==
    /\ pc[f] = "load"
    /\ \/ acquireWaiting /\ Goto(f, "notify")
       \/ Goto(f, "idle")
    /\ UNCHANGED <<actorVars, workerVars, budget, ghostVars>>

\* notify_one wakes one of the waiters, whichever thread that is.
FlaggerNotify(f) ==
    /\ pc[f] = "notify"
    /\ \/ Waiting = {} /\ Goto(f, "idle")
       \/ \E t \in Waiting : NotifyGoto(f, {t}, "idle")
    /\ UNCHANGED <<actorVars, workerVars, budget, ghostVars>>

Flagger(f) ==
    FlaggerDeposit(f) \/ FlaggerFlag(f) \/ FlaggerLoad(f) \/ FlaggerNotify(f)

-----------------------------------------------------------------------------
(* WorkerActor::processTask on the worker thread *)

\* The thread environment chooses waitEnabled.
WorkerStart(w) ==
    /\ pc[w] = "idle"
    /\ waitEnabled' \in BOOLEAN
    /\ phase' = "first"
    /\ Goto(w, "chk")
    /\ UNCHANGED <<actorVars, budget, ghostVars>>

\* Where an evaluation of isReady that returned false continues.
NotReadyLabel ==
    CASE phase = "first" -> IF waitEnabled THEN "arm" ELSE "idle"
      [] phase = "poll"  -> "sleep"
      [] phase = "last"  -> "disarmIdle"

\* Mutant: only the change flag is looked at.
WorkerIgnoresExternal(w) ==
    /\ pc[w] = "chk"
    /\ Goto(w, "tas")
    /\ UNCHANGED <<actorVars, workerVars, budget, ghostVars>>

\* isReady, first half: give way to external calls.
WorkerCheckExternal(w) ==
    /\ pc[w] = "chk"
    /\ Goto(w, IF externalAcquired # 0 THEN NotReadyLabel ELSE "tas")
    /\ UNCHANGED <<actorVars, workerVars, budget, ghostVars>>

\* isReady, second half: the test_and_set consumes the change.
WorkerTakeChange(w) ==
    /\ pc[w] = "tas"
    /\ changeFlagged' = FALSE
    /\ Goto(w, IF ~changeFlagged THEN NotReadyLabel
               ELSE IF phase = "first" THEN "gotFlag" ELSE "disarmReady")
    /\ UNCHANGED <<externalAcquired, extCallLock, acquireMutex, acquireWaiting, workerVars, budget, ghostVars>>

WorkerArm(w) ==
    /\ pc[w] = "arm"
    /\ acquireWaiting' = TRUE
    /\ Goto(w, "lock")
    /\ UNCHANGED <<changeFlagged, externalAcquired, extCallLock, acquireMutex, workerVars, budget, ghostVars>>

\* Lock the mutex, for the first time or when the wait returns.
WorkerLock(w) ==
    /\ pc[w] \in {"lock", "relock"} /\ acquireMutex = NoThread
    /\ acquireMutex' = w
    /\ phase' = IF phase = "last" THEN "last" ELSE "poll"
    /\ Goto(w, "chk")
    /\ UNCHANGED <<changeFlagged, externalAcquired, extCallLock, acquireWaiting, waitEnabled, budget, ghostVars>>

WorkerSleep(w) ==
    /\ pc[w] = "sleep"
    /\ acquireMutex' = NoThread
    /\ Goto(w, "waiting")
    /\ UNCHANGED <<changeFlagged, externalAcquired, extCallLock, acquireWaiting, workerVars, budget, ghostVars>>

\* Mutant: the worker waits for a notification, however long.
WorkerWaitsForNotify(w) == pc[w] = "waiting" /\ FALSE /\ UNCHANGED vars

\* The timeout ends the wait: isReady is evaluated one last time.
WorkerTimeout(w) ==
    /\ pc[w] = "waiting"
    /\ phase' = "last"
    /\ Goto(w, "relock")
    /\ UNCHANGED <<actorVars, waitEnabled, budget, ghostVars>>

\* Clear _aquireWaiting and release the mutex on return.
WorkerDisarm(w) ==
    /\ pc[w] \in {"disarmReady", "disarmIdle"}
    /\ acquireWaiting' = FALSE
    /\ acquireMutex' = NoThread
    /\ Goto(w, IF pc[w] = "disarmReady" THEN "gotFlag" ELSE "idle")
    /\ UNCHANGED <<changeFlagged, externalAcquired, extCallLock, workerVars, budget, ghostVars>>

\* Mutant: the worker assumes that no external call got in since its check.
WorkerAssumesLock(w) ==
    /\ pc[w] = "gotFlag"
    /\ extCallLock' = TRUE
    /\ bypass' = [c \in Callers |-> IF c \in Registered THEN bypass[c] + 1 ELSE bypass[c]]
    /\ Goto(w, "work")
    /\ UNCHANGED <<changeFlagged, externalAcquired, acquireMutex, acquireWaiting, workerVars, budget, unseen>>

WorkerTryLock(w) ==
    /\ pc[w] = "gotFlag" /\ ~extCallLock
    /\ extCallLock' = TRUE
    /\ bypass' = [c \in Callers |-> IF c \in Registered THEN bypass[c] + 1 ELSE bypass[c]]
    /\ Goto(w, "work")
    /\ UNCHANGED <<changeFlagged, externalAcquired, acquireMutex, acquireWaiting, workerVars, budget, unseen>>

\* Mutant: the consumed change is not put back.
WorkerTryFailForgets(w) ==
    /\ pc[w] = "gotFlag" /\ extCallLock
    /\ Goto(w, "idle")
    /\ UNCHANGED <<actorVars, workerVars, budget, ghostVars>>

WorkerTryFail(w) ==
    /\ pc[w] = "gotFlag" /\ extCallLock
    /\ Goto(w, "reflag")
    /\ UNCHANGED <<actorVars, workerVars, budget, ghostVars>>

\* A call holds the context: put the consumed change back.
WorkerReflag(w) ==
    /\ pc[w] = "reflag"
    /\ changeFlagged' = TRUE
    /\ Goto(w, "idle")
    /\ UNCHANGED <<externalAcquired, extCallLock, acquireMutex, acquireWaiting, workerVars, budget, ghostVars>>

\* workTask looks at everything that changed; it may flag a change of its own.
WorkerWork(w) ==
    /\ pc[w] = "work"
    /\ unseen' = {}
    /\ \/ changeFlagged' = TRUE
       \/ UNCHANGED changeFlagged
    /\ Goto(w, "wrel1")
    /\ UNCHANGED <<externalAcquired, extCallLock, acquireMutex, acquireWaiting, workerVars, budget, bypass>>

(* workerThreadRelease *)

WorkerUnlock(w) ==
    /\ pc[w] = "wrel1"
    /\ extCallLock' = FALSE
    /\ Goto(w, "wrel2")
    /\ UNCHANGED <<changeFlagged, externalAcquired, acquireMutex, acquireWaiting, workerVars, budget, ghostVars>>

WorkerReleaseCheck(w) ==
    /\ pc[w] = "wrel2"
    /\ Goto(w, IF externalAcquired # 0 THEN "wrel3" ELSE "idle")
    /\ UNCHANGED <<actorVars, workerVars, budget, ghostVars>>

WorkerNotify(w) ==
    /\ pc[w] = "wrel3"
    /\ NotifyGoto(w, Waiting, "idle")
    /\ UNCHANGED <<actorVars, workerVars, budget, ghostVars>>

WorkerStep(w) ==
    \/ WorkerStart(w) \/ WorkerCheckExternal(w) \/ WorkerTakeChange(w) \/ WorkerArm(w)
    \/ WorkerLock(w) \/ WorkerSleep(w) \/ WorkerTimeout(w) \/ WorkerDisarm(w)
    \/ WorkerTryLock(w) \/ WorkerTryFail(w) \/ WorkerReflag(w) \/ WorkerWork(w)
    \/ WorkerUnlock(w) \/ WorkerReleaseCheck(w) \/ WorkerNotify(w)

\* wakeNoChange: the thread environment wakes the waiters, and flags nothing.
WakeNoChange ==
    /\ Waiting # {}
    /\ NotifyGoto(NoThread, Waiting, "idle")
    /\ UNCHANGED <<actorVars, workerVars, budget, ghostVars>>

Next ==
    \/ \E c \in Callers : Caller(c)
    \/ \E f \in Flaggers : Flagger(f)
    \/ WorkerStep(Worker)
    \/ WakeNoChange

Spec == Init /\ [][Next]_vars

\* Every thread keeps running and the 1 ms timeouts fire; a thread that is
\* blocked on _acquireMutex gets it if the mutex is free again and again
\* (its owners sleep with the mutex released).
Fairness ==
    /\ \A c \in Callers : WF_vars(Caller(c)) /\ SF_vars(CallerEnter(c)) /\ SF_vars(CallerRelock(c))
    /\ \A f \in Flaggers : WF_vars(Flagger(f))
    /\ WF_vars(WorkerStep(Worker)) /\ SF_vars(WorkerLock(Worker))

FairSpec == Spec /\ Fairness

-----------------------------------------------------------------------------
(* Properties *)

\* Types of the actor's state, and where each kind of thread can be.  The
\* unsigned _externalAcquired never goes below zero.
TypeOK ==
    /\ changeFlagged \in BOOLEAN
    /\ externalAcquired \in Nat
    /\ extCallLock \in BOOLEAN
    /\ acquireMutex \in Threads \cup {NoThread}
    /\ acquireWaiting \in BOOLEAN
    /\ pc \in [Threads -> CallerPCs \cup FlaggerPCs \cup WorkerPCs]
    /\ \A c \in Callers : pc[c] \in CallerPCs
    /\ \A f \in Flaggers : pc[f] \in FlaggerPCs
    /\ pc[Worker] \in WorkerPCs
    /\ phase \in Phases
    /\ waitEnabled \in BOOLEAN
    /\ budget \in [Clients -> Nat]
    /\ unseen \subseteq Clients
    /\ bypass \in [Callers -> Nat]

\* The actor context has at most one owner, a worker inside workTask or an
\* external caller inside its call, and the call lock is held exactly while
\* there is one: no path through acquire, wait and release leaks it.
ExclusiveContext ==
    /\ \A s, t \in Holders : s = t
    /\ extCallLock <=> Holders # {}

\* A worker that has consumed the change flag and not yet run workTask or
\* put the flag back.
ChangeInHand == pc[Worker] \in {"disarmReady", "gotFlag", "reflag", "work"}

\* No change is lost: what a client changed and no workTask has looked at is
\* flagged, or in the hand of the worker, or its client is still on the way
\* to flag it.  Consuming the flag and failing to get the lock is the case
\* that could lose it.
NoLostChange ==
    \A x \in unseen :
        \/ changeFlagged
        \/ ChangeInHand
        \/ pc[x] \in {"flag", "rel1", "rel2", "rel3"}

\* External calls have priority: from the moment a caller has registered in
\* _externalAcquired the worker enters the context at most once before it.
ExternalPriority == \A c \in Registered : bypass[c] <= 1

\* Every registered external caller enters the actor.
CallerEnters == \A c \in Callers : pc[c] = "try" ~> pc[c] = "inCall"

\* Every change is looked at by a workTask, whatever notifications are lost.
ChangeLookedAt == \A x \in Clients : x \in unseen ~> x \notin unseen

=============================================================================
