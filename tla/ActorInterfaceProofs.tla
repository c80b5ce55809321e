------------------------ MODULE ActorInterfaceProofs ------------------------
(***************************************************************************)
(* Proofs that the safety properties of ActorInterface hold for any number *)
(* of callers and flaggers and any number of calls.  The inductive         *)
(* invariant adds to the properties themselves what they rest on: the      *)
(* counter _externalAcquired counts exactly the callers that registered,   *)
(* and a worker that was let past a caller once does not come through the  *)
(* check of the counter again while that caller is registered.             *)
(***************************************************************************)
EXTENDS ActorInterface, FiniteSetTheorems, TLAPS

\* _externalAcquired is the number of registered callers.
CountExact == externalAcquired = Cardinality(Registered)

\* A worker that entered the context past a registered caller is not again
\* beyond the check of _externalAcquired on its way to the call lock.
GivesWay ==
    \A c \in Registered :
        /\ bypass[c] <= 1
        /\ bypass[c] = 1 => pc[Worker] \notin {"tas", "disarmReady", "gotFlag"}

Inv == TypeOK /\ CountExact /\ ExclusiveContext /\ NoLostChange /\ GivesWay

-----------------------------------------------------------------------------
\* The kinds of threads are disjoint.
LEMMA ThreadKinds ==
    /\ \A c \in Callers : c \in Threads /\ c \in Clients /\ c # Worker /\ c \notin Flaggers
    /\ \A f \in Flaggers : f \in Threads /\ f \in Clients /\ f # Worker /\ f \notin Callers
    /\ Worker \in Threads /\ Worker \notin Clients /\ NoThread \notin Threads
BY ThreadsAssumption DEF Threads, Clients

\* The registered callers can be counted.
LEMMA RegisteredFinite == IsFiniteSet(Registered) /\ Cardinality(Registered) \in Nat
<1>1. Registered \subseteq Callers
  BY DEF Registered
<1>2. IsFiniteSet(Registered)
  BY <1>1, ThreadsAssumption, FS_Subset
<1> QED
  BY <1>2, FS_CardinalityType

\* While a caller is registered the worker reads a counter other than zero.
LEMMA RegisteredCounted ==
  ASSUME CountExact, NEW c \in Registered
  PROVE  externalAcquired # 0
<1>1. Cardinality(Registered) # 0
  BY RegisteredFinite, FS_EmptySet
<1> QED
  BY <1>1 DEF CountExact

\* A notification only moves threads from the wait to the mutex.
LEMMA NotifyMoves ==
  ASSUME TypeOK, NEW t, NEW S \in SUBSET Waiting, NEW label, NotifyGoto(t, S, label)
  PROVE  /\ \A u \in Threads : u # t => pc'[u] = pc[u] \/ (pc[u] = "waiting" /\ pc'[u] = "relock")
         /\ t \in Threads => pc'[t] = label
BY DEF TypeOK, NotifyGoto, Waiting

-----------------------------------------------------------------------------
\* Every step keeps the types; the counter does not run below zero because
\* a caller that decrements it is counted.
LEMMA CallerType ==
  ASSUME Inv, NEW c \in Callers, Caller(c)
  PROVE  TypeOK'
<1> USE ThreadKinds DEF Inv, TypeOK, CallerPCs, FlaggerPCs, WorkerPCs, Phases, Goto,
        actorVars, workerVars, ghostVars
<1>1. CASE CallerEnter(c)
  BY <1>1 DEF CallerEnter
<1>2. CASE CallerTryLock(c)
  BY <1>2 DEF CallerTryLock
<1>3. CASE CallerTryFail(c)
  BY <1>3 DEF CallerTryFail
<1>4. CASE CallerWait(c)
  BY <1>4 DEF CallerWait
<1>5. CASE CallerTimeout(c)
  BY <1>5 DEF CallerTimeout
<1>6. CASE CallerRelock(c)
  BY <1>6 DEF CallerRelock
<1>7. CASE CallerBody(c)
  BY <1>7 DEF CallerBody
<1>8. CASE CallerDecrement(c)
  <2>1. c \in Registered
    BY <1>8 DEF CallerDecrement, Registered
  <2>2. externalAcquired # 0
    BY <2>1, RegisteredCounted
  <2> QED
    BY <2>2, <1>8 DEF CallerDecrement
<1>9. CASE CallerUnlock(c)
  BY <1>9 DEF CallerUnlock
<1>10. CASE CallerFlag(c)
  BY <1>10 DEF CallerFlag
<1>11. CASE CallerNotify(c)
  BY <1>11 DEF CallerNotify, NotifyGoto, Waiting
<1> QED
  BY <1>1, <1>2, <1>3, <1>4, <1>5, <1>6, <1>7, <1>8, <1>9, <1>10, <1>11 DEF Caller

\* A step of a flagger keeps the types,
LEMMA FlaggerType ==
  ASSUME Inv, NEW f \in Flaggers, Flagger(f)
  PROVE  TypeOK'
<1> USE ThreadKinds DEF Inv, TypeOK, CallerPCs, FlaggerPCs, WorkerPCs, Phases, Goto,
        actorVars, workerVars, ghostVars
<1>1. CASE FlaggerDeposit(f)
  BY <1>1 DEF FlaggerDeposit
<1>2. CASE FlaggerFlag(f)
  BY <1>2 DEF FlaggerFlag
<1>3. CASE FlaggerLoad(f)
  BY <1>3 DEF FlaggerLoad
<1>4. CASE FlaggerNotify(f)
  BY <1>4 DEF FlaggerNotify, NotifyGoto, Waiting
<1> QED
  BY <1>1, <1>2, <1>3, <1>4 DEF Flagger

\* and so does one of the worker.
LEMMA WorkerType ==
  ASSUME Inv, WorkerStep(Worker)
  PROVE  TypeOK'
<1> USE ThreadKinds DEF Inv, TypeOK, CallerPCs, FlaggerPCs, WorkerPCs, Phases, Goto,
        actorVars, workerVars, ghostVars
<1>1. CASE WorkerStart(Worker)
  BY <1>1 DEF WorkerStart
<1>2. CASE WorkerCheckExternal(Worker)
  BY <1>2 DEF WorkerCheckExternal, NotReadyLabel
<1>3. CASE WorkerTakeChange(Worker)
  BY <1>3 DEF WorkerTakeChange, NotReadyLabel
<1>4. CASE WorkerArm(Worker)
  BY <1>4 DEF WorkerArm
<1>5. CASE WorkerLock(Worker)
  BY <1>5 DEF WorkerLock
<1>6. CASE WorkerSleep(Worker)
  BY <1>6 DEF WorkerSleep
<1>7. CASE WorkerTimeout(Worker)
  BY <1>7 DEF WorkerTimeout
<1>8. CASE WorkerDisarm(Worker)
  BY <1>8 DEF WorkerDisarm
<1>9. CASE WorkerTryLock(Worker)
  BY <1>9 DEF WorkerTryLock
<1>10. CASE WorkerTryFail(Worker)
  BY <1>10 DEF WorkerTryFail
<1>11. CASE WorkerReflag(Worker)
  BY <1>11 DEF WorkerReflag
<1>12. CASE WorkerWork(Worker)
  BY <1>12 DEF WorkerWork
<1>13. CASE WorkerUnlock(Worker)
  BY <1>13 DEF WorkerUnlock
<1>14. CASE WorkerReleaseCheck(Worker)
  BY <1>14 DEF WorkerReleaseCheck
<1>15. CASE WorkerNotify(Worker)
  BY <1>15 DEF WorkerNotify, NotifyGoto, Waiting
<1> QED
  BY <1>1, <1>2, <1>3, <1>4, <1>5, <1>6, <1>7, <1>8, <1>9, <1>10, <1>11, <1>12, <1>13, <1>14, <1>15 DEF WorkerStep

\* Every step keeps the counter exact.
LEMMA CallerCount ==
  ASSUME Inv, NEW c \in Callers, Caller(c)
  PROVE  CountExact'
<1> USE ThreadKinds, RegisteredFinite DEF Inv, TypeOK, CountExact, Registered, Goto,
        actorVars, workerVars, ghostVars
<1>1. CASE CallerEnter(c)
  <2>1. c \notin Registered /\ Registered' = Registered \cup {c}
    BY <1>1 DEF CallerEnter
  <2> QED
    BY <2>1, <1>1, FS_AddElement DEF CallerEnter
<1>2. CASE CallerTryLock(c)
  BY <1>2 DEF CallerTryLock
<1>3. CASE CallerTryFail(c)
  BY <1>3 DEF CallerTryFail
<1>4. CASE CallerWait(c)
  BY <1>4 DEF CallerWait
<1>5. CASE CallerTimeout(c)
  BY <1>5 DEF CallerTimeout
<1>6. CASE CallerRelock(c)
  BY <1>6 DEF CallerRelock
<1>7. CASE CallerBody(c)
  BY <1>7 DEF CallerBody
<1>8. CASE CallerDecrement(c)
  <2>1. c \in Registered /\ Registered' = Registered \ {c}
    BY <1>8 DEF CallerDecrement
  <2>2. Cardinality(Registered \ {c}) = Cardinality(Registered) - 1
    BY <2>1, FS_RemoveElement
  <2> QED
    BY <2>1, <2>2, <1>8 DEF CallerDecrement
<1>9. CASE CallerUnlock(c)
  BY <1>9 DEF CallerUnlock
<1>10. CASE CallerFlag(c)
  BY <1>10 DEF CallerFlag
<1>11. CASE CallerNotify(c)
  BY <1>11 DEF CallerNotify, NotifyGoto, Waiting
<1> QED
  BY <1>1, <1>2, <1>3, <1>4, <1>5, <1>6, <1>7, <1>8, <1>9, <1>10, <1>11 DEF Caller

\* A step of a flagger keeps the count of external calls exact,
LEMMA FlaggerCount ==
  ASSUME Inv, NEW f \in Flaggers, Flagger(f)
  PROVE  CountExact'
<1> USE ThreadKinds, RegisteredFinite DEF Inv, TypeOK, CountExact, Registered, Goto,
        actorVars, workerVars, ghostVars
<1>1. CASE FlaggerDeposit(f)
  BY <1>1 DEF FlaggerDeposit
<1>2. CASE FlaggerFlag(f)
  BY <1>2 DEF FlaggerFlag
<1>3. CASE FlaggerLoad(f)
  BY <1>3 DEF FlaggerLoad
<1>4. CASE FlaggerNotify(f)
  BY <1>4 DEF FlaggerNotify, NotifyGoto, Waiting
<1> QED
  BY <1>1, <1>2, <1>3, <1>4 DEF Flagger

\* and so does one of the worker.
LEMMA WorkerCount ==
  ASSUME Inv, WorkerStep(Worker)
  PROVE  CountExact'
<1> USE ThreadKinds, RegisteredFinite DEF Inv, TypeOK, CountExact, Registered, Goto,
        actorVars, workerVars, ghostVars
<1>1. CASE WorkerStart(Worker)
  BY <1>1 DEF WorkerStart
<1>2. CASE WorkerCheckExternal(Worker)
  BY <1>2 DEF WorkerCheckExternal, NotReadyLabel
<1>3. CASE WorkerTakeChange(Worker)
  BY <1>3 DEF WorkerTakeChange, NotReadyLabel
<1>4. CASE WorkerArm(Worker)
  BY <1>4 DEF WorkerArm
<1>5. CASE WorkerLock(Worker)
  BY <1>5 DEF WorkerLock
<1>6. CASE WorkerSleep(Worker)
  BY <1>6 DEF WorkerSleep
<1>7. CASE WorkerTimeout(Worker)
  BY <1>7 DEF WorkerTimeout
<1>8. CASE WorkerDisarm(Worker)
  BY <1>8 DEF WorkerDisarm
<1>9. CASE WorkerTryLock(Worker)
  BY <1>9 DEF WorkerTryLock
<1>10. CASE WorkerTryFail(Worker)
  BY <1>10 DEF WorkerTryFail
<1>11. CASE WorkerReflag(Worker)
  BY <1>11 DEF WorkerReflag
<1>12. CASE WorkerWork(Worker)
  BY <1>12 DEF WorkerWork
<1>13. CASE WorkerUnlock(Worker)
  BY <1>13 DEF WorkerUnlock
<1>14. CASE WorkerReleaseCheck(Worker)
  BY <1>14 DEF WorkerReleaseCheck
<1>15. CASE WorkerNotify(Worker)
  BY <1>15 DEF WorkerNotify, NotifyGoto, Waiting
<1> QED
  BY <1>1, <1>2, <1>3, <1>4, <1>5, <1>6, <1>7, <1>8, <1>9, <1>10, <1>11, <1>12, <1>13, <1>14, <1>15 DEF WorkerStep

\* Every step keeps the context exclusive.
LEMMA CallerExclusive ==
  ASSUME Inv, NEW c \in Callers, Caller(c)
  PROVE  ExclusiveContext'
<1> USE ThreadKinds DEF Inv, TypeOK, ExclusiveContext, Holders, Goto,
        actorVars, workerVars, ghostVars
<1>1. CASE CallerEnter(c)
  BY <1>1 DEF CallerEnter
<1>2. CASE CallerTryLock(c)
  BY <1>2 DEF CallerTryLock
<1>3. CASE CallerTryFail(c)
  BY <1>3 DEF CallerTryFail
<1>4. CASE CallerWait(c)
  BY <1>4 DEF CallerWait
<1>5. CASE CallerTimeout(c)
  BY <1>5 DEF CallerTimeout
<1>6. CASE CallerRelock(c)
  BY <1>6 DEF CallerRelock
<1>7. CASE CallerBody(c)
  BY <1>7 DEF CallerBody
<1>8. CASE CallerDecrement(c)
  BY <1>8 DEF CallerDecrement
<1>9. CASE CallerUnlock(c)
  BY <1>9 DEF CallerUnlock
<1>10. CASE CallerFlag(c)
  BY <1>10 DEF CallerFlag
<1>11. CASE CallerNotify(c)
  BY <1>11 DEF CallerNotify, NotifyGoto, Waiting
<1> QED
  BY <1>1, <1>2, <1>3, <1>4, <1>5, <1>6, <1>7, <1>8, <1>9, <1>10, <1>11 DEF Caller

\* A step of a flagger lets nobody into the context,
LEMMA FlaggerExclusive ==
  ASSUME Inv, NEW f \in Flaggers, Flagger(f)
  PROVE  ExclusiveContext'
<1> USE ThreadKinds DEF Inv, TypeOK, ExclusiveContext, Holders, Goto,
        actorVars, workerVars, ghostVars
<1>1. CASE FlaggerDeposit(f)
  BY <1>1 DEF FlaggerDeposit
<1>2. CASE FlaggerFlag(f)
  BY <1>2 DEF FlaggerFlag
<1>3. CASE FlaggerLoad(f)
  BY <1>3 DEF FlaggerLoad
<1>4. CASE FlaggerNotify(f)
  BY <1>4 DEF FlaggerNotify, NotifyGoto, Waiting
<1> QED
  BY <1>1, <1>2, <1>3, <1>4 DEF Flagger

\* and one of the worker only when nobody is there.
LEMMA WorkerExclusive ==
  ASSUME Inv, WorkerStep(Worker)
  PROVE  ExclusiveContext'
<1> USE ThreadKinds DEF Inv, TypeOK, ExclusiveContext, Holders, Goto,
        actorVars, workerVars, ghostVars
<1>1. CASE WorkerStart(Worker)
  BY <1>1 DEF WorkerStart
<1>2. CASE WorkerCheckExternal(Worker)
  <2>1. pc'[Worker] \notin {"work", "wrel1"}
    BY <1>2 DEF WorkerCheckExternal, NotReadyLabel, Phases
  <2> QED
    BY <2>1, <1>2 DEF WorkerCheckExternal
<1>3. CASE WorkerTakeChange(Worker)
  <2>1. pc'[Worker] \notin {"work", "wrel1"}
    BY <1>3 DEF WorkerTakeChange, NotReadyLabel, Phases
  <2> QED
    BY <2>1, <1>3 DEF WorkerTakeChange
<1>4. CASE WorkerArm(Worker)
  BY <1>4 DEF WorkerArm
<1>5. CASE WorkerLock(Worker)
  BY <1>5 DEF WorkerLock
<1>6. CASE WorkerSleep(Worker)
  BY <1>6 DEF WorkerSleep
<1>7. CASE WorkerTimeout(Worker)
  BY <1>7 DEF WorkerTimeout
<1>8. CASE WorkerDisarm(Worker)
  BY <1>8 DEF WorkerDisarm
<1>9. CASE WorkerTryLock(Worker)
  BY <1>9 DEF WorkerTryLock
<1>10. CASE WorkerTryFail(Worker)
  BY <1>10 DEF WorkerTryFail
<1>11. CASE WorkerReflag(Worker)
  BY <1>11 DEF WorkerReflag
<1>12. CASE WorkerWork(Worker)
  BY <1>12 DEF WorkerWork
<1>13. CASE WorkerUnlock(Worker)
  BY <1>13 DEF WorkerUnlock
<1>14. CASE WorkerReleaseCheck(Worker)
  BY <1>14 DEF WorkerReleaseCheck
<1>15. CASE WorkerNotify(Worker)
  BY <1>15 DEF WorkerNotify, NotifyGoto, Waiting
<1> QED
  BY <1>1, <1>2, <1>3, <1>4, <1>5, <1>6, <1>7, <1>8, <1>9, <1>10, <1>11, <1>12, <1>13, <1>14, <1>15 DEF WorkerStep

\* Every step keeps changes from being lost.
LEMMA CallerNoLost ==
  ASSUME Inv, NEW c \in Callers, Caller(c)
  PROVE  NoLostChange'
<1> USE ThreadKinds DEF Inv, TypeOK, NoLostChange, ChangeInHand, Goto,
        actorVars, workerVars, ghostVars
<1>1. CASE CallerEnter(c)
  BY <1>1 DEF CallerEnter
<1>2. CASE CallerTryLock(c)
  BY <1>2 DEF CallerTryLock
<1>3. CASE CallerTryFail(c)
  BY <1>3 DEF CallerTryFail
<1>4. CASE CallerWait(c)
  BY <1>4 DEF CallerWait
<1>5. CASE CallerTimeout(c)
  BY <1>5 DEF CallerTimeout
<1>6. CASE CallerRelock(c)
  BY <1>6 DEF CallerRelock
<1>7. CASE CallerBody(c)
  BY <1>7 DEF CallerBody
<1>8. CASE CallerDecrement(c)
  BY <1>8 DEF CallerDecrement
<1>9. CASE CallerUnlock(c)
  BY <1>9 DEF CallerUnlock
<1>10. CASE CallerFlag(c)
  BY <1>10 DEF CallerFlag
<1>11. CASE CallerNotify(c)
  <2>1. \A u \in Threads : u # c => pc'[u] = pc[u] \/ (pc[u] = "waiting" /\ pc'[u] = "relock")
    BY <1>11, NotifyMoves DEF CallerNotify, Waiting
  <2> QED
    BY <2>1, <1>11 DEF CallerNotify, Clients, Threads
<1> QED
  BY <1>1, <1>2, <1>3, <1>4, <1>5, <1>6, <1>7, <1>8, <1>9, <1>10, <1>11 DEF Caller

\* A step of a flagger loses no change,
LEMMA FlaggerNoLost ==
  ASSUME Inv, NEW f \in Flaggers, Flagger(f)
  PROVE  NoLostChange'
<1> USE ThreadKinds DEF Inv, TypeOK, NoLostChange, ChangeInHand, Goto,
        actorVars, workerVars, ghostVars
<1>1. CASE FlaggerDeposit(f)
  BY <1>1 DEF FlaggerDeposit
<1>2. CASE FlaggerFlag(f)
  BY <1>2 DEF FlaggerFlag
<1>3. CASE FlaggerLoad(f)
  <2>1. \A u \in Threads : u # f => pc'[u] = pc[u]
    BY <1>3 DEF FlaggerLoad
  <2> QED
    BY <2>1, <1>3 DEF FlaggerLoad, Clients, Threads
<1>4. CASE FlaggerNotify(f)
  <2>1. \A u \in Threads : u # f => pc'[u] = pc[u] \/ (pc[u] = "waiting" /\ pc'[u] = "relock")
    <3>1. ASSUME NEW t \in Waiting, NotifyGoto(f, {t}, "idle")
          PROVE  \A u \in Threads : u # f => pc'[u] = pc[u] \/ (pc[u] = "waiting" /\ pc'[u] = "relock")
      BY <3>1, NotifyMoves
    <3> QED
      BY <3>1, <1>4 DEF FlaggerNotify
  <2> QED
    BY <2>1, <1>4 DEF FlaggerNotify, Clients, Threads
<1> QED
  BY <1>1, <1>2, <1>3, <1>4 DEF Flagger

\* and neither does one of the worker.
LEMMA WorkerNoLost ==
  ASSUME Inv, WorkerStep(Worker)
  PROVE  NoLostChange'
<1> USE ThreadKinds DEF Inv, TypeOK, NoLostChange, ChangeInHand, Goto,
        actorVars, workerVars, ghostVars
<1>1. CASE WorkerStart(Worker)
  BY <1>1 DEF WorkerStart
<1>2. CASE WorkerCheckExternal(Worker)
  BY <1>2 DEF WorkerCheckExternal, NotReadyLabel
<1>3. CASE WorkerTakeChange(Worker)
  BY <1>3 DEF WorkerTakeChange, NotReadyLabel
<1>4. CASE WorkerArm(Worker)
  BY <1>4 DEF WorkerArm
<1>5. CASE WorkerLock(Worker)
  BY <1>5 DEF WorkerLock
<1>6. CASE WorkerSleep(Worker)
  BY <1>6 DEF WorkerSleep
<1>7. CASE WorkerTimeout(Worker)
  BY <1>7 DEF WorkerTimeout
<1>8. CASE WorkerDisarm(Worker)
  BY <1>8 DEF WorkerDisarm
<1>9. CASE WorkerTryLock(Worker)
  BY <1>9 DEF WorkerTryLock
<1>10. CASE WorkerTryFail(Worker)
  BY <1>10 DEF WorkerTryFail
<1>11. CASE WorkerReflag(Worker)
  BY <1>11 DEF WorkerReflag
<1>12. CASE WorkerWork(Worker)
  BY <1>12 DEF WorkerWork
<1>13. CASE WorkerUnlock(Worker)
  BY <1>13 DEF WorkerUnlock
<1>14. CASE WorkerReleaseCheck(Worker)
  BY <1>14 DEF WorkerReleaseCheck
<1>15. CASE WorkerNotify(Worker)
  <2>1. \A u \in Threads : u # Worker => pc'[u] = pc[u] \/ (pc[u] = "waiting" /\ pc'[u] = "relock")
    BY <1>15, NotifyMoves DEF WorkerNotify, Waiting
  <2> QED
    BY <2>1, <1>15 DEF WorkerNotify, Clients, Threads
<1> QED
  BY <1>1, <1>2, <1>3, <1>4, <1>5, <1>6, <1>7, <1>8, <1>9, <1>10, <1>11, <1>12, <1>13, <1>14, <1>15 DEF WorkerStep

\* Every step keeps the worker giving way.
LEMMA CallerGivesWay ==
  ASSUME Inv, NEW c \in Callers, Caller(c)
  PROVE  GivesWay'
<1> USE ThreadKinds DEF Inv, TypeOK, GivesWay, Registered, Goto,
        actorVars, workerVars, ghostVars
<1>1. CASE CallerEnter(c)
  BY <1>1 DEF CallerEnter
<1>2. CASE CallerTryLock(c)
  BY <1>2 DEF CallerTryLock
<1>3. CASE CallerTryFail(c)
  BY <1>3 DEF CallerTryFail
<1>4. CASE CallerWait(c)
  BY <1>4 DEF CallerWait
<1>5. CASE CallerTimeout(c)
  BY <1>5 DEF CallerTimeout
<1>6. CASE CallerRelock(c)
  BY <1>6 DEF CallerRelock
<1>7. CASE CallerBody(c)
  BY <1>7 DEF CallerBody
<1>8. CASE CallerDecrement(c)
  BY <1>8 DEF CallerDecrement
<1>9. CASE CallerUnlock(c)
  BY <1>9 DEF CallerUnlock
<1>10. CASE CallerFlag(c)
  BY <1>10 DEF CallerFlag
<1>11. CASE CallerNotify(c)
  BY <1>11 DEF CallerNotify, NotifyGoto, Waiting
<1> QED
  BY <1>1, <1>2, <1>3, <1>4, <1>5, <1>6, <1>7, <1>8, <1>9, <1>10, <1>11 DEF Caller

\* A step of a flagger lets the worker overtake nobody,
LEMMA FlaggerGivesWay ==
  ASSUME Inv, NEW f \in Flaggers, Flagger(f)
  PROVE  GivesWay'
<1> USE ThreadKinds DEF Inv, TypeOK, GivesWay, Registered, Goto,
        actorVars, workerVars, ghostVars
<1>1. CASE FlaggerDeposit(f)
  BY <1>1 DEF FlaggerDeposit
<1>2. CASE FlaggerFlag(f)
  BY <1>2 DEF FlaggerFlag
<1>3. CASE FlaggerLoad(f)
  BY <1>3 DEF FlaggerLoad
<1>4. CASE FlaggerNotify(f)
  BY <1>4 DEF FlaggerNotify, NotifyGoto, Waiting
<1> QED
  BY <1>1, <1>2, <1>3, <1>4 DEF Flagger

\* and the worker itself overtakes a call at most once.
LEMMA WorkerGivesWay ==
  ASSUME Inv, WorkerStep(Worker)
  PROVE  GivesWay'
<1> USE ThreadKinds DEF Inv, TypeOK, GivesWay, Registered, Goto,
        actorVars, workerVars, ghostVars
<1>1. CASE WorkerStart(Worker)
  BY <1>1 DEF WorkerStart
<1>2. CASE WorkerCheckExternal(Worker)
  <2>1. pc'[Worker] \in {"tas", "disarmReady", "gotFlag"} => Registered = {}
    BY <1>2, RegisteredCounted DEF WorkerCheckExternal, NotReadyLabel, Phases
  <2> QED
    BY <2>1, <1>2 DEF WorkerCheckExternal
<1>3. CASE WorkerTakeChange(Worker)
  BY <1>3 DEF WorkerTakeChange, NotReadyLabel
<1>4. CASE WorkerArm(Worker)
  BY <1>4 DEF WorkerArm
<1>5. CASE WorkerLock(Worker)
  BY <1>5 DEF WorkerLock
<1>6. CASE WorkerSleep(Worker)
  BY <1>6 DEF WorkerSleep
<1>7. CASE WorkerTimeout(Worker)
  BY <1>7 DEF WorkerTimeout
<1>8. CASE WorkerDisarm(Worker)
  BY <1>8 DEF WorkerDisarm
<1>9. CASE WorkerTryLock(Worker)
  BY <1>9 DEF WorkerTryLock
<1>10. CASE WorkerTryFail(Worker)
  BY <1>10 DEF WorkerTryFail
<1>11. CASE WorkerReflag(Worker)
  BY <1>11 DEF WorkerReflag
<1>12. CASE WorkerWork(Worker)
  BY <1>12 DEF WorkerWork
<1>13. CASE WorkerUnlock(Worker)
  BY <1>13 DEF WorkerUnlock
<1>14. CASE WorkerReleaseCheck(Worker)
  BY <1>14 DEF WorkerReleaseCheck
<1>15. CASE WorkerNotify(Worker)
  BY <1>15 DEF WorkerNotify, NotifyGoto, Waiting
<1> QED
  BY <1>1, <1>2, <1>3, <1>4, <1>5, <1>6, <1>7, <1>8, <1>9, <1>10, <1>11, <1>12, <1>13, <1>14, <1>15 DEF WorkerStep

\* wakeNoChange and stuttering.
LEMMA WakeKeepsInv == Inv /\ WakeNoChange => Inv'
<1> SUFFICES ASSUME Inv, WakeNoChange PROVE Inv'
  OBVIOUS
<1> USE ThreadKinds DEF Inv, TypeOK, WakeNoChange, NotifyGoto, Waiting, actorVars, workerVars, ghostVars
<1>1. /\ \A c \in Callers : pc'[c] = pc[c] \/ (pc[c] = "waiting" /\ pc'[c] = "relock")
      /\ \A f \in Flaggers : pc'[f] = pc[f]
      /\ pc'[Worker] = pc[Worker] \/ (pc[Worker] = "waiting" /\ pc'[Worker] = "relock")
  BY DEF FlaggerPCs
<1>2. TypeOK'
  BY DEF CallerPCs, FlaggerPCs, WorkerPCs
<1>3. Registered' = Registered
  BY <1>1 DEF Registered
<1>4. CountExact'
  BY <1>3 DEF CountExact
<1>5. ExclusiveContext'
  <2>1. Holders' = Holders
    BY <1>1 DEF Holders
  <2> QED
    BY <2>1 DEF ExclusiveContext
<1>6. NoLostChange'
  BY <1>1 DEF NoLostChange, ChangeInHand, Clients
<1>7. GivesWay'
  BY <1>1, <1>3 DEF GivesWay
<1> QED
  BY <1>2, <1>4, <1>5, <1>6, <1>7

\* A step of something else.
LEMMA StutterKeepsInv == Inv /\ UNCHANGED vars => Inv'
BY DEF Inv, TypeOK, CountExact, Registered, ExclusiveContext, Holders, NoLostChange,
       ChangeInHand, GivesWay, vars, actorVars, workerVars, ghostVars

\* A new actor has the invariant.
LEMMA InvInit == Init => Inv
<1> SUFFICES ASSUME Init PROVE Inv
  OBVIOUS
<1> USE ThreadKinds, ThreadsAssumption DEF Init
<1>1. Registered = {} /\ Holders = {}
  BY DEF Registered, Holders
<1>2. TypeOK
  BY DEF TypeOK, CallerPCs, FlaggerPCs, WorkerPCs, Phases
<1>3. CountExact
  BY <1>1, FS_EmptySet DEF CountExact
<1>4. ExclusiveContext /\ NoLostChange /\ GivesWay
  BY <1>1 DEF ExclusiveContext, NoLostChange, GivesWay
<1> QED
  BY <1>2, <1>3, <1>4 DEF Inv

\* Every step keeps it.
LEMMA InvStep == Inv /\ [Next]_vars => Inv'
<1> SUFFICES ASSUME Inv, [Next]_vars PROVE Inv'
  OBVIOUS
<1>1. ASSUME NEW c \in Callers, Caller(c) PROVE Inv'
  BY <1>1, CallerType, CallerCount, CallerExclusive, CallerNoLost, CallerGivesWay DEF Inv
<1>2. ASSUME NEW f \in Flaggers, Flagger(f) PROVE Inv'
  BY <1>2, FlaggerType, FlaggerCount, FlaggerExclusive, FlaggerNoLost, FlaggerGivesWay DEF Inv
<1>3. CASE WorkerStep(Worker)
  BY <1>3, WorkerType, WorkerCount, WorkerExclusive, WorkerNoLost, WorkerGivesWay DEF Inv
<1>4. CASE WakeNoChange
  BY <1>4, WakeKeepsInv
<1>5. CASE UNCHANGED vars
  BY <1>5, StutterKeepsInv
<1> QED
  BY <1>1, <1>2, <1>3, <1>4, <1>5 DEF Next

-----------------------------------------------------------------------------
\* Every behaviour of the actor satisfies the inductive invariant.
THEOREM Invariance == Spec => []Inv
BY InvInit, InvStep, PTL DEF Spec

\* The actor's state keeps its types; in particular the unsigned counter
\* _externalAcquired never runs below zero.
THEOREM TypeCorrect == Spec => []TypeOK
<1>1. Inv => TypeOK
  BY DEF Inv
<1> QED
  BY <1>1, Invariance, PTL

\* externalCallAcquire and workerThreadAcquire give the context to one thread
\* at a time, and the call lock is held exactly while a thread has it.
THEOREM ContextExclusive == Spec => []ExclusiveContext
<1>1. Inv => ExclusiveContext
  BY DEF Inv
<1> QED
  BY <1>1, Invariance, PTL

\* No flagged change is lost between the test_and_set of isReady, the failed
\* try_lock of workerThreadAcquire and the release of an external call.
THEOREM ChangesKept == Spec => []NoLostChange
<1>1. Inv => NoLostChange
  BY DEF Inv
<1> QED
  BY <1>1, Invariance, PTL

\* The worker passes a registered external caller at most once.
THEOREM CallersFirst == Spec => []ExternalPriority
<1>1. Inv => ExternalPriority
  BY DEF Inv, GivesWay, ExternalPriority
<1> QED
  BY <1>1, Invariance, PTL

=============================================================================
