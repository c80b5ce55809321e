----------------------------- MODULE SpinLockRW -----------------------------
(***************************************************************************)
(* SpinLockRW: one word that counts the readers, or is all ones for a      *)
(* writer.  A thread locks in a loop of attempts; an attempt to lock       *)
(* shared is a load and, later, a compare and exchange of what was loaded. *)
(* compare_exchange_weak may fail without a reason.                        *)
(***************************************************************************)
EXTENDS Naturals, FiniteSets

CONSTANTS
  Threads,
  Word,       \* the number of values of unsigned: 2^32
  MaxLocks    \* bound: how often each thread locks

ASSUME LockAssumption == Word \in Nat \ {0, 1} /\ IsFiniteSet(Threads) /\ MaxLocks \in Nat

VARIABLES
  word,      \* _lock
  pc,        \* where each thread is
  expected,  \* what its last load found
  locks

vars == <<word, pc, expected, locks>>

UNLOCKED == 0

WRITER_LOCK == Word - 1

Places == {"out", "load", "exchange", "reading", "lock", "writing"}

Init ==
  /\ word = UNLOCKED
  /\ pc = [t \in Threads |-> "out"] /\ expected = [t \in Threads |-> UNLOCKED]
  /\ locks = [t \in Threads |-> 0]

Goto(t, from, to) == pc[t] = from /\ pc' = [pc EXCEPT ![t] = to]

\* A thread begins lock_shared, or lock.
Begin(t, to) ==
  /\ Goto(t, "out", to)
  /\ locks[t] < MaxLocks /\ locks' = [locks EXCEPT ![t] = @ + 1]
  /\ UNCHANGED <<word, expected>>

BeginShared(t) == Begin(t, "load")
BeginExclusive(t) == Begin(t, "lock")

\* Mutant: the value of the writer is not excluded.
LoadAny(w) == TRUE

NotWriting(w) == w # WRITER_LOCK

\* try_lock_shared, first half; with a writer there the loop goes on.
LoadShared(t) ==
  /\ NotWriting(word) /\ Goto(t, "load", "exchange")
  /\ expected' = [expected EXCEPT ![t] = word]
  /\ UNCHANGED <<word, locks>>

ExchangeShared(t) ==
  /\ word = expected[t] /\ Goto(t, "exchange", "reading")
  /\ word' = (expected[t] + 1) % Word
  /\ UNCHANGED <<expected, locks>>

ExchangeFails(t) == Goto(t, "exchange", "load") /\ UNCHANGED <<word, expected, locks>>

\* Mutant: the writer does not wait for readers.
TakenFromReaders(w) == NotWriting(w)

Free(w) == w = UNLOCKED

\* try_lock succeeds; when it does not, nothing changes and the loop goes on.
ExchangeExclusive(t) ==
  /\ Free(word) /\ Goto(t, "lock", "writing")
  /\ word' = WRITER_LOCK
  /\ UNCHANGED <<expected, locks>>

\* fetch_sub of an unsigned.
OneReaderLess(w) == (w + (Word - 1)) % Word

UnlockShared(t) ==
  /\ Goto(t, "reading", "out") /\ word' = OneReaderLess(word)
  /\ UNCHANGED <<expected, locks>>

Unlock(t) ==
  /\ Goto(t, "writing", "out") /\ word' = UNLOCKED
  /\ UNCHANGED <<expected, locks>>

Inside(t) ==
  \/ LoadShared(t) \/ ExchangeShared(t) \/ ExchangeExclusive(t) \/ UnlockShared(t) \/ Unlock(t)

Next ==
  \E t \in Threads :
    BeginShared(t) \/ BeginExclusive(t) \/ Inside(t) \/ ExchangeFails(t)

Spec == Init /\ [][Next]_vars

-----------------------------------------------------------------------------
Readers == {t \in Threads : pc[t] = "reading"}
Writers == {t \in Threads : pc[t] = "writing"}

\* The variables have their types.
TypeOK ==
  /\ word \in 0..(Word - 1)
  /\ pc \in [Threads -> Places] /\ expected \in [Threads -> 0..(Word - 1)]
  /\ locks \in [Threads -> 0..MaxLocks]

(* A writer is alone (lock against lock_shared), with as many readers as   *)
(* there may be: when they fill the word, it looks like a writer's.        *)
WriterAlone ==
  \A t \in Writers : Writers = {t} /\ Readers = {}

(* The word is the writer's exactly while there is one, and counts the     *)
(* readers otherwise: no interleaving of loads, exchanges and unlocks      *)
(* leaves the lock taken by nobody or lets the count wrap.                 *)
WordExact ==
  IF Writers # {} THEN word = WRITER_LOCK ELSE word = Cardinality(Readers)

=============================================================================
