------------------------- MODULE CircularContainer -------------------------
(***************************************************************************)
(* SharedBuffer::makeCirc on Unix: a file is mapped twice, into the two    *)
(* halves of a range of addresses that was free a moment before.           *)
(*                                                                         *)
(* Addresses are pages, and a buffer is Half pages long.  The kernel takes *)
(* the address that mmap is given as a hint (there is no MAP_FIXED): a     *)
(* range that is not free any more is mapped somewhere else.  Others are   *)
(* the parts of the process that map memory without the mutex.             *)
(***************************************************************************)
EXTENDS Naturals, FiniteSets

CONSTANTS
  Threads, Others,
  None,
  Pages,        \* bound: pages of the address space
  Half,         \* the length of a buffer in pages
  NumRetries,   \* numRetries: 7
  MaxFaults     \* bound: calls of the system that fail

CircAssumption ==
  /\ None \notin Threads \union Others /\ Threads \intersect Others = {}
  /\ Half \in Nat \ {0} /\ NumRetries \in Nat \ {0}

Space == 0..(Pages - 1)
Range(a, n) == a..(a + n - 1)

VARIABLES
  memory,   \* what each page is mapped to
  mutex,    \* getCircMutex
  pc,       \* where the call of each thread is
  try,      \* i, the attempts that it has made
  cont,     \* its CircularBufferContainer
  faults

vars == <<memory, mutex, pc, try, cont, faults>>

Unmapped == [kind |-> "free", of |-> None]
Reservation(t) == [kind |-> "reserved", of |-> t]
Leaked(t) == [kind |-> "leaked", of |-> t]
FilePage(t, k) == [kind |-> "file", of |-> t, at |-> k]
OtherPage(o) == [kind |-> "other", of |-> o]

NoContainer == [addr |-> None, fd |-> FALSE, ptr0 |-> None, ptr1 |-> None]

Init ==
  /\ memory = [p \in Space |-> Unmapped] /\ mutex = None
  /\ pc = [t \in Threads |-> "idle"] /\ try = [t \in Threads |-> 0]
  /\ cont = [t \in Threads |-> NoContainer] /\ faults = 0

-----------------------------------------------------------------------------
(* The kernel.                                                             *)
IsFree(a, n) == Range(a, n) \subseteq Space /\ \A p \in Range(a, n) : memory[p] = Unmapped

Places(n) == {a \in Space : IsFree(a, n)}

\* Where mmap may map n pages that are wanted at the hint.
Mapped(hint, n) == IF IsFree(hint, n) THEN {hint} ELSE Places(n)

\* memory with n pages from a mapped to f[0], f[1], ...
With(m, a, n, f) == [p \in Space |-> IF p \in Range(a, n) THEN f[p - a] ELSE m[p]]
Without(m, ptr) ==
  IF ptr = None THEN m ELSE With(m, ptr, Half, [k \in 0..(Half - 1) |-> Unmapped])

-----------------------------------------------------------------------------
(* The calls of makeCirc.                                                  *)
Step(t, from, to) == pc[t] = from /\ pc' = [pc EXCEPT ![t] = to]
Fault == faults < MaxFaults /\ faults' = faults + 1

MutexFree(t) == mutex = None

\* An attempt, with the mutex.
Begin(t) ==
  /\ MutexFree(t) /\ mutex' = t
  /\ (cont[t] = NoContainer /\ pc[t] = "idle") \/ pc[t] = "retry"
  /\ pc' = [pc EXCEPT ![t] = "open"] /\ try' = [try EXCEPT ![t] = @ + 1]
  /\ UNCHANGED <<memory, cont, faults>>

Open(t) ==
  /\ Step(t, "open", "truncate") /\ cont' = [cont EXCEPT ![t].fd = TRUE]
  /\ UNCHANGED <<memory, mutex, try, faults>>

Truncate(t) ==
  /\ Step(t, "truncate", "reserve")
  /\ UNCHANGED <<memory, mutex, try, cont, faults>>

Reserve(t) ==
  /\ Step(t, "reserve", "release")
  /\ \E a \in Places(2 * Half) :
       /\ memory' = With(memory, a, 2 * Half, [k \in 0..(2 * Half - 1) |-> Reservation(t)])
       /\ cont' = [cont EXCEPT ![t].addr = a]
  /\ UNCHANGED <<mutex, try, faults>>

Release(t) ==
  /\ Step(t, "release", "map0")
  /\ memory' = With(memory, cont[t].addr, 2 * Half, [k \in 0..(2 * Half - 1) |-> Unmapped])
  /\ UNCHANGED <<mutex, try, cont, faults>>

TheFile(t) == [k \in 0..(Half - 1) |-> FilePage(t, k)]

Map0(t) ==
  /\ Step(t, "map0", "map1")
  /\ \E a \in Mapped(cont[t].addr, Half) :
       memory' = With(memory, a, Half, TheFile(t)) /\ cont' = [cont EXCEPT ![t].ptr0 = a]
  /\ UNCHANGED <<mutex, try, faults>>

\* Nothing asks whether the two halves are where they should be.
Map1(t) ==
  /\ Step(t, "map1", "made")
  /\ \E a \in Mapped(cont[t].addr + Half, Half) :
       memory' = With(memory, a, Half, TheFile(t)) /\ cont' = [cont EXCEPT ![t].ptr1 = a]
  /\ mutex' = None /\ try' = [try EXCEPT ![t] = 0]
  /\ UNCHANGED faults

\* Mutant: the second mapping stays.
UnmapFirst(t) == Without(memory, cont[t].ptr0)

\* cleanup
Cleanup(t) == Without(Without(memory, cont[t].ptr1), cont[t].ptr0)

MayRetry(t) == try[t] < NumRetries

\* The lock of an attempt ends with it.
ReleaseMutex == mutex' = None

\* errorOut: the call throws, makeCirc tries again or throws too.
ErrorOut(t) ==
  /\ Fault /\ cont' = [cont EXCEPT ![t] = NoContainer] /\ ReleaseMutex
  /\ pc' = [pc EXCEPT ![t] = IF MayRetry(t) THEN "retry" ELSE "idle"]
  /\ try' = [try EXCEPT ![t] = IF MayRetry(t) THEN @ ELSE 0]

Fail(t) ==
  /\ pc[t] \in {"open", "truncate", "reserve", "map0", "map1"}
  /\ memory' = Cleanup(t) /\ ErrorOut(t)

\* munmap of the reservation fails: nobody unmaps it any more.
FailRelease(t) ==
  /\ pc[t] = "release"
  /\ memory' = [p \in Space |-> IF memory[p] = Reservation(t) THEN Leaked(t) ELSE memory[p]]
  /\ ErrorOut(t)

\* No range is free: mmap fails without a fault.
NoRoom(t) ==
  /\ \/ pc[t] = "reserve" /\ Places(2 * Half) = {}
     \/ pc[t] \in {"map0", "map1"} /\ Places(Half) = {}
  /\ memory' = Cleanup(t) /\ cont' = [cont EXCEPT ![t] = NoContainer] /\ ReleaseMutex
  /\ pc' = [pc EXCEPT ![t] = IF MayRetry(t) THEN "retry" ELSE "idle"]
  /\ try' = [try EXCEPT ![t] = IF MayRetry(t) THEN @ ELSE 0]
  /\ UNCHANGED faults

\* The last reference to the buffer is dropped: ~CircularBufferContainer.
Drop(t) ==
  /\ Step(t, "made", "idle") /\ memory' = Cleanup(t)
  /\ cont' = [cont EXCEPT ![t] = NoContainer]
  /\ UNCHANGED <<mutex, try, faults>>

-----------------------------------------------------------------------------
(* The rest of the process.                                                *)
OtherMap(o) ==
  /\ \A p \in Space : memory[p] # OtherPage(o)
  /\ \E p \in Places(1) : memory' = [memory EXCEPT ![p] = OtherPage(o)]
  /\ UNCHANGED <<mutex, pc, try, cont, faults>>

OtherUnmap(o) ==
  /\ \E p \in Space : memory[p] = OtherPage(o) /\ memory' = [memory EXCEPT ![p] = Unmapped]
  /\ UNCHANGED <<mutex, pc, try, cont, faults>>

Make(t) ==
  \/ Begin(t) \/ Open(t) \/ Truncate(t) \/ Reserve(t) \/ Release(t) \/ Map0(t) \/ Map1(t)
  \/ NoRoom(t)

Next ==
  \/ \E t \in Threads : Make(t) \/ Fail(t) \/ FailRelease(t) \/ Drop(t)
  \/ \E o \in Others : OtherMap(o) \/ OtherUnmap(o)

Spec == Init /\ [][Next]_vars

-----------------------------------------------------------------------------
\* The variables have their types; who is inside an attempt has the mutex.
TypeOK ==
  /\ DOMAIN memory = Space /\ try \in [Threads -> 0..NumRetries]
  /\ \A t \in Threads :
       pc[t] \in {"open", "truncate", "reserve", "release", "map0", "map1"} <=> mutex = t

(* "address + i == address + i + length" (makeCirc): both halves of every  *)
(* circular buffer are the same pages of its own file.                     *)
DoubleMapped ==
  \A t \in Threads : pc[t] = "made" =>
    \A k \in 0..(Half - 1) :
      /\ memory[cont[t].addr + k] = FilePage(t, k)
      /\ memory[cont[t].addr + Half + k] = FilePage(t, k)

(* A call that failed, however far it had come, and a buffer that was      *)
(* dropped leave nothing mapped and no file open: what a thread has mapped *)
(* is what its container will unmap, but for a reservation that the kernel *)
(* refused to release.                                                     *)
CleanedUp ==
  \A t \in Threads :
    LET of(ptr) == IF ptr = None THEN {} ELSE Range(ptr, Half)
        c == cont[t]
    IN  /\ {p \in Space : memory[p].of = t /\ memory[p].kind = "file"} = of(c.ptr0) \union of(c.ptr1)
        /\ pc[t] \in {"idle", "retry"} => c.fd = FALSE /\ ~ \E p \in Space : memory[p] = Reservation(t)

(* No step of a container takes away what another part of the process has  *)
(* mapped, also when the range it had found is not free any more.          *)
OthersKept ==
  [][\A p \in Space, o \in Others :
       memory[p] = OtherPage(o) /\ (pc' # pc \/ mutex' # mutex) => memory'[p] = OtherPage(o)]_vars
=============================================================================
