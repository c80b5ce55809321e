---------------------------- MODULE MappedMemory ----------------------------
(***************************************************************************)
(* Memory that is mapped by calls of the system any of which may fail: a   *)
(* file by MemoryMappedBufferContainer, on Unix and on Windows, while      *)
(* another process may change the file between two calls; and the buffers  *)
(* of SharedBufferWindows.cpp, plain ones and those that view a section    *)
(* twice, while other parts of the process allocate too.  And what the     *)
(* program does with such memory: SharedBuffers made from SharedBuffers.   *)
(*                                                                         *)
(* The constructors give up by an exception, after which no destructor     *)
(* runs: what they hold at that moment and have not closed is lost.        *)
(***************************************************************************)
EXTENDS Naturals, FiniteSets

CONSTANTS
  Systems,     \* {"unix", "windows"}
  Sizes,       \* of the file, in bytes
  Threads, Others, None,
  Regions,     \* bound: regions of the address space
  RegionSize,  \* getregionsize, in bytes
  Requests,    \* numBytes of makeCirc and make
  MaxFaults,   \* bound: calls that fail without a reason in the model
  MaxChanges,  \* bound: changes of the file by other processes
  Word,        \* the number of values of size_t
  Base, N,     \* where the memory of the first SharedBuffer is, and how long it is
  MaxEnd       \* bound: where a SharedBuffer that is asked for ends

MappedAssumption ==
  /\ Systems \subseteq {"unix", "windows"} /\ Sizes \subseteq Nat /\ 0 \in Sizes
  /\ RegionSize \in Nat \ {0} /\ Requests \subseteq Nat
  /\ None \notin Threads \union Others /\ Threads \intersect Others = {}
  /\ Base \in 1..(Word - 1) /\ N \in 1..(Word - 1) /\ Base + 3 * N < Word
  /\ MaxEnd \in Nat

VARIABLES
  system,
  file,     \* there, its size, and what the process may do with it
  impl,     \* the container: where its constructor is, its arguments and what it holds
  lost,     \* what the process will never close, and the step that failed
  changes,
  memory,   \* what every region of the address space is used for
  pc, own,  \* of every thread: its CircularBufferContainer or GenericBufferContainer
  wasted,   \* reservations that nobody frees
  failures,
  buffer,   \* _address, _length and _alias of the SharedBuffer made last
  parent    \* those of the one it was made from

fileVars == <<system, file, impl, lost, changes>>
memoryVars == <<memory, pc, own, wasted>>
subVars == <<buffer, parent>>
vars == <<fileVars, memoryVars, failures, subVars>>

Fault == failures < MaxFaults /\ failures' = failures + 1

-----------------------------------------------------------------------------
(* MemoryMappedBufferContainer                                             *)
NoImpl == [at |-> "idle", readable |-> FALSE, writable |-> FALSE, length |-> 0, holds |-> {}, touched |-> FALSE]

NoFile == [there |-> FALSE, size |-> 0, canRead |-> FALSE, canWrite |-> FALSE]
Files == [there : BOOLEAN, size : Sizes, canRead : BOOLEAN, canWrite : BOOLEAN]

\* Other processes: on Windows none opens a file that the container has opened (shareMode 0).
Excluded == system = "windows" /\ "file" \in impl.holds
Change ==
  /\ changes < MaxChanges /\ ~ Excluded /\ changes' = changes + 1
  /\ \E f \in Files : f # file /\ (f.there \/ f = NoFile) /\ file' = f
  /\ impl' = [impl EXCEPT !.touched = TRUE]
  /\ UNCHANGED <<system, lost, memoryVars, failures>>

Goto(at) == impl' = [impl EXCEPT !.at = at]

\* The exception leaves the constructor: nobody closes what it holds.
Throw(holds) ==
  /\ impl' = NoImpl /\ lost' = lost \union (holds \X {impl.at})
  /\ UNCHANGED <<system, file, changes, memoryVars>>

Go(at) == Goto(at) /\ UNCHANGED <<system, file, lost, changes, memoryVars, failures>>

MakeMapped(readable, writable) ==
  /\ impl = NoImpl
  /\ impl' = [NoImpl EXCEPT !.at = "exists", !.readable = readable, !.writable = writable]
  /\ UNCHANGED <<system, file, lost, changes, memoryVars, failures>>

\* What the container asks of the file, one question after the other.
Answer == [
  exists |-> file.there,
  empty |-> file.there /\ file.size # 0,
  canRead |-> impl.readable => file.there /\ file.canRead,
  canWrite |-> impl.writable => file.there /\ file.canWrite]
After == [exists |-> "empty", empty |-> "canRead", canRead |-> "canWrite", canWrite |-> "size"]

Ask ==
  /\ impl.at \in DOMAIN After
  /\ IF Answer[impl.at] THEN Go(After[impl.at]) ELSE Throw({}) /\ UNCHANGED failures

\* _length is the size before the file is opened.
GetSize ==
  /\ impl.at = "size"
  /\ \/ /\ file.there
        /\ impl' = [impl EXCEPT !.length = file.size, !.touched = FALSE, !.at = "open"]
        /\ UNCHANGED <<system, file, lost, changes, memoryVars, failures>>
     \/ ~ file.there /\ Throw({}) /\ UNCHANGED failures

Allowed == (impl.readable => file.canRead) /\ (impl.writable => file.canWrite)

-----------------------------------------------------------------------------
(* Unix                                                                    *)
OpenUnix ==
  /\ system = "unix" /\ impl.at = "open"
  /\ \/ /\ file.there /\ Allowed
        /\ impl' = [impl EXCEPT !.at = "mmap", !.holds = {"fd"}]
        /\ UNCHANGED <<system, file, lost, changes, memoryVars, failures>>
     \/ ~ (file.there /\ Allowed) /\ Throw({}) /\ UNCHANGED failures
     \/ Fault /\ Throw({})

(* mmap refuses a length of zero, and a file that was not opened for       *)
(* reading: O_WRONLY never is.                                             *)
CanMmap == impl.length # 0 /\ (impl.writable => impl.readable)

Mmap ==
  /\ impl.at = "mmap"
  /\ \/ /\ CanMmap
        /\ impl' = [impl EXCEPT !.at = "close", !.holds = @ \union {"view"}]
        /\ UNCHANGED <<system, file, lost, changes, memoryVars, failures>>
     \/ ~ CanMmap /\ Throw(impl.holds) /\ UNCHANGED failures
     \/ Fault /\ Throw(impl.holds)

\* close gives the descriptor back also when it reports an error.
Close ==
  /\ impl.at = "close"
  /\ \/ /\ impl' = [impl EXCEPT !.at = "made", !.holds = @ \ {"fd"}]
        /\ UNCHANGED <<system, file, lost, changes, memoryVars, failures>>
     \/ Fault /\ Throw(impl.holds \ {"fd"})

-----------------------------------------------------------------------------
(* Windows                                                                 *)

\* CreateFileA: OPEN_ALWAYS makes a file that is not there.
CreateFile ==
  /\ system = "windows" /\ impl.at = "open"
  /\ \/ /\ file.there => Allowed
        /\ file' = IF file.there THEN file ELSE [there |-> TRUE, size |-> 0, canRead |-> TRUE, canWrite |-> TRUE]
        /\ impl' = [impl EXCEPT !.at = "section", !.holds = {"file"}]
        /\ UNCHANGED <<system, lost, changes, memoryVars, failures>>
     \/ file.there /\ ~ Allowed /\ Throw({}) /\ UNCHANGED failures
     \/ Fault /\ Throw({})

(* CreateFileMappingA: a section that may be written makes the file as     *)
(* long as the section.  PAGE_WRITECOPY wants a file opened for reading,   *)
(* no protection at all is refused.                                        *)
CanCreateMapping ==
  /\ impl.readable
  /\ IF impl.length = 0 THEN file.size # 0 ELSE impl.length <= file.size \/ impl.writable

\* The failure returns NULL, which is not INVALID_HANDLE_VALUE: the constructor goes on.
CreateFileMapping ==
  /\ impl.at = "section"
  /\ \/ /\ CanCreateMapping
        /\ file' = [file EXCEPT !.size = IF @ < impl.length THEN impl.length ELSE @]
        /\ impl' = [impl EXCEPT !.at = "map", !.holds = @ \union {"mapping"}]
        /\ UNCHANGED <<system, lost, changes, memoryVars, failures>>
     \/ ~ CanCreateMapping /\ Go("map")
     \/ /\ Fault /\ Goto("map") /\ UNCHANGED <<system, file, lost, changes, memoryVars>>

\* Mutant: the file stays open.
CloseMapping == {"mapping"}

CloseHandles == {"mapping", "file"}

MapView ==
  /\ impl.at = "map"
  /\ \/ /\ "mapping" \in impl.holds
        /\ impl' = [impl EXCEPT !.at = "made", !.holds = @ \union {"view"}]
        /\ UNCHANGED <<system, file, lost, changes, memoryVars, failures>>
     \/ "mapping" \notin impl.holds /\ Throw(impl.holds \ CloseHandles) /\ UNCHANGED failures
     \/ Fault /\ Throw(impl.holds \ CloseHandles)

\* ~Impl: munmap, or UnmapViewOfFile and both handles.
DestroyMapped ==
  /\ impl.at = "made" /\ impl' = NoImpl
  /\ lost' = lost \union
       ((impl.holds \ IF system = "unix" THEN {"view"} ELSE {"view"} \union CloseHandles) \X {"made"})
  /\ UNCHANGED <<system, file, changes, memoryVars, failures>>

FileNext ==
  \/ Change \/ \E r, w \in BOOLEAN : MakeMapped(r, w)
  \/ Ask \/ GetSize \/ OpenUnix \/ Mmap \/ Close \/ CreateFile \/ CreateFileMapping \/ MapView \/ DestroyMapped

-----------------------------------------------------------------------------
(* SharedBufferWindows.cpp                                                 *)
Space == 0..(Regions - 1)
Extent(a, n) == a..(a + n - 1)

Unused == [kind |-> "free", of |-> None]
Reserved(t) == [kind |-> "reserved", of |-> t]
Plain(t) == [kind |-> "plain", of |-> t]
Section(t, k) == [kind |-> "section", of |-> t, at |-> k]
Alien(o) == [kind |-> "other", of |-> o]

NoOwn == [len |-> 0, addr |-> None, object |-> FALSE, view0 |-> None, view1 |-> None]

IsFree(a, n) == Extent(a, n) \subseteq Space /\ \A p \in Extent(a, n) : memory[p] = Unused
Places(n) == {a \in Space : IsFree(a, n)}
Filled(m, a, n, u) == [p \in Space |-> IF p \in Extent(a, n) THEN u[p - a] ELSE m[p]]
All(n, use) == [k \in 0..(n - 1) |-> use]

\* numBytes as a multiple of the region size, here in regions.
RoundUp(numBytes) == (numBytes + RegionSize - 1) \div RegionSize

\* The mutex of makeCirc: one attempt at a time.
Attempting == {t \in Threads : pc[t] \notin {"idle", "made", "plain"}}

MakeCirc(t, numBytes) ==
  /\ pc[t] = "idle" /\ Attempting = {} /\ pc' = [pc EXCEPT ![t] = "object"]
  /\ own' = [own EXCEPT ![t].len = RoundUp(numBytes)]
  /\ UNCHANGED <<fileVars, memory, wasted, failures>>

\* Mutant: the view of the second half stays.
FirstView(t) == {own[t].view0}

\* cleanup
Views(t) == {own[t].view0, own[t].view1}

Unmapped(t) == [p \in Space |->
  IF \E v \in Views(t) \ {None} : p \in Extent(v, own[t].len) THEN Unused ELSE memory[p]]

ErrorOut(t) ==
  /\ memory' = Unmapped(t) /\ own' = [own EXCEPT ![t] = NoOwn] /\ pc' = [pc EXCEPT ![t] = "idle"]
  /\ UNCHANGED fileVars

\* CreateFileMappingNuma of the paging file: there is no section of size zero.
CreateObject(t) ==
  /\ pc[t] = "object"
  /\ \/ /\ own[t].len # 0 /\ own' = [own EXCEPT ![t].object = TRUE] /\ pc' = [pc EXCEPT ![t] = "reserve"]
        /\ UNCHANGED <<fileVars, memory, wasted, failures>>
     \/ own[t].len = 0 /\ ErrorOut(t) /\ UNCHANGED <<wasted, failures>>
     \/ Fault /\ ErrorOut(t) /\ UNCHANGED wasted

Reserve(t) ==
  /\ pc[t] = "reserve"
  /\ \/ \E a \in Places(2 * own[t].len) :
          /\ memory' = Filled(memory, a, 2 * own[t].len, All(2 * own[t].len, Reserved(t)))
          /\ own' = [own EXCEPT ![t].addr = a] /\ pc' = [pc EXCEPT ![t] = "release"]
          /\ UNCHANGED <<fileVars, wasted, failures>>
     \/ Places(2 * own[t].len) = {} /\ ErrorOut(t) /\ UNCHANGED <<wasted, failures>>
     \/ Fault /\ ErrorOut(t) /\ UNCHANGED wasted

\* VirtualFreeEx: when it fails the reservation stays, cleanup does not free it.
ReservedBy(t) == Extent(own[t].addr, 2 * own[t].len)
Release(t) ==
  /\ pc[t] = "release"
  /\ \/ /\ memory' = Filled(memory, own[t].addr, 2 * own[t].len, All(2 * own[t].len, Unused))
        /\ pc' = [pc EXCEPT ![t] = "view0"] /\ UNCHANGED <<fileVars, own, wasted, failures>>
     \/ Fault /\ ErrorOut(t) /\ wasted' = wasted \union ReservedBy(t)

\* MapViewOfFileExNuma maps at the address it is given, or nowhere.
MapAt(t, a, view, next) ==
  \/ /\ IsFree(a, own[t].len)
     /\ memory' = Filled(memory, a, own[t].len, [k \in 0..(own[t].len - 1) |-> Section(t, k)])
     /\ own' = [own EXCEPT ![t][view] = a] /\ pc' = [pc EXCEPT ![t] = next]
     /\ UNCHANGED <<fileVars, wasted, failures>>
  \/ ~ IsFree(a, own[t].len) /\ ErrorOut(t) /\ UNCHANGED <<wasted, failures>>
  \/ Fault /\ ErrorOut(t) /\ UNCHANGED wasted

MapView0(t) == pc[t] = "view0" /\ MapAt(t, own[t].addr, "view0", "view1")
MapView1(t) == pc[t] = "view1" /\ MapAt(t, own[t].addr + own[t].len, "view1", "made")

DestroyCirc(t) == pc[t] = "made" /\ ErrorOut(t) /\ UNCHANGED <<wasted, failures>>

\* make: at least one byte is allocated.
AtLeastOne(numBytes) == IF numBytes = 0 THEN 1 ELSE numBytes
MakePlain(t, numBytes) ==
  /\ pc[t] = "idle"
  /\ \/ \E a \in Places(RoundUp(AtLeastOne(numBytes))) :
          LET n == RoundUp(AtLeastOne(numBytes))
          IN  /\ memory' = Filled(memory, a, n, All(n, Plain(t)))
              /\ own' = [own EXCEPT ![t].len = n, ![t].addr = a]
     \* VirtualAllocExNuma fails: the exception changes nothing.
     \/ UNCHANGED <<memory, own>>
  /\ pc' = [pc EXCEPT ![t] = IF own' = own THEN "idle" ELSE "plain"]
  /\ UNCHANGED <<fileVars, wasted, failures>>

DestroyPlain(t) ==
  /\ pc[t] = "plain" /\ memory' = Filled(memory, own[t].addr, own[t].len, All(own[t].len, Unused))
  /\ own' = [own EXCEPT ![t] = NoOwn] /\ pc' = [pc EXCEPT ![t] = "idle"]
  /\ UNCHANGED <<fileVars, wasted, failures>>

\* Another part of the process takes a region, and gives it back.
Other(o) ==
  /\ \E p \in Space :
       \/ memory[p] = Unused /\ (\A q \in Space : memory[q] # Alien(o))
          /\ memory' = [memory EXCEPT ![p] = Alien(o)]
       \/ memory[p] = Alien(o) /\ memory' = [memory EXCEPT ![p] = Unused]
  /\ UNCHANGED <<fileVars, pc, own, wasted, failures>>

MemoryNext ==
  \/ \E t \in Threads :
       \/ \E n \in Requests : MakeCirc(t, n) \/ MakePlain(t, n)
       \/ CreateObject(t) \/ Reserve(t) \/ Release(t) \/ MapView0(t) \/ MapView1(t)
       \/ DestroyCirc(t) \/ DestroyPlain(t)
  \/ \E o \in Others : Other(o)

-----------------------------------------------------------------------------
(* SharedBuffer: an address, a length and the address of the alias.  A     *)
(* buffer is made from a buffer, again and again; the constructor throws   *)
(* unless it is a subset.  Addresses are size_t.                           *)

\* make, and makeCirc, which sets the alias to the second mapping.
PlainBuffer == [address |-> Base, length |-> N, alias |-> 0]
CircularBuffer == [address |-> Base, length |-> N, alias |-> Base + N]

SubInit == buffer \in {PlainBuffer, CircularBuffer} /\ parent = buffer

Max2(m, n) == IF m < n THEN n ELSE m

AliasFor(address, b) == IF b.alias = 0 THEN 0 ELSE (b.alias + (Word + address - b.address)) % Word

\* beginInRange and endInRange
IsSubset(address, length, b) ==
  /\ address >= b.address
  /\ (address + length) % Word <= (Max2(b.alias, b.address) + b.length) % Word

\* SharedBuffer(address, length, buffer)
Sub(address, length) ==
  /\ IsSubset(address, length, buffer)
  /\ buffer' = [address |-> address, length |-> length, alias |-> AliasFor(address, buffer)]
  /\ parent' = buffer
  /\ UNCHANGED <<fileVars, memoryVars, failures>>

SubNext == \E address \in 1..(Word - 1), length \in 0..(Word - 1) :
             address + length <= MaxEnd /\ Sub(address, length)

-----------------------------------------------------------------------------
FileInit ==
  /\ system \in Systems /\ file \in {f \in Files : f.there \/ f = NoFile}
  /\ impl = NoImpl /\ lost = {} /\ changes = 0
MemoryInit ==
  /\ memory = [p \in Space |-> Unused] /\ pc = [t \in Threads |-> "idle"]
  /\ own = [t \in Threads |-> NoOwn] /\ wasted = {}
Init == FileInit /\ MemoryInit /\ failures = 0 /\ SubInit

Next == ((FileNext \/ MemoryNext) /\ UNCHANGED subVars) \/ SubNext

Spec == Init /\ [][Next]_vars

-----------------------------------------------------------------------------
(* Whatever step of the constructor of a mapped file fails, and whatever   *)
(* others do to the file meanwhile, the process loses nothing, with two    *)
(* exceptions: the descriptor when mmap fails, the mapping when close does.*)
FailuresRelease == lost \subseteq {<<"fd", "mmap">>, <<"view", "close">>}

(* A container that was made is no longer than the file: always on         *)
(* Windows, where nobody else may open it, and on Unix unless the file was *)
(* changed after its size was asked for.                                   *)
ViewInFile ==
  impl.at = "made" /\ (system = "windows" \/ ~ impl.touched) => file.there /\ impl.length <= file.size

(* Both halves of a circular buffer view the same section, although the    *)
(* range was free in between and others take memory at any time.           *)
HalvesAlike ==
  \A t \in Threads : pc[t] = "made" =>
    \A k \in 0..(own[t].len - 1) :
      memory[own[t].addr + k] = Section(t, k) /\ memory[own[t].addr + own[t].len + k] = Section(t, k)

(* A thread without a buffer uses no memory, but for the reservation that  *)
(* VirtualFreeEx failed to free.                                           *)
NothingLeft ==
  \A t \in Threads : pc[t] = "idle" =>
    own[t] = NoOwn /\ \A p \in Space \ wasted : memory[p].of # t

\* What others have taken is never unmapped by a thread.
AliensKept ==
  [][\A p \in Space, o \in Others : memory[p] = Alien(o) /\ memory'[p] # Alien(o) => Other(o)]_vars

\* "Address and alias will point to the same physical memory", however often a
\* buffer was made from a buffer: they stay one length of the first apart.
AliasApart == buffer.alias # 0 => buffer.alias = buffer.address + N

(* A buffer that is not circular stays within the buffer it was made from, *)
(* and with that within the memory of the first.                           *)
PlainInside ==
  buffer.alias = 0 =>
    /\ buffer.address >= parent.address
    /\ buffer.address + buffer.length <= parent.address + parent.length

(* "throws SharedBufferError if the parameters would be out of bounds": a  *)
(* buffer does not reach past the memory that its container has mapped.    *)
(* It holds of the plain ones; the bounds of a circular one move with its  *)
(* alias, and the end of a length near the largest size_t wraps.           *)
InBounds ==
  buffer.length > 0 => buffer.address + buffer.length <= Base + (IF buffer.alias # 0 THEN 2 * N ELSE N)
=============================================================================
