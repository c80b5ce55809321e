----------------------------- MODULE ByteStream -----------------------------
(***************************************************************************)
(* What a flow between blocks promises: a FIFO of bytes.  What the source  *)
(* produces is appended, what the sink reads is taken from the front, and  *)
(* nothing else happens to it.  Bytes are numbered in the order of their   *)
(* production.                                                             *)
(***************************************************************************)
EXTENDS Naturals, Sequences

VARIABLES sent,    \* bytes produced so far
          stream   \* the bytes in flight

vars == <<sent, stream>>

Init == sent = 0 /\ stream = <<>>

Send ==
    /\ sent' \in Nat /\ sent' > sent
    /\ stream' = stream \o [i \in 1..(sent' - sent) |-> sent + i]

Receive ==
    /\ \E n \in 1..Len(stream) : stream' = SubSeq(stream, n + 1, Len(stream))
    /\ UNCHANGED sent

Next == Send \/ Receive

Spec == Init /\ [][Next]_vars

=============================================================================
