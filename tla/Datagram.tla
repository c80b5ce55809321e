------------------------------ MODULE Datagram ------------------------------
(***************************************************************************)
(* sendDatagram and recvDatagram: a serialized object travels between a    *)
(* header, which has the number of its bytes in 32 bits, and a trailer.    *)
(*                                                                         *)
(* The stream is TCP: bytes arrive in order, in whatever pieces, until the *)
(* connection is lost, which may be after any byte.  Both words of the     *)
(* header, the trailer and each part of a payload are units here; Word is  *)
(* the number of values that payloadBytes has.                             *)
(***************************************************************************)
EXTENDS Naturals, Sequences, SequencesExt

CONSTANTS
  Payloads,   \* the serialized objects: sequences of units
  HeaderWord, TrailerWord, \* PothosRPCHeaderWord, PothosRPCTrailerWord
  Word,
  MaxSent     \* bound: datagrams sent

DatagramAssumption ==
  /\ HeaderWord # TrailerWord /\ Word \in Nat \ {0}
  /\ \A p \in Payloads : \A i \in DOMAIN p : p[i] \notin {HeaderWord, TrailerWord}

VARIABLES
  sent,       \* the payloads sent
  transit,    \* units written and not yet arrived
  arrived,    \* units that can be read
  cut,        \* the connection is lost
  reader,     \* what recvDatagram reads: "header", "payload", "trailer"; or it "failed"
  size,       \* the size of _payloadData
  payload,    \* _payloadData
  received    \* the payloads that recvDatagram has returned

vars == <<sent, transit, arrived, cut, reader, size, payload, received>>

Unit(x) == <<"unit", x>>
Count(n) == <<"count", n>>

Init ==
  /\ sent = <<>> /\ transit = <<>> /\ arrived = <<>> /\ cut = FALSE
  /\ reader = "header" /\ size = 0 /\ payload = <<>> /\ received = <<>>

\* uint32_t(_bytesWritten)
PayloadBytes(p) == Len(p) % Word

\* header, payload and trailer, as written to the stream
Framed(p) ==
  <<Unit(HeaderWord), Count(PayloadBytes(p))>> \o [i \in DOMAIN p |-> Unit(p[i])] \o <<Unit(TrailerWord)>>

SendDatagram(p) ==
  /\ ~ cut /\ Len(sent) < MaxSent
  /\ sent' = Append(sent, p) /\ transit' = transit \o Framed(p)
  /\ UNCHANGED <<arrived, cut, reader, size, payload, received>>

Arrive(n) ==
  /\ n \in 1..Len(transit)
  /\ arrived' = arrived \o SubSeq(transit, 1, n) /\ transit' = SubSeq(transit, n + 1, Len(transit))
  /\ UNCHANGED <<sent, cut, reader, size, payload, received>>

\* The connection is lost: what has not arrived never will.
Cut ==
  /\ ~ cut /\ cut' = TRUE /\ transit' = <<>>
  /\ UNCHANGED <<sent, arrived, reader, size, payload, received>>

-----------------------------------------------------------------------------
\* is.read of n units, which blocks until there are so many
Reads(n) == Len(arrived) >= n /\ arrived' = SubSeq(arrived, n + 1, Len(arrived))

Needs == IF reader = "header" THEN 2 ELSE IF reader = "payload" THEN size ELSE 1

ReadHeader ==
  /\ reader = "header" /\ Reads(2)
  /\ IF arrived[1] = Unit(HeaderWord)
     THEN reader' = "payload" /\ size' = arrived[2][2]
     ELSE reader' = "failed" /\ UNCHANGED size
  /\ UNCHANGED <<sent, transit, cut, payload, received>>

ReadPayload ==
  /\ reader = "payload" /\ Reads(size)
  /\ payload' = SubSeq(arrived, 1, size) /\ reader' = "trailer"
  /\ UNCHANGED <<sent, transit, cut, size, received>>

\* Mutant: the trailer is read and not looked at.
AnyTrailer(x) == TRUE

IsTrailer(x) == x = Unit(TrailerWord)

Contents(units) == [i \in DOMAIN units |-> units[i][2]]

\* The trailer is right: deserialize, and the next call of recvDatagram.
ReadTrailer ==
  /\ reader = "trailer" /\ Reads(1)
  /\ IF IsTrailer(arrived[1])
     THEN reader' = "header" /\ received' = Append(received, Contents(payload))
     ELSE reader' = "failed" /\ UNCHANGED received
  /\ payload' = <<>> /\ size' = 0
  /\ UNCHANGED <<sent, transit, cut>>

EndsAnywhere == reader # "failed"

\* "stream end": there will not be enough.
StreamEnd ==
  /\ cut /\ EndsAnywhere /\ Len(arrived) < Needs /\ transit = <<>>
  /\ reader' = "failed" /\ arrived' = <<>>
  /\ UNCHANGED <<sent, transit, cut, size, payload, received>>

Arrives == \E n \in 1..Len(transit) : Arrive(n)
Receive == ReadHeader \/ ReadPayload \/ ReadTrailer \/ StreamEnd
Next == (\E p \in Payloads : SendDatagram(p)) \/ Arrives \/ Cut \/ Receive

Spec == Init /\ [][Next]_vars

-----------------------------------------------------------------------------
\* The variables have their types.
TypeOK ==
  /\ reader \in {"header", "payload", "trailer", "failed"} /\ size \in 0..(Word - 1)
  /\ Len(payload) <= size

(* recvDatagram returns what was sent, whole and in order, or throws: not  *)
(* a part of a datagram, not one and a half, whenever the stream ends and  *)
(* however the size of a payload is truncated.                             *)
ReceivedAreSent == IsPrefix(received, sent)

(* All that is sent is received while the connection holds, if its size    *)
(* fits; and when it does not hold, or a size does not fit, the receiver   *)
(* is told and does not wait for ever.                                     *)
ReceivedOrTold ==
  (Len(received) < Len(sent)) ~> (Len(received) = Len(sent) \/ reader = "failed")
=============================================================================
