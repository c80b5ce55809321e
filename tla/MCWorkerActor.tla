---------------------------- MODULE MCWorkerActor ----------------------------
(* A source, a forwarder and a sink.  The source's signal g calls the      *)
(* sink's probe slot t, whose result is posted on r.  For CallsServed the  *)
(* forwarder has the slot, and the sink takes the results with the stream: *)
(* the block that has to serve the calls may be without tokens or memory.  *)
EXTENDS WorkerActor

MCBlocks == {"src", "fwd", "snk"}
MCInputs == {"f", "k", "t"}
MCOutputs == {"s", "g", "h", "r"}
MCOwner == [p \in MCInputs \union MCOutputs |->
  CASE p \in {"s", "g"} -> "src" [] p \in {"f", "h"} -> "fwd"
    [] p \in {"k", "t", "r"} -> "snk"]
MCSlots == {"t"}
MCSignals == {"g", "r"}
MCSubscribers == [o \in MCOutputs |->
  CASE o = "s" -> {"f"} [] o = "h" -> {"k"} [] o = "g" -> {"t"} [] o = "r" -> {}]
MCProbes == [i \in {"t"} |-> "r"]
MCBurst == [o \in MCOutputs |-> CASE o = "s" -> 1 [] o = "g" -> 2 [] OTHER -> 0]

CallOwner == [p \in MCInputs \union MCOutputs |->
  CASE p \in {"s", "g"} -> "src" [] p \in {"f", "t", "h", "r"} -> "fwd" [] p = "k" -> "snk"]
CallSubscribers == [MCSubscribers EXCEPT !["r"] = {"k"}]
CallBurst == [MCBurst EXCEPT !["s"] = 0]
=============================================================================
