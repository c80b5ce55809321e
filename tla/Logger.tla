------------------------------- MODULE Logger -------------------------------
(***************************************************************************)
(* The logging of a process: the channel of the root logger, the listener  *)
(* for the messages of other processes, forwarding to a remote address,    *)
(* and standard streams whose buffers are replaced by ones that log.       *)
(*                                                                         *)
(* The calls of Logger hold one mutex from beginning to end, so each is    *)
(* one step.  What a thread does with a redirected stream holds none: the  *)
(* operations on the text of its buffer are steps, and between them other  *)
(* threads write and flush.  (Two of them at the same instant are a data   *)
(* race, of which no more is said.)  The default channel is the console,   *)
(* which writes to clog.  Buffer 0 of a stream is the one that the system  *)
(* made; the others are InterceptStreams, in the order in which they were  *)
(* made.                                                                   *)
(***************************************************************************)
EXTENDS Naturals, Sequences

CONSTANTS
  Writers,                 \* the threads that write and log
  Streams, Clog,           \* the redirected streams, and std::clog
  Texts, Addrs,
  NewLine, None, Default,  \* a new line, nothing, and the default channel
  MaxPuts, MaxRedirects, MaxFaults   \* bounds

LoggerAssumption ==
  NewLine \notin Texts /\ Clog \in Streams /\ {None, Default} \intersect Addrs = {}

VARIABLES
  rdbuf,      \* the buffer of each stream
  kept,       \* clogRedirected, coutRedirected, cerrRedirected: 0 when null
  intercept,  \* the InterceptStreams made, per stream: their members
  written,    \* what was written into InterceptStreams, per stream
  logged,     \* the texts of the messages logged from them, per stream
  puts,       \* how often a thread wrote
  logPc,      \* where a thread's call of sync or of the logger is
  flushes,    \* the stream and the buffer that it flushes
  disturbed,  \* history: the streams whose buffer was written, flushed or
              \* replaced while a thread flushed it, or replaced with text in it
  channel,    \* the channel of the root logger: Default, or an address
  forwarder,  \* the address of forwarder, or None
  syslogAddr, \* POTHOS_SYSLOG_ADDR
  listener,   \* whether the listener is open, or None
  port,       \* whether startSyslogListener returned a port since the last stop
  faults

streams == <<rdbuf, kept, intercept, written, logged, puts, logPc, flushes, disturbed>>
channels == <<channel, forwarder, syslogAddr>>
listening == <<listener, port, faults>>
logVars == <<streams, channels, listening>>

\* Static initialization: __setupDefaultLogging, without an address to forward to.
LogInit ==
  /\ rdbuf = [s \in Streams |-> 0] /\ kept = [s \in Streams |-> 0]
  /\ intercept = [s \in Streams |-> <<>>]
  /\ written = [s \in Streams |-> <<>>] /\ logged = [s \in Streams |-> <<>>]
  /\ puts = 0 /\ disturbed = {}
  /\ logPc = [t \in Writers |-> "idle"] /\ flushes = [t \in Writers |-> <<Clog, 0>>]
  /\ channel = Default /\ forwarder = None /\ syslogAddr = None
  /\ listener = None /\ port = FALSE /\ faults = 0

-----------------------------------------------------------------------------
(* Standard streams.                                                       *)
NewIntercept(orgbuf) == [orgbuf |-> orgbuf, outbuf |-> <<>>, flush |-> FALSE]

\* A thread that has logged the text of the stream, and is about to clear it.
Flushed(s) == \E t \in Writers : logPc[t] = "clear" /\ flushes[t][1] = s
Disturbs(s) == disturbed' = disturbed \union {x \in {s} : Flushed(x)}

(* A new InterceptStream takes the stream, and remembers the buffer that   *)
(* it had; then reset() destroys the one before, with the text in it, and  *)
(* gives the stream the buffer that that one had remembered: that of the   *)
(* system, or one destroyed before.                                        *)
BufferAfter(s) == IF kept[s] = 0 THEN Len(intercept[s]) + 1 ELSE intercept[s][kept[s]].orgbuf

ForwardStdIo ==
  /\ \A s \in Streams : Len(intercept[s]) < MaxRedirects
  /\ kept' = [s \in Streams |-> Len(intercept[s]) + 1]
  /\ intercept' = [s \in Streams |-> Append(intercept[s], NewIntercept(rdbuf[s]))]
  /\ rdbuf' = [s \in Streams |-> BufferAfter(s)]
  /\ disturbed' = disturbed \union
       {s \in Streams : kept[s] # 0 /\ (\/ intercept[s][kept[s]].outbuf # <<>> \/ Flushed(s)
                                       \/ BufferAfter(s) # 0)}
  /\ UNCHANGED <<written, logged, puts, logPc, flushes, channels, listening>>

\* xsputn, overflow: flush is set when the last text is more than half a second old.
Put(t, s, text) ==
  /\ logPc[t] = "idle" /\ rdbuf[s] # 0 /\ puts < MaxPuts /\ puts' = puts + 1
  /\ \E late \in BOOLEAN :
       intercept' = [intercept EXCEPT ![s][rdbuf[s]].outbuf = Append(@, text),
                                      ![s][rdbuf[s]].flush = @ \/ late]
  /\ written' = [written EXCEPT ![s] = Append(@, text)] /\ Disturbs(s)
  /\ UNCHANGED <<rdbuf, kept, logged, logPc, flushes, channels, listening>>

LastOf(seq) == seq[Len(seq)]
Line(outbuf) == IF LastOf(outbuf) = NewLine THEN SubSeq(outbuf, 1, Len(outbuf) - 1) ELSE outbuf

(* A message of the root logger leaves by its channel.  The default one    *)
(* holds a mutex while it writes the line to clog and flushes it: when     *)
(* clog is redirected, the InterceptStream of clog logs the line again,    *)
(* and the thread waits for that mutex for ever, as does any other that    *)
(* logs then.                                                              *)
Hangs == channel = Default /\ (rdbuf[Clog] # 0 \/ \E t \in Writers : logPc[t] = "stuck")

\* What the buffers of the streams have in them after clog was given a line.
Feedback(bufs, line) ==
  IF rdbuf[Clog] = 0 THEN bufs ELSE [bufs EXCEPT ![Clog][rdbuf[Clog]].outbuf = @ \o line]

StuckWith(t, bufs, line) ==
  /\ logPc' = [logPc EXCEPT ![t] = "stuck"] /\ intercept' = Feedback(bufs, line)
  /\ written' = IF rdbuf[Clog] = 0 THEN written
                ELSE [written EXCEPT ![Clog] = @ \o Append(line, NewLine)]
  /\ UNCHANGED logged

(* sync: the new line at the end is taken off, and the text is logged and, *)
(* in another step, cleared.                                               *)
Flushable(b) == b.outbuf # <<>> /\ (LastOf(b.outbuf) = NewLine \/ b.flush)

Sync(t, s) ==
  /\ logPc[t] = "idle" /\ rdbuf[s] # 0 /\ Flushable(intercept[s][rdbuf[s]])
  /\ LET line == Line(intercept[s][rdbuf[s]].outbuf)
         bufs == [intercept EXCEPT ![s][rdbuf[s]].outbuf = line]
     IN  \/ /\ line # <<>> /\ Hangs /\ StuckWith(t, bufs, line)
            /\ disturbed' = disturbed \union
                 {x \in {s} \union {y \in {Clog} : rdbuf[y] # 0} : Flushed(x)}
            /\ UNCHANGED flushes
         \/ /\ line = <<>> \/ ~ Hangs
            /\ logPc' = [logPc EXCEPT ![t] = "clear"] /\ flushes' = [flushes EXCEPT ![t] = <<s, rdbuf[s]>>]
            /\ intercept' = bufs /\ logged' = [logged EXCEPT ![s] = @ \o line]
            /\ Disturbs(s) /\ UNCHANGED written
  /\ UNCHANGED <<rdbuf, kept, puts, channels, listening>>

\* Mutant: what was logged stays.
NotEmptied(b) == [b EXCEPT !.flush = FALSE]

Emptied(b) == [b EXCEPT !.outbuf = <<>>, !.flush = FALSE]

Clear(t) ==
  /\ logPc[t] = "clear" /\ logPc' = [logPc EXCEPT ![t] = "idle"]
  /\ intercept' = [intercept EXCEPT ![flushes[t][1]][flushes[t][2]] = Emptied(@)]
  /\ UNCHANGED <<rdbuf, kept, written, logged, puts, flushes, disturbed, channels, listening>>

\* Any other message of the process.
Log(t, text) ==
  /\ logPc[t] = "idle" /\ Hangs /\ StuckWith(t, intercept, <<text>>)
  /\ disturbed' = disturbed \union {x \in {Clog} : rdbuf[x] # 0 /\ Flushed(x)}
  /\ UNCHANGED <<rdbuf, kept, puts, flushes, channels, listening>>

-----------------------------------------------------------------------------
(* Channels.                                                               *)
StartSyslogForwarding(addr) ==
  /\ forwarder' = addr /\ channel' = addr /\ syslogAddr' = addr
  /\ UNCHANGED <<streams, listening>>

\* The loggers keep the closed channel, which opens itself again.
StopSyslogForwarding ==
  /\ forwarder # None /\ forwarder' = None
  /\ UNCHANGED <<streams, channel, syslogAddr, listening>>

ChannelFor(addr) == IF addr = None THEN Default ELSE addr

\* setupDefaultLogging: forwarding begins again when the address is there.
SetupDefaultLogging ==
  /\ channel' = ChannelFor(syslogAddr)
  /\ forwarder' = IF syslogAddr = None THEN forwarder ELSE syslogAddr
  /\ UNCHANGED <<streams, syslogAddr, listening>>

-----------------------------------------------------------------------------
(* The listener.                                                           *)
StartSyslogListener ==
  /\ listener' = IF listener = None THEN TRUE ELSE listener
  /\ port' = TRUE /\ UNCHANGED <<streams, channels, faults>>

\* Between the search for a free port and open() another process takes the port.
StartListenerThrows ==
  /\ listener = None /\ faults < MaxFaults /\ faults' = faults + 1
  /\ listener' = FALSE /\ UNCHANGED <<streams, channels, port>>

StopSyslogListener ==
  /\ listener # None /\ listener' = None /\ port' = FALSE /\ UNCHANGED <<streams, channels, faults>>

WriterStep(t) ==
  \/ \E s \in Streams : Sync(t, s) \/ \E x \in Texts \union {NewLine} : Put(t, s, x)
  \/ Clear(t) \/ \E x \in Texts : Log(t, x)

SetupNext == (\E addr \in Addrs : StartSyslogForwarding(addr)) \/ SetupDefaultLogging
StreamNext == ForwardStdIo \/ \E t \in Writers : WriterStep(t)
StopNext == StopSyslogForwarding \/ StartSyslogListener \/ StartListenerThrows \/ StopSyslogListener

LogNext == SetupNext \/ StreamNext \/ StopNext

LogSpec == LogInit /\ [][LogNext]_logVars

-----------------------------------------------------------------------------
\* The variables have their types; a stream has one of the buffers made for it.
LogTypesOK ==
  /\ channel \in Addrs \union {Default} /\ {forwarder, syslogAddr} \subseteq Addrs \union {None}
  /\ listener \in BOOLEAN \union {None} /\ port \in BOOLEAN
  /\ \A s \in Streams : rdbuf[s] \in 0..Len(intercept[s]) /\ kept[s] \in 0..Len(intercept[s])

\* The texts of a sequence, without its new lines.
Text(seq) ==
  LET upTo[i \in 0..Len(seq)] ==
        IF i = 0 THEN <<>> ELSE IF seq[i] = NewLine THEN upTo[i - 1] ELSE Append(upTo[i - 1], seq[i])
  IN  upTo[Len(seq)]

\* What waits to be logged.
Pending(s) == IF rdbuf[s] = 0 \/ Flushed(s) THEN <<>> ELSE intercept[s][rdbuf[s]].outbuf

(* All the text that is written to a redirected stream is logged once and  *)
(* in order, or waits in the buffer, in whatever pieces and by however     *)
(* many threads it is written and flushed (xsputn and sync), and also when *)
(* a thread hangs in the channel: unless one thread wrote or flushed, or   *)
(* redirected the stream again, between the two steps of another's sync,   *)
(* or it was redirected again while text waited.                           *)
TextKept == \A s \in Streams \ disturbed : Text(logged[s] \o Pending(s)) = Text(written[s])

(* What is written to a stream is logged line by line, nothing lost and    *)
(* nothing twice, as long as no two threads disturb each other in the      *)
(* buffer (disturbed: it has no mutex).                                    *)
TextInOrder == LogTypesOK /\ TextKept

(* "the port that this process is listening" (startSyslogListener): after  *)
(* a call that returned a port, and until it is stopped, the listener is   *)
(* open.                                                                   *)
ListenerServes == port => listener = TRUE

(* "Redirect standard IO to the logging facility" (forwardStdIoToLogging): *)
(* once it was called, the streams write into the InterceptStream that is  *)
(* kept, and never into one that was destroyed.                            *)
StreamsRedirected == \A s \in Streams : kept[s] # 0 => rdbuf[s] = kept[s]

(* "Stop all syslog forwarding setup by startSyslogForwarding()": messages *)
(* do not leave for an address while there is no forwarder.                *)
ForwardingStops == forwarder = None => channel = Default

(* "Redirect standard IO to the logging facility": to write and to log     *)
(* ends, also with the default channel.                                    *)
NobodyHangs == \A t \in Writers : logPc[t] # "stuck"
=============================================================================
