---------------------------- MODULE LogForwarder ----------------------------
(***************************************************************************)
(* The way of an instance's log lines from its process to the master: the  *)
(* log channel of every run of the process, the loop that keeps a          *)
(* forwarder on the current channel, and the forwarders with their batches *)
(* and streams.  The map of forwarders is keyed by instance and instances  *)
(* share nothing else, so one instance is modelled.  A line is its number  *)
(* in its run.                                                             *)
(***************************************************************************)
EXTENDS Integers, Sequences, FiniteSets, SequencesExt

CONSTANTS
    MaxRuns,       \* bound: starts of the process
    RunLines,      \* bound: lines written by one run
    ChanCap,       \* capacity of a log channel, 1000 in the code
    BatchSize,     \* lines that fill a batch, 10 in the code
    MaxForwarders, \* bound: forwarder goroutines at the same time
    MaxBreaks      \* bound: failures of connections to the master

\* A channel has room for a line.
ASSUME ForwarderAssumption ==
    {MaxRuns, MaxForwarders} \subseteq Nat /\ ChanCap \in Nat \ {0}

Runs == 1 .. MaxRuns
Forwarders == 1 .. MaxForwarders

VARIABLES
    run,      \* the number of the process's latest run, 0 before the first
    running,  \* the process is in state running
    written,  \* lines written by each run
    chan,     \* the log channel of each run
    active,   \* the forwarder in the loop's map, 0 for none
    fwd,      \* the forwarder goroutines
    wire,     \* batches sent on the stream of each forwarder, not yet received
    got,      \* lines of each run the master has received
    breaks,   \* failures so far
    cut,      \* history: runs of which something was lost on the way
    served,   \* history: runs that have had a forwarder
    evicted   \* history: a forwarder has removed its successor from the map

forwarderVars == <<run, running, written, chan, active, fwd, wire, got, breaks, cut, served, evicted>>
process == <<run, running, written>>
hist == <<served, evicted>>

None == [pc |-> "none", run |-> 0, batch |-> <<>>, cancelled |-> FALSE]

ForwarderInit ==
    /\ run = 0 /\ running = FALSE
    /\ written = [g \in Runs |-> 0]
    /\ chan = [g \in Runs |-> <<>>]
    /\ active = 0
    /\ fwd = [f \in Forwarders |-> None]
    /\ wire = [f \in Forwarders |-> <<>>]
    /\ got = [g \in Runs |-> <<>>]
    /\ breaks = 0
    /\ cut = {} /\ served = {} /\ evicted = FALSE

-----------------------------------------------------------------------------
(* The process.                                                            *)

\* A start makes a new channel.
Start ==
    /\ ~running /\ run < MaxRuns
    /\ run' = run + 1 /\ running' = TRUE
    /\ UNCHANGED <<written, chan, active, fwd, wire, got, breaks, cut, hist>>

\* A line goes to the channel; the oldest one makes room when it is full.
WriteLine ==
    /\ running /\ written[run] < RunLines
    /\ written' = [written EXCEPT ![run] = @ + 1]
    /\ LET full == Len(chan[run]) = ChanCap
           kept == IF full THEN Tail(chan[run]) ELSE chan[run]
       IN /\ chan' = [chan EXCEPT ![run] = Append(kept, written[run] + 1)]
          /\ cut' = IF full THEN cut \cup {run} ELSE cut
    /\ UNCHANGED <<run, running, active, fwd, wire, got, breaks, hist>>

\* The process ends and its channel is closed.
Exit ==
    /\ running
    /\ running' = FALSE
    /\ UNCHANGED <<run, written, chan, active, fwd, wire, got, breaks, cut, hist>>

Closed(g) == g < run \/ ~running

-----------------------------------------------------------------------------
(* The loop.                                                               *)

\* Faulty: the new forwarder is not entered in the map.
NotRecorded ==
    /\ running /\ active = 0
    /\ \E f \in Forwarders :
         /\ fwd[f].pc = "none" /\ \A e \in 1 .. f - 1 : fwd[e].pc # "none"
         /\ fwd' = [fwd EXCEPT ![f] = [None EXCEPT !.pc = "connect", !.run = run]]
    /\ served' = served \cup {run}
    /\ UNCHANGED <<process, chan, active, wire, got, breaks, cut, evicted>>

\* Once a second: a forwarder of another channel than the process's is
\* cancelled, and a running process gets one if there is none in the map.
Tick ==
    /\ active # 0 => fwd[active].run # run
    /\ active = 0 => running
    /\ LET cancelled == IF active = 0 THEN fwd ELSE [fwd EXCEPT ![active].cancelled = TRUE]
       IN IF running
          THEN \E f \in Forwarders :
                 /\ fwd[f].pc = "none" /\ \A e \in 1 .. f - 1 : fwd[e].pc # "none"
                 /\ fwd' = [cancelled EXCEPT ![f] = [None EXCEPT !.pc = "connect", !.run = run]]
                 /\ active' = f
                 /\ served' = served \cup {run}
          ELSE /\ fwd' = cancelled /\ active' = 0
               /\ UNCHANGED served
    /\ cut' = IF active = 0 THEN cut ELSE cut \cup {fwd[active].run}
    /\ UNCHANGED <<process, chan, wire, got, breaks, evicted>>

-----------------------------------------------------------------------------
(* A forwarder.                                                            *)

Goto(f, pc) == fwd' = [fwd EXCEPT ![f].pc = pc, ![f].batch = <<>>]

\* runLogStream opens a stream, which fails if it was cancelled.
OpenStream(f) ==
    /\ fwd[f].pc = "connect"
    /\ Goto(f, IF fwd[f].cancelled THEN "ending" ELSE "stream")
    /\ UNCHANGED <<process, chan, active, wire, got, breaks, cut, hist>>

\* The master is not there.
OpenFails(f) ==
    /\ fwd[f].pc = "connect" /\ breaks < MaxBreaks
    /\ breaks' = breaks + 1
    /\ Goto(f, "wait")
    /\ UNCHANGED <<process, chan, active, wire, got, cut, hist>>

\* Faulty: a batch that was sent is kept.
KeepBatch(batch) == batch

\* The batch after it was sent: empty.
Sent(batch) == <<>>

\* sendBatch with the given lines: the stream takes them, or it is broken, the
\* lines are lost and forwardLogs waits before it tries again.
SendBatch(f, batch) ==
    IF fwd[f].pc = "stream"
    THEN /\ wire' = [wire EXCEPT ![f] = Append(@, batch)]
         /\ fwd' = [fwd EXCEPT ![f].batch = Sent(batch)]
    ELSE Goto(f, "wait") /\ UNCHANGED wire

Streaming(f) == fwd[f].pc \in {"stream", "broken"}

\* A line is taken from the channel; a full batch is sent at once.
TakeLine(f) ==
    LET g == fwd[f].run
        batch == Append(fwd[f].batch, Head(chan[g]))
    IN /\ Streaming(f) /\ chan[g] # <<>>
       /\ chan' = [chan EXCEPT ![g] = Tail(@)]
       /\ IF Len(batch) >= BatchSize
          THEN SendBatch(f, batch)
          ELSE fwd' = [fwd EXCEPT ![f].batch = batch] /\ UNCHANGED wire
       /\ UNCHANGED <<process, active, got, breaks, cut, hist>>

\* The flush ticker sends what there is.
Flush(f) ==
    /\ Streaming(f) /\ fwd[f].batch # <<>>
    /\ SendBatch(f, fwd[f].batch)
    /\ UNCHANGED <<process, chan, active, got, breaks, cut, hist>>

\* The channel is closed and empty: the last batch is sent and the stream is
\* closed, which waits for the master's answer.
ChannelClosed(f) ==
    LET g == fwd[f].run IN
    /\ Streaming(f) /\ chan[g] = <<>> /\ Closed(g)
    /\ wire' = IF fwd[f].pc = "stream" /\ fwd[f].batch # <<>>
               THEN [wire EXCEPT ![f] = Append(@, fwd[f].batch)] ELSE wire
    /\ Goto(f, IF fwd[f].pc = "stream" THEN "closing" ELSE "ending")
    /\ UNCHANGED <<process, chan, active, got, breaks, cut, hist>>

CloseAndRecv(f) ==
    /\ fwd[f].pc = "closing" /\ wire[f] = <<>>
    /\ Goto(f, "ending")
    /\ UNCHANGED <<process, chan, active, wire, got, breaks, cut, hist>>

\* The forwarder was cancelled: its stream is gone, with what is under way.
Cancelled(f) ==
    /\ fwd[f].cancelled /\ (Streaming(f) \/ fwd[f].pc \in {"closing", "wait"})
    /\ wire' = [wire EXCEPT ![f] = <<>>]
    /\ Goto(f, "ending")
    /\ UNCHANGED <<process, chan, active, got, breaks, cut, hist>>

\* Three seconds later.
Retry(f) ==
    /\ fwd[f].pc = "wait" /\ ~fwd[f].cancelled
    /\ Goto(f, "connect")
    /\ UNCHANGED <<process, chan, active, wire, got, breaks, cut, hist>>

\* The goroutine ends and deletes the entry of its instance, whichever it is.
Ended(f) ==
    /\ fwd[f].pc = "ending"
    /\ fwd' = [fwd EXCEPT ![f] = None]
    /\ active' = 0
    /\ evicted' = (evicted \/ active \notin {0, f})
    /\ UNCHANGED <<process, chan, wire, got, breaks, cut, served>>

-----------------------------------------------------------------------------
(* The streams.                                                            *)

\* The connection breaks; the forwarder finds out when it sends.
Break(f) ==
    /\ fwd[f].pc \in {"stream", "closing"} /\ breaks < MaxBreaks
    /\ breaks' = breaks + 1
    /\ wire' = [wire EXCEPT ![f] = <<>>]
    /\ fwd' = [fwd EXCEPT ![f].pc = IF @ = "stream" THEN "broken" ELSE "ending"]
    /\ cut' = cut \cup {fwd[f].run}
    /\ UNCHANGED <<process, chan, active, got, hist>>

\* ReportMetrics at the master receives a batch and broadcasts its lines.
ReportMetrics(f) ==
    /\ wire[f] # <<>>
    /\ got' = [got EXCEPT ![fwd[f].run] = @ \o Head(wire[f])]
    /\ wire' = [wire EXCEPT ![f] = Tail(@)]
    /\ UNCHANGED <<process, chan, active, fwd, breaks, cut, hist>>

ForwarderNext ==
    \/ Start \/ WriteLine \/ Exit \/ Tick
    \/ \E f \in Forwarders :
          \/ OpenStream(f) \/ OpenFails(f) \/ TakeLine(f) \/ Flush(f)
          \/ ChannelClosed(f) \/ CloseAndRecv(f) \/ Cancelled(f) \/ Retry(f)
          \/ Ended(f) \/ Break(f) \/ ReportMetrics(f)

ForwarderSpec == ForwarderInit /\ [][ForwarderNext]_forwarderVars

-----------------------------------------------------------------------------
(* Properties.                                                             *)

Readers(g) == {f \in Forwarders : fwd[f].run = g}

ForwarderTypeOK ==
    /\ run \in 0 .. MaxRuns /\ running \in BOOLEAN
    /\ active \in {0} \cup Forwarders
    /\ \A f \in Forwarders :
          fwd[f].pc \in {"none", "connect", "stream", "broken", "closing", "wait", "ending"}
    /\ \A g \in Runs : Len(chan[g]) <= ChanCap

\* The master gets the lines of a run in order and each at most once, whatever
\* breaks, and all of them by the time the forwarder ends if nothing was cut;
\* without a forwarder it gets none.  Two forwarders on one channel, which
\* takes one that outlives its successor's start, may only change the order.
RunIsForwarded ==
    \A g \in Runs :
       LET n == Len(got[g])
           all == [l \in 1 .. written[g] |-> l]
       IN /\ IF evicted THEN IsInjective(got[g])
             ELSE \A j \in 1 .. n : \A k \in 1 .. j - 1 : got[g][k] < got[g][j]
          /\ g \notin served => got[g] = <<>>
          /\ (g \in served \ cut /\ g <= run /\ Closed(g) /\ Readers(g) = {}) =>
                IF evicted THEN ToSet(got[g]) = ToSet(all) ELSE got[g] = all

\* A channel has two readers only after a forwarder that ended late has taken
\* the entry of its successor out of the map.
OneReader == \A g \in Runs : Cardinality(Readers(g)) > 1 => evicted
=============================================================================
