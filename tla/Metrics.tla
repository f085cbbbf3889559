------------------------------- MODULE Metrics -------------------------------
(***************************************************************************)
(* The metrics of one instance and of its node, from docker stats on the   *)
(* agent to the exporters of the master: buildHeartbeatRequest of          *)
(* internal/agent/heartbeat.go, Stats and parseSize of                     *)
(* internal/agent/docker/manager.go, Heartbeat of                          *)
(* internal/master/grpc_agent_service.go, metrics_cache.go,                *)
(* store/instance_metrics.go, the pruning of server.go and the package     *)
(* observability.                                                          *)
(*                                                                         *)
(* A heartbeat stream that breaks is replaced by a new one while the       *)
(* master's handler of the old one may still be at work.  The master may   *)
(* be restarted: its caches are lost, the history in the database is not.  *)
(***************************************************************************)
EXTENDS Integers, FiniteSets, FiniteSetsExt, Sequences, SequencesExt

CONSTANTS
    MaxAge,      \* how long a row of the history is to be kept, 24 hours
    Zone,        \* how far the master's local time is ahead of UTC
    PruneEvery,  \* the time between two prunings, an hour
    PageRows,    \* rows shown on the page, 60
    MaxRuns,     \* bound: runs of the container
    MaxBeats,    \* bound: heartbeats
    MaxTime      \* bound: the clock

ASSUME MetricsAssumption == {MaxAge, PruneEvery, PageRows} \subseteq Nat
\* No place on earth is a day ahead of UTC.
ASSUME ZoneAssumption == Zone \in Int /\ Zone < MaxAge

VARIABLES
    now,
    container,   \* the run of the container (0: none yet), whether it is up, what it has received
    streams,     \* the two heartbeat streams: open, requests not yet read, the handler
    beats,
    cache,       \* cachedInstMetrics and cachedMetrics
    stored,      \* the rows of instance_metrics
    started, due, failed,   \* start of the master, its next pruning, did the last one fail
    export,      \* what an exporter has told last
    fresh,       \* history: the rows inserted in the last Span
    overlapped   \* history: a handler of an old stream was overtaken

metricsVars == <<now, container, streams, beats, cache, stored, started, due, failed, export, fresh, overlapped>>

----------------------------------------------------------------------------
(* Sizes as docker prints them: a number and the letters after it. *)

Reading(n, letters) == [n |-> n, letters |-> letters]

\* What docker prints for a counter that grows.
Readings ==
    << Reading(648, <<"B">>), Reading(2, <<"G", "B">>), Reading(3, <<"T", "B">>) >>

\* A unit the table below does not have.
Tera(r) == r.letters[1] = "T"

UnitTable ==
    << [suffix |-> <<"G", "i", "B">>, multiplier |-> 1024 * 1024 * 1024],
       [suffix |-> <<"M", "i", "B">>, multiplier |-> 1024 * 1024],
       [suffix |-> <<"K", "i", "B">>, multiplier |-> 1024],
       [suffix |-> <<"G", "B">>, multiplier |-> 1000 * 1000 * 1000],
       [suffix |-> <<"M", "B">>, multiplier |-> 1000 * 1000],
       [suffix |-> <<"K", "B">>, multiplier |-> 1000],
       [suffix |-> <<"k", "B">>, multiplier |-> 1000],
       [suffix |-> <<"B">>, multiplier |-> 1] >>

\* Faulty: the last unit that fits decides.
parseSizeBytesFirst(r) ==
    LET fits == {u \in DOMAIN UnitTable : IsSuffix(UnitTable[u].suffix, r.letters)}
    IN IF fits = {} THEN r.n ELSE r.n * UnitTable[Max(fits)].multiplier

\* The first unit of the table that the string ends with decides; letters left
\* before it are skipped by Sscanf, a string without a unit is a number of bytes.
\* So terabytes ("TB", "TiB") are read as bytes.
parseSize(r) ==
    LET fits == {u \in DOMAIN UnitTable : IsSuffix(UnitTable[u].suffix, r.letters)}
    IN IF fits = {} THEN r.n ELSE r.n * UnitTable[Min(fits)].multiplier

----------------------------------------------------------------------------
(* The sample of the instance in a request, with whether it was printed in  *)
(* terabytes as history; and the absence of one: its run is 0.              *)
Sample(run, rx, tera) == [run |-> run, rx |-> rx, tera |-> tera]
None == Sample(0, 0, FALSE)

Receiving == [pc |-> "recv", sample |-> None, os |-> 0]
Closed == [open |-> FALSE, queue |-> <<>>, handler |-> Receiving]

MetricsInit ==
    /\ now = 1 /\ beats = 0
    /\ container = [run |-> 0, up |-> FALSE, rx |-> 1]
    /\ streams = <<Closed, Closed>>
    /\ cache = [sample |-> None, node |-> 0]
    /\ stored = {} /\ fresh = {}
    /\ started = 1 /\ due = 1 + PruneEvery /\ failed = FALSE
    /\ export = cache
    /\ overlapped = FALSE

\* Stats: nothing unless the container runs, and nothing when docker fails or
\* prints what cannot be parsed.
Stats ==
    LET r == Readings[container.rx]
    IN {None} \cup IF container.up THEN {Sample(container.run, parseSize(r), Tera(r))} ELSE {}

\* CollectOS never fails; what it measured is told apart by the time.
CollectOS == now

buildHeartbeatRequest == {[sample |-> s, os |-> CollectOS] : s \in Stats}

\* One stream at a time is the agent's; when it breaks another is opened, the
\* second one of the model while the first is still handled.
runHeartbeatStream(s) ==
    /\ \A t \in 1..2 : ~streams[t].open
    /\ streams[s] = Closed /\ (s = 2 => streams[1] # Closed)
    /\ beats < MaxBeats /\ beats' = beats + 1
    /\ \E req \in buildHeartbeatRequest :
          streams' = [streams EXCEPT ![s] = [Closed EXCEPT !.open = TRUE, !.queue = <<req>>]]
    /\ UNCHANGED <<now, container, cache, stored, started, due, failed, export, fresh, overlapped>>

SendHeartbeat(s) ==
    /\ streams[s].open /\ beats < MaxBeats
    /\ beats' = beats + 1
    /\ \E req \in buildHeartbeatRequest : streams' = [streams EXCEPT ![s].queue = Append(@, req)]
    /\ UNCHANGED <<now, container, cache, stored, started, due, failed, export, fresh, overlapped>>

\* The agent sees the stream fail; the master still reads what had arrived.
BreakStream(s) ==
    /\ streams[s].open
    /\ \E n \in 0..Len(streams[s].queue) :
          streams' = [streams EXCEPT ![s].open = FALSE, ![s].queue = SubSeq(@, 1, n)]
    /\ UNCHANGED <<now, container, beats, cache, stored, started, due, failed, export, fresh, overlapped>>

----------------------------------------------------------------------------
(* Heartbeat on the master, for the metrics it carries; what it does to     *)
(* the registry and to the status of the instance is in AgentRegistry.      *)

At(s, pc) == streams[s].handler.pc = pc
Handler(s) == streams[s].handler

Receive(s) ==
    /\ At(s, "recv") /\ streams[s].queue # <<>>
    /\ LET req == Head(streams[s].queue) IN
       streams' = [streams EXCEPT ![s].queue = Tail(@),
                                  ![s].handler = [pc |-> IF req.sample = None THEN "node" ELSE "cache",
                                                  sample |-> req.sample, os |-> req.os]]
    /\ overlapped' = (overlapped \/ \E t \in 1..2 \ {s} : ~At(t, "recv") \/ streams[t].queue # <<>>)
    /\ UNCHANGED <<now, container, beats, cache, stored, started, due, failed, export, fresh>>

\* UpdateInstanceMetrics, only for a sample that is not all zero.
UpdateInstanceMetrics(s) ==
    /\ At(s, "cache")
    /\ cache' = [cache EXCEPT !.sample = Handler(s).sample]
    /\ streams' = [streams EXCEPT ![s].handler.pc = "insert"]
    /\ UNCHANGED <<now, container, beats, stored, started, due, failed, export, fresh, overlapped>>

\* An error of the database is not looked at.
InsertInstanceMetrics(s) ==
    /\ At(s, "insert")
    /\ \E row \in {{}, {[at |-> now, sample |-> Handler(s).sample]}} :
          stored' = stored \cup row /\ fresh' = fresh \cup row
    /\ streams' = [streams EXCEPT ![s].handler.pc = "node"]
    /\ UNCHANGED <<now, container, beats, cache, started, due, failed, export, overlapped>>

UpdateNodeMetrics(s) ==
    /\ At(s, "node")
    /\ cache' = [cache EXCEPT !.node = Handler(s).os]
    /\ streams' = [streams EXCEPT ![s].handler = Receiving]
    /\ UNCHANGED <<now, container, beats, stored, started, due, failed, export, fresh, overlapped>>

----------------------------------------------------------------------------
(* instanceMetricsPruneLoop: the ticker runs from the start of the master. *)

\* Faulty: a row that comes of age before the next pruning goes too.
PruneAhead(rows) == {r \in rows : r.at > now + PruneEvery + Zone - MaxAge}

\* recorded_at is CURRENT_TIMESTAMP, a text in UTC; the cutoff is bound as the
\* text of a local time, a fraction and its zone behind the seconds.  SQLite
\* compares the texts: by the digits, whatever the zone, and of two with the same
\* seconds the shorter one, the row's, is the smaller.
PruneInstanceMetrics(rows) ==
    LET cutoff == now + Zone - MaxAge IN {r \in rows : ~(r.at <= cutoff)}

\* The age at which a row goes.
Span == MaxAge - Zone

instanceMetricsPruneLoop ==
    /\ now = due
    /\ due' = due + PruneEvery
    /\ \/ stored' = PruneInstanceMetrics(stored) /\ failed' = FALSE
       \/ stored' = stored /\ failed' = TRUE
    /\ UNCHANGED <<now, container, streams, beats, cache, started, export, fresh, overlapped>>

\* The rows from the oldest to the newest; the order of two of one time is open.
ByTime(rows) ==
    {q \in [1 .. Cardinality(rows) -> rows] :
        Range(q) = rows /\ \A i, j \in DOMAIN q : i <= j => q[i].at <= q[j].at}

\* The newest rows, oldest first.
ListInstanceMetrics(limit) ==
    LET order == CHOOSE q \in ByTime(stored) : TRUE
    IN SubSeq(order, Max({1, Len(order) - limit + 1}), Len(order))

\* The page of the instance: the cached sample and the history.
GetInstanceMetrics == cache.sample

apiInstanceMetrics == [current |-> GetInstanceMetrics, history |-> ListInstanceMetrics(PageRows)]

----------------------------------------------------------------------------
(* The exporters read the nodes, then the instances, each under its lock;   *)
(* the two are not compared with each other.                                *)

NodeSnapshots == cache.node
InstanceSnapshots == cache.sample

Tell == export' = [node |-> NodeSnapshots, sample |-> InstanceSnapshots]

writeProm ==
    /\ Tell
    /\ UNCHANGED <<now, container, streams, beats, cache, stored, started, due, failed, fresh, overlapped>>

\* A push that fails is dropped: the next one tells what is cached then.
pushOnce ==
    /\ \E arrives \in BOOLEAN : IF arrives THEN Tell ELSE UNCHANGED export
    /\ UNCHANGED <<now, container, streams, beats, cache, stored, started, due, failed, fresh, overlapped>>

----------------------------------------------------------------------------
\* The container is started, receives, and stops; see DockerProcess.
StartContainer ==
    /\ ~container.up /\ container.run < MaxRuns
    /\ container' = [run |-> container.run + 1, up |-> TRUE, rx |-> 1]
    /\ UNCHANGED <<now, streams, beats, cache, stored, started, due, failed, export, fresh, overlapped>>
Grow ==
    /\ container.up /\ container.rx < Len(Readings)
    /\ container' = [container EXCEPT !.rx = @ + 1]
    /\ UNCHANGED <<now, streams, beats, cache, stored, started, due, failed, export, fresh, overlapped>>
StopContainer ==
    /\ container.up
    /\ container' = [container EXCEPT !.up = FALSE]
    /\ UNCHANGED <<now, streams, beats, cache, stored, started, due, failed, export, fresh, overlapped>>

TimePasses ==
    /\ now < MaxTime /\ now < due
    /\ now' = now + 1
    /\ fresh' = {r \in fresh : now' - r.at < Span}
    /\ UNCHANGED <<container, streams, beats, cache, stored, started, due, failed, export, overlapped>>

\* The master is restarted: the caches and the streams are gone.
RestartMaster ==
    /\ now > started
    /\ started' = now /\ due' = now + PruneEvery /\ failed' = FALSE
    /\ cache' = [sample |-> None, node |-> 0]
    /\ streams' = <<Closed, Closed>>
    /\ overlapped' = FALSE
    /\ UNCHANGED <<now, container, beats, stored, export, fresh>>

MetricsNext ==
    \/ \E s \in 1..2 : runHeartbeatStream(s) \/ SendHeartbeat(s) \/ BreakStream(s) \/ Receive(s)
                       \/ UpdateInstanceMetrics(s) \/ InsertInstanceMetrics(s) \/ UpdateNodeMetrics(s)
    \/ writeProm \/ pushOnce
    \/ instanceMetricsPruneLoop
    \/ StartContainer \/ Grow \/ StopContainer
    \/ TimePasses \/ RestartMaster

MetricsSpec == MetricsInit /\ [][MetricsNext]_metricsVars

----------------------------------------------------------------------------
\* No row younger than Span has gone, and once the master has been up for longer
\* than the time between two prunings and the last one went well, no row is older
\* than Span and that time, however often the master was restarted before.
SpanIsKept ==
    /\ fresh \subseteq stored
    /\ (now - started > PruneEvery /\ ~failed) => \A r \in stored : now - r.at < Span + PruneEvery

\* The history goes back a day less the hours by which the master's local time is
\* ahead of UTC (more, where it is behind), whatever the prunings and restarts of
\* the master, and what the page shows is its newest part.
HistoryIsKept == LET page == apiInstanceMetrics IN
    /\ SpanIsKept
    /\ \A r \in stored :
          r \notin Range(page.history) =>
              /\ Cardinality(stored) > PageRows
              /\ \A shown \in Range(page.history) : shown.at >= r.at

\* What the exporters tell of one run of the container goes back, against the
\* "counter" in the text it writes, at most where the figure docker printed has
\* come to terabytes; the age of a node's metrics never goes back; and the current
\* sample on the page of the instance is not behind a row of the history below it,
\* but for terabytes.  As long as no handler of an old stream was overtaken, and
\* across restarts of the master.
CountersGrow ==
    [][~overlapped' => LET page == apiInstanceMetrics IN
          /\ ~overlapped => \A shown \in Range(page.history) :
                shown.sample.run = page.current.run /\ ~page.current.tera
                    => shown.sample.rx <= page.current.rx
          /\ /\ export.sample # None /\ export'.sample.run = export.sample.run
             /\ ~export'.sample.tera
             => export'.sample.rx >= export.sample.rx
          /\ export'.node # 0 => export'.node >= export.node]_metricsVars
=============================================================================
