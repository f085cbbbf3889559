------------------------------- MODULE Console -------------------------------
(***************************************************************************)
(* The console page of an instance, from the master's BroadcastLog to the  *)
(* browser: the ring buffer with the latest lines, the channel of          *)
(* broadcasts, the hub, and the WebSocket connections with their queues,   *)
(* their copies of the history and their commands.  A line is its number.  *)
(* The goroutine between the two channels of broadcasts holds one line     *)
(* while it waits; that line is counted with the first channel.            *)
(***************************************************************************)
EXTENDS Integers, Sequences, FiniteSets, SequencesExt

CONSTANTS
    Clients,     \* WebSocket connections; a page that reconnects is a new one
    RingSize,    \* 500 in the code
    BroadcastCap, HubCap, SendCap, \* capacities: 1000, 1000 and 256 in the code
    MaxLines,    \* bound: lines broadcast
    MaxStreams,  \* bound: streams of agents that broadcast at the same time
    MaxCommands  \* bound: commands sent from the pages

ASSUME RingAssumption == RingSize \in Nat \ {0}
ASSUME LinesAssumption == MaxLines \in Nat

Slots == 0 .. RingSize - 1
Torn == 0     \* what a read of a string gives that is being written
Message == -1 \* an error message of a command

VARIABLES
    ring,     \* LogRingBuffer: lines, pos and full
    lines,    \* lines broadcast so far
    adding,   \* lines in the ring that BroadcastLog has yet to pass on
    logBroadcast, \* the channel of the gRPC server
    broadcast,    \* the channel of the hub
    clients,  \* connections the hub knows
    conn,     \* the handler of each connection
    send,     \* the queue of each connection
    shown,    \* what each browser was sent
    command,  \* where the command of each connection is, if one is under way
    commands, \* commands so far
    panic     \* who has sent on a closed queue: the master is down then

vars == <<ring, lines, adding, logBroadcast, broadcast, clients, conn, send,
          shown, command, commands, panic>>
source == <<ring, lines, adding, logBroadcast>>
hub == <<broadcast, clients>>
pages == <<command, commands>>

\* A connection: the step its handler is at, whether the browser is there, its
\* queue is closed and its write pump has returned; the history it copies, by
\* reference (alias) or not, and the index it is at; and, for the properties,
\* the lines there were when it got the history, the indices of the history
\* that went into the queue, and whether some line was lost to it.
NoConn == [step |-> 0, open |-> FALSE, closed |-> FALSE, pumping |-> FALSE,
           alias |-> FALSE, history |-> <<>>, k |-> 0,
           at |-> 0, taken |-> {}, lossy |-> FALSE]

Init ==
    /\ ring = [lines |-> [s \in Slots |-> 0], pos |-> 0, full |-> FALSE]
    /\ lines = 0 /\ adding = {}
    /\ logBroadcast = <<>> /\ broadcast = <<>>
    /\ clients = {}
    /\ conn = [c \in Clients |-> NoConn]
    /\ send = [c \in Clients |-> <<>>]
    /\ shown = [c \in Clients |-> <<>>]
    /\ command = [c \in Clients |-> "none"] /\ commands = 0
    /\ panic = "nobody"

-----------------------------------------------------------------------------
(* The ring buffer.                                                        *)

\* Faulty: the buffer starts again and never becomes full.
AddNeverFull(rb, line) ==
    LET next == rb.pos + 1 IN
    [lines |-> [rb.lines EXCEPT ![rb.pos] = line],
     pos |-> IF next >= RingSize THEN 0 ELSE next,
     full |-> FALSE]

Add(rb, line) ==
    LET next == rb.pos + 1 IN
    [lines |-> [rb.lines EXCEPT ![rb.pos] = line],
     pos |-> IF next >= RingSize THEN 0 ELSE next,
     full |-> rb.full \/ next >= RingSize]

\* Until the buffer is full the result is a slice of it, then it is a copy.
Lines(rb) ==
    LET part(a, b) == [k \in 1 .. b - a |-> rb.lines[a + k - 1]] IN
    IF rb.full THEN part(rb.pos, RingSize) \o part(0, rb.pos) ELSE part(0, rb.pos)

-----------------------------------------------------------------------------
(* From the agents to the hub.                                             *)

Lossy(C) == [c \in Clients |-> IF c \in C THEN [conn[c] EXCEPT !.lossy = TRUE] ELSE conn[c]]

\* BroadcastLog stores the line ...
StoreLine ==
    /\ lines < MaxLines /\ Cardinality(adding) < MaxStreams
    /\ lines' = lines + 1
    /\ ring' = Add(ring, lines + 1)
    /\ adding' = adding \cup {lines + 1}
    /\ UNCHANGED <<logBroadcast, hub, conn, send, shown, pages, panic>>

\* ... and passes it on, unless the channel is full.
BroadcastLog(line) ==
    /\ line \in adding
    /\ adding' = adding \ {line}
    /\ IF Len(logBroadcast) < BroadcastCap
       THEN logBroadcast' = Append(logBroadcast, line) /\ UNCHANGED conn
       ELSE conn' = Lossy(Clients) /\ UNCHANGED logBroadcast
    /\ UNCHANGED <<ring, lines, hub, send, shown, pages, panic>>

\* The goroutine of main passes it on to the hub, and waits if need be.
Broadcast ==
    /\ logBroadcast # <<>> /\ Len(broadcast) < HubCap
    /\ broadcast' = Append(broadcast, Head(logBroadcast))
    /\ logBroadcast' = Tail(logBroadcast)
    /\ UNCHANGED <<ring, lines, adding, clients, conn, send, shown, pages, panic>>

-----------------------------------------------------------------------------
(* The hub.                                                                *)

\* Faulty: the history is read before the connection is registered.
HistoryFirst == <<"history", "register", "read", "unregister", "done">>

\* The steps of handleWSLogs, in the order of the code.
handleWSLogs == <<"register", "history", "read", "unregister", "done">>

At(c, step) == conn[c].step > 0 /\ handleWSLogs[conn[c].step] = step

Register(c) ==
    /\ At(c, "register")
    /\ clients' = clients \cup {c}
    /\ conn' = [conn EXCEPT ![c].step = @ + 1, ![c].pumping = TRUE]
    /\ UNCHANGED <<source, broadcast, send, shown, pages, panic>>

\* Faulty: the queue is closed and the hub keeps the connection.
CloseOnly(c) ==
    /\ At(c, "unregister")
    /\ conn' = [conn EXCEPT ![c].step = @ + 1, ![c].closed = TRUE]
    /\ UNCHANGED <<source, hub, send, shown, pages, panic>>

Unregister(c) ==
    /\ At(c, "unregister")
    /\ clients' = clients \ {c}
    /\ conn' = [conn EXCEPT ![c].step = @ + 1, ![c].closed = @ \/ c \in clients]
    /\ UNCHANGED <<source, broadcast, send, shown, pages, panic>>

\* A line goes to the queue of every connection that has room for it.
Distribute ==
    /\ broadcast # <<>>
    /\ broadcast' = Tail(broadcast)
    /\ LET room == {c \in clients : Len(send[c]) < SendCap} IN
       /\ send' = [c \in Clients |-> IF c \in room THEN Append(send[c], Head(broadcast)) ELSE send[c]]
       /\ conn' = Lossy(clients \ room)
    /\ panic' = IF \E c \in clients : conn[c].closed THEN "hub" ELSE panic
    /\ UNCHANGED <<source, clients, shown, pages>>

-----------------------------------------------------------------------------
(* The connections.                                                        *)

\* The page opens a connection and its handler starts.
Connect(c) ==
    /\ conn[c].step = 0
    /\ conn' = [conn EXCEPT ![c] = [NoConn EXCEPT !.step = 1, !.open = TRUE]]
    /\ UNCHANGED <<source, hub, send, shown, pages, panic>>

\* The browser goes away.
Disconnect(c) ==
    /\ conn[c].open
    /\ conn' = [conn EXCEPT ![c].open = FALSE]
    /\ UNCHANGED <<source, hub, send, shown, pages, panic>>

\* GetLogHistory returns what Lines returns; it is read after the lock is
\* released.
GetLogHistory(c) ==
    /\ At(c, "history") /\ conn[c].k = 0
    /\ conn' = [conn EXCEPT ![c].alias = ~ring.full, ![c].history = Lines(ring),
                            ![c].k = 1, ![c].at = lines]
    /\ UNCHANGED <<source, hub, send, shown, pages, panic>>

\* A read of the history at index k: of a slice, what is in the buffer now, or
\* neither the old nor the new line while that one is being written.
Reads(c, k) ==
    IF ~conn[c].alias THEN {conn[c].history[k]}
    ELSE {ring.lines[k - 1]}
         \cup (IF ring.pos = k - 1 /\ lines < MaxLines THEN {Torn} ELSE {})

\* The history goes to the queue, line by line; a line that finds it full is
\* skipped, and the next one is tried.
SendHistory(c) ==
    LET k == conn[c].k IN
    /\ At(c, "history") /\ k \in DOMAIN conn[c].history
    /\ \E line \in Reads(c, k) :
         LET room == Len(send[c]) < SendCap IN
         /\ send' = IF room THEN [send EXCEPT ![c] = Append(@, line)] ELSE send
         /\ conn' = [conn EXCEPT ![c].k = k + 1,
                                 ![c].taken = IF room THEN @ \cup {k} ELSE @,
                                 ![c].lossy = @ \/ ~room \/ line # conn[c].history[k]]
    /\ UNCHANGED <<source, hub, shown, pages, panic>>

HistorySent(c) ==
    /\ At(c, "history") /\ conn[c].k > Len(conn[c].history)
    /\ conn' = [conn EXCEPT ![c].step = @ + 1, ![c].alias = FALSE, ![c].history = <<>>]
    /\ UNCHANGED <<source, hub, send, shown, pages, panic>>

\* The write pump sends one message, or finds the browser gone and returns.
WritePump(c) ==
    /\ conn[c].pumping /\ send[c] # <<>>
    /\ send' = [send EXCEPT ![c] = Tail(@)]
    /\ shown' = IF conn[c].open THEN [shown EXCEPT ![c] = Append(@, Head(send[c]))] ELSE shown
    /\ conn' = [conn EXCEPT ![c].pumping = conn[c].open]
    /\ UNCHANGED <<source, hub, pages, panic>>

\* The read pump receives a command, for which it starts a goroutine ...
ReadCommand(c) ==
    /\ At(c, "read") /\ conn[c].open /\ command[c] = "none"
    /\ commands < MaxCommands /\ commands' = commands + 1
    /\ command' = [command EXCEPT ![c] = "call"]
    /\ UNCHANGED <<source, hub, conn, send, shown, panic>>

\* ... or an error, which ends it.
ReadFails(c) ==
    /\ At(c, "read") /\ ~conn[c].open
    /\ conn' = [conn EXCEPT ![c].step = @ + 1]
    /\ UNCHANGED <<source, hub, send, shown, pages, panic>>

\* The call has reached the agent of the instance, and its process runs.
AgentSendCommand(c) ==
    /\ command[c] = "call"
    /\ command' = [command EXCEPT ![c] = "exec"]
    /\ UNCHANGED <<source, hub, conn, send, shown, commands, panic>>

\* The container does not take the command, and it is tried another way: with
\* a password or without, or over rcon.
SendAgain(c) ==
    /\ command[c] = "exec"
    /\ command' = [command EXCEPT ![c] = "again"]
    /\ UNCHANGED <<source, hub, conn, send, shown, commands, panic>>

\* The command is done; the page is not told what it printed.
SendCommand(c) ==
    /\ command[c] \in {"exec", "again"}
    /\ command' = [command EXCEPT ![c] = "none"]
    /\ UNCHANGED <<source, hub, conn, send, shown, commands, panic>>

\* The instance has no owner, its agent is offline or does not answer within
\* 10 s, the process is not running or does not take the command: the page is
\* told.
CommandFails(c) ==
    /\ command[c] # "none"
    /\ command' = [command EXCEPT ![c] = "none"]
    /\ send' = IF Len(send[c]) < SendCap /\ ~conn[c].closed
               THEN [send EXCEPT ![c] = Append(@, Message)] ELSE send
    /\ panic' = IF conn[c].closed THEN "command" ELSE panic
    /\ UNCHANGED <<source, hub, conn, shown, commands>>

Page(c) ==
    \/ Connect(c) \/ Disconnect(c) \/ Register(c) \/ Unregister(c)
    \/ GetLogHistory(c) \/ SendHistory(c) \/ HistorySent(c) \/ WritePump(c)
    \/ ReadCommand(c) \/ ReadFails(c)
    \/ AgentSendCommand(c) \/ SendAgain(c) \/ SendCommand(c) \/ CommandFails(c)

Next ==
    /\ panic = "nobody"
    /\ \/ StoreLine \/ Broadcast \/ Distribute
       \/ \E line \in adding : BroadcastLog(line)
       \/ \E c \in Clients : Page(c)

Spec == Init /\ [][Next]_vars

-----------------------------------------------------------------------------
(* Properties.                                                             *)

TypeOK ==
    /\ ring.pos \in Slots /\ ring.full \in BOOLEAN
    /\ adding \subseteq 1 .. lines /\ clients \subseteq Clients
    /\ Len(logBroadcast) <= BroadcastCap /\ Len(broadcast) <= HubCap
    /\ \A c \in Clients : Len(send[c]) <= SendCap
    /\ panic \in {"nobody", "hub", "command"}

\* The ring buffer with its position and its flag keeps what a log history
\* promises: Lines is at all times the latest lines, in order.
Abstract == INSTANCE LogTail WITH tail <- Lines(ring), Size <- RingSize, Line <- 1 .. MaxLines
RingIsTail == Abstract!Spec

\* A page that no queue had to drop a line for, and whose history was not
\* overwritten while it was read, shows every line since the oldest one of the
\* history once the queues are empty, and none of them more than twice: what
\* comes between the registration and the history comes both ways.
NothingIsMissed ==
    \A c \in Clients :
       LET seen == ToSet(shown[c]) IN
       /\ (/\ At(c, "read") /\ conn[c].open /\ ~conn[c].lossy
           /\ adding = {} /\ logBroadcast = <<>> /\ broadcast = <<>> /\ send[c] = <<>>)
          => {l \in 1 .. lines : l > conn[c].at - RingSize} \subseteq seen
       /\ \A l \in seen \ {Torn, Message} : Cardinality({k \in DOMAIN shown[c] : shown[c][k] = l}) <= 2

\* The hub and the handlers never send on a queue that is closed; a command
\* whose connection ended before its answer does, and takes the master down.
OnlyCommandsPanic ==
    /\ panic # "hub"
    /\ panic = "command" => \E c \in Clients : At(c, "done") /\ conn[c].closed

\* What the comment of the handler says ("Buffer full, skip remaining history"),
\* and no run checks because it is not so: what a page gets of the history is a
\* prefix of it.  The break leaves the select, not the loop.
HistoryIsPrefix ==
    \A c \in Clients : conn[c].taken = 1 .. Cardinality(conn[c].taken)
=============================================================================
