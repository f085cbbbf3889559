---------------------------- MODULE DockerProcess ----------------------------
(***************************************************************************)
(* The agent's controller of one container, DockerProcess                  *)
(* (internal/agent/process/docker.go).                                     *)
(*                                                                         *)
(* Goroutines of three kinds share one DockerProcess: the callers of       *)
(* Start, Stop, Kill and Restart (gRPC handlers and the auto-restart       *)
(* loop), one waitForExit per successful Start (the watchers), and one     *)
(* streamLogs per successful Start (the streams) with its two readers, of  *)
(* stdout and of stderr.  Every lock-protected section, docker command,    *)
(* channel operation and WaitGroup operation is a step of its own, so that *)
(* all their interleavings are explored.  Of the log lines only this is    *)
(* kept: a reader that finds logCh full may block in its send.             *)
(*                                                                         *)
(* Each successful Start is a generation; it makes the channels stopCh and *)
(* logCh, one context and one watcher, all named by the generation.  The   *)
(* container belongs to the Docker daemon and is external: it may exit by  *)
(* itself at any time, and it was created with the restart policy          *)
(* "unless-stopped".                                                       *)
(***************************************************************************)
EXTENDS Naturals, FiniteSets

CONSTANTS
    Callers,         \* goroutines that operate on the process
    Ops,             \* the operations they use
    MaxStarts,       \* bound: generations in one life of the agent
    DaemonMayFail,   \* docker commands may return an error
    StopMayTimeout,  \* the 35 s of Stop may pass before stopCh is closed
    AgentMayRestart  \* the agent may be restarted without having panicked

ASSUME CallersAssumption == IsFiniteSet(Callers)
ASSUME OpsAssumption == Ops \subseteq {"start", "stop", "kill", "restart"}
ASSUME MaxStartsAssumption == MaxStarts \in Nat \ {0}
ASSUME FlagsAssumption == {DaemonMayFail, StopMayTimeout, AgentMayRestart} \subseteq BOOLEAN

Gens == 1 .. MaxStarts

VARIABLES
    state,     \* d.state
    cstat,     \* external: the container's status in the daemon
    ccode,     \* external: the container's last exit code (0 or not 0)
    chan,      \* generation of d.stopCh and d.logCh; 0 before the first
    closed,    \* generations whose channels are closed
    logCancel, \* generation whose context d.logCancel cancels; 0 is nil
    streams,   \* streamLogs goroutines counted by d.outputWg
    doomed,    \* generations whose docker logs process is ended or cancelled
    stuck,     \* <<g, h>>: a reader of stream g is blocked sending on logCh h
    pc,        \* where each caller is; "idle" outside any operation
    op,        \* the operation each caller runs
    sel,       \* the generation a caller made, or whose stopCh it waits on
    wpc,       \* where the watcher of each generation is
    wcode,     \* the exit code its docker wait printed
    wgrab,     \* the channels it read under the lock, to close
    agent      \* "up", or "panicked": the agent process has died

container == <<cstat, ccode>>
channels == <<chan, closed>>
logs == <<logCancel, streams, doomed, stuck>>
callers == <<pc, op, sel>>
watchers == <<wpc, wcode, wgrab>>
vars == <<state, container, channels, logs, callers, watchers, agent>>

State == {"stopped", "starting", "running", "stopping", "crashed"}
CStat == {"created", "running", "restarting", "exited"}
ExitCode == {0, 1}
CallerPC == {"idle", "restart_check", "start_check", "start_cmd", "start_lock",
             "start_log", "start_add", "stop_check", "stop_set", "stop_cmd",
             "stop_sel", "stop_wait", "kill_cmd", "kill_set"}
\* A watcher is live from go waitForExit() until it has written d.state.
LivePC == {"spawned", "waiting", "exited", "cancelled", "blocked", "woken", "finish"}
WatcherPC == LivePC \cup {"none", "close", "done"}

-----------------------------------------------------------------------------
(* The agent starts: NewDocker and RefreshState.                           *)

\* RefreshState: only a status of "running" is adopted.
RefreshState(status) == IF status = "running" THEN "running" ELSE "stopped"

\* The generation RefreshState makes for a container it finds running.
Adopted(status) == IF status = "running" THEN 1 ELSE 0

Init ==
    /\ cstat \in CStat
    /\ ccode \in ExitCode
    /\ state = RefreshState(cstat)
    /\ chan = Adopted(cstat)
    /\ closed = {}
    /\ logCancel = Adopted(cstat)
    /\ streams = Gens \cap {Adopted(cstat)}
    /\ doomed = {}
    /\ stuck = {}
    /\ pc = [c \in Callers |-> "idle"]
    /\ op = [c \in Callers |-> "none"]
    /\ sel = [c \in Callers |-> 0]
    /\ wpc = [g \in Gens |-> IF g = Adopted(cstat) THEN "spawned" ELSE "none"]
    /\ wcode = [g \in Gens |-> 0]
    /\ wgrab = [g \in Gens |-> 0]
    /\ agent = "up"

\* The agent process is started again, after a panic or for any other
\* reason; the container outlives it.
AgentRestart ==
    /\ agent = "panicked" \/ AgentMayRestart
    /\ state' = RefreshState(cstat)
    /\ chan' = Adopted(cstat)
    /\ closed' = {}
    /\ logCancel' = Adopted(cstat)
    /\ streams' = Gens \cap {Adopted(cstat)}
    /\ doomed' = {}
    /\ stuck' = {}
    /\ pc' = [c \in Callers |-> "idle"]
    /\ op' = [c \in Callers |-> "none"]
    /\ sel' = [c \in Callers |-> 0]
    /\ wpc' = [g \in Gens |-> IF g = Adopted(cstat) THEN "spawned" ELSE "none"]
    /\ wcode' = [g \in Gens |-> 0]
    /\ wgrab' = [g \in Gens |-> 0]
    /\ agent' = "up"
    /\ UNCHANGED container

-----------------------------------------------------------------------------
(* The container, in the Docker daemon.                                    *)

Up == cstat \in {"running", "restarting"}

\* docker wait returns in every watcher that waits.
Notify(code) ==
    /\ wpc' = [g \in Gens |-> IF wpc[g] = "waiting" THEN "exited" ELSE wpc[g]]
    /\ wcode' = [g \in Gens |-> IF wpc[g] = "waiting" THEN code ELSE wcode[g]]
    /\ UNCHANGED wgrab

\* The container stops running: docker logs -f ends too.
Halt(status, code) ==
    /\ cstat' = status
    /\ ccode' = code
    /\ doomed' = doomed \cup streams
    /\ UNCHANGED <<logCancel, streams, stuck>>
    /\ Notify(code)

\* The service exits by itself; the policy will restart the container.
ContainerExits(code) ==
    /\ cstat = "running"
    /\ Halt("restarting", code)
    /\ UNCHANGED <<state, channels, callers, agent>>

PolicyRestarts ==
    /\ cstat = "restarting"
    /\ cstat' = "running"
    /\ UNCHANGED <<ccode, state, channels, logs, callers, watchers, agent>>

\* docker stop and docker kill: no policy restart follows.  On a container
\* that is not up they change nothing.
HaltByCommand(codes) ==
    IF Up THEN \E code \in codes : Halt("exited", code)
          ELSE UNCHANGED <<container, logs, watchers>>

-----------------------------------------------------------------------------
(* Callers.  Goto moves a caller to its next step.                         *)

Goto(c, next) == pc' = [pc EXCEPT ![c] = next]

At(c, label) == agent = "up" /\ pc[c] = label

\* What follows a finished Stop or Kill: Restart goes on with Start.
AfterStop(c) == IF op[c] = "restart" THEN "start_check" ELSE "idle"

\* Callers that may still make a generation.
Starters == {c \in Callers : /\ pc[c] \notin {"idle", "start_log", "start_add"}
                             /\ op[c] \in {"start", "restart"}}

Entry(o) == CASE o = "start" -> "start_check"
              [] o = "stop" -> "stop_check"
              [] o = "kill" -> "kill_cmd"
              [] o = "restart" -> "restart_check"

\* ControlInstance calls an operation of the process.
Invoke(c, o) ==
    /\ At(c, "idle")
    /\ o \in {"start", "restart"} => chan + Cardinality(Starters) < MaxStarts
    /\ op' = [op EXCEPT ![c] = o]
    /\ Goto(c, Entry(o))
    /\ UNCHANGED <<state, container, channels, logs, sel, watchers, agent>>

RestartCheck(c) ==
    /\ At(c, "restart_check")
    /\ Goto(c, IF state = "running" THEN "stop_check" ELSE "start_check")
    /\ UNCHANGED <<state, container, channels, logs, op, sel, watchers, agent>>

\* Faulty: Start does not refuse a process that is being started.
StartCheckNoGuard(c) ==
    /\ At(c, "start_check")
    /\ IF state = "running"
       THEN Goto(c, "idle") /\ UNCHANGED state
       ELSE Goto(c, "start_cmd") /\ state' = "starting"
    /\ UNCHANGED <<container, channels, logs, op, sel, watchers, agent>>

StartCheck(c) ==
    /\ At(c, "start_check")
    /\ IF state \in {"running", "starting"}
       THEN Goto(c, "idle") /\ UNCHANGED state
       ELSE Goto(c, "start_cmd") /\ state' = "starting"
    /\ UNCHANGED <<container, channels, logs, op, sel, watchers, agent>>

\* docker start succeeds on a container that is already up.
StartCommand(c) ==
    /\ At(c, "start_cmd")
    /\ \/ /\ cstat' = IF Up THEN cstat ELSE "running"
          /\ Goto(c, "start_lock")
          /\ UNCHANGED state
       \/ /\ DaemonMayFail
          /\ state' = "stopped"
          /\ Goto(c, "idle")
          /\ UNCHANGED cstat
    /\ UNCHANGED <<ccode, channels, logs, op, sel, watchers, agent>>

StartLock(c) ==
    /\ At(c, "start_lock")
    /\ state' = "running"
    /\ chan' = chan + 1
    /\ sel' = [sel EXCEPT ![c] = chan + 1]
    /\ Goto(c, "start_log")
    /\ UNCHANGED <<container, closed, logs, op, watchers, agent>>

StartLog(c) ==
    /\ At(c, "start_log")
    /\ logCancel' = sel[c]
    /\ Goto(c, "start_add")
    /\ UNCHANGED <<state, container, channels, streams, doomed, stuck, op, sel, watchers, agent>>

\* The log stream and the watcher are launched; docker logs -f of a
\* container that is down ends by itself.
StartAdd(c) ==
    /\ At(c, "start_add")
    /\ streams' = streams \cup {sel[c]}
    /\ doomed' = IF cstat = "running" THEN doomed ELSE doomed \cup {sel[c]}
    /\ wpc' = [wpc EXCEPT ![sel[c]] = "spawned"]
    /\ Goto(c, "idle")
    /\ UNCHANGED <<state, container, channels, logCancel, stuck, op, sel, wcode, wgrab, agent>>

StopCheck(c) ==
    /\ At(c, "stop_check")
    /\ Goto(c, IF state = "running" THEN "stop_set"
               ELSE IF op[c] = "restart" THEN "kill_cmd" ELSE "idle")
    /\ UNCHANGED <<state, container, channels, logs, op, sel, watchers, agent>>

StopSet(c) ==
    /\ At(c, "stop_set")
    /\ state' = "stopping"
    /\ Goto(c, "stop_cmd")
    /\ UNCHANGED <<container, channels, logs, op, sel, watchers, agent>>

StopCommand(c) ==
    /\ At(c, "stop_cmd")
    /\ \/ HaltByCommand(ExitCode) /\ Goto(c, "stop_sel")
       \/ DaemonMayFail /\ Goto(c, "kill_cmd") /\ UNCHANGED <<container, logs, watchers>>
    /\ UNCHANGED <<state, channels, op, sel, agent>>

StopSelect(c) ==
    /\ At(c, "stop_sel")
    /\ sel' = [sel EXCEPT ![c] = chan]
    /\ Goto(c, "stop_wait")
    /\ UNCHANGED <<state, container, channels, logs, op, watchers, agent>>

StopWait(c) ==
    /\ At(c, "stop_wait")
    /\ \/ sel[c] \in closed /\ Goto(c, AfterStop(c))
       \/ StopMayTimeout /\ Goto(c, "kill_cmd")
    /\ UNCHANGED <<state, container, channels, logs, op, sel, watchers, agent>>

\* An error of docker kill is logged and ignored.
KillCommand(c) ==
    /\ At(c, "kill_cmd")
    /\ \/ HaltByCommand({1})
       \/ DaemonMayFail /\ UNCHANGED <<container, logs, watchers>>
    /\ Goto(c, "kill_set")
    /\ UNCHANGED <<state, channels, op, sel, agent>>

KillSet(c) ==
    /\ At(c, "kill_set")
    /\ state' = "stopped"
    /\ Goto(c, AfterStop(c))
    /\ UNCHANGED <<container, channels, logs, op, sel, watchers, agent>>

Caller(c) ==
    \/ RestartCheck(c) \/ StartCheck(c) \/ StartCommand(c) \/ StartLock(c)
    \/ StartLog(c) \/ StartAdd(c) \/ StopCheck(c) \/ StopSet(c) \/ StopCommand(c)
    \/ StopSelect(c) \/ StopWait(c) \/ KillCommand(c) \/ KillSet(c)

-----------------------------------------------------------------------------
(* Watchers (waitForExit) and streams (streamLogs).                        *)

WAt(g, label) == agent = "up" /\ wpc[g] = label

WGoto(g, next) == wpc' = [wpc EXCEPT ![g] = next]

Panic == agent' = "panicked"

\* docker wait begins; on a container that is down it returns at once.
WaitBegins(g) ==
    /\ WAt(g, "spawned")
    /\ IF Up THEN WGoto(g, "waiting") /\ UNCHANGED wcode
             ELSE WGoto(g, "exited") /\ wcode' = [wcode EXCEPT ![g] = ccode]
    /\ UNCHANGED <<state, container, channels, logs, callers, wgrab, agent>>

\* docker wait fails: the exit code stays 0.
WaitFails(g) ==
    /\ DaemonMayFail
    /\ WAt(g, "spawned") \/ WAt(g, "waiting")
    /\ WGoto(g, "exited")
    /\ wcode' = [wcode EXCEPT ![g] = 0]
    /\ UNCHANGED <<state, container, channels, logs, callers, wgrab, agent>>

CancelLogs(g) ==
    /\ WAt(g, "exited")
    /\ doomed' = doomed \cup ({logCancel} \ {0})
    /\ WGoto(g, "cancelled")
    /\ UNCHANGED <<state, container, channels, logCancel, streams, stuck, callers, wcode, wgrab, agent>>

\* outputWg.Wait().  A waiter that finds new streams when it is woken
\* panics: "WaitGroup is reused before previous Wait has returned".
OutputWait(g) ==
    /\ WAt(g, "cancelled") \/ WAt(g, "woken")
    /\ IF streams = {}
       THEN WGoto(g, "finish") /\ UNCHANGED agent
       ELSE IF wpc[g] = "cancelled"
            THEN WGoto(g, "blocked") /\ UNCHANGED agent
            ELSE Panic /\ UNCHANGED wpc
    /\ UNCHANGED <<state, container, channels, logs, callers, wcode, wgrab>>

\* Faulty: a clean exit is not written.
VerdictOfCrash(code) == IF code # 0 /\ state # "stopping" THEN "crashed" ELSE state

\* The state a watcher writes.
Verdict(code) == IF code # 0 /\ state # "stopping" THEN "crashed" ELSE "stopped"

\* Faulty: a watcher that finds the process stopped leaves the state alone
\* and closes nothing.
FinishUnlessStopped(g) ==
    /\ WAt(g, "finish")
    /\ state' = IF state = "stopping" THEN state ELSE Verdict(wcode[g])
    /\ wgrab' = [wgrab EXCEPT ![g] = chan]
    /\ WGoto(g, IF state = "stopping" THEN "done" ELSE "close")
    /\ UNCHANGED <<container, channels, logs, callers, wcode, agent>>

Finish(g) ==
    /\ WAt(g, "finish")
    /\ state' = Verdict(wcode[g])
    /\ wgrab' = [wgrab EXCEPT ![g] = chan]
    /\ WGoto(g, "close")
    /\ UNCHANGED <<container, channels, logs, callers, wcode, agent>>

\* Faulty: d.stopCh and d.logCh are read again after the lock was released.
CloseCurrent(g) ==
    /\ WAt(g, "close")
    /\ IF chan \in closed
       THEN Panic /\ UNCHANGED <<closed, wpc>>
       ELSE closed' = closed \cup {chan} /\ WGoto(g, "done") /\ UNCHANGED agent
    /\ UNCHANGED <<state, container, chan, logs, callers, wcode, wgrab>>

\* close(logCh) of a closed channel panics.
CloseChannels(g) ==
    /\ WAt(g, "close")
    /\ IF wgrab[g] \in closed
       THEN Panic /\ UNCHANGED <<closed, wpc>>
       ELSE closed' = closed \cup {wgrab[g]} /\ WGoto(g, "done") /\ UNCHANGED agent
    /\ UNCHANGED <<state, container, chan, logs, callers, wcode, wgrab>>

Watcher(g) ==
    \/ WaitBegins(g) \/ WaitFails(g) \/ CancelLogs(g)
    \/ OutputWait(g) \/ Finish(g) \/ CloseChannels(g)

\* A reader of stream g is blocked.
Blocked(g) == \E h \in Gens \cup {0} : <<g, h>> \in stuck

\* A reader finds logCh full and drops the oldest line, and another sender
\* takes the place it made: its own send, which has no default, blocks.  How
\* full the channel is is not modelled; it may be full at any time.
ReaderBlocks(g) ==
    /\ agent = "up"
    /\ g \in streams
    /\ chan \notin closed
    /\ stuck' = stuck \cup {<<g, chan>>}
    /\ UNCHANGED <<state, container, channels, logCancel, streams, doomed, callers, watchers, agent>>

\* A line is taken from logCh h, by the agent's log forwarder or by a reader
\* that drops the oldest, and the blocked send goes on.
ReaderGoesOn(g, h) ==
    /\ agent = "up"
    /\ <<g, h>> \in stuck
    /\ h \notin closed
    /\ stuck' = stuck \ {<<g, h>>}
    /\ UNCHANGED <<state, container, channels, logCancel, streams, doomed, callers, watchers, agent>>

\* Faulty: streamLogs returns without outputWg.Done().
StreamEndsNoDone(g) ==
    /\ agent = "up"
    /\ g \in streams \cap doomed
    /\ ~Blocked(g)
    /\ UNCHANGED vars

\* Both readers have met the end of their pipes: outputWg.Done(), and the
\* last stream wakes the waiters.
StreamEnds(g) ==
    /\ agent = "up"
    /\ g \in streams \cap doomed
    /\ ~Blocked(g)
    /\ streams' = streams \ {g}
    /\ wpc' = [h \in Gens |->
                 IF streams = {g} /\ wpc[h] = "blocked" THEN "woken" ELSE wpc[h]]
    /\ UNCHANGED <<state, container, channels, logCancel, doomed, stuck, callers, wcode, wgrab, agent>>

\* A reader sends on a logCh that is closed, or that was closed while it was
\* blocked there.
StreamSendsOnClosed(g) ==
    /\ agent = "up"
    /\ g \in streams
    /\ chan \in closed \/ \E h \in closed : <<g, h>> \in stuck
    /\ Panic
    /\ UNCHANGED <<state, container, channels, logs, callers, watchers>>

-----------------------------------------------------------------------------
Next ==
    \/ \E c \in Callers : Caller(c) \/ \E o \in Ops : Invoke(c, o)
    \/ \E g \in Gens :
          \/ Watcher(g) \/ StreamEnds(g) \/ StreamSendsOnClosed(g) \/ ReaderBlocks(g)
          \/ \E h \in Gens : ReaderGoesOn(g, h)
    \/ \E code \in ExitCode : ContainerExits(code)
    \/ PolicyRestarts
    \/ AgentRestart

Spec == Init /\ [][Next]_vars

\* The Go scheduler runs every goroutine that can run, and docker commands
\* return.  A docker logs process that is ended or cancelled has left a finite
\* output in its pipes: its readers block only so many times, so a stream
\* whose readers are free again and again ends (strong fairness).  Nothing
\* makes a blocked reader go on: the log forwarder reads logCh only while it
\* has a stream to the master.
Fairness ==
    /\ \A c \in Callers : WF_vars(Caller(c))
    /\ \A g \in Gens : WF_vars(Watcher(g)) /\ SF_vars(StreamEnds(g))

FairSpec == Spec /\ Fairness

-----------------------------------------------------------------------------
(* Properties.                                                             *)

TypeOK ==
    /\ state \in State
    /\ cstat \in CStat
    /\ ccode \in ExitCode
    /\ chan \in Nat
    /\ closed \subseteq Gens \cup {0}
    /\ logCancel \in Gens \cup {0}
    /\ streams \subseteq Gens
    /\ doomed \subseteq Gens
    /\ stuck \subseteq Gens \X (Gens \cup {0})
    /\ pc \in [Callers -> CallerPC]
    /\ op \in [Callers -> Ops \cup {"none"}]
    /\ sel \in [Callers -> Gens \cup {0}]
    /\ wpc \in [Gens -> WatcherPC]
    /\ wcode \in [Gens -> ExitCode]
    /\ wgrab \in [Gens -> Gens \cup {0}]
    /\ agent \in {"up", "panicked"}

Live(g) == wpc[g] \in LivePC

\* Between the lock that publishes "running" and go waitForExit().
Launching(c) == pc[c] \in {"start_log", "start_add"}

\* A process reported as running is being watched: whatever operations
\* race, some waitForExit has yet to write the state (or the Start that made
\* the process running is about to launch one), so an exit of the container
\* cannot go unnoticed.
RunningIsWatched ==
    state = "running" => (\E c \in Callers : Launching(c)) \/ (\E g \in Gens : Live(g))

\* No goroutine closes a closed channel, sends on one, or reuses the
\* WaitGroup under a waiter; each would end the agent and with it the
\* supervision of every instance of the node.
NoPanic == agent = "up"

\* What one would expect and no run checks, because it is not so: Stop leaves
\* the update of the state to waitForExit (the comment in Stop), so a process
\* that is "stopping" with no operation under way has a watcher that will write
\* the state.
StoppingIsResolved ==
    state = "stopping" /\ (\A c \in Callers : pc[c] = "idle") => \E g \in Gens : Live(g)

\* The lines are read on: no reader stays blocked for ever.
LogsAreRead == \A g \in Gens : []<>~Blocked(g)

\* An exit that docker wait reported while the process is running reaches
\* State(), as long as the log lines are read on: the watcher cancels the log
\* stream, outlives it and writes.
ExitIsNoticed ==
    LogsAreRead =>
        ((state = "running" /\ \E g \in Gens : wpc[g] = "exited") ~> state # "running")

\* A Stop that waits on stopCh returns without the 35 s timeout, as long as
\* the log lines are read on: the watcher closes the very channel that Stop
\* read.
StopReturns ==
    LogsAreRead => \A c \in Callers : pc[c] = "stop_wait" ~> pc[c] # "stop_wait"
=============================================================================
