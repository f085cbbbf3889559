----------------------------- MODULE AutoRestart -----------------------------
(***************************************************************************)
(* The agent's auto-restart loop (internal/agent/auto_restart.go) over one *)
(* instance with auto_restart enabled, next to an operator who starts,     *)
(* stops and kills the same instance.                                      *)
(*                                                                         *)
(* Time advances by the 5 s ticks of the loop; delays are in ticks.  The   *)
(* process is taken at the granularity of whole operations (DockerProcess  *)
(* has their interleavings); what is kept of its watcher is that it writes *)
(* the state some time after the exit.  A Start comes after the previous   *)
(* watcher has written, or, when a failed kill has left it waiting, the    *)
(* two watch the same container and are taken as one.                      *)
(***************************************************************************)
EXTENDS Integers, Sequences, SequencesExt

CONSTANTS
    RestartDelay,  \* def.RestartDelaySec, in ticks
    MaxBackoff,    \* the cap of the backoff (5 min), in ticks
    MaxCrashCount, \* maxCrashCount
    OperatorOps,   \* what the operator does
    DockerMayFail, \* docker commands may return errors, or outlast the 35 s of Stop
    MaxPending     \* bound: restarts on their way when the operator starts

ASSUME DelayAssumption == RestartDelay \in Nat /\ MaxBackoff \in Nat
ASSUME MaxCrashCountAssumption == MaxCrashCount \in Nat \ {0}
ASSUME OperatorAssumption == OperatorOps \subseteq {"start", "stop", "kill"}
ASSUME DockerAssumption == DockerMayFail \in BOOLEAN
ASSUME MaxPendingAssumption == MaxPending \in Nat

VARIABLES
    state,      \* proc.State()
    watcher,    \* "none", "waiting" in docker wait, "exit0" or "exit1" after it
    crashCount, \* crashCounts[id]
    since,      \* ticks since lastAttempt[id], up to MaxBackoff; -1 is no entry
    delays,     \* what remains of the sleep of each restart goroutine
    wanted,     \* history: the operator's last word, "up" or "killed", or
                \* "down" or "late": stopped, "late" with a restart on its way;
                \* a Stop that fell back to Kill is "killed"
    meddled     \* history: the operator has started it with a restart on its way

process == <<state, watcher>>
loop == <<crashCount, since, delays>>
history == <<wanted, meddled>>
vars == <<process, loop, history>>

Init ==
    /\ state \in {"stopped", "running"}
    /\ watcher = IF state = "running" THEN "waiting" ELSE "none"
    /\ crashCount = 0
    /\ since = -1
    /\ delays = <<>>
    /\ meddled = FALSE
    /\ wanted = IF state = "running" THEN "up" ELSE "down"

-----------------------------------------------------------------------------
(* The process.                                                            *)

\* Start: refused when running; a failed docker start leaves it stopped.
Start ==
    /\ watcher \in {"none", "waiting"}
    /\ \/ state = "running" /\ UNCHANGED process
       \/ state # "running" /\ state' = "running" /\ watcher' = "waiting"
       \/ DockerMayFail /\ state # "running" /\ state' = "stopped" /\ UNCHANGED watcher

ContainerExits(code) ==
    /\ watcher = "waiting"
    /\ watcher' = code
    /\ UNCHANGED <<state, loop, history>>

\* waitForExit writes the state; the process is not stopping.
WatcherWrites ==
    /\ watcher \in {"exit0", "exit1"}
    /\ state' = IF watcher = "exit1" THEN "crashed" ELSE "stopped"
    /\ watcher' = "none"
    /\ UNCHANGED <<loop, history>>

OperatorStarts ==
    /\ "start" \in OperatorOps
    /\ Len(delays) <= MaxPending
    /\ Start
    /\ wanted' = "up"
    /\ meddled' = (delays # <<>>)
    /\ UNCHANGED loop

\* Stop, as far as it is not refused, when docker stop does its work and the
\* watcher closes stopCh in time: the watcher has written "stopped".
OperatorStops ==
    /\ "stop" \in OperatorOps
    /\ state = "running"
    /\ state' = "stopped"
    /\ watcher' = "none"
    /\ wanted' = IF delays = <<>> THEN "down" ELSE "late"
    /\ UNCHANGED <<loop, meddled>>

\* What docker kill does to a container under watch: it exits with 137, and a
\* kill that fails is only logged.  One that has exited keeps its code.
Killed == IF watcher # "waiting" THEN {watcher}
          ELSE {"exit1"} \cup (IF DockerMayFail THEN {"waiting"} ELSE {})

\* Stop falls back to Kill: docker stop failed, or it has ended the container
\* and the watcher has not closed stopCh within the 35 s.  The watcher writes
\* after Kill has set "stopped", and does not find the process stopping.
StopFallsBack ==
    /\ "stop" \in OperatorOps
    /\ DockerMayFail
    /\ state = "running"
    /\ state' = "stopped"
    /\ watcher' \in Killed \cup (IF watcher = "waiting" THEN {"exit0", "exit1"} ELSE {})
    /\ wanted' = "killed"
    /\ UNCHANGED <<loop, meddled>>

\* Kill is never refused.
OperatorKills ==
    /\ "kill" \in OperatorOps
    /\ state' = "stopped"
    /\ watcher' \in Killed
    /\ wanted' = "killed"
    /\ UNCHANGED <<loop, meddled>>

-----------------------------------------------------------------------------
(* The loop.                                                               *)

\* delay * 2^count, capped.
Backoff(count) == IF RestartDelay * 2^count > MaxBackoff THEN MaxBackoff
                  ELSE RestartDelay * 2^count

\* Each attempt waits longer than the one before, which is so unless the cap is
\* reached before the last attempt.
WaitsGrow ==
    \A c \in 0 .. MaxCrashCount - 1 :
       Backoff(c) \in 0 .. MaxBackoff /\ (c > 0 => Backoff(c - 1) < Backoff(c))

Since == IF since \in {-1, MaxBackoff} THEN since ELSE since + 1

\* Five seconds pass.  A goroutine whose sleep is over has run by then.
Elapse ==
    /\ \A i \in DOMAIN delays : delays[i] > 0
    /\ delays' = [i \in DOMAIN delays |-> delays[i] - 1]
    /\ since' = Since

\* Faulty: any attempt that is not the first is too soon until the cap.
TooSoonUntilCap == since # -1 /\ Since <= MaxBackoff

\* Faulty: the wait since the last attempt does not grow.
TooSoonFlat == since # -1 /\ Since < RestartDelay

TooSoon == since # -1 /\ Since < Backoff(crashCount)

\* The instance is not crashed; a running one has its count reset.
TickHealthy ==
    /\ state # "crashed"
    /\ Elapse
    /\ crashCount' = IF state = "running" THEN 0 ELSE crashCount
    /\ UNCHANGED <<process, history>>

\* Too many failures: the abort is logged once.
TickGivenUp ==
    /\ state = "crashed" /\ crashCount >= MaxCrashCount
    /\ Elapse
    /\ crashCount' = MaxCrashCount + 1
    /\ UNCHANGED <<process, history>>

TickTooSoon ==
    /\ state = "crashed" /\ crashCount < MaxCrashCount /\ TooSoon
    /\ Elapse
    /\ UNCHANGED <<process, crashCount, history>>

\* Faulty: every instance that is down is restarted.
TickScheduleDown ==
    /\ state \in {"crashed", "stopped"} /\ crashCount < MaxCrashCount /\ ~TooSoon
    /\ \A i \in DOMAIN delays : delays[i] > 0
    /\ delays' = Append([i \in DOMAIN delays |-> delays[i] - 1], Backoff(crashCount))
    /\ since' = 0
    /\ crashCount' = crashCount + 1
    /\ UNCHANGED <<process, history>>

\* A goroutine is launched that sleeps for the backoff and then starts.
TickSchedule ==
    /\ state = "crashed" /\ crashCount < MaxCrashCount /\ ~TooSoon
    /\ \A i \in DOMAIN delays : delays[i] > 0
    /\ delays' = Append([i \in DOMAIN delays |-> delays[i] - 1], Backoff(crashCount))
    /\ since' = 0
    /\ crashCount' = crashCount + 1
    /\ UNCHANGED <<process, history>>

Tick == TickHealthy \/ TickGivenUp \/ TickTooSoon \/ TickSchedule

\* The sleep is over: ControlInstance(id, "start"), whatever the state is now.
AutoStarts(i) ==
    /\ delays[i] = 0
    /\ delays' = RemoveAt(delays, i)
    /\ Start
    /\ meddled' = (meddled /\ Len(delays) > 1)
    /\ UNCHANGED <<crashCount, since, wanted>>

Next ==
    \/ \E code \in {"exit0", "exit1"} : ContainerExits(code)
    \/ WatcherWrites
    \/ OperatorStarts \/ OperatorStops \/ StopFallsBack \/ OperatorKills
    \/ Tick
    \/ \E i \in DOMAIN delays : AutoStarts(i)

\* The ticker ticks and goroutines that can run do.
Fairness ==
    /\ WF_vars(Tick)
    /\ WF_vars(WatcherWrites)
    /\ WF_vars(\E i \in DOMAIN delays : AutoStarts(i))

Spec == Init /\ [][Next]_vars /\ Fairness

-----------------------------------------------------------------------------
(* Properties.                                                             *)

\* The count stops one past the limit, which is how the abort is logged once.
TypeOK ==
    /\ state \in {"stopped", "running", "crashed"}
    /\ watcher \in {"none", "waiting", "exit0", "exit1"}
    /\ crashCount \in 0 .. MaxCrashCount + 1
    /\ since \in -1 .. MaxBackoff
    /\ \A i \in DOMAIN delays : delays[i] \in 0 .. MaxBackoff
    /\ wanted \in {"up", "down", "late", "killed"}
    /\ meddled \in BOOLEAN

\* The loop on its own never has two restarts of the instance under way: the
\* wait since the last attempt is longer than the sleep of the last attempt, as
\* long as the waits grow.  (An operator who starts the instance during the sleep
\* resets the count, and then the next crash is answered while the sleep goes on.)
OneRestartAtATime == ~meddled => Len(delays) <= 1

\* The loop restarts crashed instances only: one that Stop has stopped by
\* itself, without falling back to Kill, stays down, unless a restart was on its
\* way when it was stopped.  (That restart is made whatever has happened.  A
\* kill, by the operator or by a Stop that failed or took too long, ends with
\* exit code 137, is written as a crash and is restarted.)
StoppedStaysDown == wanted = "down" => state = "stopped"

\* A crash is answered: the loop makes an attempt, or has given up.
CrashIsAnswered == state = "crashed" ~> state # "crashed" \/ crashCount > MaxCrashCount
=============================================================================
