------------------------ MODULE DockerProcessProofs ------------------------
(***************************************************************************)
(* Theorems about DockerProcess, for every set of callers, every set of    *)
(* operations and every bound on the generations:                          *)
(*   TypeCorrect        Spec => []TypeOK                                   *)
(*   Watched            Spec => []RunningIsWatched                         *)
(* and, when the callers only start the process,                           *)
(*   StartsNeverPanic   Spec => []NoPanic                                  *)
(* and, when operations come one at a time and docker stop does its work,  *)
(*   SerialNeverPanics  Spec => []NoPanic                                  *)
(*   SerialWaitsEnd     Spec => []WaitsEnd                                 *)
(***************************************************************************)
EXTENDS DockerProcess, FiniteSetTheorems, TLAPS

(* The inductive strengthening of TypeOK.                                  *)

\* A caller that launches a stream and a watcher holds its generation.
LaunchInv == \A c \in Callers : Launching(c) => sel[c] \in Gens

\* Only Start and Restart reach the steps of Start.
StartInv == \A c \in Callers :
    pc[c] \in {"restart_check", "start_check", "start_cmd", "start_lock"}
        => op[c] \in {"start", "restart"}

\* The bound that Invoke keeps: room for the generations still to be made.
BoundInv == chan + Cardinality(Starters) <= MaxStarts

TypeInv == TypeOK /\ LaunchInv /\ StartInv /\ BoundInv

-----------------------------------------------------------------------------
\* A set of callers is finite, so counting starters is sound.
LEMMA StartersFinite ==
    /\ IsFiniteSet(Starters)
    /\ Cardinality(Starters) \in Nat
BY CallersAssumption, FS_Subset, FS_CardinalityType DEF Starters

\* A step that lets no caller become a starter leaves the bound intact, as
\* long as no generation is made.
LEMMA StartersShrink ==
    ASSUME TypeOK, BoundInv, chan' = chan, Starters' \subseteq Starters
    PROVE  BoundInv'
<1>1. /\ IsFiniteSet(Starters)
      /\ Cardinality(Starters) \in Nat
  BY StartersFinite
<1>2. /\ IsFiniteSet(Starters')
      /\ Cardinality(Starters') \in Nat
      /\ Cardinality(Starters') <= Cardinality(Starters)
  BY <1>1, FS_Subset, FS_CardinalityType
<1>3. chan \in Nat /\ MaxStarts \in Nat
  BY MaxStartsAssumption DEF TypeOK
<1>4. chan' + Cardinality(Starters') <= MaxStarts
  BY <1>1, <1>2, <1>3 DEF BoundInv
<1> QED
  BY <1>4 DEF BoundInv

\* Invoke keeps the bound: it admits a starter only while there is room.
LEMMA InvokeBound ==
    ASSUME TypeInv, NEW c \in Callers, NEW o \in Ops, Invoke(c, o)
    PROVE  BoundInv'
<1>1. /\ IsFiniteSet(Starters)
      /\ Cardinality(Starters) \in Nat
  BY StartersFinite
<1>2. chan \in Nat /\ MaxStarts \in Nat /\ chan' = chan
  BY MaxStartsAssumption DEF TypeInv, TypeOK, Invoke, channels
<1>3. CASE o \in {"start", "restart"}
  <2>1. chan + Cardinality(Starters) < MaxStarts
    BY <1>3 DEF Invoke
  <2>2. Starters' \subseteq Starters \cup {c}
    BY DEF TypeInv, TypeOK, Starters, Invoke, Goto
  <2>3. /\ IsFiniteSet(Starters \cup {c})
        /\ Cardinality(Starters \cup {c}) <= Cardinality(Starters) + 1
    <3>1. c \notin Starters
      BY DEF Starters, Invoke, At
    <3>2. /\ IsFiniteSet(Starters \cup {c})
          /\ Cardinality(Starters \cup {c}) = Cardinality(Starters) + 1
      BY <1>1, <3>1, FS_AddElement, Zenon
    <3> QED
      BY <1>1, <3>2
  <2>4. /\ IsFiniteSet(Starters')
        /\ Cardinality(Starters') \in Nat
        /\ Cardinality(Starters \cup {c}) \in Nat
        /\ Cardinality(Starters') <= Cardinality(Starters \cup {c})
    BY <2>2, <2>3, FS_Subset, FS_CardinalityType
  <2>5. chan' + Cardinality(Starters') <= MaxStarts
    BY <1>1, <1>2, <2>1, <2>3, <2>4
  <2> QED
    BY <2>5 DEF BoundInv
<1>4. CASE o \notin {"start", "restart"}
  <2>1. Starters' \subseteq Starters
    BY <1>4 DEF TypeInv, TypeOK, Starters, Invoke, Goto, At
  <2> QED
    BY <1>2, <2>1, StartersShrink DEF TypeInv
<1> QED
  BY <1>3, <1>4

\* StartLock turns one starter into one generation.
LEMMA StartLockBound ==
    ASSUME TypeInv, NEW c \in Callers, StartLock(c)
    PROVE  BoundInv' /\ chan + 1 \in Gens
<1>1. /\ IsFiniteSet(Starters)
      /\ Cardinality(Starters) \in Nat
  BY StartersFinite
<1>2. chan \in Nat /\ MaxStarts \in Nat /\ chan' = chan + 1
  BY MaxStartsAssumption DEF TypeInv, TypeOK, StartLock
<1>3. c \in Starters /\ Starters' = Starters \ {c}
  BY DEF TypeInv, TypeOK, StartInv, Starters, StartLock, At, Goto
<1>4. Cardinality(Starters') = Cardinality(Starters) - 1
  BY <1>1, <1>3, FS_RemoveElement
<1>5. Cardinality(Starters) # 0
  BY <1>1, <1>3, FS_EmptySet
<1>6. chan + Cardinality(Starters) <= MaxStarts
  BY DEF TypeInv, BoundInv
<1>7. chan' + Cardinality(Starters') <= MaxStarts /\ chan + 1 <= MaxStarts
  BY <1>1, <1>2, <1>4, <1>5, <1>6
<1> QED
  BY <1>2, <1>7 DEF BoundInv, Gens

\* The generation in use never exceeds the bound.
LEMMA ChanInRange ==
    ASSUME TypeInv
    PROVE  chan \in Gens \cup {0}
BY StartersFinite, MaxStartsAssumption DEF TypeInv, TypeOK, BoundInv, Gens

\* The initial state of an agent, at its first start and after each restart.
LEMMA TypeInit == Init => TypeInv
<1> SUFFICES ASSUME Init PROVE TypeInv
  OBVIOUS
<1>1. TypeOK
  BY MaxStartsAssumption, SMTT(30)
  DEF Init, TypeOK, State, CStat, ExitCode, CallerPC, WatcherPC, LivePC, Gens, RefreshState, Adopted
<1>2. LaunchInv /\ StartInv
  BY DEF Init, LaunchInv, StartInv, Launching
<1>3. Starters = {}
  BY DEF Init, Starters
<1>4. chan + Cardinality(Starters) <= MaxStarts
  BY <1>3, FS_EmptySet, MaxStartsAssumption DEF Init, Adopted
<1> QED
  BY <1>1, <1>2, <1>4 DEF TypeInv, BoundInv

\* docker stop and docker kill leave the container, the streams and the
\* watchers well typed.
LEMMA HaltTyped ==
    ASSUME TypeOK, NEW codes \in SUBSET ExitCode,
           HaltByCommand(codes) \/ UNCHANGED <<container, logs, watchers>>
    PROVE  /\ cstat' \in CStat /\ ccode' \in ExitCode
           /\ logCancel' = logCancel /\ streams' = streams /\ doomed' \subseteq Gens /\ stuck' = stuck
           /\ wpc' \in [Gens -> WatcherPC] /\ wcode' \in [Gens -> ExitCode]
           /\ wgrab' = wgrab
<1> USE DEF container, logs, watchers
<1>1. CASE UNCHANGED <<container, logs, watchers>>
  BY <1>1 DEF TypeOK
<1>2. ASSUME NEW code \in codes, Halt("exited", code)
      PROVE  /\ cstat' \in CStat /\ ccode' \in ExitCode
             /\ logCancel' = logCancel /\ streams' = streams /\ doomed' \subseteq Gens /\ stuck' = stuck
             /\ wpc' \in [Gens -> WatcherPC] /\ wcode' \in [Gens -> ExitCode]
             /\ wgrab' = wgrab
  <2>1. wpc' \in [Gens -> WatcherPC] /\ wcode' \in [Gens -> ExitCode]
    BY <1>2 DEF Halt, Notify, TypeOK, WatcherPC, LivePC
  <2> QED
    BY <1>2, <2>1 DEF Halt, Notify, TypeOK, CStat
<1> QED
  BY <1>1, <1>2 DEF HaltByCommand

\* Every step preserves the strengthened type invariant.
LEMMA TypeStep == TypeInv /\ [Next]_vars => TypeInv'
<1> SUFFICES ASSUME TypeInv, [Next]_vars PROVE TypeInv'
  OBVIOUS
<1> USE DEF Goto, At, WGoto, WAt, Panic, container, channels, logs, callers, watchers
<1>gens. /\ chan \in Gens \cup {0}
         /\ \A c \in Callers : Launching(c) => sel[c] \in Gens
         /\ 1 \in Gens
  BY ChanInRange, MaxStartsAssumption DEF TypeInv, LaunchInv, Gens
<1>1. ASSUME NEW c \in Callers, RestartCheck(c) PROVE TypeInv'
  <2>1. TypeOK'
    BY <1>1, <1>gens, SMTT(30) DEF TypeInv, TypeOK, State, CStat, ExitCode, CallerPC, WatcherPC, LivePC, RestartCheck
  <2>2. LaunchInv' /\ StartInv'
    BY <1>1, <1>gens, SMTT(30) DEF TypeInv, TypeOK, LaunchInv, StartInv, Launching, RestartCheck
  <2>3. chan' = chan /\ Starters' \subseteq Starters
    BY <1>1, SMTT(30) DEF TypeInv, TypeOK, Starters, RestartCheck
  <2> QED
    BY <2>1, <2>2, <2>3, StartersShrink DEF TypeInv
<1>2. ASSUME NEW c \in Callers, StartCheck(c) PROVE TypeInv'
  <2>1. TypeOK'
    BY <1>2, <1>gens, SMTT(30) DEF TypeInv, TypeOK, State, CStat, ExitCode, CallerPC, WatcherPC, LivePC, StartCheck
  <2>2. LaunchInv' /\ StartInv'
    BY <1>2, <1>gens, SMTT(30) DEF TypeInv, TypeOK, LaunchInv, StartInv, Launching, StartCheck
  <2>3. chan' = chan /\ Starters' \subseteq Starters
    BY <1>2, SMTT(30) DEF TypeInv, TypeOK, Starters, StartCheck
  <2> QED
    BY <2>1, <2>2, <2>3, StartersShrink DEF TypeInv
<1>3. ASSUME NEW c \in Callers, StartCommand(c) PROVE TypeInv'
  <2>1. TypeOK'
    BY <1>3, <1>gens, SMTT(30) DEF TypeInv, TypeOK, State, CStat, ExitCode, CallerPC, WatcherPC, LivePC, StartCommand, Up
  <2>2. LaunchInv' /\ StartInv'
    BY <1>3, <1>gens, SMTT(30) DEF TypeInv, TypeOK, LaunchInv, StartInv, Launching, StartCommand, Up
  <2>3. chan' = chan /\ Starters' \subseteq Starters
    BY <1>3, SMTT(30) DEF TypeInv, TypeOK, Starters, StartCommand, Up
  <2> QED
    BY <2>1, <2>2, <2>3, StartersShrink DEF TypeInv
<1>4. ASSUME NEW c \in Callers, StartLog(c) PROVE TypeInv'
  <2>1. TypeOK'
    BY <1>4, <1>gens, SMTT(30) DEF TypeInv, TypeOK, State, CStat, ExitCode, CallerPC, WatcherPC, LivePC, StartLog, Launching
  <2>2. LaunchInv' /\ StartInv'
    BY <1>4, <1>gens, SMTT(30) DEF TypeInv, TypeOK, LaunchInv, StartInv, Launching, StartLog, Launching
  <2>3. chan' = chan /\ Starters' \subseteq Starters
    BY <1>4, SMTT(30) DEF TypeInv, TypeOK, Starters, StartLog, Launching
  <2> QED
    BY <2>1, <2>2, <2>3, StartersShrink DEF TypeInv
<1>5. ASSUME NEW c \in Callers, StartAdd(c) PROVE TypeInv'
  <2>1. TypeOK'
    <3>1. sel[c] \in Gens
      BY <1>5, <1>gens DEF StartAdd, Launching
    <3>2. streams' \subseteq Gens /\ doomed' \subseteq Gens
      BY <1>5, <3>1 DEF StartAdd, TypeInv, TypeOK
    <3>3. wpc' \in [Gens -> WatcherPC]
      BY <1>5, <3>1 DEF StartAdd, TypeInv, TypeOK, WatcherPC, LivePC
    <3>4. pc' \in [Callers -> CallerPC]
      BY <1>5 DEF StartAdd, TypeInv, TypeOK, CallerPC
    <3> QED
      BY <1>5, <3>2, <3>3, <3>4 DEF StartAdd, TypeInv, TypeOK
  <2>2. LaunchInv' /\ StartInv'
    BY <1>5, <1>gens, SMTT(30) DEF TypeInv, TypeOK, LaunchInv, StartInv, Launching, StartAdd, Launching
  <2>3. chan' = chan /\ Starters' \subseteq Starters
    BY <1>5, SMTT(30) DEF TypeInv, TypeOK, Starters, StartAdd, Launching
  <2> QED
    BY <2>1, <2>2, <2>3, StartersShrink DEF TypeInv
<1>6. ASSUME NEW c \in Callers, StopCheck(c) PROVE TypeInv'
  <2>1. TypeOK'
    BY <1>6, <1>gens, SMTT(30) DEF TypeInv, TypeOK, State, CStat, ExitCode, CallerPC, WatcherPC, LivePC, StopCheck
  <2>2. LaunchInv' /\ StartInv'
    BY <1>6, <1>gens, SMTT(30) DEF TypeInv, TypeOK, LaunchInv, StartInv, Launching, StopCheck
  <2>3. chan' = chan /\ Starters' \subseteq Starters
    BY <1>6, SMTT(30) DEF TypeInv, TypeOK, Starters, StopCheck
  <2> QED
    BY <2>1, <2>2, <2>3, StartersShrink DEF TypeInv
<1>7. ASSUME NEW c \in Callers, StopSet(c) PROVE TypeInv'
  <2>1. TypeOK'
    BY <1>7, <1>gens, SMTT(30) DEF TypeInv, TypeOK, State, CStat, ExitCode, CallerPC, WatcherPC, LivePC, StopSet
  <2>2. LaunchInv' /\ StartInv'
    BY <1>7, <1>gens, SMTT(30) DEF TypeInv, TypeOK, LaunchInv, StartInv, Launching, StopSet
  <2>3. chan' = chan /\ Starters' \subseteq Starters
    BY <1>7, SMTT(30) DEF TypeInv, TypeOK, Starters, StopSet
  <2> QED
    BY <2>1, <2>2, <2>3, StartersShrink DEF TypeInv
<1>8. ASSUME NEW c \in Callers, StopCommand(c) PROVE TypeInv'
  <2>1. TypeOK'
    <3>1. ExitCode \in SUBSET ExitCode
      BY DEF ExitCode
    <3>2. HaltByCommand(ExitCode) \/ UNCHANGED <<container, logs, watchers>>
      BY <1>8 DEF StopCommand
    <3>3. /\ cstat' \in CStat /\ ccode' \in ExitCode
          /\ logCancel' = logCancel /\ streams' = streams /\ doomed' \subseteq Gens /\ stuck' = stuck
          /\ wpc' \in [Gens -> WatcherPC] /\ wcode' \in [Gens -> ExitCode]
          /\ wgrab' = wgrab
      BY <3>1, <3>2, HaltTyped DEF TypeInv
    <3>4. pc' \in [Callers -> CallerPC]
      BY <1>8 DEF StopCommand, TypeInv, TypeOK, CallerPC
    <3> QED
      BY <1>8, <3>3, <3>4 DEF StopCommand, TypeInv, TypeOK
  <2>2. LaunchInv' /\ StartInv'
    BY <1>8, <1>gens, SMTT(30) DEF TypeInv, TypeOK, LaunchInv, StartInv, Launching, StopCommand, HaltByCommand, Halt, Notify, Up
  <2>3. chan' = chan /\ Starters' \subseteq Starters
    BY <1>8, SMTT(30) DEF TypeInv, TypeOK, Starters, StopCommand, HaltByCommand, Halt, Notify, Up
  <2> QED
    BY <2>1, <2>2, <2>3, StartersShrink DEF TypeInv
<1>9. ASSUME NEW c \in Callers, StopSelect(c) PROVE TypeInv'
  <2>1. TypeOK'
    BY <1>9, <1>gens, SMTT(30) DEF TypeInv, TypeOK, State, CStat, ExitCode, CallerPC, WatcherPC, LivePC, StopSelect
  <2>2. LaunchInv' /\ StartInv'
    BY <1>9, <1>gens, SMTT(30) DEF TypeInv, TypeOK, LaunchInv, StartInv, Launching, StopSelect
  <2>3. chan' = chan /\ Starters' \subseteq Starters
    BY <1>9, SMTT(30) DEF TypeInv, TypeOK, Starters, StopSelect
  <2> QED
    BY <2>1, <2>2, <2>3, StartersShrink DEF TypeInv
<1>10. ASSUME NEW c \in Callers, StopWait(c) PROVE TypeInv'
  <2>1. TypeOK'
    BY <1>10, <1>gens, SMTT(30) DEF TypeInv, TypeOK, State, CStat, ExitCode, CallerPC, WatcherPC, LivePC, StopWait, AfterStop
  <2>2. LaunchInv' /\ StartInv'
    BY <1>10, <1>gens, SMTT(30) DEF TypeInv, TypeOK, LaunchInv, StartInv, Launching, StopWait, AfterStop
  <2>3. chan' = chan /\ Starters' \subseteq Starters
    BY <1>10, SMTT(30) DEF TypeInv, TypeOK, Starters, StopWait, AfterStop
  <2> QED
    BY <2>1, <2>2, <2>3, StartersShrink DEF TypeInv
<1>11. ASSUME NEW c \in Callers, KillCommand(c) PROVE TypeInv'
  <2>1. TypeOK'
    <3>1. {1} \in SUBSET ExitCode
      BY DEF ExitCode
    <3>2. HaltByCommand({1}) \/ UNCHANGED <<container, logs, watchers>>
      BY <1>11 DEF KillCommand
    <3>3. /\ cstat' \in CStat /\ ccode' \in ExitCode
          /\ logCancel' = logCancel /\ streams' = streams /\ doomed' \subseteq Gens /\ stuck' = stuck
          /\ wpc' \in [Gens -> WatcherPC] /\ wcode' \in [Gens -> ExitCode]
          /\ wgrab' = wgrab
      BY <3>1, <3>2, HaltTyped DEF TypeInv
    <3>4. pc' \in [Callers -> CallerPC]
      BY <1>11 DEF KillCommand, TypeInv, TypeOK, CallerPC
    <3> QED
      BY <1>11, <3>3, <3>4 DEF KillCommand, TypeInv, TypeOK
  <2>2. LaunchInv' /\ StartInv'
    BY <1>11, <1>gens, SMTT(30) DEF TypeInv, TypeOK, LaunchInv, StartInv, Launching, KillCommand, HaltByCommand, Halt, Notify, Up
  <2>3. chan' = chan /\ Starters' \subseteq Starters
    BY <1>11, SMTT(30) DEF TypeInv, TypeOK, Starters, KillCommand, HaltByCommand, Halt, Notify, Up
  <2> QED
    BY <2>1, <2>2, <2>3, StartersShrink DEF TypeInv
<1>12. ASSUME NEW c \in Callers, KillSet(c) PROVE TypeInv'
  <2>1. TypeOK'
    BY <1>12, <1>gens, SMTT(30) DEF TypeInv, TypeOK, State, CStat, ExitCode, CallerPC, WatcherPC, LivePC, KillSet, AfterStop
  <2>2. LaunchInv' /\ StartInv'
    BY <1>12, <1>gens, SMTT(30) DEF TypeInv, TypeOK, LaunchInv, StartInv, Launching, KillSet, AfterStop
  <2>3. chan' = chan /\ Starters' \subseteq Starters
    BY <1>12, SMTT(30) DEF TypeInv, TypeOK, Starters, KillSet, AfterStop
  <2> QED
    BY <2>1, <2>2, <2>3, StartersShrink DEF TypeInv
<1>13. ASSUME NEW g \in Gens, WaitBegins(g) PROVE TypeInv'
  <2>1. TypeOK'
    BY <1>13, <1>gens, SMTT(30) DEF TypeInv, TypeOK, State, CStat, ExitCode, CallerPC, WatcherPC, LivePC, WaitBegins, Up
  <2>2. LaunchInv' /\ StartInv'
    BY <1>13, <1>gens, SMTT(30) DEF TypeInv, TypeOK, LaunchInv, StartInv, Launching, WaitBegins, Up
  <2>3. chan' = chan /\ Starters' \subseteq Starters
    BY <1>13, SMTT(30) DEF TypeInv, TypeOK, Starters, WaitBegins, Up
  <2> QED
    BY <2>1, <2>2, <2>3, StartersShrink DEF TypeInv
<1>14. ASSUME NEW g \in Gens, WaitFails(g) PROVE TypeInv'
  <2>1. TypeOK'
    BY <1>14, <1>gens, SMTT(30) DEF TypeInv, TypeOK, State, CStat, ExitCode, CallerPC, WatcherPC, LivePC, WaitFails
  <2>2. LaunchInv' /\ StartInv'
    BY <1>14, <1>gens, SMTT(30) DEF TypeInv, TypeOK, LaunchInv, StartInv, Launching, WaitFails
  <2>3. chan' = chan /\ Starters' \subseteq Starters
    BY <1>14, SMTT(30) DEF TypeInv, TypeOK, Starters, WaitFails
  <2> QED
    BY <2>1, <2>2, <2>3, StartersShrink DEF TypeInv
<1>15. ASSUME NEW g \in Gens, CancelLogs(g) PROVE TypeInv'
  <2>1. TypeOK'
    BY <1>15, <1>gens, SMTT(30) DEF TypeInv, TypeOK, State, CStat, ExitCode, CallerPC, WatcherPC, LivePC, CancelLogs
  <2>2. LaunchInv' /\ StartInv'
    BY <1>15, <1>gens, SMTT(30) DEF TypeInv, TypeOK, LaunchInv, StartInv, Launching, CancelLogs
  <2>3. chan' = chan /\ Starters' \subseteq Starters
    BY <1>15, SMTT(30) DEF TypeInv, TypeOK, Starters, CancelLogs
  <2> QED
    BY <2>1, <2>2, <2>3, StartersShrink DEF TypeInv
<1>16. ASSUME NEW g \in Gens, OutputWait(g) PROVE TypeInv'
  <2>1. TypeOK'
    BY <1>16, <1>gens, SMTT(30) DEF TypeInv, TypeOK, State, CStat, ExitCode, CallerPC, WatcherPC, LivePC, OutputWait
  <2>2. LaunchInv' /\ StartInv'
    BY <1>16, <1>gens, SMTT(30) DEF TypeInv, TypeOK, LaunchInv, StartInv, Launching, OutputWait
  <2>3. chan' = chan /\ Starters' \subseteq Starters
    BY <1>16, SMTT(30) DEF TypeInv, TypeOK, Starters, OutputWait
  <2> QED
    BY <2>1, <2>2, <2>3, StartersShrink DEF TypeInv
<1>17. ASSUME NEW g \in Gens, Finish(g) PROVE TypeInv'
  <2>1. TypeOK'
    BY <1>17, <1>gens, SMTT(30) DEF TypeInv, TypeOK, State, CStat, ExitCode, CallerPC, WatcherPC, LivePC, Finish, Verdict
  <2>2. LaunchInv' /\ StartInv'
    BY <1>17, <1>gens, SMTT(30) DEF TypeInv, TypeOK, LaunchInv, StartInv, Launching, Finish, Verdict
  <2>3. chan' = chan /\ Starters' \subseteq Starters
    BY <1>17, SMTT(30) DEF TypeInv, TypeOK, Starters, Finish, Verdict
  <2> QED
    BY <2>1, <2>2, <2>3, StartersShrink DEF TypeInv
<1>18. ASSUME NEW g \in Gens, CloseChannels(g) PROVE TypeInv'
  <2>1. TypeOK'
    <3>1. closed' \subseteq Gens \cup {0}
      BY <1>18 DEF CloseChannels, TypeInv, TypeOK
    <3>2. wpc' \in [Gens -> WatcherPC] /\ agent' \in {"up", "panicked"}
      BY <1>18 DEF CloseChannels, TypeInv, TypeOK, WatcherPC
    <3> QED
      BY <1>18, <3>1, <3>2 DEF CloseChannels, TypeInv, TypeOK
  <2>2. LaunchInv' /\ StartInv'
    BY <1>18, <1>gens, SMTT(30) DEF TypeInv, TypeOK, LaunchInv, StartInv, Launching, CloseChannels
  <2>3. chan' = chan /\ Starters' \subseteq Starters
    BY <1>18, SMTT(30) DEF TypeInv, TypeOK, Starters, CloseChannels
  <2> QED
    BY <2>1, <2>2, <2>3, StartersShrink DEF TypeInv
<1>19. ASSUME NEW g \in Gens, StreamEnds(g) PROVE TypeInv'
  <2>1. TypeOK'
    BY <1>19, <1>gens, SMTT(30) DEF TypeInv, TypeOK, State, CStat, ExitCode, CallerPC, WatcherPC, LivePC, StreamEnds, Blocked
  <2>2. LaunchInv' /\ StartInv'
    BY <1>19, <1>gens, SMTT(30) DEF TypeInv, TypeOK, LaunchInv, StartInv, Launching, StreamEnds, Blocked
  <2>3. chan' = chan /\ Starters' \subseteq Starters
    BY <1>19, SMTT(30) DEF TypeInv, TypeOK, Starters, StreamEnds, Blocked
  <2> QED
    BY <2>1, <2>2, <2>3, StartersShrink DEF TypeInv
<1>20. ASSUME NEW g \in Gens, StreamSendsOnClosed(g) PROVE TypeInv'
  <2>1. TypeOK'
    BY <1>20, <1>gens, SMTT(30) DEF TypeInv, TypeOK, State, CStat, ExitCode, CallerPC, WatcherPC, LivePC, StreamSendsOnClosed
  <2>2. LaunchInv' /\ StartInv'
    BY <1>20, <1>gens, SMTT(30) DEF TypeInv, TypeOK, LaunchInv, StartInv, Launching, StreamSendsOnClosed
  <2>3. chan' = chan /\ Starters' \subseteq Starters
    BY <1>20, SMTT(30) DEF TypeInv, TypeOK, Starters, StreamSendsOnClosed
  <2> QED
    BY <2>1, <2>2, <2>3, StartersShrink DEF TypeInv
<1>21. ASSUME NEW code \in ExitCode, ContainerExits(code) PROVE TypeInv'
  <2>1. TypeOK'
    BY <1>21, <1>gens, SMTT(30) DEF TypeInv, TypeOK, State, CStat, ExitCode, CallerPC, WatcherPC, LivePC, ContainerExits, Halt, Notify
  <2>2. LaunchInv' /\ StartInv'
    BY <1>21, <1>gens, SMTT(30) DEF TypeInv, TypeOK, LaunchInv, StartInv, Launching, ContainerExits, Halt, Notify
  <2>3. chan' = chan /\ Starters' \subseteq Starters
    BY <1>21, SMTT(30) DEF TypeInv, TypeOK, Starters, ContainerExits, Halt, Notify
  <2> QED
    BY <2>1, <2>2, <2>3, StartersShrink DEF TypeInv
<1>22. ASSUME PolicyRestarts PROVE TypeInv'
  <2>1. TypeOK'
    BY <1>22, <1>gens, SMTT(30) DEF TypeInv, TypeOK, State, CStat, ExitCode, CallerPC, WatcherPC, LivePC, PolicyRestarts
  <2>2. LaunchInv' /\ StartInv'
    BY <1>22, <1>gens, SMTT(30) DEF TypeInv, TypeOK, LaunchInv, StartInv, Launching, PolicyRestarts
  <2>3. chan' = chan /\ Starters' \subseteq Starters
    BY <1>22, SMTT(30) DEF TypeInv, TypeOK, Starters, PolicyRestarts
  <2> QED
    BY <2>1, <2>2, <2>3, StartersShrink DEF TypeInv
<1>23. ASSUME UNCHANGED vars PROVE TypeInv'
  <2>1. TypeOK'
    BY <1>23, <1>gens, SMTT(30) DEF TypeInv, TypeOK, State, CStat, ExitCode, CallerPC, WatcherPC, LivePC, vars
  <2>2. LaunchInv' /\ StartInv'
    BY <1>23, <1>gens, SMTT(30) DEF TypeInv, TypeOK, LaunchInv, StartInv, Launching, vars
  <2>3. chan' = chan /\ Starters' \subseteq Starters
    BY <1>23, SMTT(30) DEF TypeInv, TypeOK, Starters, vars
  <2> QED
    BY <2>1, <2>2, <2>3, StartersShrink DEF TypeInv
<1>24. ASSUME NEW c \in Callers, NEW o \in Ops, Invoke(c, o) PROVE TypeInv'
  <2>1. TypeOK'
    BY <1>24, OpsAssumption, SMTT(30) DEF TypeInv, TypeOK, State, CStat, ExitCode, CallerPC, WatcherPC, LivePC, Invoke, Entry
  <2>2. LaunchInv' /\ StartInv'
    BY <1>24, OpsAssumption, SMTT(30) DEF TypeInv, TypeOK, LaunchInv, StartInv, Launching, Invoke, Entry
  <2> QED
    BY <1>24, <2>1, <2>2, InvokeBound DEF TypeInv
<1>25. ASSUME NEW c \in Callers, StartLock(c) PROVE TypeInv'
  <2>1. BoundInv' /\ chan + 1 \in Gens
    BY <1>25, StartLockBound
  <2>2. TypeOK'
    BY <1>25, <2>1, SMTT(30) DEF TypeInv, TypeOK, State, CStat, ExitCode, CallerPC, WatcherPC, LivePC, StartLock
  <2>3. LaunchInv' /\ StartInv'
    BY <1>25, <2>1, SMTT(30) DEF TypeInv, TypeOK, LaunchInv, StartInv, Launching, StartLock
  <2> QED
    BY <2>1, <2>2, <2>3 DEF TypeInv
<1>26. ASSUME AgentRestart PROVE TypeInv'
  <2>1. TypeOK'
    BY <1>26, <1>gens, MaxStartsAssumption, SMTT(30)
    DEF TypeInv, TypeOK, State, CStat, ExitCode, CallerPC, WatcherPC, LivePC, Gens, AgentRestart, RefreshState, Adopted
  <2>2. LaunchInv' /\ StartInv'
    BY <1>26 DEF LaunchInv, StartInv, Launching, AgentRestart
  <2>3. Starters' = {}
    BY <1>26 DEF Starters, AgentRestart
  <2>4. Cardinality(Starters') = 0
    BY <2>3, FS_EmptySet
  <2>5. chan' + Cardinality(Starters') <= MaxStarts
    BY <1>26, <2>4, MaxStartsAssumption DEF AgentRestart, Adopted
  <2> QED
    BY <2>1, <2>2, <2>5 DEF TypeInv, BoundInv
<1>27. ASSUME NEW g \in Gens, ReaderBlocks(g) PROVE TypeInv'
  <2>1. stuck' \subseteq Gens \X (Gens \cup {0})
    BY <1>27, <1>gens DEF ReaderBlocks, TypeInv, TypeOK
  <2>2. TypeOK'
    BY <1>27, <2>1 DEF ReaderBlocks, TypeInv, TypeOK
  <2>3. LaunchInv' /\ StartInv'
    BY <1>27 DEF TypeInv, LaunchInv, StartInv, Launching, ReaderBlocks
  <2>4. chan' = chan /\ Starters' \subseteq Starters
    BY <1>27 DEF Starters, ReaderBlocks
  <2> QED
    BY <2>2, <2>3, <2>4, StartersShrink DEF TypeInv
<1>28. ASSUME NEW g \in Gens, NEW h \in Gens, ReaderGoesOn(g, h) PROVE TypeInv'
  <2>1. stuck' \subseteq Gens \X (Gens \cup {0})
    BY <1>28 DEF ReaderGoesOn, TypeInv, TypeOK
  <2>2. TypeOK'
    BY <1>28, <2>1 DEF ReaderGoesOn, TypeInv, TypeOK
  <2>3. LaunchInv' /\ StartInv'
    BY <1>28 DEF TypeInv, LaunchInv, StartInv, Launching, ReaderGoesOn
  <2>4. chan' = chan /\ Starters' \subseteq Starters
    BY <1>28 DEF Starters, ReaderGoesOn
  <2> QED
    BY <2>2, <2>3, <2>4, StartersShrink DEF TypeInv
<1> QED
  BY <1>1, <1>2, <1>3, <1>4, <1>5, <1>6, <1>7, <1>8, <1>9, <1>10, <1>11, <1>12, <1>13, <1>14, <1>15, <1>16, <1>17, <1>18, <1>19, <1>20, <1>21, <1>22, <1>23, <1>24, <1>25, <1>26, <1>27, <1>28 DEF Next, Caller, Watcher

\* Every variable keeps its type: the program counters, the generations and
\* the channels of DockerProcess stay within range, for any number of callers
\* and generations.
THEOREM TypeCorrect == Spec => []TypeOK
<1>1. TypeInv => TypeOK
  BY DEF TypeInv
<1> QED
  BY <1>1, TypeInit, TypeStep, PTL DEF Spec

-----------------------------------------------------------------------------
(* A running process is watched.                                           *)

\* Every step preserves RunningIsWatched: only Finish ends a live watcher,
\* and it writes a state that is not "running".
LEMMA WatchedStep == TypeInv /\ RunningIsWatched /\ [Next]_vars => RunningIsWatched'
<1> SUFFICES ASSUME TypeInv, RunningIsWatched, [Next]_vars, state' = "running"
             PROVE  (\E c \in Callers : Launching(c)') \/ (\E g \in Gens : Live(g)')
  BY DEF RunningIsWatched
<1> USE DEF Goto, At, WGoto, WAt, Panic, container, channels, logs, callers, watchers, Launching, Live, LivePC
<1> DEFINE Watched == (\E c \in Callers : Launching(c)) \/ (\E g \in Gens : Live(g))
<1>pc. /\ pc \in [Callers -> CallerPC]
       /\ wpc \in [Gens -> WatcherPC]
       /\ \A c \in Callers : Launching(c) => sel[c] \in Gens
  BY DEF TypeInv, TypeOK, LaunchInv
<1>halt. ASSUME NEW codes, HaltByCommand(codes) \/ UNCHANGED <<container, logs, watchers>>
         PROVE  \A g \in Gens : Live(g) => Live(g)'
  BY <1>halt, <1>pc DEF HaltByCommand, Halt, Notify
<1>1. ASSUME NEW c \in Callers, RestartCheck(c) PROVE Watched'
  BY <1>1, <1>pc DEF RunningIsWatched, RestartCheck
<1>2. ASSUME NEW c \in Callers, StartCheck(c) PROVE Watched'
  BY <1>2, <1>pc DEF RunningIsWatched, StartCheck
<1>3. ASSUME NEW c \in Callers, StartCommand(c) PROVE Watched'
  BY <1>3, <1>pc DEF RunningIsWatched, StartCommand
<1>4. ASSUME NEW c \in Callers, StartLock(c) PROVE Watched'
  BY <1>4, <1>pc DEF RunningIsWatched, StartLock
<1>5. ASSUME NEW c \in Callers, StartLog(c) PROVE Watched'
  BY <1>5, <1>pc DEF RunningIsWatched, StartLog
<1>6. ASSUME NEW c \in Callers, StartAdd(c) PROVE Watched'
  BY <1>6, <1>pc DEF RunningIsWatched, StartAdd
<1>7. ASSUME NEW c \in Callers, StopCheck(c) PROVE Watched'
  BY <1>7, <1>pc DEF RunningIsWatched, StopCheck
<1>8. ASSUME NEW c \in Callers, StopSet(c) PROVE Watched'
  BY <1>8, <1>pc DEF RunningIsWatched, StopSet
<1>9. ASSUME NEW c \in Callers, StopCommand(c) PROVE Watched'
  <2>1. \A g \in Gens : Live(g) => Live(g)'
    BY <1>9, <1>halt DEF StopCommand
  <2>2. state = "running" /\ (\A d \in Callers : Launching(d) => Launching(d)')
    BY <1>9, <1>pc DEF StopCommand
  <2> QED
    BY <2>1, <2>2 DEF RunningIsWatched
<1>10. ASSUME NEW c \in Callers, KillCommand(c) PROVE Watched'
  <2>1. \A g \in Gens : Live(g) => Live(g)'
    BY <1>10, <1>halt DEF KillCommand
  <2>2. state = "running" /\ (\A d \in Callers : Launching(d) => Launching(d)')
    BY <1>10, <1>pc DEF KillCommand
  <2> QED
    BY <2>1, <2>2 DEF RunningIsWatched
<1>11. ASSUME NEW c \in Callers, StopSelect(c) PROVE Watched'
  BY <1>11, <1>pc DEF RunningIsWatched, StopSelect
<1>12. ASSUME NEW c \in Callers, StopWait(c) PROVE Watched'
  BY <1>12, <1>pc DEF RunningIsWatched, StopWait, AfterStop
<1>13. ASSUME NEW c \in Callers, KillSet(c) PROVE Watched'
  BY <1>13, <1>pc DEF RunningIsWatched, KillSet
<1>14. ASSUME NEW c \in Callers, NEW o \in Ops, Invoke(c, o) PROVE Watched'
  BY <1>14, <1>pc DEF RunningIsWatched, Invoke
<1>15. ASSUME NEW g \in Gens, WaitBegins(g) PROVE Watched'
  BY <1>15, <1>pc DEF RunningIsWatched, WaitBegins
<1>16. ASSUME NEW g \in Gens, WaitFails(g) PROVE Watched'
  BY <1>16, <1>pc DEF RunningIsWatched, WaitFails
<1>17. ASSUME NEW g \in Gens, CancelLogs(g) PROVE Watched'
  BY <1>17, <1>pc DEF RunningIsWatched, CancelLogs
<1>18. ASSUME NEW g \in Gens, OutputWait(g) PROVE Watched'
  BY <1>18, <1>pc DEF RunningIsWatched, OutputWait
<1>19. ASSUME NEW g \in Gens, Finish(g) PROVE Watched'
  BY <1>19, <1>pc DEF RunningIsWatched, Finish, Verdict
<1>20. ASSUME NEW g \in Gens, CloseChannels(g) PROVE Watched'
  BY <1>20, <1>pc DEF RunningIsWatched, CloseChannels
<1>21. ASSUME NEW g \in Gens, StreamEnds(g) PROVE Watched'
  BY <1>21, <1>pc DEF RunningIsWatched, StreamEnds, Blocked
<1>22. ASSUME NEW g \in Gens, StreamSendsOnClosed(g) PROVE Watched'
  BY <1>22, <1>pc DEF RunningIsWatched, StreamSendsOnClosed
<1>23. ASSUME NEW code \in ExitCode, ContainerExits(code) PROVE Watched'
  BY <1>23, <1>pc DEF RunningIsWatched, ContainerExits, Halt, Notify
<1>24. ASSUME PolicyRestarts PROVE Watched'
  BY <1>24, <1>pc DEF RunningIsWatched, PolicyRestarts
<1>25. ASSUME AgentRestart PROVE Watched'
  <2>1. cstat = "running"
    BY <1>25 DEF AgentRestart, RefreshState
  <2>2. 1 \in Gens
    BY MaxStartsAssumption DEF Gens
  <2>3. wpc'[1] = "spawned"
    BY <1>25, <2>1, <2>2 DEF AgentRestart, Adopted
  <2> QED
    BY <2>2, <2>3
<1>26. ASSUME UNCHANGED vars PROVE Watched'
  BY <1>26, <1>pc DEF RunningIsWatched, vars
<1>27. ASSUME NEW g \in Gens, ReaderBlocks(g) PROVE Watched'
  BY <1>27, <1>pc DEF RunningIsWatched, ReaderBlocks
<1>28. ASSUME NEW g \in Gens, NEW h \in Gens, ReaderGoesOn(g, h) PROVE Watched'
  BY <1>28, <1>pc DEF RunningIsWatched, ReaderGoesOn
<1> QED
  BY <1>1, <1>2, <1>3, <1>4, <1>5, <1>6, <1>7, <1>8, <1>9, <1>10, <1>11, <1>12, <1>13, <1>14, <1>15, <1>16, <1>17, <1>18, <1>19, <1>20, <1>21, <1>22, <1>23, <1>24, <1>25, <1>26, <1>27, <1>28 DEF Next, Caller, Watcher

\* An agent that finds the container running watches it.
LEMMA WatchedInit == Init => RunningIsWatched
<1> SUFFICES ASSUME Init, state = "running"
             PROVE  \E g \in Gens : Live(g)
  BY DEF RunningIsWatched
<1>1. 1 \in Gens /\ cstat = "running"
  BY MaxStartsAssumption DEF Init, RefreshState, Gens
<1> QED
  BY <1>1 DEF Init, Adopted, Live, LivePC

\* RunningIsWatched for every number of callers and generations, with every
\* operation, failing docker commands, timeouts, panics and agent restarts:
\* whenever State() answers "running", a waitForExit is still to write the
\* state, or is about to be launched.
THEOREM Watched == Spec => []RunningIsWatched
  BY WatchedInit, TypeInit, TypeStep, WatchedStep, PTL DEF Spec

-----------------------------------------------------------------------------
(* Concurrent Starts.  A caller past the check of Start, or a watcher that *)
(* has yet to write the state, owns the process; the strengthening says    *)
(* that there is at most one owner and that everything still open belongs  *)
(* to the generation in use.                                               *)

Starting(c) == pc[c] \in {"start_cmd", "start_lock"}

Owner(c) == Starting(c) \/ Launching(c)

\* Callers run only steps of Start, and one of them at most is past its check.
StartersInv ==
    /\ \A c \in Callers : pc[c] \in {"idle", "start_check"} \/ Owner(c)
    /\ \A c, d \in Callers : Owner(c) /\ Owner(d) => c = d
    /\ \A c \in Callers : Starting(c) => state = "starting"
    /\ \A c \in Callers : Launching(c) => /\ state = "running"
                                          /\ sel[c] = chan
                                          /\ wpc[sel[c]] = "none"
                                          /\ sel[c] \notin closed

\* A live watcher excludes an owner; it watches the generation in use.
WatchersInv ==
    /\ \A c \in Callers, g \in Gens : Owner(c) => ~Live(g)
    /\ \A g \in Gens : Live(g) => state = "running" /\ g = chan /\ g \notin closed
    /\ \A g \in Gens : wpc[g] = "close" => wgrab[g] = g /\ g \notin closed
    /\ \A g \in Gens : g > chan => wpc[g] = "none" /\ g \notin closed

\* A stream belongs to the generation in use, whose watcher has not yet
\* passed outputWg.Wait(); a blocked reader is one of it, and sends on the
\* channel in use.
StreamsInv ==
    /\ \A g \in streams : /\ g = chan
                          /\ wpc[g] \in {"spawned", "waiting", "exited", "cancelled", "blocked"}
    /\ \A g \in Gens, h \in Gens \cup {0} : <<g, h>> \in stuck => g \in streams /\ h = chan

StartsInv == NoPanic /\ StartersInv /\ WatchersInv /\ StreamsInv

\* Every step of an agent whose callers only start preserves StartsInv.
LEMMA StartsStep ==
    ASSUME Ops \subseteq {"start"}, TypeInv, StartsInv, [Next]_vars
    PROVE  StartsInv'
<1> USE DEF Goto, At, WGoto, WAt, container, channels, logs, callers, watchers
<1>t. /\ pc \in [Callers -> CallerPC] /\ sel \in [Callers -> Gens \cup {0}]
      /\ wpc \in [Gens -> WatcherPC] /\ wgrab \in [Gens -> Gens \cup {0}]
      /\ chan \in Nat /\ chan \in Gens \cup {0}
      /\ closed \subseteq Gens \cup {0} /\ streams \subseteq Gens
      /\ \A g \in Gens : g \in Nat \ {0}
  BY ChanInRange DEF TypeInv, TypeOK, Gens
<1>launch. \A c \in Callers : Launching(c) => sel[c] \in Gens
  BY DEF TypeInv, LaunchInv
<1>1. ASSUME NEW c \in Callers, StartCheck(c) PROVE StartsInv'
  <2>1. NoPanic' /\ StartersInv'
    BY <1>1, <1>t, <1>launch, SMTT(30) DEF StartsInv, NoPanic, StartersInv, WatchersInv, StreamsInv, Starting, Owner, Launching, Live, LivePC, StartCheck
  <2>2. WatchersInv'
    BY <1>1, <1>t, <1>launch, SMTT(30) DEF StartsInv, NoPanic, StartersInv, WatchersInv, StreamsInv, Starting, Owner, Launching, Live, LivePC, StartCheck
  <2>3. StreamsInv'
    BY <1>1, <1>t, <1>launch, SMTT(30) DEF StartsInv, NoPanic, StartersInv, WatchersInv, StreamsInv, Starting, Owner, Launching, Live, LivePC, StartCheck
  <2> QED
    BY <2>1, <2>2, <2>3 DEF StartsInv
<1>2. ASSUME NEW c \in Callers, StartCommand(c) PROVE StartsInv'
  <2>1. NoPanic' /\ StartersInv'
    BY <1>2, <1>t, <1>launch, SMTT(30) DEF StartsInv, NoPanic, StartersInv, WatchersInv, StreamsInv, Starting, Owner, Launching, Live, LivePC, StartCommand
  <2>2. WatchersInv'
    BY <1>2, <1>t, <1>launch, SMTT(30) DEF StartsInv, NoPanic, StartersInv, WatchersInv, StreamsInv, Starting, Owner, Launching, Live, LivePC, StartCommand
  <2>3. StreamsInv'
    BY <1>2, <1>t, <1>launch, SMTT(30) DEF StartsInv, NoPanic, StartersInv, WatchersInv, StreamsInv, Starting, Owner, Launching, Live, LivePC, StartCommand
  <2> QED
    BY <2>1, <2>2, <2>3 DEF StartsInv
<1>3. ASSUME NEW c \in Callers, StartLock(c) PROVE StartsInv'
  <2>1. NoPanic' /\ StartersInv'
    <3>1. /\ chan + 1 \in Gens /\ chan + 1 > chan
          /\ wpc[chan + 1] = "none" /\ chan + 1 \notin closed
      BY <1>3, <1>t, StartLockBound DEF StartsInv, WatchersInv
    <3>2. /\ \A d \in Callers \ {c} : ~Owner(d) /\ pc'[d] = pc[d]
          /\ pc'[c] = "start_log" /\ sel'[c] = chan + 1
          /\ state' = "running" /\ chan' = chan + 1
          /\ wpc' = wpc /\ closed' = closed /\ agent' = "up"
      BY <1>3, <1>t DEF StartsInv, StartersInv, Owner, Starting, StartLock
    <3> QED
      BY <3>1, <3>2 DEF StartsInv, NoPanic, StartersInv, Starting, Owner, Launching
  <2>2. WatchersInv'
    BY <1>3, <1>t, <1>launch, SMTT(30) DEF StartsInv, NoPanic, StartersInv, WatchersInv, StreamsInv, Starting, Owner, Launching, Live, LivePC, StartLock
  <2>3. StreamsInv'
    BY <1>3, <1>t, <1>launch, SMTT(30) DEF StartsInv, NoPanic, StartersInv, WatchersInv, StreamsInv, Starting, Owner, Launching, Live, LivePC, StartLock
  <2> QED
    BY <2>1, <2>2, <2>3 DEF StartsInv
<1>4. ASSUME NEW c \in Callers, StartLog(c) PROVE StartsInv'
  <2>1. NoPanic' /\ StartersInv'
    BY <1>4, <1>t, <1>launch, SMTT(30) DEF StartsInv, NoPanic, StartersInv, WatchersInv, StreamsInv, Starting, Owner, Launching, Live, LivePC, StartLog
  <2>2. WatchersInv'
    BY <1>4, <1>t, <1>launch, SMTT(30) DEF StartsInv, NoPanic, StartersInv, WatchersInv, StreamsInv, Starting, Owner, Launching, Live, LivePC, StartLog
  <2>3. StreamsInv'
    BY <1>4, <1>t, <1>launch, SMTT(30) DEF StartsInv, NoPanic, StartersInv, WatchersInv, StreamsInv, Starting, Owner, Launching, Live, LivePC, StartLog
  <2> QED
    BY <2>1, <2>2, <2>3 DEF StartsInv
<1>5. ASSUME NEW c \in Callers, StartAdd(c) PROVE StartsInv'
  <2>1. NoPanic' /\ StartersInv'
    BY <1>5, <1>t, <1>launch, SMTT(30) DEF StartsInv, NoPanic, StartersInv, WatchersInv, StreamsInv, Starting, Owner, Launching, Live, LivePC, StartAdd
  <2>2. WatchersInv'
    BY <1>5, <1>t, <1>launch, SMTT(30) DEF StartsInv, NoPanic, StartersInv, WatchersInv, StreamsInv, Starting, Owner, Launching, Live, LivePC, StartAdd
  <2>3. StreamsInv'
    BY <1>5, <1>t, <1>launch, SMTT(30) DEF StartsInv, NoPanic, StartersInv, WatchersInv, StreamsInv, Starting, Owner, Launching, Live, LivePC, StartAdd
  <2> QED
    BY <2>1, <2>2, <2>3 DEF StartsInv
<1>6. ASSUME NEW c \in Callers, NEW o \in Ops, Invoke(c, o) PROVE StartsInv'
  <2>1. NoPanic' /\ StartersInv'
    BY <1>6, <1>t, <1>launch, SMTT(30) DEF StartsInv, NoPanic, StartersInv, WatchersInv, StreamsInv, Starting, Owner, Launching, Live, LivePC, Invoke, Entry
  <2>2. WatchersInv'
    BY <1>6, <1>t, <1>launch, SMTT(30) DEF StartsInv, NoPanic, StartersInv, WatchersInv, StreamsInv, Starting, Owner, Launching, Live, LivePC, Invoke, Entry
  <2>3. StreamsInv'
    BY <1>6, <1>t, <1>launch, SMTT(30) DEF StartsInv, NoPanic, StartersInv, WatchersInv, StreamsInv, Starting, Owner, Launching, Live, LivePC, Invoke, Entry
  <2> QED
    BY <2>1, <2>2, <2>3 DEF StartsInv
<1>7. ASSUME NEW g \in Gens, WaitBegins(g) PROVE StartsInv'
  <2>1. NoPanic' /\ StartersInv'
    BY <1>7, <1>t, <1>launch, SMTT(30) DEF StartsInv, NoPanic, StartersInv, WatchersInv, StreamsInv, Starting, Owner, Launching, Live, LivePC, WaitBegins
  <2>2. WatchersInv'
    BY <1>7, <1>t, <1>launch, SMTT(30) DEF StartsInv, NoPanic, StartersInv, WatchersInv, StreamsInv, Starting, Owner, Launching, Live, LivePC, WaitBegins
  <2>3. StreamsInv'
    BY <1>7, <1>t, <1>launch, SMTT(30) DEF StartsInv, NoPanic, StartersInv, WatchersInv, StreamsInv, Starting, Owner, Launching, Live, LivePC, WaitBegins
  <2> QED
    BY <2>1, <2>2, <2>3 DEF StartsInv
<1>8. ASSUME NEW g \in Gens, WaitFails(g) PROVE StartsInv'
  <2>1. NoPanic' /\ StartersInv'
    BY <1>8, <1>t, <1>launch, SMTT(30) DEF StartsInv, NoPanic, StartersInv, WatchersInv, StreamsInv, Starting, Owner, Launching, Live, LivePC, WaitFails
  <2>2. WatchersInv'
    BY <1>8, <1>t, <1>launch, SMTT(30) DEF StartsInv, NoPanic, StartersInv, WatchersInv, StreamsInv, Starting, Owner, Launching, Live, LivePC, WaitFails
  <2>3. StreamsInv'
    BY <1>8, <1>t, <1>launch, SMTT(30) DEF StartsInv, NoPanic, StartersInv, WatchersInv, StreamsInv, Starting, Owner, Launching, Live, LivePC, WaitFails
  <2> QED
    BY <2>1, <2>2, <2>3 DEF StartsInv
<1>9. ASSUME NEW g \in Gens, CancelLogs(g) PROVE StartsInv'
  <2>1. NoPanic' /\ StartersInv'
    BY <1>9, <1>t, <1>launch, SMTT(30) DEF StartsInv, NoPanic, StartersInv, WatchersInv, StreamsInv, Starting, Owner, Launching, Live, LivePC, CancelLogs
  <2>2. WatchersInv'
    BY <1>9, <1>t, <1>launch, SMTT(30) DEF StartsInv, NoPanic, StartersInv, WatchersInv, StreamsInv, Starting, Owner, Launching, Live, LivePC, CancelLogs
  <2>3. StreamsInv'
    BY <1>9, <1>t, <1>launch, SMTT(30) DEF StartsInv, NoPanic, StartersInv, WatchersInv, StreamsInv, Starting, Owner, Launching, Live, LivePC, CancelLogs
  <2> QED
    BY <2>1, <2>2, <2>3 DEF StartsInv
<1>10. ASSUME NEW g \in Gens, OutputWait(g) PROVE StartsInv'
  <2>1. NoPanic' /\ StartersInv'
    BY <1>10, <1>t, <1>launch, SMTT(30) DEF StartsInv, NoPanic, StartersInv, WatchersInv, StreamsInv, Starting, Owner, Launching, Live, LivePC, OutputWait, Panic
  <2>2. WatchersInv'
    BY <1>10, <1>t, <1>launch, SMTT(30) DEF StartsInv, NoPanic, StartersInv, WatchersInv, StreamsInv, Starting, Owner, Launching, Live, LivePC, OutputWait, Panic
  <2>3. StreamsInv'
    BY <1>10, <1>t, <1>launch, SMTT(30) DEF StartsInv, NoPanic, StartersInv, WatchersInv, StreamsInv, Starting, Owner, Launching, Live, LivePC, OutputWait, Panic
  <2> QED
    BY <2>1, <2>2, <2>3 DEF StartsInv
<1>11. ASSUME NEW g \in Gens, Finish(g) PROVE StartsInv'
  <2>1. NoPanic' /\ StartersInv'
    BY <1>11, <1>t, <1>launch, SMTT(30) DEF StartsInv, NoPanic, StartersInv, WatchersInv, StreamsInv, Starting, Owner, Launching, Live, LivePC, Finish, Verdict
  <2>2. WatchersInv'
    BY <1>11, <1>t, <1>launch, SMTT(30) DEF StartsInv, NoPanic, StartersInv, WatchersInv, StreamsInv, Starting, Owner, Launching, Live, LivePC, Finish, Verdict
  <2>3. StreamsInv'
    BY <1>11, <1>t, <1>launch, SMTT(30) DEF StartsInv, NoPanic, StartersInv, WatchersInv, StreamsInv, Starting, Owner, Launching, Live, LivePC, Finish, Verdict
  <2> QED
    BY <2>1, <2>2, <2>3 DEF StartsInv
<1>12. ASSUME NEW g \in Gens, CloseChannels(g) PROVE StartsInv'
  <2>1. NoPanic' /\ StartersInv'
    BY <1>12, <1>t, <1>launch, SMTT(30) DEF StartsInv, NoPanic, StartersInv, WatchersInv, StreamsInv, Starting, Owner, Launching, Live, LivePC, CloseChannels, Panic
  <2>2. WatchersInv'
    BY <1>12, <1>t, <1>launch, SMTT(30) DEF StartsInv, NoPanic, StartersInv, WatchersInv, StreamsInv, Starting, Owner, Launching, Live, LivePC, CloseChannels, Panic
  <2>3. StreamsInv'
    BY <1>12, <1>t, <1>launch, SMTT(30) DEF StartsInv, NoPanic, StartersInv, WatchersInv, StreamsInv, Starting, Owner, Launching, Live, LivePC, CloseChannels, Panic
  <2> QED
    BY <2>1, <2>2, <2>3 DEF StartsInv
<1>13. ASSUME NEW g \in Gens, StreamEnds(g) PROVE StartsInv'
  <2>1. NoPanic' /\ StartersInv'
    BY <1>13, <1>t, <1>launch, SMTT(30) DEF StartsInv, NoPanic, StartersInv, WatchersInv, StreamsInv, Starting, Owner, Launching, Live, LivePC, StreamEnds, Blocked
  <2>2. WatchersInv'
    BY <1>13, <1>t, <1>launch, SMTT(30) DEF StartsInv, NoPanic, StartersInv, WatchersInv, StreamsInv, Starting, Owner, Launching, Live, LivePC, StreamEnds, Blocked
  <2>3. StreamsInv'
    BY <1>13, <1>t, <1>launch, SMTT(30) DEF StartsInv, NoPanic, StartersInv, WatchersInv, StreamsInv, Starting, Owner, Launching, Live, LivePC, StreamEnds, Blocked
  <2> QED
    BY <2>1, <2>2, <2>3 DEF StartsInv
<1>14. ASSUME NEW g \in Gens, StreamSendsOnClosed(g) PROVE StartsInv'
  <2>1. chan \in closed
    <3>1. ASSUME NEW h \in closed, <<g, h>> \in stuck PROVE h = chan
      BY <1>t, <3>1 DEF StartsInv, StreamsInv
    <3> QED
      BY <1>14, <3>1 DEF StreamSendsOnClosed
  <2>2. g = chan /\ Live(g)
    BY <1>14 DEF StreamSendsOnClosed, StartsInv, StreamsInv, Live, LivePC
  <2>3. chan \notin closed
    BY <2>2 DEF StartsInv, WatchersInv
  <2> QED
    BY <2>1, <2>3
<1>15. ASSUME NEW code \in ExitCode, ContainerExits(code) PROVE StartsInv'
  <2>1. NoPanic' /\ StartersInv'
    BY <1>15, <1>t, <1>launch, SMTT(30) DEF StartsInv, NoPanic, StartersInv, WatchersInv, StreamsInv, Starting, Owner, Launching, Live, LivePC, ContainerExits, Halt, Notify
  <2>2. WatchersInv'
    BY <1>15, <1>t, <1>launch, SMTT(30) DEF StartsInv, NoPanic, StartersInv, WatchersInv, StreamsInv, Starting, Owner, Launching, Live, LivePC, ContainerExits, Halt, Notify
  <2>3. StreamsInv'
    BY <1>15, <1>t, <1>launch, SMTT(30) DEF StartsInv, NoPanic, StartersInv, WatchersInv, StreamsInv, Starting, Owner, Launching, Live, LivePC, ContainerExits, Halt, Notify
  <2> QED
    BY <2>1, <2>2, <2>3 DEF StartsInv
<1>16. ASSUME PolicyRestarts PROVE StartsInv'
  <2>1. NoPanic' /\ StartersInv'
    BY <1>16, <1>t, <1>launch, SMTT(30) DEF StartsInv, NoPanic, StartersInv, WatchersInv, StreamsInv, Starting, Owner, Launching, Live, LivePC, PolicyRestarts
  <2>2. WatchersInv'
    BY <1>16, <1>t, <1>launch, SMTT(30) DEF StartsInv, NoPanic, StartersInv, WatchersInv, StreamsInv, Starting, Owner, Launching, Live, LivePC, PolicyRestarts
  <2>3. StreamsInv'
    BY <1>16, <1>t, <1>launch, SMTT(30) DEF StartsInv, NoPanic, StartersInv, WatchersInv, StreamsInv, Starting, Owner, Launching, Live, LivePC, PolicyRestarts
  <2> QED
    BY <2>1, <2>2, <2>3 DEF StartsInv
<1>17. ASSUME AgentRestart PROVE StartsInv'
  <2>1. NoPanic' /\ StartersInv'
    BY <1>17, <1>t, <1>launch, SMTT(30) DEF StartsInv, NoPanic, StartersInv, WatchersInv, StreamsInv, Starting, Owner, Launching, Live, LivePC, AgentRestart, RefreshState, Adopted
  <2>2. WatchersInv'
    BY <1>17, <1>t, <1>launch, SMTT(30) DEF StartsInv, NoPanic, StartersInv, WatchersInv, StreamsInv, Starting, Owner, Launching, Live, LivePC, AgentRestart, RefreshState, Adopted
  <2>3. StreamsInv'
    BY <1>17, <1>t, <1>launch, SMTT(30) DEF StartsInv, NoPanic, StartersInv, WatchersInv, StreamsInv, Starting, Owner, Launching, Live, LivePC, AgentRestart, RefreshState, Adopted
  <2> QED
    BY <2>1, <2>2, <2>3 DEF StartsInv
<1>18. ASSUME UNCHANGED vars PROVE StartsInv'
  <2>1. NoPanic' /\ StartersInv'
    BY <1>18, <1>t, <1>launch, SMTT(30) DEF StartsInv, NoPanic, StartersInv, WatchersInv, StreamsInv, Starting, Owner, Launching, Live, LivePC, vars
  <2>2. WatchersInv'
    BY <1>18, <1>t, <1>launch, SMTT(30) DEF StartsInv, NoPanic, StartersInv, WatchersInv, StreamsInv, Starting, Owner, Launching, Live, LivePC, vars
  <2>3. StreamsInv'
    BY <1>18, <1>t, <1>launch, SMTT(30) DEF StartsInv, NoPanic, StartersInv, WatchersInv, StreamsInv, Starting, Owner, Launching, Live, LivePC, vars
  <2> QED
    BY <2>1, <2>2, <2>3 DEF StartsInv
<1>19. ASSUME NEW c \in Callers
      PROVE  pc[c] \in {"idle", "start_check", "start_cmd", "start_lock", "start_log", "start_add"}
  BY DEF StartsInv, StartersInv, Owner, Starting, Launching
<1>20. ASSUME NEW c \in Callers
      PROVE  ~ (\/ RestartCheck(c) \/ StopCheck(c) \/ StopSet(c) \/ StopCommand(c)
               \/ StopSelect(c) \/ StopWait(c) \/ KillCommand(c) \/ KillSet(c))
  BY <1>19 DEF RestartCheck, StopCheck, StopSet, StopCommand, StopSelect, StopWait, KillCommand, KillSet
<1>21. ASSUME NEW g \in Gens, ReaderBlocks(g) PROVE StartsInv'
  <2>1. NoPanic' /\ StartersInv'
    BY <1>21, <1>t, <1>launch, SMTT(30) DEF StartsInv, NoPanic, StartersInv, WatchersInv, StreamsInv, Starting, Owner, Launching, Live, LivePC, ReaderBlocks
  <2>2. WatchersInv'
    BY <1>21, <1>t, <1>launch, SMTT(30) DEF StartsInv, NoPanic, StartersInv, WatchersInv, StreamsInv, Starting, Owner, Launching, Live, LivePC, ReaderBlocks
  <2>3. StreamsInv'
    BY <1>21, <1>t, <1>launch, SMTT(30) DEF StartsInv, NoPanic, StartersInv, WatchersInv, StreamsInv, Starting, Owner, Launching, Live, LivePC, ReaderBlocks
  <2> QED
    BY <2>1, <2>2, <2>3 DEF StartsInv
<1>22. ASSUME NEW g \in Gens, NEW h \in Gens, ReaderGoesOn(g, h) PROVE StartsInv'
  <2>1. NoPanic' /\ StartersInv'
    BY <1>22, <1>t, <1>launch, SMTT(30) DEF StartsInv, NoPanic, StartersInv, WatchersInv, StreamsInv, Starting, Owner, Launching, Live, LivePC, ReaderGoesOn
  <2>2. WatchersInv'
    BY <1>22, <1>t, <1>launch, SMTT(30) DEF StartsInv, NoPanic, StartersInv, WatchersInv, StreamsInv, Starting, Owner, Launching, Live, LivePC, ReaderGoesOn
  <2>3. StreamsInv'
    BY <1>22, <1>t, <1>launch, SMTT(30) DEF StartsInv, NoPanic, StartersInv, WatchersInv, StreamsInv, Starting, Owner, Launching, Live, LivePC, ReaderGoesOn
  <2> QED
    BY <2>1, <2>2, <2>3 DEF StartsInv
<1> QED
  BY <1>1, <1>2, <1>3, <1>4, <1>5, <1>6, <1>7, <1>8, <1>9, <1>10, <1>11, <1>12, <1>13, <1>14, <1>15, <1>16, <1>17, <1>18, <1>20, <1>21, <1>22 DEF Next, Caller, Watcher

\* The first state of an agent satisfies StartsInv.
LEMMA StartsInit == Init => StartsInv
BY MaxStartsAssumption, SMTT(30)
DEF Init, StartsInv, NoPanic, StartersInv, WatchersInv, StreamsInv, Starting, Owner,
    Launching, Live, LivePC, RefreshState, Adopted, Gens

\* However many callers Start an instance at once (operators, auto-start and
\* auto-restart), whether docker commands fail, the container exits or the
\* agent restarts: no channel is closed twice or sent on when closed, and the
\* WaitGroup is never reused under a waiter.
THEOREM StartsNeverPanic ==
    ASSUME Ops \subseteq {"start"}
    PROVE  Spec => []NoPanic
<1>1. TypeInv /\ StartsInv /\ [Next]_vars => StartsInv'
  BY StartsStep
<1>2. StartsInv => NoPanic
  BY DEF StartsInv
<1> QED
  BY <1>1, <1>2, StartsInit, TypeInit, TypeStep, PTL DEF Spec

-----------------------------------------------------------------------------
(* Operations one at a time.                                               *)

\* A Stop between its lock and its return.
Stopping(c) == pc[c] \in {"stop_cmd", "stop_sel", "stop_wait"}

\* A Kill, which is here the way Restart goes on when the process ended before it.
Killing(c) == pc[c] \in {"kill_cmd", "kill_set"}

\* The channel in use is closed, or a watcher is going to close it.
Answered == chan \in closed \/ (chan \in Gens /\ (Live(chan) \/ wpc[chan] = "close"))

\* What the caller has established at each of its lines.
SerialCallers ==
    \A c \in Callers :
       /\ Starting(c) => state = "starting"
       /\ Launching(c) => state = "running" /\ sel[c] = chan /\ wpc[sel[c]] = "none" /\ sel[c] \notin closed
       /\ pc[c] = "start_add" => logCancel = sel[c]
       /\ Stopping(c) \/ pc[c] = "stop_set" => Answered
       /\ pc[c] = "stop_wait" => sel[c] = chan
       /\ pc[c] \in {"stop_sel", "stop_wait"} => ~Up
       /\ Owner(c) \/ Killing(c) => \A g \in Gens : ~Live(g)
       /\ Killing(c) => op[c] = "restart"

\* A live watcher is the one of the channel in use, and nobody takes the process from it.
SerialWatchers ==
    \A g \in Gens :
       /\ Live(g) => /\ g = chan /\ g \notin closed /\ logCancel = g
                     /\ state = "running" \/ (state = "stopping" /\ \E c \in Callers : Stopping(c))
       /\ wpc[g] = "waiting" => Up
       /\ wpc[g] = "close" => wgrab[g] = g /\ g \notin closed
       /\ g > chan => wpc[g] = "none" /\ g \notin closed

\* A watcher waits for streams whose end has been brought about.
SerialDrain ==
    \A g \in Gens : /\ wpc[g] \in {"cancelled", "blocked"} => streams \subseteq doomed
                    /\ wpc[g] = "blocked" => streams # {}

SerialInv == NoPanic /\ SerialCallers /\ SerialWatchers /\ SerialDrain /\ StreamsInv

\* One caller, no Kill of its own, and a docker stop that succeeds within the 35 s.
Serial ==
    /\ \A c, d \in Callers : c = d
    /\ Ops \subseteq {"start", "stop", "restart"}
    /\ ~DaemonMayFail /\ ~StopMayTimeout

\* Every step of an agent whose operations come one at a time preserves SerialInv.
LEMMA SerialStep ==
    ASSUME Serial, TypeInv, RunningIsWatched, SerialInv, [Next]_vars
    PROVE  SerialInv'
<1> USE DEF Goto, At, WGoto, WAt, container, channels, logs, callers, watchers
<1> USE DEF Starting, Owner, Launching, Stopping, Killing, Answered, Live, LivePC, Up
<1>t. /\ pc \in [Callers -> CallerPC] /\ sel \in [Callers -> Gens \cup {0}]
      /\ op \in [Callers -> Ops \cup {"none"}]
      /\ wpc \in [Gens -> WatcherPC] /\ wgrab \in [Gens -> Gens \cup {0}]
      /\ chan \in Nat /\ chan \in Gens \cup {0}
      /\ closed \subseteq Gens \cup {0} /\ streams \subseteq Gens
      /\ \A g \in Gens : g \in Nat \ {0}
  BY ChanInRange DEF TypeInv, TypeOK, Gens
<1>launch. \A c \in Callers : Launching(c) => sel[c] \in Gens
  BY DEF TypeInv, LaunchInv
<1>one. (\A c, d \in Callers : c = d) /\ DaemonMayFail = FALSE /\ StopMayTimeout = FALSE /\ Ops \subseteq {"start", "stop", "restart"}
  BY FlagsAssumption DEF Serial
<1>1. ASSUME NEW c \in Callers, RestartCheck(c) PROVE SerialInv'
  <2>1. NoPanic' /\ SerialCallers'
    BY <1>1, <1>t, <1>launch, <1>one, SMTT(30) DEF SerialInv, NoPanic, SerialCallers, SerialWatchers, SerialDrain,
       StreamsInv, RestartCheck
  <2>2. SerialWatchers'
    BY <1>1, <1>t, <1>launch, <1>one, SMTT(30) DEF SerialInv, NoPanic, SerialCallers, SerialWatchers, SerialDrain,
       StreamsInv, RestartCheck
  <2>3. SerialDrain' /\ StreamsInv'
    BY <1>1, <1>t, <1>launch, <1>one, SMTT(30) DEF SerialInv, NoPanic, SerialCallers, SerialWatchers, SerialDrain,
       StreamsInv, RestartCheck
  <2> QED
    BY <2>1, <2>2, <2>3 DEF SerialInv
<1>2. ASSUME NEW c \in Callers, StartCheck(c) PROVE SerialInv'
  <2>1. NoPanic' /\ SerialCallers'
    BY <1>2, <1>t, <1>launch, <1>one, SMTT(30) DEF SerialInv, NoPanic, SerialCallers, SerialWatchers, SerialDrain,
       StreamsInv, StartCheck
  <2>2. SerialWatchers'
    BY <1>2, <1>t, <1>launch, <1>one, SMTT(30) DEF SerialInv, NoPanic, SerialCallers, SerialWatchers, SerialDrain,
       StreamsInv, StartCheck
  <2>3. SerialDrain' /\ StreamsInv'
    BY <1>2, <1>t, <1>launch, <1>one, SMTT(30) DEF SerialInv, NoPanic, SerialCallers, SerialWatchers, SerialDrain,
       StreamsInv, StartCheck
  <2> QED
    BY <2>1, <2>2, <2>3 DEF SerialInv
<1>3. ASSUME NEW c \in Callers, StartCommand(c) PROVE SerialInv'
  <2>1. NoPanic' /\ SerialCallers'
    BY <1>3, <1>t, <1>launch, <1>one, SMTT(30) DEF SerialInv, NoPanic, SerialCallers, SerialWatchers, SerialDrain,
       StreamsInv, StartCommand
  <2>2. SerialWatchers'
    BY <1>3, <1>t, <1>launch, <1>one, SMTT(30) DEF SerialInv, NoPanic, SerialCallers, SerialWatchers, SerialDrain,
       StreamsInv, StartCommand
  <2>3. SerialDrain' /\ StreamsInv'
    BY <1>3, <1>t, <1>launch, <1>one, SMTT(30) DEF SerialInv, NoPanic, SerialCallers, SerialWatchers, SerialDrain,
       StreamsInv, StartCommand
  <2> QED
    BY <2>1, <2>2, <2>3 DEF SerialInv
<1>4. ASSUME NEW c \in Callers, StartLock(c) PROVE SerialInv'
  <2>1. NoPanic' /\ SerialCallers'
    <3>1. chan + 1 \in Gens /\ chan + 1 > chan /\ wpc[chan + 1] = "none" /\ chan + 1 \notin closed
      BY <1>4, <1>t, StartLockBound DEF SerialInv, SerialWatchers
    <3>2. /\ pc'[c] = "start_log" /\ sel'[c] = chan + 1 /\ state' = "running" /\ chan' = chan + 1
          /\ wpc' = wpc /\ closed' = closed /\ agent' = "up" /\ \A g \in Gens : ~Live(g)
      BY <1>4, <1>t DEF SerialInv, SerialCallers, Owner, Starting, StartLock
    <3>3. \A d \in Callers : d = c
      BY <1>one
    <3> QED
      BY <3>1, <3>2, <3>3 DEF NoPanic, SerialCallers, Starting, Owner, Launching, Stopping, Killing, Live
  <2>2. SerialWatchers'
    BY <1>4, <1>t, <1>launch, <1>one, SMTT(30) DEF SerialInv, NoPanic, SerialCallers, SerialWatchers, SerialDrain,
       StreamsInv, StartLock
  <2>3. SerialDrain' /\ StreamsInv'
    BY <1>4, <1>t, <1>launch, <1>one, SMTT(30) DEF SerialInv, NoPanic, SerialCallers, SerialWatchers, SerialDrain,
       StreamsInv, StartLock
  <2> QED
    BY <2>1, <2>2, <2>3 DEF SerialInv
<1>5. ASSUME NEW c \in Callers, StartLog(c) PROVE SerialInv'
  <2>1. NoPanic' /\ SerialCallers'
    BY <1>5, <1>t, <1>launch, <1>one, SMTT(30) DEF SerialInv, NoPanic, SerialCallers, SerialWatchers, SerialDrain,
       StreamsInv, StartLog
  <2>2. SerialWatchers'
    BY <1>5, <1>t, <1>launch, <1>one, SMTT(30) DEF SerialInv, NoPanic, SerialCallers, SerialWatchers, SerialDrain,
       StreamsInv, StartLog
  <2>3. SerialDrain' /\ StreamsInv'
    BY <1>5, <1>t, <1>launch, <1>one, SMTT(30) DEF SerialInv, NoPanic, SerialCallers, SerialWatchers, SerialDrain,
       StreamsInv, StartLog
  <2> QED
    BY <2>1, <2>2, <2>3 DEF SerialInv
<1>6. ASSUME NEW c \in Callers, StartAdd(c) PROVE SerialInv'
  <2>1. NoPanic' /\ SerialCallers'
    BY <1>6, <1>t, <1>launch, <1>one, SMTT(30) DEF SerialInv, NoPanic, SerialCallers, SerialWatchers, SerialDrain,
       StreamsInv, StartAdd
  <2>2. SerialWatchers'
    BY <1>6, <1>t, <1>launch, <1>one, SMTT(30) DEF SerialInv, NoPanic, SerialCallers, SerialWatchers, SerialDrain,
       StreamsInv, StartAdd
  <2>3. SerialDrain' /\ StreamsInv'
    BY <1>6, <1>t, <1>launch, <1>one, SMTT(30) DEF SerialInv, NoPanic, SerialCallers, SerialWatchers, SerialDrain,
       StreamsInv, StartAdd
  <2> QED
    BY <2>1, <2>2, <2>3 DEF SerialInv
<1>7. ASSUME NEW c \in Callers, StopCheck(c) PROVE SerialInv'
  <2>1. NoPanic' /\ SerialCallers'
    BY <1>7, <1>t, <1>launch, <1>one, SMTT(30) DEF SerialInv, NoPanic, SerialCallers, SerialWatchers, SerialDrain,
       StreamsInv, RunningIsWatched, StopCheck
  <2>2. SerialWatchers'
    BY <1>7, <1>t, <1>launch, <1>one, SMTT(30) DEF SerialInv, NoPanic, SerialCallers, SerialWatchers, SerialDrain,
       StreamsInv, RunningIsWatched, StopCheck
  <2>3. SerialDrain' /\ StreamsInv'
    BY <1>7, <1>t, <1>launch, <1>one, SMTT(30) DEF SerialInv, NoPanic, SerialCallers, SerialWatchers, SerialDrain,
       StreamsInv, RunningIsWatched, StopCheck
  <2> QED
    BY <2>1, <2>2, <2>3 DEF SerialInv
<1>8. ASSUME NEW c \in Callers, StopSet(c) PROVE SerialInv'
  <2>1. NoPanic' /\ SerialCallers'
    BY <1>8, <1>t, <1>launch, <1>one, SMTT(30) DEF SerialInv, NoPanic, SerialCallers, SerialWatchers, SerialDrain,
       StreamsInv, StopSet
  <2>2. SerialWatchers'
    BY <1>8, <1>t, <1>launch, <1>one, SMTT(30) DEF SerialInv, NoPanic, SerialCallers, SerialWatchers, SerialDrain,
       StreamsInv, StopSet
  <2>3. SerialDrain' /\ StreamsInv'
    BY <1>8, <1>t, <1>launch, <1>one, SMTT(30) DEF SerialInv, NoPanic, SerialCallers, SerialWatchers, SerialDrain,
       StreamsInv, StopSet
  <2> QED
    BY <2>1, <2>2, <2>3 DEF SerialInv
<1>9. ASSUME NEW c \in Callers, StopCommand(c) PROVE SerialInv'
  <2>1. NoPanic' /\ SerialCallers'
    BY <1>9, <1>t, <1>launch, <1>one, SMTT(30) DEF SerialInv, NoPanic, SerialCallers, SerialWatchers, SerialDrain,
       StreamsInv, StopCommand, HaltByCommand, Halt, Notify
  <2>2. SerialWatchers'
    BY <1>9, <1>t, <1>launch, <1>one, SMTT(30) DEF SerialInv, NoPanic, SerialCallers, SerialWatchers, SerialDrain,
       StreamsInv, StopCommand, HaltByCommand, Halt, Notify
  <2>3. SerialDrain' /\ StreamsInv'
    BY <1>9, <1>t, <1>launch, <1>one, SMTT(30) DEF SerialInv, NoPanic, SerialCallers, SerialWatchers, SerialDrain,
       StreamsInv, StopCommand, HaltByCommand, Halt, Notify
  <2> QED
    BY <2>1, <2>2, <2>3 DEF SerialInv
<1>10. ASSUME NEW c \in Callers, StopSelect(c) PROVE SerialInv'
  <2>1. NoPanic' /\ SerialCallers'
    BY <1>10, <1>t, <1>launch, <1>one, SMTT(30) DEF SerialInv, NoPanic, SerialCallers, SerialWatchers, SerialDrain,
       StreamsInv, StopSelect
  <2>2. SerialWatchers'
    BY <1>10, <1>t, <1>launch, <1>one, SMTT(30) DEF SerialInv, NoPanic, SerialCallers, SerialWatchers, SerialDrain,
       StreamsInv, StopSelect
  <2>3. SerialDrain' /\ StreamsInv'
    BY <1>10, <1>t, <1>launch, <1>one, SMTT(30) DEF SerialInv, NoPanic, SerialCallers, SerialWatchers, SerialDrain,
       StreamsInv, StopSelect
  <2> QED
    BY <2>1, <2>2, <2>3 DEF SerialInv
<1>11. ASSUME NEW c \in Callers, StopWait(c) PROVE SerialInv'
  <2>1. NoPanic' /\ SerialCallers'
    BY <1>11, <1>t, <1>launch, <1>one, SMTT(30) DEF SerialInv, NoPanic, SerialCallers, SerialWatchers, SerialDrain,
       StreamsInv, StopWait, AfterStop
  <2>2. SerialWatchers'
    BY <1>11, <1>t, <1>launch, <1>one, SMTT(30) DEF SerialInv, NoPanic, SerialCallers, SerialWatchers, SerialDrain,
       StreamsInv, StopWait, AfterStop
  <2>3. SerialDrain' /\ StreamsInv'
    BY <1>11, <1>t, <1>launch, <1>one, SMTT(30) DEF SerialInv, NoPanic, SerialCallers, SerialWatchers, SerialDrain,
       StreamsInv, StopWait, AfterStop
  <2> QED
    BY <2>1, <2>2, <2>3 DEF SerialInv
<1>12. ASSUME NEW c \in Callers, KillCommand(c) PROVE SerialInv'
  <2>1. NoPanic' /\ SerialCallers'
    BY <1>12, <1>t, <1>launch, <1>one, SMTT(30) DEF SerialInv, NoPanic, SerialCallers, SerialWatchers, SerialDrain,
       StreamsInv, KillCommand, HaltByCommand, Halt, Notify
  <2>2. SerialWatchers'
    BY <1>12, <1>t, <1>launch, <1>one, SMTT(30) DEF SerialInv, NoPanic, SerialCallers, SerialWatchers, SerialDrain,
       StreamsInv, KillCommand, HaltByCommand, Halt, Notify
  <2>3. SerialDrain' /\ StreamsInv'
    <3>1. streams = {} /\ \A g \in Gens : wpc[g] \in {"none", "close", "done"}
      BY <1>12, <1>t DEF SerialInv, SerialCallers, StreamsInv, Killing, Live, LivePC, WatcherPC, KillCommand
    <3>2. streams' = {} /\ \A g \in Gens : wpc'[g] = wpc[g]
      BY <1>12, <1>t, <3>1 DEF KillCommand, HaltByCommand, Halt, Notify
    <3>3. stuck' = stuck
      BY <1>12 DEF KillCommand, HaltByCommand, Halt
    <3>4. \A g \in Gens, h \in Gens \cup {0} : <<g, h>> \notin stuck
      BY <3>1 DEF SerialInv, StreamsInv
    <3> QED
      BY <3>1, <3>2, <3>3, <3>4 DEF SerialDrain, StreamsInv
  <2> QED
    BY <2>1, <2>2, <2>3 DEF SerialInv
<1>13. ASSUME NEW c \in Callers, KillSet(c) PROVE SerialInv'
  <2>1. NoPanic' /\ SerialCallers'
    BY <1>13, <1>t, <1>launch, <1>one, SMTT(30) DEF SerialInv, NoPanic, SerialCallers, SerialWatchers, SerialDrain,
       StreamsInv, KillSet, AfterStop
  <2>2. SerialWatchers'
    BY <1>13, <1>t, <1>launch, <1>one, SMTT(30) DEF SerialInv, NoPanic, SerialCallers, SerialWatchers, SerialDrain,
       StreamsInv, KillSet, AfterStop
  <2>3. SerialDrain' /\ StreamsInv'
    BY <1>13, <1>t, <1>launch, <1>one, SMTT(30) DEF SerialInv, NoPanic, SerialCallers, SerialWatchers, SerialDrain,
       StreamsInv, KillSet, AfterStop
  <2> QED
    BY <2>1, <2>2, <2>3 DEF SerialInv
<1>14. ASSUME NEW c \in Callers, NEW o \in Ops, Invoke(c, o) PROVE SerialInv'
  <2>1. NoPanic' /\ SerialCallers'
    BY <1>14, <1>t, <1>launch, <1>one, SMTT(30) DEF SerialInv, NoPanic, SerialCallers, SerialWatchers, SerialDrain,
       StreamsInv, Invoke, Entry
  <2>2. SerialWatchers'
    BY <1>14, <1>t, <1>launch, <1>one, SMTT(30) DEF SerialInv, NoPanic, SerialCallers, SerialWatchers, SerialDrain,
       StreamsInv, Invoke, Entry
  <2>3. SerialDrain' /\ StreamsInv'
    BY <1>14, <1>t, <1>launch, <1>one, SMTT(30) DEF SerialInv, NoPanic, SerialCallers, SerialWatchers, SerialDrain,
       StreamsInv, Invoke, Entry
  <2> QED
    BY <2>1, <2>2, <2>3 DEF SerialInv
<1>15. ASSUME NEW g \in Gens, WaitBegins(g) PROVE SerialInv'
  <2>1. NoPanic' /\ SerialCallers'
    BY <1>15, <1>t, <1>launch, <1>one, SMTT(30) DEF SerialInv, NoPanic, SerialCallers, SerialWatchers, SerialDrain,
       StreamsInv, WaitBegins
  <2>2. SerialWatchers'
    BY <1>15, <1>t, <1>launch, <1>one, SMTT(30) DEF SerialInv, NoPanic, SerialCallers, SerialWatchers, SerialDrain,
       StreamsInv, WaitBegins
  <2>3. SerialDrain' /\ StreamsInv'
    BY <1>15, <1>t, <1>launch, <1>one, SMTT(30) DEF SerialInv, NoPanic, SerialCallers, SerialWatchers, SerialDrain,
       StreamsInv, WaitBegins
  <2> QED
    BY <2>1, <2>2, <2>3 DEF SerialInv
<1>16. ASSUME NEW g \in Gens, CancelLogs(g) PROVE SerialInv'
  <2>1. NoPanic' /\ SerialCallers'
    BY <1>16, <1>t, <1>launch, <1>one, SMTT(30) DEF SerialInv, NoPanic, SerialCallers, SerialWatchers, SerialDrain,
       StreamsInv, CancelLogs
  <2>2. SerialWatchers'
    BY <1>16, <1>t, <1>launch, <1>one, SMTT(30) DEF SerialInv, NoPanic, SerialCallers, SerialWatchers, SerialDrain,
       StreamsInv, CancelLogs
  <2>3. SerialDrain' /\ StreamsInv'
    BY <1>16, <1>t, <1>launch, <1>one, SMTT(30) DEF SerialInv, NoPanic, SerialCallers, SerialWatchers, SerialDrain,
       StreamsInv, CancelLogs
  <2> QED
    BY <2>1, <2>2, <2>3 DEF SerialInv
<1>17. ASSUME NEW g \in Gens, OutputWait(g) PROVE SerialInv'
  <2>1. NoPanic' /\ SerialCallers'
    BY <1>17, <1>t, <1>launch, <1>one, SMTT(30) DEF SerialInv, NoPanic, SerialCallers, SerialWatchers, SerialDrain,
       StreamsInv, OutputWait, Panic
  <2>2. SerialWatchers'
    BY <1>17, <1>t, <1>launch, <1>one, SMTT(30) DEF SerialInv, NoPanic, SerialCallers, SerialWatchers, SerialDrain,
       StreamsInv, OutputWait, Panic
  <2>3. SerialDrain' /\ StreamsInv'
    BY <1>17, <1>t, <1>launch, <1>one, SMTT(30) DEF SerialInv, NoPanic, SerialCallers, SerialWatchers, SerialDrain,
       StreamsInv, OutputWait, Panic
  <2> QED
    BY <2>1, <2>2, <2>3 DEF SerialInv
<1>18. ASSUME NEW g \in Gens, Finish(g) PROVE SerialInv'
  <2>1. NoPanic' /\ SerialCallers'
    BY <1>18, <1>t, <1>launch, <1>one, SMTT(30) DEF SerialInv, NoPanic, SerialCallers, SerialWatchers, SerialDrain,
       StreamsInv, Finish, Verdict
  <2>2. SerialWatchers'
    BY <1>18, <1>t, <1>launch, <1>one, SMTT(30) DEF SerialInv, NoPanic, SerialCallers, SerialWatchers, SerialDrain,
       StreamsInv, Finish, Verdict
  <2>3. SerialDrain' /\ StreamsInv'
    BY <1>18, <1>t, <1>launch, <1>one, SMTT(30) DEF SerialInv, NoPanic, SerialCallers, SerialWatchers, SerialDrain,
       StreamsInv, Finish, Verdict
  <2> QED
    BY <2>1, <2>2, <2>3 DEF SerialInv
<1>19. ASSUME NEW g \in Gens, CloseChannels(g) PROVE SerialInv'
  <2>1. NoPanic' /\ SerialCallers'
    BY <1>19, <1>t, <1>launch, <1>one, SMTT(30) DEF SerialInv, NoPanic, SerialCallers, SerialWatchers, SerialDrain,
       StreamsInv, CloseChannels, Panic
  <2>2. SerialWatchers'
    BY <1>19, <1>t, <1>launch, <1>one, SMTT(30) DEF SerialInv, NoPanic, SerialCallers, SerialWatchers, SerialDrain,
       StreamsInv, CloseChannels, Panic
  <2>3. SerialDrain' /\ StreamsInv'
    BY <1>19, <1>t, <1>launch, <1>one, SMTT(30) DEF SerialInv, NoPanic, SerialCallers, SerialWatchers, SerialDrain,
       StreamsInv, CloseChannels, Panic
  <2> QED
    BY <2>1, <2>2, <2>3 DEF SerialInv
<1>20. ASSUME NEW g \in Gens, StreamEnds(g) PROVE SerialInv'
  <2>1. NoPanic' /\ SerialCallers'
    BY <1>20, <1>t, <1>launch, <1>one, SMTT(30) DEF SerialInv, NoPanic, SerialCallers, SerialWatchers, SerialDrain,
       StreamsInv, StreamEnds, Blocked
  <2>2. SerialWatchers'
    BY <1>20, <1>t, <1>launch, <1>one, SMTT(30) DEF SerialInv, NoPanic, SerialCallers, SerialWatchers, SerialDrain,
       StreamsInv, StreamEnds, Blocked
  <2>3. SerialDrain' /\ StreamsInv'
    BY <1>20, <1>t, <1>launch, <1>one, SMTT(30) DEF SerialInv, NoPanic, SerialCallers, SerialWatchers, SerialDrain,
       StreamsInv, StreamEnds, Blocked
  <2> QED
    BY <2>1, <2>2, <2>3 DEF SerialInv
<1>21. ASSUME NEW g \in Gens, StreamSendsOnClosed(g) PROVE SerialInv'
  <2>1. chan \in closed
    <3>1. ASSUME NEW h \in closed, <<g, h>> \in stuck PROVE h = chan
      BY <1>t, <3>1 DEF SerialInv, StreamsInv
    <3> QED
      BY <1>21, <3>1 DEF StreamSendsOnClosed
  <2>2. g = chan /\ Live(g)
    BY <1>21 DEF StreamSendsOnClosed, SerialInv, StreamsInv, Live, LivePC
  <2>3. chan \notin closed
    BY <2>2 DEF SerialInv, SerialWatchers
  <2> QED
    BY <2>1, <2>3
<1>22. ASSUME NEW code \in ExitCode, ContainerExits(code) PROVE SerialInv'
  <2>1. NoPanic' /\ SerialCallers'
    BY <1>22, <1>t, <1>launch, <1>one, SMTT(30) DEF SerialInv, NoPanic, SerialCallers, SerialWatchers, SerialDrain,
       StreamsInv, ContainerExits, Halt, Notify
  <2>2. SerialWatchers'
    BY <1>22, <1>t, <1>launch, <1>one, SMTT(30) DEF SerialInv, NoPanic, SerialCallers, SerialWatchers, SerialDrain,
       StreamsInv, ContainerExits, Halt, Notify
  <2>3. SerialDrain' /\ StreamsInv'
    BY <1>22, <1>t, <1>launch, <1>one, SMTT(30) DEF SerialInv, NoPanic, SerialCallers, SerialWatchers, SerialDrain,
       StreamsInv, ContainerExits, Halt, Notify
  <2> QED
    BY <2>1, <2>2, <2>3 DEF SerialInv
<1>23. ASSUME PolicyRestarts PROVE SerialInv'
  <2>1. NoPanic' /\ SerialCallers'
    BY <1>23, <1>t, <1>launch, <1>one, SMTT(30) DEF SerialInv, NoPanic, SerialCallers, SerialWatchers, SerialDrain,
       StreamsInv, PolicyRestarts
  <2>2. SerialWatchers'
    BY <1>23, <1>t, <1>launch, <1>one, SMTT(30) DEF SerialInv, NoPanic, SerialCallers, SerialWatchers, SerialDrain,
       StreamsInv, PolicyRestarts
  <2>3. SerialDrain' /\ StreamsInv'
    BY <1>23, <1>t, <1>launch, <1>one, SMTT(30) DEF SerialInv, NoPanic, SerialCallers, SerialWatchers, SerialDrain,
       StreamsInv, PolicyRestarts
  <2> QED
    BY <2>1, <2>2, <2>3 DEF SerialInv
<1>24. ASSUME AgentRestart PROVE SerialInv'
  <2>1. NoPanic' /\ SerialCallers'
    BY <1>24, <1>t, <1>launch, <1>one, SMTT(30) DEF SerialInv, NoPanic, SerialCallers, SerialWatchers, SerialDrain,
       StreamsInv, AgentRestart, RefreshState, Adopted
  <2>2. SerialWatchers'
    BY <1>24, <1>t, <1>launch, <1>one, SMTT(30) DEF SerialInv, NoPanic, SerialCallers, SerialWatchers, SerialDrain,
       StreamsInv, AgentRestart, RefreshState, Adopted
  <2>3. SerialDrain' /\ StreamsInv'
    BY <1>24, <1>t, <1>launch, <1>one, SMTT(30) DEF SerialInv, NoPanic, SerialCallers, SerialWatchers, SerialDrain,
       StreamsInv, AgentRestart, RefreshState, Adopted
  <2> QED
    BY <2>1, <2>2, <2>3 DEF SerialInv
<1>25. ASSUME UNCHANGED vars PROVE SerialInv'
  <2>1. NoPanic' /\ SerialCallers'
    BY <1>25, <1>t, <1>launch, <1>one, SMTT(30) DEF SerialInv, NoPanic, SerialCallers, SerialWatchers, SerialDrain,
       StreamsInv, vars
  <2>2. SerialWatchers'
    BY <1>25, <1>t, <1>launch, <1>one, SMTT(30) DEF SerialInv, NoPanic, SerialCallers, SerialWatchers, SerialDrain,
       StreamsInv, vars
  <2>3. SerialDrain' /\ StreamsInv'
    BY <1>25, <1>t, <1>launch, <1>one, SMTT(30) DEF SerialInv, NoPanic, SerialCallers, SerialWatchers, SerialDrain,
       StreamsInv, vars
  <2> QED
    BY <2>1, <2>2, <2>3 DEF SerialInv
<1>26. \A g \in Gens : ~WaitFails(g)
  BY <1>one DEF WaitFails
<1>27. ASSUME NEW g \in Gens, ReaderBlocks(g) PROVE SerialInv'
  <2>1. NoPanic' /\ SerialCallers'
    BY <1>27, <1>t, <1>launch, <1>one, SMTT(30) DEF SerialInv, NoPanic, SerialCallers, SerialWatchers, SerialDrain,
       StreamsInv, ReaderBlocks
  <2>2. SerialWatchers'
    BY <1>27, <1>t, <1>launch, <1>one, SMTT(30) DEF SerialInv, NoPanic, SerialCallers, SerialWatchers, SerialDrain,
       StreamsInv, ReaderBlocks
  <2>3. SerialDrain' /\ StreamsInv'
    BY <1>27, <1>t, <1>launch, <1>one, SMTT(30) DEF SerialInv, NoPanic, SerialCallers, SerialWatchers, SerialDrain,
       StreamsInv, ReaderBlocks
  <2> QED
    BY <2>1, <2>2, <2>3 DEF SerialInv
<1>28. ASSUME NEW g \in Gens, NEW h \in Gens, ReaderGoesOn(g, h) PROVE SerialInv'
  <2>1. NoPanic' /\ SerialCallers'
    BY <1>28, <1>t, <1>launch, <1>one, SMTT(30) DEF SerialInv, NoPanic, SerialCallers, SerialWatchers, SerialDrain,
       StreamsInv, ReaderGoesOn
  <2>2. SerialWatchers'
    BY <1>28, <1>t, <1>launch, <1>one, SMTT(30) DEF SerialInv, NoPanic, SerialCallers, SerialWatchers, SerialDrain,
       StreamsInv, ReaderGoesOn
  <2>3. SerialDrain' /\ StreamsInv'
    BY <1>28, <1>t, <1>launch, <1>one, SMTT(30) DEF SerialInv, NoPanic, SerialCallers, SerialWatchers, SerialDrain,
       StreamsInv, ReaderGoesOn
  <2> QED
    BY <2>1, <2>2, <2>3 DEF SerialInv
<1> QED
  BY <1>1, <1>2, <1>3, <1>4, <1>5, <1>6, <1>7, <1>8, <1>9, <1>10, <1>11, <1>12, <1>13, <1>14, <1>15, <1>16, <1>17, <1>18, <1>19, <1>20, <1>21, <1>22, <1>23, <1>24, <1>25, <1>26, <1>27, <1>28 DEF Next, Caller, Watcher

\* The first state of an agent satisfies SerialInv.
LEMMA SerialInit == Init => SerialInv
BY MaxStartsAssumption, SMTT(30)
DEF Init, SerialInv, NoPanic, SerialCallers, SerialWatchers, SerialDrain, StreamsInv, Starting, Owner,
    Launching, Stopping, Killing, Answered, Live, LivePC, RefreshState, Adopted, Gens, Up

\* Operations that come one at a time, any number of them, never end the agent: no
\* channel is closed twice or sent on when closed and no WaitGroup is reused, whenever the
\* container exits and the agent restarts (Start, Stop, Restart, waitForExit).
THEOREM SerialNeverPanics ==
    ASSUME Serial
    PROVE  Spec => []NoPanic
<1>1. TypeInv /\ RunningIsWatched /\ SerialInv /\ [Next]_vars => SerialInv'
  BY SerialStep
<1>2. SerialInv => NoPanic
  BY DEF SerialInv
<1> QED
  BY <1>1, <1>2, SerialInit, TypeInit, TypeStep, WatchedInit, WatchedStep, PTL DEF Spec

\* Nobody waits for what nobody brings about, but for a reader of the log lines.  A Stop
\* that waits on stopCh waits for a closed channel, or for one that a watcher is about to
\* close, or whose watcher is live and does not wait for the container any more; a watcher
\* in outputWg.Wait waits for streams that are there and whose docker logs has ended or
\* was cancelled; and a reader that is blocked sends on the logCh in use, still open, from
\* which the log forwarder takes the lines.
WaitsEnd ==
    /\ \A c \in Callers : pc[c] = "stop_wait" =>
          \/ sel[c] \in closed
          \/ \E g \in Gens : wgrab[g] = sel[c] /\ wpc[g] = "close"
          \/ \E g \in Gens : g = sel[c] /\ g = chan /\ Live(g) /\ wpc[g] # "waiting"
    /\ \A g \in Gens : wpc[g] = "blocked" => streams # {} /\ streams \subseteq doomed
    /\ \A g \in Gens, h \in Gens \cup {0} : <<g, h>> \in stuck => h = chan /\ h \notin closed

\* What StopReturns and ExitIsNoticed rest on, for any number of operations: with one
\* operation at a time every wait of Stop and of waitForExit is for something under way,
\* or for a reader that only the reading of the log lines releases.
THEOREM SerialWaitsEnd ==
    ASSUME Serial
    PROVE  Spec => []WaitsEnd
<1>1. TypeInv /\ RunningIsWatched /\ SerialInv /\ [Next]_vars => SerialInv'
  BY SerialStep
<1>2. ASSUME SerialInv PROVE WaitsEnd
  <2>1. ASSUME NEW c \in Callers, pc[c] = "stop_wait"
        PROVE  \/ sel[c] \in closed
               \/ \E g \in Gens : wgrab[g] = sel[c] /\ wpc[g] = "close"
               \/ \E g \in Gens : g = sel[c] /\ g = chan /\ Live(g) /\ wpc[g] # "waiting"
    <3>1. Answered /\ sel[c] = chan /\ ~Up
      BY <1>2, <2>1 DEF SerialInv, SerialCallers, Stopping
    <3>2. \A g \in Gens : (wpc[g] = "waiting" => Up) /\ (wpc[g] = "close" => wgrab[g] = g)
      BY <1>2 DEF SerialInv, SerialWatchers
    <3> QED
      BY <3>1, <3>2 DEF Answered
  <2>2. \A g \in Gens : wpc[g] = "blocked" => streams # {} /\ streams \subseteq doomed
    BY <1>2 DEF SerialInv, SerialDrain
  <2>3. ASSUME NEW g \in Gens, NEW h \in Gens \cup {0}, <<g, h>> \in stuck
        PROVE  h = chan /\ h \notin closed
    <3>1. g \in streams /\ h = chan
      BY <1>2, <2>3 DEF SerialInv, StreamsInv
    <3>2. g = chan /\ Live(g)
      BY <1>2, <3>1 DEF SerialInv, StreamsInv, Live, LivePC
    <3> QED
      BY <1>2, <3>1, <3>2 DEF SerialInv, SerialWatchers
  <2> QED
    BY <2>1, <2>2, <2>3 DEF WaitsEnd
<1> QED
  BY <1>1, <1>2, SerialInit, TypeInit, TypeStep, WatchedInit, WatchedStep, PTL DEF Spec
=============================================================================
