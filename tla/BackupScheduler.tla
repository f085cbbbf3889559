--------------------------- MODULE BackupScheduler ---------------------------
(***************************************************************************)
(* Backups of one instance: the master's scheduler (tick, runBackup) and   *)
(* its handlers apiCreateBackup and apiRestoreBackup, the agent's          *)
(* BackupInstance and RestoreBackup with the archive files, and the        *)
(* backups table.                                                          *)
(*                                                                         *)
(* A backup is a job: the goroutine or handler at the master and the call  *)
(* it makes to the agent, which goes on when the master has stopped        *)
(* waiting for it.  Time advances in units of 30 s.  An archive may take   *)
(* any time; calls reach the agent, and statements the database, at once,  *)
(* and the master never waits past the timeout of its call.                *)
(***************************************************************************)
EXTENDS Cron, Sequences, FiniteSets, SequencesExt

CONSTANTS
    TickPeriod,       \* 60 s
    Guard,            \* 90 s
    ScheduledTimeout, \* 120 s
    ManualTimeout,    \* 60 s
    AgentMax,         \* backup.max_count of the agent
    MaxCount,         \* backup_max_count of the instance
    Expr,             \* backup_cron
    Exprs,            \* other expressions the minutes are held against
    Calendar,         \* the minutes that pass, in turn
    MaxJobs,          \* bound: backups in a behaviour
    MaxBefore         \* bound: backups begun before a restore

ASSUME TimeAssumption == {TickPeriod, Guard, ScheduledTimeout, ManualTimeout} \subseteq Nat \ {0}
ASSUME CountAssumption == {AgentMax, MaxCount, MaxJobs, MaxBefore} \subseteq Nat \ {0}
ASSUME CalendarAssumption == Calendar \in Seq(Times) /\ Calendar # <<>>
ASSUME ExprsAssumption == \A expr \in Exprs : IsExpression(expr)

Jobs == 1 .. MaxJobs
Kind == {"scheduled", "manual"}
NoFile == 0
Torn == -1     \* the content of a file two archives were written to
Partial == 0   \* of one that is not complete; else the job that wrote it

VARIABLES
    minute,   \* index in Calendar of the minute of the last tick
    ticker,   \* time until the next tick
    lastAge,  \* time since backup_last_at, up to Guard; -1 is NULL
    jobs,     \* kind, pc and age of each backup, whether the master waits for
              \* it, its file and the checksum of the file
    disk,     \* the archive files, by modification time, oldest first
    content,  \* what each file holds
    rows,     \* the backups table, oldest first
    restore,  \* a restore: where it is, its file, the checksum of its row, what it wrote
    server,   \* the server of the instance runs
    crossed   \* history: two jobs were at work at the same time

restoring == <<restore, server>>
time == <<minute, ticker>>
agent == <<disk, content>>
master == <<lastAge, rows>>
vars == <<time, master, jobs, agent, restoring, crossed>>

Unused == [kind |-> "manual", pc |-> "free", age |-> 0, waits |-> FALSE,
           file |-> NoFile, sum |-> Partial]

Init ==
    /\ minute = 1
    /\ ticker \in 1 .. TickPeriod
    /\ lastAge = -1
    /\ jobs = [i \in Jobs |-> Unused]
    /\ disk = <<>>
    /\ content = [f \in Jobs |-> Partial]
    /\ rows = <<>>
    /\ restore = [pc |-> "none", file |-> NoFile, sum |-> Partial, wrote |-> Partial]
    /\ server = TRUE
    /\ crossed = FALSE

AtWork == {i \in Jobs : jobs[i].pc \notin {"free", "done", "failed"}}

Free == CHOOSE i \in Jobs : jobs[i].pc = "free" /\ \A k \in 1 .. i - 1 : jobs[k].pc # "free"

HasFree == \E i \in Jobs : jobs[i].pc = "free"

Goto(i, label) == jobs' = [jobs EXCEPT ![i].pc = label]

\* A job begins; the master waits for it.
Begin(kind) ==
    /\ jobs' = [jobs EXCEPT ![Free] = [Unused EXCEPT !.kind = kind, !.pc = "launch", !.waits = TRUE]]
    /\ crossed' = (crossed \/ AtWork # {})

Timeout(i) == IF jobs[i].kind = "scheduled" THEN ScheduledTimeout ELSE ManualTimeout

\* Ages no condition tells apart are not.
MaxAge(kind) == IF kind = "manual" THEN ManualTimeout
                ELSE IF ScheduledTimeout > Guard THEN ScheduledTimeout ELSE Guard

-----------------------------------------------------------------------------
(* The scheduler.                                                          *)

\* Time passes, up to the next tick and no further than a timeout.
Elapse ==
    /\ ticker > 0
    /\ \A i \in AtWork :
         /\ jobs[i].pc \in {"zip", "retain"}
         /\ jobs[i].waits => jobs[i].age < Timeout(i)
    /\ ticker' = ticker - 1
    /\ lastAge' = IF lastAge \in {-1, Guard} THEN lastAge ELSE lastAge + 1
    /\ jobs' = [i \in Jobs |->
                  IF jobs[i].pc # "free" /\ jobs[i].age < MaxAge(jobs[i].kind)
                  THEN [jobs[i] EXCEPT !.age = @ + 1] ELSE jobs[i]]
    /\ UNCHANGED <<minute, rows, agent, crossed, restoring>>

\* Faulty: a tick's length is taken for the distance to the last backup.
DueEachTick(m) == cronMatches(Expr, Calendar[m]) /\ (lastAge = -1 \/ lastAge >= TickPeriod)

Due(m) == cronMatches(Expr, Calendar[m]) /\ (lastAge = -1 \/ lastAge >= Guard)

\* The minute a tick falls in: ticks are 60 s apart and come at any second,
\* so that one may fall in the minute of the last, or leave one out.
Minutes == {1 + ((minute + k) % Len(Calendar)) : k \in {-1, 0, 1}}

\* tick, over the one instance.
Tick(m) ==
    /\ ticker = 0
    /\ minute' = m
    /\ ticker' = TickPeriod
    /\ IF Due(m) /\ HasFree THEN Begin("scheduled") ELSE UNCHANGED <<jobs, crossed>>
    /\ UNCHANGED <<master, agent, restoring>>

\* apiCreateBackup.
CreateBackup ==
    /\ HasFree
    /\ Begin("manual")
    /\ UNCHANGED <<time, master, agent, restoring>>

\* The instance has no agent, or one that is not online; or the agent does not
\* have the instance.
RefusedScheduled(i) ==
    /\ jobs[i].pc = "launch" /\ jobs[i].kind = "scheduled"
    /\ Goto(i, "failed")
    /\ UNCHANGED <<time, master, agent, crossed, restoring>>

\* The same for the page, which does not ask whether the agent is online.
RefusedManual(i) ==
    /\ jobs[i].pc = "launch" /\ jobs[i].kind = "manual"
    /\ Goto(i, "failed")
    /\ UNCHANGED <<time, master, agent, crossed, restoring>>

\* The call times out and the master's job ends; the agent goes on.
GiveUp(i) ==
    /\ jobs[i].waits /\ jobs[i].age = Timeout(i)
    /\ jobs[i].pc \in {"zip", "retain"}
    /\ jobs' = [jobs EXCEPT ![i].waits = FALSE]
    /\ UNCHANGED <<time, master, agent, crossed, restoring>>

\* The backups table after the row of a backup that succeeded is added.
WithRow(i) == Append(rows, [file |-> jobs[i].file, sum |-> jobs[i].sum])

RecordScheduled(i) ==
    /\ jobs[i].pc = "row" /\ jobs[i].kind = "scheduled"
    /\ rows' = WithRow(i)
    /\ Goto(i, "last")
    /\ UNCHANGED <<time, lastAge, agent, crossed, restoring>>

\* A backup from the page leaves backup_last_at and the older rows alone.
RecordManual(i) ==
    /\ jobs[i].pc = "row" /\ jobs[i].kind = "manual"
    /\ rows' = WithRow(i)
    /\ Goto(i, "done")
    /\ UNCHANGED <<time, lastAge, agent, crossed, restoring>>

\* UpdateBackupLastAt.
SetLastAt(i) ==
    /\ jobs[i].pc = "last"
    /\ lastAge' = 0
    /\ Goto(i, "trim")
    /\ UNCHANGED <<time, rows, agent, crossed, restoring>>

\* The newest n elements of a sequence.
Newest(s, n) == IF Len(s) <= n THEN s ELSE SubSeq(s, Len(s) - n + 1, Len(s))

\* DeleteOldestBackups; the files are left to the agent.
Trim(i) ==
    /\ jobs[i].pc = "trim"
    /\ rows' = Newest(rows, MaxCount)
    /\ Goto(i, "done")
    /\ UNCHANGED <<time, lastAge, agent, crossed, restoring>>

-----------------------------------------------------------------------------
(* The agent.                                                              *)

Zipping(f) == {i \in Jobs : jobs[i].pc = "zip" /\ jobs[i].file = f}

\* The files by modification time when f has just been written.
Touched(f) == Append(RemoveFirst(disk, f), f)

\* The name is made of the label and the second: a new one, or that of a
\* backup of the same kind which began no longer ago.
Names(i) == {i} \cup {jobs[k].file : k \in {j \in Jobs \ {i} :
                         /\ jobs[j].kind = jobs[i].kind
                         /\ jobs[j].file # NoFile
                         /\ jobs[j].age = 0}}

\* os.Create truncates a file that exists.
ZipBegins(i, f) ==
    /\ jobs[i].pc = "launch"
    /\ jobs' = [jobs EXCEPT ![i].pc = "zip", ![i].file = f]
    /\ disk' = Touched(f)
    /\ content' = [content EXCEPT ![f] = IF Zipping(f) = {} THEN Partial ELSE Torn]
    /\ UNCHANGED <<time, master, crossed, restoring>>

\* Files of the work directory are copied to the archive.
ZipWrites(i) ==
    /\ jobs[i].pc = "zip"
    /\ Contains(disk, jobs[i].file)
    /\ disk' = Touched(jobs[i].file)
    /\ UNCHANGED <<time, master, jobs, content, crossed, restoring>>

\* Faulty: the checksum is computed before the archive is closed.
ZipEndsHashed(i) ==
    LET f == jobs[i].file
        whole == IF content[f] = Torn THEN Torn ELSE i
    IN /\ jobs[i].pc = "zip"
       /\ Contains(disk, f)
       /\ content' = [content EXCEPT ![f] = whole]
       /\ disk' = Touched(f)
       /\ jobs' = [jobs EXCEPT ![i].pc = "retain", ![i].sum = content[f]]
       /\ UNCHANGED <<time, master, crossed, restoring>>

\* The archive is complete, and its checksum computed.
ZipEnds(i) ==
    LET f == jobs[i].file
        whole == IF content[f] = Torn THEN Torn ELSE i
    IN /\ jobs[i].pc = "zip"
       /\ Contains(disk, f)
       /\ content' = [content EXCEPT ![f] = whole]
       /\ disk' = Touched(f)
       /\ jobs' = [jobs EXCEPT ![i].pc = "retain", ![i].sum = whole]
       /\ UNCHANGED <<time, master, crossed, restoring>>

\* A file cannot be read, and the archive is removed; or somebody else has
\* removed it, and it has no checksum.
ZipFails(i) ==
    /\ jobs[i].pc = "zip"
    /\ disk' = RemoveFirst(disk, jobs[i].file)
    /\ Goto(i, "failed")
    /\ UNCHANGED <<time, master, content, crossed, restoring>>

\* Faulty: the newest files are deleted.
RetainedOldest(s) == IF Len(s) <= AgentMax THEN s ELSE SubSeq(s, 1, AgentMax)

Retained(s) == Newest(s, AgentMax)

\* EnforceRetention, and the answer, which is lost on a master that has
\* stopped waiting.
Retain(i) ==
    /\ jobs[i].pc = "retain"
    /\ disk' = Retained(disk)
    /\ Goto(i, IF jobs[i].waits THEN "row" ELSE "failed")
    /\ UNCHANGED <<time, master, content, crossed, restoring>>

\* What RestoreBackup finds for a row; nothing compares the archive with the
\* checksum in the row.
Archive(r) == IF Contains(disk, rows[r].file) THEN {content[rows[r].file]} ELSE {}

-----------------------------------------------------------------------------
(* A restore: apiRestoreBackup, and RestoreBackup of the agent.            *)

\* The rows the page lists, newest first.
ListBackups == Reverse(Newest(rows, 50))

\* The path of a listed row is asked for.  Without an agent, or one that has the
\* instance, nothing begins.
apiRestoreBackup(row, stopBefore) ==
    /\ restore.pc = "none" /\ Cardinality({i \in Jobs : jobs[i].pc # "free"}) <= MaxBefore
    /\ restore' = [pc |-> IF stopBefore THEN "stop" ELSE "open", file |-> row.file,
                   sum |-> row.sum, wrote |-> Partial]
    /\ UNCHANGED <<time, master, jobs, agent, server, crossed>>

\* A server that cannot be stopped is written over while it runs.
RestoreStop ==
    /\ restore.pc = "stop"
    /\ restore' = [restore EXCEPT !.pc = "open"]
    /\ server' \in {FALSE, server}
    /\ UNCHANGED <<time, master, jobs, agent, crossed>>

\* An archive that is gone, or has no directory yet, cannot be opened.
RestoreOpen ==
    /\ restore.pc = "open"
    /\ restore' = IF Contains(disk, restore.file) /\ content[restore.file] # Partial
                  THEN [restore EXCEPT !.pc = "extract", !.wrote = content[restore.file]]
                  ELSE [restore EXCEPT !.pc = "failed"]
    /\ UNCHANGED <<time, master, jobs, agent, server, crossed>>

\* The entries are written over the work directory.  A file that is removed can
\* still be read; one that is written again meanwhile is another archive.  An
\* entry that cannot be written ends the restore half way.
RestoreExtract ==
    /\ restore.pc = "extract"
    /\ \/ restore' = [restore EXCEPT !.pc = "done",
                                     !.wrote = IF content[restore.file] = @ THEN @ ELSE Torn]
       \/ restore' = [restore EXCEPT !.pc = "failed", !.wrote = Torn]
    /\ UNCHANGED <<time, master, jobs, agent, server, crossed>>

RestoreStep ==
    \/ \E row \in ToSet(ListBackups), stopBefore \in BOOLEAN : apiRestoreBackup(row, stopBefore)
    \/ RestoreStop \/ RestoreOpen \/ RestoreExtract

JobStep(i) ==
    \/ RefusedScheduled(i) \/ RefusedManual(i) \/ GiveUp(i)
    \/ RecordScheduled(i) \/ RecordManual(i) \/ SetLastAt(i) \/ Trim(i)
    \/ \E f \in Names(i) : ZipBegins(i, f)
    \/ ZipWrites(i) \/ ZipEnds(i) \/ ZipFails(i) \/ Retain(i)

Next ==
    \/ Elapse
    \/ \E m \in Minutes : Tick(m)
    \/ CreateBackup
    \/ \E i \in Jobs : JobStep(i)
    \/ RestoreStep

Spec == Init /\ [][Next]_vars

-----------------------------------------------------------------------------
(* Properties.                                                             *)

JobState == [kind : Kind,
             pc : {"free", "launch", "zip", "retain", "row", "last", "trim", "done", "failed"},
             age : 0 .. MaxAge("scheduled"),
             waits : BOOLEAN,
             file : Jobs \cup {NoFile},
             sum : Jobs \cup {Partial, Torn}]

TypeOK ==
    /\ minute \in DOMAIN Calendar
    /\ ticker \in 0 .. TickPeriod
    /\ lastAge \in -1 .. Guard
    /\ jobs \in [Jobs -> JobState]
    /\ ToSet(disk) \subseteq Jobs /\ Len(disk) = Cardinality(ToSet(disk))
    /\ content \in [Jobs -> Jobs \cup {Partial, Torn}]
    /\ \A r \in DOMAIN rows : rows[r] \in [file : Jobs, sum : Jobs \cup {Partial, Torn}]
    /\ restore \in [pc : {"none", "stop", "open", "extract", "done", "failed"}, file : Jobs \cup {NoFile},
                    sum : Jobs \cup {Partial, Torn}, wrote : Jobs \cup {Partial, Torn}]
    /\ {server, crossed} \subseteq BOOLEAN

Scheduled == {i \in Jobs : jobs[i].kind = "scheduled" /\ jobs[i].pc # "free"}

\* A tick starts a backup.
Starts == ticker = 0 /\ ticker' # 0 /\ jobs' # jobs

\* What one would expect of the duplicate-run protection, and no run checks
\* because it is not so: no scheduled backup starts within 90 s of the
\* start of another, unless that one has failed.
DuplicatesBlocked ==
    [][Starts => \A i \in Scheduled : jobs[i].age >= Guard \/ jobs[i].pc = "failed"]_vars

\* What the guard on backup_last_at, which is written when a backup ends,
\* does achieve: a scheduled backup starts within 90 s of the start of another
\* only if that one has failed or is not over.
NoRepeatOfSuccess ==
    [][Starts => \A i \in Scheduled : jobs[i].age >= Guard \/ jobs[i].pc # "done"]_vars

\* No file had the name of another.
NamesDiffer ==
    \A i, k \in Jobs : i # k /\ jobs[i].file # NoFile => jobs[i].file # jobs[k].file

\* A restore that ends well has written the very archive whose checksum is in
\* the row it was asked for, while backups come and go, unless two of them began
\* in one second: the checksum itself is never compared.  So would a restore of
\* any other row whose file is still there.
RestoredIsRecorded ==
    NamesDiffer =>
       /\ restore.pc = "done" => restore.wrote = restore.sum
       /\ \A r \in DOMAIN rows : Archive(r) \subseteq {rows[r].sum}

\* Both retention policies, of the files and of the rows, keep the newest
\* backups: the newest rows, as many as the agent keeps files, can be
\* restored, if backups are made one after the other and none is given up.
NewestAreKept ==
    /\ ~crossed /\ AtWork = {} /\ NamesDiffer
    /\ \A i \in Jobs : jobs[i].file # NoFile => jobs[i].waits
    => \A r \in DOMAIN rows :
         r > Len(rows) - AgentMax => Archive(r) # {}

Meant == [m \in DOMAIN Calendar |-> \A expr \in Exprs : Means(expr, Calendar[m])]

\* The minute of each tick matches an expression only if the expression denotes it,
\* and whenever it does unless the expression has a range with a step; ValidateCron
\* accepts none of those, and what it accepts denotes values of each field, at least
\* one and no others (cronMatches, ValidateCron).
CronMeans == Meant[minute]

\* What the README says, that 5-field expressions are supported and "N-M/S
\* range+step" among them: a tick in a minute that the instance's expression denotes
\* begins a backup if none is on record.  It does not for N-M/S, which cronPartMatches
\* takes for N-M, whose end does not parse.
DenotedIsBackedUp ==
    [][\A m \in Minutes :
          Tick(m) /\ Denotes(Expr, Calendar[m]) /\ lastAge = -1 /\ HasFree => jobs' # jobs]_vars
=============================================================================
