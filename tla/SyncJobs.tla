------------------------------ MODULE SyncJobs ------------------------------
(***************************************************************************)
(* The sync page: one mapping with its targets (instances at agents), the  *)
(* handlers that edit them, the reload of the watcher's mappings, and the  *)
(* jobs that copy the one file of the mapping's directory to the targets,  *)
(* on demand or after a save.  The source directory is local, or the cache *)
(* of a directory of an instance, which a job reads first.  What the       *)
(* watcher does with the files is in FileSync.                             *)
(***************************************************************************)
EXTENDS Integers, FiniteSets

CONSTANTS
    Targets,     \* rows of sync_targets
    MaxHandlers, \* bound: requests that edit the mapping at the same time
    MaxJobs,     \* bound: jobs at the same time
    MaxOps       \* bound: requests, restarts, changes of the source instance

Handlers == 1 .. MaxHandlers
Jobs == 1 .. MaxJobs
Missing == -1
EmptyFile == 0

VARIABLES
    row,     \* the mapping: whether it exists, is enabled, has an agent as source
    target,  \* the target rows: "none", "off" or "on"
    request, \* the handlers that edit the mapping: pc, and what they have listed
    loaded,  \* the watcher has the mapping
    startup, \* and got it when the master started
    cache,   \* the file in the source directory: Missing, EmptyFile or its content
    origin,  \* the file in the source instance
    inst,    \* the file in each target instance
    saver,   \* the handler that saves the file: pc, and the content
    job,     \* the jobs
    record,  \* the last entry of sync_history for each target
    ops,     \* requests so far; they number the contents of the file
    raced,   \* history: a list of mappings was outdated before it was loaded
    calm     \* history: since the last save nothing came in between its job

config == <<row, target, request, loaded, startup, raced>>
files == <<cache, origin, inst>>
jobsVars == <<config, files, saver, job, record, ops, calm>>

NoRow == [on |-> FALSE, enabled |-> FALSE, agent |-> FALSE]
NoRequest == [pc |-> "idle", seen |-> FALSE]
NoJob == [pc |-> "idle", todo |-> {}, got |-> Missing]

JobsInit ==
    /\ row \in {NoRow} \cup [on : {TRUE}, enabled : {TRUE}, agent : BOOLEAN]
    /\ target = [t \in Targets |-> IF row.on THEN "on" ELSE "none"]
    /\ request = [h \in Handlers |-> NoRequest]
    /\ loaded = row.enabled /\ startup = row.enabled /\ raced = FALSE
    /\ cache = Missing /\ origin \in {Missing, EmptyFile + 1} /\ inst = [t \in Targets |-> Missing]
    /\ saver = [pc |-> "idle", val |-> Missing]
    /\ job = [j \in Jobs |-> NoJob]
    /\ record = [t \in Targets |-> "none"]
    /\ ops = 1 /\ calm = FALSE

Running == {j \in Jobs : job[j].pc # "idle"}

-----------------------------------------------------------------------------
(* Mappings.                                                               *)

\* A request, or another thing that happens to the master.
Op == ops < MaxOps /\ ops' = ops + 1

\* The statements on the mapping; an update of one that is not there has no
\* effect, and the targets go with the mapping (ON DELETE CASCADE).
CreateSyncMapping(r) == ~row.on /\ row' = r /\ UNCHANGED target
UpdateSyncMapping(r) == row' = (IF row.on THEN r ELSE row) /\ UNCHANGED target
DeleteSyncMapping == row' = NoRow /\ target' = [t \in Targets |-> "none"]

\* Handler h has changed the mapping, and goes on to the reload or is done; a
\* list another handler has made is outdated.
Changed(h, pc) ==
    /\ Op
    /\ request[h].pc = "idle" /\ \A g \in 1 .. h - 1 : request[g].pc # "idle"
    /\ request' = [request EXCEPT ![h].pc = pc]
    /\ raced' = (raced \/ \E g \in Handlers \ {h} : request[g].pc = "load")
    /\ calm' = FALSE
    /\ UNCHANGED <<loaded, startup, files, saver, job, record>>

\* A mapping with an agent as source is not one of the watcher's.
apiCreateSyncMapping(h, r) == CreateSyncMapping(r) /\ Changed(h, IF r.agent THEN "idle" ELSE "list")

\* Faulty: a mapping that becomes an agent's is left to the watcher.
UpdateUnlessAgent(h, r) == UpdateSyncMapping(r) /\ Changed(h, IF r.agent THEN "idle" ELSE "list")

apiUpdateSyncMapping(h, r) == UpdateSyncMapping(r) /\ Changed(h, "list")

apiDeleteSyncMapping(h) == DeleteSyncMapping /\ Changed(h, "list")

ListEnabledSyncMappings == {r \in {row} : r.enabled}

\* reloadWatcherMappings lists the enabled mappings with a local source ...
ListMappings(h) ==
    /\ request[h].pc = "list"
    /\ request' = [request EXCEPT ![h] = [pc |-> "load", seen |-> \E r \in ListEnabledSyncMappings : ~r.agent]]
    /\ raced' = (raced /\ \E g \in Handlers \ {h} : request[g].pc = "load")
    /\ UNCHANGED <<row, target, loaded, startup, files, saver, job, record, ops, calm>>

\* ... and gives them to the watcher.
LoadMappings(h) ==
    /\ request[h].pc = "load"
    /\ loaded' = request[h].seen /\ startup' = FALSE
    /\ request' = [request EXCEPT ![h] = NoRequest]
    /\ UNCHANGED <<row, target, files, saver, job, record, ops, raced, calm>>

\* When the master starts it gives the watcher all mappings that are enabled.
MasterStarts ==
    /\ Op
    /\ loaded' = (ListEnabledSyncMappings # {}) /\ startup' = loaded' /\ raced' = FALSE
    /\ request' = [h \in Handlers |-> NoRequest]
    /\ saver' = [pc |-> "idle", val |-> Missing]
    /\ job' = [j \in Jobs |-> NoJob]
    /\ calm' = FALSE
    /\ UNCHANGED <<row, target, files, record>>

-----------------------------------------------------------------------------
(* Targets.                                                                *)

\* The statements on the targets; all of them are replaced in a transaction.
CreateSyncTarget(t, s) == row.on /\ target[t] = "none" /\ target' = [target EXCEPT ![t] = s]
UpdateSyncTarget(t, s) == target' = [target EXCEPT ![t] = IF @ = "none" THEN @ ELSE s]
DeleteSyncTarget(t) == target' = [target EXCEPT ![t] = "none"]
BulkSetSyncTargets(f) == row.on /\ target' = f

\* No handler of a target reloads anything.
TargetsEdited ==
    /\ Op
    /\ calm' = FALSE
    /\ UNCHANGED <<row, request, loaded, startup, raced, files, saver, job, record>>

apiCreateSyncTarget(t, s) == CreateSyncTarget(t, s) /\ TargetsEdited
apiUpdateSyncTarget(t, s) == UpdateSyncTarget(t, s) /\ TargetsEdited
apiDeleteSyncTarget(t) == DeleteSyncTarget(t) /\ TargetsEdited
apiBulkSetSyncTargets(f) == BulkSetSyncTargets(f) /\ TargetsEdited

ListEnabledSyncTargets == {t \in Targets : target[t] = "on"}

-----------------------------------------------------------------------------
(* The file in the source directory, and in the source instance.           *)

\* os.WriteFile of apiWriteSyncFile and apiUploadSyncFile: the file is
\* truncated ...
SaveBegins ==
    /\ row.on /\ saver.pc = "idle" /\ Op
    /\ saver' = [pc |-> "write", val |-> ops + 1]
    /\ cache' = EmptyFile
    /\ calm' = (Running = {})
    /\ UNCHANGED <<config, origin, inst, job, record>>

\* Faulty: an upload does not start a job.
SaveEndsUntriggered ==
    /\ saver.pc = "write"
    /\ cache' = saver.val
    /\ saver' = [saver EXCEPT !.pc = "idle"]
    /\ UNCHANGED <<config, origin, inst, job, record, ops, calm>>

\* ... and written; triggerAutoSync is a goroutine of its own.
SaveEnds ==
    /\ saver.pc = "write"
    /\ cache' = saver.val
    /\ saver' = [saver EXCEPT !.pc = "trigger"]
    /\ UNCHANGED <<config, origin, inst, job, record, ops, calm>>

apiDeleteSyncFile ==
    /\ row.on /\ saver.pc = "idle" /\ cache # Missing /\ Op
    /\ cache' = Missing
    /\ calm' = FALSE
    /\ UNCHANGED <<config, origin, inst, saver, job, record>>

\* The server at the source instance changes its file.
OriginChanges ==
    /\ row.agent /\ Op
    /\ origin' = ops + 1
    /\ calm' = FALSE
    /\ UNCHANGED <<config, cache, inst, saver, job, record>>

-----------------------------------------------------------------------------
(* Jobs.                                                                   *)

\* A job starts with the mapping and the targets as they are now.
Start(j) ==
    /\ job[j].pc = "idle" /\ \A k \in 1 .. j - 1 : job[k].pc # "idle"
    /\ job' = [job EXCEPT ![j] = [pc |-> IF row.agent THEN "pull" ELSE "walk",
                                  todo |-> ListEnabledSyncTargets, got |-> Missing]]

\* apiExecuteSync, for mappings that are not enabled too.
apiExecuteSync(j) ==
    /\ row.on /\ ListEnabledSyncTargets # {} /\ Op
    /\ Start(j)
    /\ calm' = (calm /\ Running = {} /\ saver.pc = "idle")
    /\ UNCHANGED <<config, files, saver, record>>

triggerAutoSync(j) ==
    /\ saver.pc = "trigger"
    /\ IF row.enabled /\ ListEnabledSyncTargets # {} THEN Start(j) ELSE UNCHANGED job
    /\ saver' = [pc |-> "idle", val |-> Missing]
    /\ calm' = (calm /\ Running = {} /\ row.enabled)
    /\ UNCHANGED <<config, files, record, ops>>

Goto(j, pc) == job' = [job EXCEPT ![j].pc = pc]

\* What ListDirectory and ReadFile of the agent answer for the source instance.
ListDirectory == {f \in {"file"} : origin # Missing}
ReadFile == origin

\* The source instance's file is read, and the cache truncated ...
Pull(j) ==
    /\ job[j].pc = "pull" /\ "file" \in ListDirectory
    /\ job' = [job EXCEPT ![j].pc = "save", ![j].got = ReadFile]
    /\ cache' = EmptyFile
    /\ UNCHANGED <<config, origin, inst, saver, record, ops, calm>>

\* ... and written, whatever it held.
CachePulled(j) ==
    /\ job[j].pc = "save"
    /\ cache' = job[j].got
    /\ Goto(j, "walk")
    /\ UNCHANGED <<config, origin, inst, saver, record, ops, calm>>

\* The source has no file, or it cannot be read: the cache is as it was.  Or
\* the agent is offline or does not list its files, which ends the job.
PullFails(j) ==
    /\ job[j].pc = "pull"
    /\ \/ Goto(j, "walk") /\ UNCHANGED calm
       \/ job' = [job EXCEPT ![j] = NoJob] /\ calm' = FALSE
    /\ UNCHANGED <<config, files, saver, record, ops>>

\* filepath.Walk finds the file or does not.
Walk(j) ==
    /\ job[j].pc = "walk"
    /\ job' = [job EXCEPT ![j] = IF cache = Missing THEN NoJob ELSE [@ EXCEPT !.pc = "read"]]
    /\ UNCHANGED <<config, files, saver, record, ops, calm>>

\* The next target; the file is read for each of them anew.
ReadFor(j) ==
    /\ job[j].pc = "read" /\ job[j].todo # {}
    /\ job' = [job EXCEPT ![j].pc = "write", ![j].got = cache]
    /\ UNCHANGED <<config, files, saver, record, ops, calm>>

JobEnds(j) ==
    /\ job[j].pc = "read" /\ job[j].todo = {}
    /\ job' = [job EXCEPT ![j] = NoJob]
    /\ UNCHANGED <<config, files, saver, record, ops, calm>>

\* The order of the targets is that of their rows.
First(S) == CHOOSE t \in S : TRUE

Served(j, t) == job' = [job EXCEPT ![j].pc = "read", ![j].todo = @ \ {t}, ![j].got = Missing]

\* An entry of sync_history.
CreateSyncRecord(t, status) == record' = [record EXCEPT ![t] = status]

\* WriteFile at the agent, and the entry in the history.
WriteTo(j) ==
    LET t == First(job[j].todo) IN
    /\ job[j].pc = "write"
    /\ Served(j, t)
    /\ IF job[j].got = Missing THEN UNCHANGED <<inst, record>>
       ELSE inst' = [inst EXCEPT ![t] = job[j].got] /\ CreateSyncRecord(t, "completed")
    /\ UNCHANGED <<config, cache, origin, saver, ops, calm>>

\* The agent is offline (no entry), or the write fails (an entry).
WriteFails(j) ==
    LET t == First(job[j].todo) IN
    /\ job[j].pc = "write"
    /\ Served(j, t)
    /\ \/ UNCHANGED record
       \/ job[j].got # Missing /\ CreateSyncRecord(t, "failed")
    /\ calm' = FALSE
    /\ UNCHANGED <<config, files, saver, ops>>

JobStep(j) ==
    \/ Pull(j) \/ CachePulled(j) \/ PullFails(j) \/ Walk(j)
    \/ ReadFor(j) \/ JobEnds(j) \/ WriteTo(j) \/ WriteFails(j)

Rows == [on : {TRUE}, enabled : BOOLEAN, agent : BOOLEAN]

JobsNext ==
    \/ \E h \in Handlers :
         \/ \E r \in Rows : apiCreateSyncMapping(h, r) \/ apiUpdateSyncMapping(h, r)
         \/ apiDeleteSyncMapping(h) \/ ListMappings(h) \/ LoadMappings(h)
    \/ MasterStarts
    \/ \E t \in Targets, s \in {"on", "off"} :
         apiCreateSyncTarget(t, s) \/ apiUpdateSyncTarget(t, s) \/ apiDeleteSyncTarget(t)
    \/ \E f \in [Targets -> {"none", "on"}] : apiBulkSetSyncTargets(f)
    \/ SaveBegins \/ SaveEnds \/ apiDeleteSyncFile \/ OriginChanges
    \/ \E j \in Jobs : apiExecuteSync(j) \/ triggerAutoSync(j) \/ JobStep(j)

JobsSpec == JobsInit /\ [][JobsNext]_jobsVars

-----------------------------------------------------------------------------
(* Properties.                                                             *)

Contents == {Missing, EmptyFile} \cup (1 .. MaxOps)

JobsTypeOK ==
    /\ row \in Rows \cup {NoRow}
    /\ target \in [Targets -> {"none", "on", "off"}]
    /\ request \in [Handlers -> [pc : {"idle", "list", "load"}, seen : BOOLEAN]]
    /\ {loaded, startup, raced, calm} \subseteq BOOLEAN
    /\ {cache, origin} \subseteq Contents /\ inst \in [Targets -> Contents]
    /\ saver \in [pc : {"idle", "write", "trigger"}, val : Contents]
    /\ job \in [Jobs -> [pc : {"idle", "pull", "save", "walk", "read", "write"},
                         todo : SUBSET Targets, got : Contents]]
    /\ record \in [Targets -> {"none", "completed", "failed"}]
    /\ ops \in 1 .. MaxOps

\* Between requests the watcher has the mapping exactly if the database has
\* it enabled with a local source, unless a request changed the mapping
\* between another's list and its load.  (After a start of the master it has
\* the mappings of agents too, until the first reload.)
WatchFollowsRows ==
    ~raced /\ (\A h \in Handlers : request[h].pc = "idle") =>
       (loaded <=> row.enabled /\ (startup \/ ~row.agent))

\* A save reaches every enabled target when its job is over, if neither
\* another save or job, nor an edit, nor a failure came in between.  (Of a
\* mapping with an agent as source it is the pulled file that does, and the
\* save is lost.)
SaveReachesTargets ==
    calm /\ saver.pc = "idle" /\ Running = {} =>
       \A t \in Targets : target[t] = "on" => inst[t] = cache
=============================================================================
