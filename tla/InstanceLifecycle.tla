-------------------------- MODULE InstanceLifecycle --------------------------
(***************************************************************************)
(* The creation and the deletion of an instance: a Minecraft instance of   *)
(* one name on one agent, with auto_start and start-after-create set.      *)
(*                                                                         *)
(* The handlers apiCreateInstance and apiDeleteInstance of the master work *)
(* on it, each with the calls it makes to the agent (CreateInstance and    *)
(* UploadServerData, DeleteInstance), which go on when the handler has     *)
(* given up waiting for them; and syncInstances, one goroutine per         *)
(* heartbeat reply, serialised by syncMu.  They are cut where they release *)
(* a lock, run a docker command, touch the work directory or make a call.  *)
(* Operator starts and stops are in DockerProcess.                         *)
(***************************************************************************)
EXTENDS Naturals

CONSTANTS
    Worlds,     \* what may happen, see World
    MaxReplies  \* bound: heartbeat replies that wait for syncMu

\* Each behaviour is in one world: what its requests and replies overlap
\* with, whether calls to the agent get lost or time out, which docker
\* commands and file copies fail, whether the agent restarts, and whether
\* the server comes as a zip, with a jar of another name than the server.jar
\* that the row then names.  In overlap, "create" and
\* "delete" are heartbeat replies handled during such a request, "requests"
\* is a deletion during a creation.
World == [overlap : SUBSET {"create", "delete", "requests"},
          lost : BOOLEAN,
          fails : SUBSET {"create", "rm", "copy"},
          restarts : BOOLEAN,
          zip : BOOLEAN]

ASSUME WorldsAssumption == Worlds \subseteq World
ASSUME MaxRepliesAssumption == MaxReplies \in Nat

VARIABLES
    world,     \* the world of this behaviour
    row,       \* the instances table has the instance
    container, \* the Docker container exists
    up,        \* and runs
    entry,     \* Agent.instances has the instance
    def,       \* Agent.defs has it: "none", with the jar of the "row", or a "detected" one
    data,      \* the work directory: "none", "dir", "partial" or complete "jar"
    creq,      \* apiCreateInstance
    crpc,      \* its CreateInstance call, at the agent
    urpc,      \* its UploadServerData call, at the agent
    dreq,      \* apiDeleteInstance
    drpc,      \* its DeleteInstance call, at the agent
    wipe,      \* the call is to remove the work directory
    sync,      \* syncInstances, the goroutine that has syncMu
    replies    \* the goroutines that wait for it

master == <<row, creq, dreq>>
docker == <<container, up>>
maps == <<entry, def>>
calls == <<crpc, urpc, drpc, wipe>>
syncing == <<sync, replies>>
vars == <<world, master, docker, maps, data, calls, syncing>>

TypeOK ==
    /\ world \in Worlds
    /\ row \in BOOLEAN /\ container \in BOOLEAN /\ up \in BOOLEAN
    /\ entry \in BOOLEAN /\ wipe \in BOOLEAN
    /\ up => container
    /\ def \in {"none", "row", "detected"}
    /\ data \in {"none", "dir", "partial", "jar"}
    /\ creq \in {"idle", "call", "wait", "upload", "sent", "start"}
    /\ crpc \in {"idle", "lookup", "ensure", "make", "add", "def"}
    /\ urpc \in {"idle", "receive", "copy", "detect"}
    /\ dreq \in {"idle", "call", "wait", "row"}
    /\ drpc \in {"idle", "stop", "remove", "forget", "data"}
    /\ sync \in {"idle", "lookup", "ensure", "make", "add", "def", "start"}
    /\ replies \in 0 .. MaxReplies

Init ==
    /\ world \in Worlds
    /\ row = FALSE /\ container = FALSE /\ up = FALSE
    /\ entry = FALSE /\ def = "none" /\ wipe = FALSE
    /\ data = "none"
    /\ creq = "idle" /\ crpc = "idle" /\ urpc = "idle" /\ dreq = "idle" /\ drpc = "idle"
    /\ sync = "idle" /\ replies = 0

Creating == creq # "idle" \/ crpc # "idle" \/ urpc # "idle"
Deleting == dreq # "idle" \/ drpc # "idle"
Syncing == sync # "idle" \/ replies > 0

-----------------------------------------------------------------------------
(* What the docker commands of the agent do.                               *)

ContainerExists == container

\* docker create refuses a name in use.
DockerCreate ==
    /\ ~container
    /\ container' = TRUE

\* The name is in use, or the pull or docker create fails.
DockerCreateFails ==
    /\ container \/ "create" \in world.fails
    /\ UNCHANGED container

\* docker rm -f.
DockerRemove ==
    /\ container' = FALSE
    /\ up' = FALSE

-----------------------------------------------------------------------------
(* apiCreateInstance.                                                      *)

\* The form: whether agent and name are given and valid, what kind of file
\* the jar field has, and whether the zip field has one.
Form == [agent : BOOLEAN, name : BOOLEAN, jar : {"none", "jar", "zip"}, zip : BOOLEAN]

\* What is uploaded: a zip in the jar field counts as one, and a zip goes
\* before a jar.
Uploaded(f) == IF f.zip THEN "zip" ELSE f.jar

\* The form is refused before anything is written unless it names an agent
\* and an instance and brings a file.
Accepted(f) == f.agent /\ f.name /\ Uploaded(f) # "none"

\* CreateInstance in the database fails when the row exists.
InsertInstance ==
    /\ ~row
    /\ row' = TRUE

CreateRow ==
    /\ creq = "idle"
    /\ "create" \in world.overlap \/ ~Syncing
    /\ "requests" \in world.overlap \/ ~Deleting
    /\ \E f \in Form : Accepted(f) /\ (Uploaded(f) = "zip") = world.zip
    /\ InsertInstance
    /\ creq' = "call"
    /\ UNCHANGED <<world, dreq, docker, maps, data, calls, syncing>>

\* The CreateInstance call arrives at the agent.
CreateInstance ==
    /\ creq' = "wait"
    /\ crpc' = "lookup"

\* Without an answer there is neither an upload nor a start.
CreateCall ==
    /\ creq = "call" /\ crpc = "idle"
    /\ \/ CreateInstance
       \/ world.lost /\ creq' = "idle" /\ UNCHANGED crpc
    /\ UNCHANGED <<world, row, dreq, docker, maps, data, urpc, drpc, wipe, syncing>>

\* The 60 s of the call, the 10 minutes of the upload are over; the agent goes on.
CreateTimeout ==
    /\ world.lost
    /\ creq \in {"wait", "sent"}
    /\ creq' = "idle"
    /\ UNCHANGED <<world, row, dreq, docker, maps, data, calls, syncing>>

\* The chunks of the file, after an answer of either kind.
streamUploadServerData ==
    /\ creq = "upload" /\ urpc = "idle"
    /\ \/ creq' = "sent" /\ urpc' = "receive"
       \/ world.lost /\ creq' = "idle" /\ UNCHANGED urpc
    /\ UNCHANGED <<world, row, dreq, docker, maps, data, crpc, drpc, wipe, syncing>>

\* UploadServerData answers; the start only follows a success.
UploadAnswer(success) ==
    /\ urpc' = "idle"
    /\ creq' = IF creq # "sent" THEN creq ELSE IF success THEN "start" ELSE "idle"

\* The chunks are collected in a temporary file, and the first file is
\* created in the work directory; when the stream breaks nothing is.
UploadServerData ==
    /\ urpc = "receive"
    /\ \/ data' = "partial" /\ urpc' = "copy" /\ UNCHANGED creq
       \/ world.lost /\ UploadAnswer(FALSE) /\ UNCHANGED data
    /\ UNCHANGED <<world, row, dreq, docker, maps, crpc, drpc, wipe, syncing>>

\* The copy fails, and what it wrote stays.
UploadFails ==
    /\ urpc = "copy" /\ "copy" \in world.fails
    /\ UploadAnswer(FALSE)
    /\ UNCHANGED <<world, row, dreq, docker, maps, data, crpc, drpc, wipe, syncing>>

\* The jar is written, if it has not been removed from under the copy.
CopyJar ==
    /\ urpc = "copy" /\ ~world.zip
    /\ data' = IF data = "partial" THEN "jar" ELSE data
    /\ UploadAnswer(TRUE)
    /\ UNCHANGED <<world, row, dreq, docker, maps, crpc, drpc, wipe, syncing>>

\* The zip is unpacked, with the directories that are missing: what has been
\* removed meanwhile is missing, what follows is written.
extractServerZip ==
    /\ urpc = "copy" /\ world.zip
    /\ data' = IF data = "partial" THEN "jar" ELSE "partial"
    /\ urpc' = "detect"
    /\ UNCHANGED <<world, master, docker, maps, crpc, drpc, wipe, syncing>>

\* The definition, if there is one, gets the name of the jar in the zip.
DetectJar ==
    /\ urpc = "detect"
    /\ def' = IF def = "none" THEN def ELSE "detected"
    /\ UploadAnswer(TRUE)
    /\ UNCHANGED <<world, row, dreq, docker, entry, data, crpc, drpc, wipe, syncing>>

\* ControlInstance(start), which needs the entry and the container.
StartAfterUpload ==
    /\ creq = "start"
    /\ up' = (up \/ (entry /\ container))
    /\ creq' = "idle"
    /\ UNCHANGED <<world, row, dreq, container, maps, data, calls, syncing>>

\* CreateNewInstance answers, with success or without.
Answer ==
    /\ crpc' = "idle"
    /\ creq' = IF creq = "wait" THEN "upload" ELSE creq

\* The duplicate check, and the work directory.
CreateLookup ==
    /\ crpc = "lookup"
    /\ \/ entry /\ Answer /\ UNCHANGED data
       \/ ~entry /\ crpc' = "ensure" /\ UNCHANGED creq
          /\ data' = IF data = "none" THEN "dir" ELSE data
    /\ UNCHANGED <<world, row, dreq, docker, maps, urpc, drpc, wipe, syncing>>

\* ContainerExists in ensureDockerContainerCtx.
CreateEnsure ==
    /\ crpc = "ensure"
    /\ crpc' = IF ContainerExists THEN "add" ELSE "make"
    /\ UNCHANGED <<world, master, docker, maps, data, urpc, drpc, wipe, syncing>>

\* The pull and docker create.
CreateMake ==
    /\ crpc = "make"
    /\ \/ DockerCreate /\ crpc' = "add" /\ UNCHANGED creq
       \/ DockerCreateFails /\ Answer
    /\ UNCHANGED <<world, row, dreq, up, maps, data, urpc, drpc, wipe, syncing>>

\* AddInstance.
CreateAdd ==
    /\ crpc = "add"
    /\ \/ entry /\ Answer
       \/ ~entry /\ crpc' = "def" /\ UNCHANGED creq
    /\ entry' = TRUE
    /\ UNCHANGED <<world, row, dreq, docker, def, data, urpc, drpc, wipe, syncing>>

CreateDef ==
    /\ crpc = "def"
    /\ def' = "row"
    /\ Answer
    /\ UNCHANGED <<world, row, dreq, docker, entry, data, urpc, drpc, wipe, syncing>>

-----------------------------------------------------------------------------
(* apiDeleteInstance.                                                      *)

DeleteRequest ==
    /\ dreq = "idle" /\ row
    /\ "delete" \in world.overlap \/ ~Syncing
    /\ "requests" \in world.overlap \/ ~Creating
    /\ dreq' = "call"
    /\ UNCHANGED <<world, row, creq, docker, maps, data, calls, syncing>>

\* The DeleteInstance call arrives, and RemoveInstance finds the instance.
DeleteInstance ==
    /\ entry
    /\ drpc' = "stop"
    /\ wipe' \in {FALSE, def # "none"}

\* Whatever the answer, and without one, the handler goes on to the row.
DeleteCall ==
    /\ dreq = "call" /\ drpc = "idle"
    /\ \/ DeleteInstance /\ dreq' = "wait"
       \/ (~entry \/ world.lost) /\ dreq' = "row" /\ UNCHANGED <<drpc, wipe>>
    /\ UNCHANGED <<world, row, creq, docker, maps, data, crpc, urpc, syncing>>

\* The 30 s are over (Stop alone may take 35 s); the agent goes on.
DeleteTimeout ==
    /\ world.lost
    /\ dreq = "wait"
    /\ dreq' = "row"
    /\ UNCHANGED <<world, row, creq, docker, maps, data, calls, syncing>>

\* The instance's DNS record and networks, and then its row, are deleted.
DeleteRow ==
    /\ dreq = "row"
    /\ row' = FALSE
    /\ dreq' = "idle"
    /\ UNCHANGED <<world, creq, docker, maps, data, calls, syncing>>

RemoveStop ==
    /\ drpc = "stop"
    /\ up' = FALSE
    /\ drpc' = "remove"
    /\ UNCHANGED <<world, master, container, maps, data, crpc, urpc, wipe, syncing>>

\* Faulty: the container is stopped and left.
RemoveNothing ==
    /\ drpc = "remove"
    /\ drpc' = "forget"
    /\ UNCHANGED <<world, master, docker, maps, data, crpc, urpc, wipe, syncing>>

\* If there is a container it is removed; a failure is logged.
RemoveContainer ==
    /\ drpc = "remove"
    /\ \/ DockerRemove
       \/ (~ContainerExists \/ "rm" \in world.fails) /\ UNCHANGED docker
    /\ drpc' = "forget"
    /\ UNCHANGED <<world, master, maps, data, crpc, urpc, wipe, syncing>>

RemoveEntry ==
    /\ drpc = "forget"
    /\ entry' = FALSE
    /\ def' = "none"
    /\ drpc' = "data"
    /\ UNCHANGED <<world, master, docker, data, crpc, urpc, wipe, syncing>>

\* RemoveAll, and the answer.
RemoveData ==
    /\ drpc = "data"
    /\ data' = IF wipe THEN "none" ELSE data
    /\ drpc' = "idle"
    /\ dreq' = IF dreq = "wait" THEN "row" ELSE dreq
    /\ UNCHANGED <<world, row, creq, docker, maps, crpc, urpc, wipe, syncing>>

-----------------------------------------------------------------------------
(* Heartbeat replies and syncInstances.                                    *)

\* Heartbeat answers with the rows, and the agent starts a goroutine.
Reply ==
    /\ row /\ replies < MaxReplies
    /\ "create" \in world.overlap \/ ~Creating
    /\ "delete" \in world.overlap \/ ~Deleting
    /\ replies' = replies + 1
    /\ UNCHANGED <<world, master, docker, maps, data, calls, sync>>

SyncBegin ==
    /\ sync = "idle" /\ replies > 0
    /\ sync' = "lookup"
    /\ replies' = replies - 1
    /\ UNCHANGED <<world, master, docker, maps, data, calls>>

SyncLookup ==
    /\ sync = "lookup"
    /\ \/ entry /\ sync' = "idle" /\ UNCHANGED data
       \/ ~entry /\ sync' = "ensure" /\ data' = IF data = "none" THEN "dir" ELSE data
    /\ UNCHANGED <<world, master, docker, maps, calls, replies>>

\* Faulty: an instance with a container is taken for a registered one.
SyncEnsureSkips ==
    /\ sync = "ensure"
    /\ sync' = IF ContainerExists THEN "idle" ELSE "make"
    /\ UNCHANGED <<world, master, docker, maps, data, calls, replies>>

SyncEnsure ==
    /\ sync = "ensure"
    /\ sync' = IF ContainerExists THEN "add" ELSE "make"
    /\ UNCHANGED <<world, master, docker, maps, data, calls, replies>>

\* Faulty: an instance is registered though docker create has failed.
SyncMakeAnyway ==
    /\ sync = "make"
    /\ DockerCreate \/ DockerCreateFails
    /\ sync' = "add"
    /\ UNCHANGED <<world, master, up, maps, data, calls, replies>>

SyncMake ==
    /\ sync = "make"
    /\ \/ DockerCreate /\ sync' = "add"
       \/ DockerCreateFails /\ sync' = "idle"
    /\ UNCHANGED <<world, master, up, maps, data, calls, replies>>

SyncAdd ==
    /\ sync = "add"
    /\ sync' = IF entry THEN "idle" ELSE "def"
    /\ entry' = TRUE
    /\ UNCHANGED <<world, master, docker, def, data, calls, replies>>

SyncDef ==
    /\ sync = "def"
    /\ def' = "row"
    /\ sync' = "start"
    /\ UNCHANGED <<world, master, docker, entry, data, calls, replies>>

\* Faulty: the auto-start does not look for the file.
SyncStartBlindly ==
    /\ sync = "start"
    /\ up' = (up \/ (entry /\ container))
    /\ sync' = "idle"
    /\ UNCHANGED <<world, master, container, maps, data, calls, replies>>

\* The file that the definition names is there.
HasJar == data \in {"partial", "jar"} /\ (world.zip => def = "detected")

\* Auto-start, if the file is there.
SyncStart ==
    /\ sync = "start"
    /\ up' = (up \/ (entry /\ container /\ HasJar))
    /\ sync' = "idle"
    /\ UNCHANGED <<world, master, container, maps, data, calls, replies>>

\* The agent's memory is lost and the calls to it fail.
AgentRestart ==
    /\ world.restarts
    /\ entry' = FALSE /\ def' = "none"
    /\ crpc' = "idle" /\ urpc' = "idle" /\ drpc' = "idle"
    /\ sync' = "idle" /\ replies' = 0
    /\ creq' = IF creq = "call" THEN "call" ELSE "idle"
    /\ dreq' = IF dreq = "wait" THEN "row" ELSE dreq
    /\ UNCHANGED <<world, row, docker, data, wipe>>

CreateStep == CreateCall \/ streamUploadServerData \/ StartAfterUpload
UploadStep == UploadServerData \/ UploadFails \/ CopyJar \/ extractServerZip \/ DetectJar
CreateRpcStep == CreateLookup \/ CreateEnsure \/ CreateMake \/ CreateAdd \/ CreateDef
DeleteStep == DeleteCall \/ DeleteRow
RemoveStep == RemoveStop \/ RemoveContainer \/ RemoveEntry \/ RemoveData
SyncStep == SyncBegin \/ SyncLookup \/ SyncEnsure \/ SyncMake \/ SyncAdd \/ SyncDef \/ SyncStart

Next ==
    \/ CreateRow \/ CreateTimeout \/ CreateStep \/ CreateRpcStep \/ UploadStep
    \/ DeleteRequest \/ DeleteTimeout \/ DeleteStep \/ RemoveStep
    \/ Reply \/ SyncStep
    \/ AgentRestart

\* What has begun goes on, and heartbeats are answered.
Fairness ==
    /\ WF_vars(CreateStep) /\ WF_vars(CreateRpcStep) /\ WF_vars(UploadStep)
    /\ WF_vars(DeleteStep) /\ WF_vars(RemoveStep)
    /\ SF_vars(Reply) /\ WF_vars(SyncStep)

Spec == Init /\ [][Next]_vars /\ Fairness

-----------------------------------------------------------------------------
(* Properties.                                                             *)

Quiet == ~Creating /\ ~Deleting /\ ~Syncing

\* When all requests and replies are dealt with, a deleted instance has left
\* nothing on the agent that runs or would be reported.
DeletedIsGone == Quiet /\ ~row => ~entry /\ ~container

\* Deletions that no reply or creation overlaps, that reach the agent and
\* whose docker rm works, are complete: also of an instance that heartbeat
\* replies and the creation call created in a race.
LoneDeletionIsComplete ==
    /\ world.overlap \subseteq {"create"}
    /\ ~world.lost /\ "rm" \notin world.fails /\ ~world.restarts
    => DeletedIsGone

\* Until a deletion overlaps with something, what the agent reports has a
\* container and a definition, whatever fails.
EntryIsWhole ==
    world.overlap \subseteq {"create"} /\ Quiet /\ entry => container /\ def # "none"

\* The server is only started with its file in place: the start waits for the
\* upload, and the auto-start of a synchronisation for the file.  The file is
\* whole unless a reply came during the creation, or a copy that failed or was
\* cut off by a restart has left a part of it.
StartsWithJar ==
    [][~up /\ up' /\ world.overlap \subseteq {"create"} =>
         /\ data \in {"partial", "jar"}
         /\ world.overlap = {} /\ "copy" \notin world.fails /\ ~world.restarts
            => data = "jar"]_vars

\* The agent is restarted now and then, not for ever.
AgentStays == <>[][~AgentRestart]_vars

\* An instance that stays in the database is, for good, on the agent, whatever
\* becomes of the calls of its creation and however often the agent restarts.
CreatedArrives ==
    world.overlap \subseteq {"create"} /\ world.fails = {} /\ AgentStays /\ <>[]row
    => <>[](entry /\ container)
=============================================================================
