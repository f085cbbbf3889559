# A verification project for CraftStack

CraftStack manages game and database servers in Docker containers on several
machines: one *master* (web UI, database, scheduler) and one *agent* per machine,
which talk over gRPC. This directory holds TLA+ models of its control logic, TLC
configurations that model-check them and TLAPS proofs of their main invariants.
Paths below are relative to the root of the repository.

- `PROJECT.json` lists the components, the runs, which definition models which lines
  (`map`), the findings, the hazards of the code and the theorems.
- A run is `tlc -config X.cfg M`; a proof module is checked with `tlapm M.tla`.
- Definitions marked *Faulty* are variants with a plausible bug; substituted for the
  definition they precede they make a property fail, which shows that the property
  depends on that code. No specification uses them.

## 1. The system

### 1.1 Components, their state and their operations

| Component | State | Operations | Module |
|---|---|---|---|
| Container lifecycle, `internal/agent/process/docker.go` | `state`, the channels `stopCh` and `logCh`, `logCancel`, `outputWg`; the container in dockerd | Start, Stop, Kill, Restart, waitForExit, streamLogs, RefreshState | `DockerProcess` |
| Auto-restart, `internal/agent/auto_restart.go` | crash counts, last attempts, sleeping goroutines | one pass every 5 s | `AutoRestart` |
| Agent registry, `internal/master/server.go`, `grpc_agent_service.go` | agents map, sync targets, tables `nodes` and `instances` | RegisterAgent, Heartbeat, healthCheckLoop, ResetAllStatus, the overlays of the pages | `AgentRegistry` |
| Database schema, `internal/master/store/db.go`, `migrations.go` | tables, columns, `schema_migrations` | New, migrate | `Schema` |
| Instance creation and deletion, `internal/master/web/handler_instance.go`, `internal/agent/instance_manager.go`, `instance_sync.go`, `grpc_agent_service.go` | the row, the container, the agent's maps, the work directory | apiCreateInstance, apiDeleteInstance, CreateNewInstance, RemoveInstance, UploadServerData, syncInstances | `InstanceLifecycle` |
| Backups, `internal/master/scheduler.go`, `web/handler_backup.go`, `store/backup.go`, `internal/agent/backup/backup.go` | `backup_last_at`, table `backups`, archive files | tick, runBackup, apiCreateBackup, BackupInstance, EnforceRetention, apiRestoreBackup, cron matching and validation | `BackupScheduler`, `Cron` |
| File sync, `internal/master/watcher`, `sync`, `file_pusher.go`, `internal/agent/grpc_sync_service.go` | mappings of the watcher, pending events, targets, temporary files | LoadMappings, debouncing, handleEvent, pushFileToAgent, PushFile | `FileSync` |
| Sync page and jobs, `internal/master/web/handler_sync.go`, `store/sync_mapping.go` | mappings, targets, cached files, `sync_history` | edits of mappings and targets, saves, executeSyncJob | `SyncJobs` |
| Mesh, `internal/master/mesh.go`, `internal/agent/wireguard` | keys, indices, peer configurations | OnAgentRegistered, PushConfigToAllAgents, ApplyConfig | `Mesh` |
| Docker networks and DNS, `internal/master/web/handler_network.go`, `store/network.go`, `internal/agent/dns` | networks, connections, records; networks and containers at the nodes | create, delete, connect, disconnect, RegisterInstanceDNS, UpdateRecords, handleQuery | `DockerNetworks` |
| Log forwarding, `internal/agent/log_streamer.go` | the forwarder map, channels, batches, streams | logStreamLoop, forwardLogs, runLogStream | `LogForwarder` |
| Console, `internal/master/log_buffer.go`, `web/ws.go` | ring buffers, channels, connections and their queues | BroadcastLog, the hub, handleWSLogs, commands | `Console`, `LogTail` |
| Accounts, `web/handler_auth.go`, `store/user.go` | users, sessions | login, registration, changes of users | `Accounts` |
| Settings and audit, `web/handler_instance.go`, `handler_audit.go`, `store/audit.go` | the settings of an instance, `audit_logs` | apiUpdateInstance, apiControlInstance, apiRollbackAuditLog | `Settings` |
| File manager and git, `web/handler_file.go`, `internal/agent/grpc_file_service.go`, `grpc_git.go` | work directory, index, commits, request contexts | all operations on files, GitCommit, restores | `FileManager` |
| Metrics, `internal/agent/heartbeat.go`, `internal/master/metrics_cache.go`, `observability` | caches, `instance_metrics`, what was exported | Stats, heartbeats, pruning, exporters | `Metrics` |

### 1.2 How they interact

The agent registers once, when it starts, and then keeps a heartbeat stream; every
15 s it reports its instances and gets the rows the database has for it, which
`syncInstances` turns into containers and processes, and the DNS records. The master
calls the agent for everything an operator asks for (start, stop, create, delete, back
up, connect, edit a file), each call with a timeout, while the agent's handler does not
look at the cancelled context and goes on. On the agent, gRPC handlers, the auto-restart
loop and the heartbeat goroutines operate on the same `DockerProcess`. On the master,
the web handlers, the heartbeat handler, the health check and the goroutines that
handlers start and leave behind (mesh, DNS, commits, sync jobs) write the same tables.

### 1.3 What is hard

- goroutines of different generations of one process share its channels;
- decisions are taken on one tick and carried out minutes later;
- the registry keeps four copies of who is online, changed in several sections;
- a reply, a list or a call that was computed before a change is applied after it;
- a call is given up by the master and completed by the agent;
- a full channel blocks a reader for as long as nobody empties it;
- a statement, an insert or a query fails, is logged, and the handler goes on;
- a row is read in one statement and written back in another;
- agent and master restart independently, and containers outlive both.

The list `hazards` has each with its line and the properties that watch it. Where a
property holds only outside the race itself, and a history variable of the module marks
the race, the note of the hazard says so: the property then shows that nothing else can
do the damage.

### 1.4 What makes each component correct

- *DockerProcess*: the agent does not panic; a process reported as running is
  watched; an exit reaches `State()` and `Stop` returns, as long as the log is read.
- *AutoRestart*: crashes are answered, up to the limit, one attempt at a time; what
  the operator has stopped stays down, if its Stop went well.
- *AgentRegistry*: the copies agree; a dead agent is forgotten everywhere, a live one
  is online.
- *Schema*: the database has the objects of exactly the versions it records.
- *InstanceLifecycle*: a row is an instance on the agent and no row is none; an agent
  reports only whole instances; a server starts only with its files.
- *BackupScheduler*: no repetition of a backup that succeeded; the newest backups can
  be restored, and a restore brings back what was recorded; a cron expression matches
  what it denotes.
- *FileSync*, *SyncJobs*: a target's file never has parts of two versions, never gets
  older and ends up as the source; the watcher has the mappings of the table; a save
  reaches its targets.
- *Mesh*, *DockerNetworks*: addresses differ; every online host has the configuration of
  the current nodes; what the tables say of connections and names is so at the nodes.
- *LogForwarder*, *Console*: lines arrive in order, once, and are not missed; the history
  is the latest lines; nothing sends on a closed queue.
- *Accounts*: a session says what the table says of its user.
- *Settings*: the audit log tells the settings, and an entry is rolled back once.
- *FileManager*: what was changed is committed, under the right author.
- *Metrics*: counters do not fall; the history goes back as far as it is meant to.

## 2. Plan

Done: the modules above, with a run each or a share of one, and proofs about every
component, the refinement of `LogTail` included: see section 6.

Nothing of the plan is left. No module declares a `RECURSIVE` operator, so all can be
proved about; what the prover cannot do is at the end of section 6.

## 3. The modules

### 3.1 DockerProcess

One `DockerProcess` object with any number of *callers* (the goroutines that call it),
a *watcher* (`waitForExit`) and a log *stream* (`streamLogs`) per successful Start. A
Start makes a *generation*: its channels, context, watcher and stream carry its number,
so that a goroutine holding an old channel is told from one that reads the field
again. Every section under `d.mu`, docker command, channel and WaitGroup operation is a
step. A close of a closed channel, a send on one and a reuse of the WaitGroup end the
agent (`agent = "panicked"`), after which `AgentRestart` starts over with RefreshState.
The container is external: it exits when it likes, and the restart policy
`unless-stopped` (`docker/images.go:217`) brings it back.

The two readers of a stream block when the log channel is full: `ReaderBlocks` and
`ReaderGoesOn` put a pair of stream and channel into `stuck` and take it out when a line
was read. A stream ends (`StreamEnds`) when none of its readers is blocked, and a blocked
reader whose channel is closed panics. Nothing says that a line is ever read: the
forwarder stops reading while the master is away.

Left out: pid, uptime, the text of the logs, how many lines a channel holds.

### 3.2 AutoRestart

One instance with auto-restart, an operator, and the loop. Time advances by the 5 s
ticks. The process is taken at whole operations. Stop either does its work
(`OperatorStops`) or falls back to Kill (`StopFallsBack`), because docker stop failed or
because the watcher did not close `stopCh` in time; the watcher then finds the process no
longer stopping and writes what the exit code says. A kill may fail, and the container
goes on (`Killed`). `wanted` and `meddled` are history:
what the operator asked for last, and whether a Start came into a pending restart.
`WaitsGrow` says that each attempt waits longer than the one before. With the default
delay of 10 s, five attempts and the cap of 5 min it is so, and TLC evaluates it in
`ar_loop`.

### 3.3 AgentRegistry and Schema

Any number of agents, each with a link that may be cut, an instance that starts and
stops, and a handler cut at lock releases and SQL statements. Time advances by the 30 s
of `healthCheckLoop`; a silence of more than `Limit` ticks is a timeout. A pass holds
`GRPCServer.mu` and deals with each agent it found in three statements: `check` is how
far it is with each, `Locked` keeps the handlers out that need the lock, and heartbeats
of instances and operators come in between. When ListInstances fails, the instances are
left as they are (`skipped`, history) until the next pass; that the update of a single
row fails is not modelled. Two facts of
time are assumed: a connected agent has sent a heartbeat since the last tick (it sends
one every 15 s), and no handler lasts from one tick to the next. `overlayNodeStatus` and
`overlayInstanceStatus` are what the pages make of memory and tables.

`Schema` is the opening of the database: every migration is the tables it creates and
the columns it adds, each applied with its version in one transaction, by masters that
die, fail and are started again, on a database any earlier release has left.

### 3.4 InstanceLifecycle

One instance name on one agent; handlers and calls are separate, so that a call goes on
after its handler has given up. A behaviour is in one *world*, which says what may
overlap and what may fail; this makes precise under which circumstances a property
holds, in one state space. Process details are left to `DockerProcess` (an operator's
Start and Stop are not here); of a Minecraft instance's files only the server file is
kept, which the upload creates under its final name and then fills, or which a zip
brings along under another name, to be detected.

### 3.5 BackupScheduler and Cron

Time in units of 30 s, so 60 s, 90 s and 120 s are 2, 3 and 4. A job is the goroutine or
handler at the master together with the agent's call. File names have a resolution of a
second, so a backup may get the name of another of its kind that began just before; the
content of a file says which job's archive it is, or that two were written to it. A tick
may fall in the minute of the one before, or leave a minute out. A restore picks a row of
the list and goes on beside backups. The listing and the removals of EnforceRetention are
one step; SQL errors, which the code logs and ignores, do not occur. `Cron` has the
matching as the code does it (`cronPartMatches`) and what an expression denotes as a set
of values (`Denotes`), also where the two differ: a part `N-M/S` denotes the values from
`N` to `M` in steps of `S`, and matches none. `Exprs` are expressions that are held
against the minutes of the calendar beside the one of the instance (`CronMeans`).

### 3.6 FileSync and SyncJobs

`FileSync` follows one file of a local mapping. Its content is the pair of the versions
of its two chunks, so a torn read can be told. A save truncates the file, may write a
part of it (`WritePart`) and then the rest, with an event for each, so that hash and push
may both read the same half of a save; a file that is removed while the engine has it
open is read on. fsnotify events are queued, debounced into
one pending event, and handled by the engine one after the other; a push whose stream
breaks leaves a handler at the agent (`orphan`) that still has a chunk to write and a
temporary file to remove, on the path the next push uses.

`SyncJobs` is one mapping with its targets: requests that change the rows and reload the
watcher in two steps (list, load), saves from the page, which truncate and then write,
and the jobs they start in goroutines, with a pull from the source instance where the
mapping has one.

### 3.7 Mesh and DockerNetworks

`Mesh` is the goroutine of each registration: look, install, take the next index, save,
list the nodes, push to each. A node is an identifier at a host; a new identifier
replaces the nodes of its name. Keys are numbers, so a configuration is keys, indices and
peers. Every statement may fail: the query of the greatest index then gives 1 as if the
table were empty (`NextWGIndex`), any other ends the goroutine (`StoreFails`). An
interface that is up is either reloaded with `wg syncconf`, which keeps its address, or
taken down and up. `clash`, `unread`, `given`, `dirty` and `missed` are history. The
routes to the peers are left out: only `wg-quick up` sets them, so after a `syncconf` a
new peer has none.

`DockerNetworks` has the three tables, the networks and containers at the nodes, and the
requests cut at statements and calls, each of which may fail; container creation and
synchronisation appear as far as their network goes. `remade` is history: the networks
that a container lost when it was made anew. The records reach the DNS servers with
heartbeat answers.

### 3.8 LogForwarder, Console and LogTail

`LogForwarder` has the log channel of every run, the loop that puts a forwarder on the
current one, and the forwarders' batches and streams, which break. `Console` starts where
the lines arrive: ring, two bounded channels that drop, the hub, and one handler per
WebSocket with its queue. Until the ring is full, `Lines` returns a slice of the live
array; the handler reads it element by element, beside writes, and a string read while
it is written is `Torn`. A command runs in its own goroutine and answers to the queue.

`LogTail` is what a log history promises, "the latest `Size` lines". `Console` implements
it under the mapping `tail <- Lines(ring)`, which is the property `RingIsTail`.

### 3.9 Accounts, Settings, FileManager

Requests cut at their statements. A password is the number of its changes; a session
carries what its login has read. An edit of the settings reads the row, writes all fields
and audits the audited ones, field by field; a rollback is an edit of the same kind,
which then marks its entry and writes one of its own. Each of these statements may fail
(a failed mark or entry is only logged), and the master may crash before any of them.
`doubt` (history) has the settings whose last change may be missing in the log, `slipped`
the entries that may be rolled back without a mark that shows it. In `FileManager` a
handler changes files and starts a goroutine that commits, reading its author from a
context the web framework resets for the next request; git has an index that all commits
share.

### 3.10 Metrics

One network counter and the age of the node's metrics, from what docker prints (a number
and the letters of its unit, so that the order of the unit table matters, and so does
what it does not have: terabytes) over two
heartbeat streams, the second opened while the first one's handler is still at work, to
caches, history and exporters. The rows have UTC texts and the cutoff of the pruning is the
text of a local time, so rows go at an age of `Span`, a day less the `Zone` by which the
master is ahead of UTC.

## 4. The runs

| Run | Instance | What it shows |
|---|---|---|
| `one_agent` | one client, three generations, spontaneous exits, blocked readers; or: one agent, timeout of 90 s, the master stays up | `NoPanic`, `ExitIsNoticed`, `StopReturns`; `DeadIsForgotten`, `LiveIsOnline` |
| `dp_all` | two clients, failing docker commands, Stop timeouts, panics | `RunningIsWatched` |
| `ar_loop` | the repository's delays and limits, all operations, failing starts, stops and kills; or: two heartbeat streams, two heartbeats, restarts of the master, local time ahead of UTC | `OneRestartAtATime`, `StoppedStaysDown`, `CrashIsAnswered`; `HistoryIsKept`, `CountersGrow` |
| `reg_all` | two agents of one name, timeout after two ticks, restarts, failed registrations and failed lists | `TargetsAreOnline`, `TableAgrees`, `RunningIsOnline` |
| `il_all` | four worlds, one waiting reply | `LoneDeletionIsComplete`, `EntryIsWhole`, `StartsWithJar`, `CreatedArrives` |
| `il_revive` | heartbeats during a deletion, nothing fails | violated: `DeletedIsGone` |
| `bk_all` | three backups, two kept, two calendar minutes | `RestoredIsRecorded`, `NewestAreKept`, `NoRepeatOfSuccess`, `CronMeans` |
| `bk_forms` | three backups, `0-58/2` for the minutes | violated: `DenotedIsBackedUp` |
| `sync_all` | two agents, two versions, one breakdown, saves in two parts; or: two targets, two requests and two jobs at a time, four operations | `NeverTornNorOlder`, `Converges`; `WatchFollowsRows`, `SaveReachesTargets` |
| `net_all` | two instances on two nodes, two networks, two requests at a time; or: three nodes on two hosts, two goroutines, three registrations; or: two masters, three starts, any version of the database | `ConnectedIsAttached`, `NamesAreConnected`, `NamesReachAgents`; `AddressesDiffer`, `MeshIsWhole`; `SchemaIsWhole` |
| `web_all` | one part per behaviour: a console with one page, two runs of a process with three forwarders, two users, two requests on the settings with failures and crashes, two contexts and two files | `RingIsTail`, `NothingIsMissed`, `OnlyCommandsPanic`; `RunIsForwarded`, `OneReader`; `SessionsAreCurrent`; `AuditTellsTruth`; `WorkIsCommitted` |
| `fm_author` | two users, two contexts | violated: `AuthorIsWriter` |

Where a run has several parts (`part` in `MCOneAgent`, `MCAgentLoops`, `MCSync`,
`MCNetworks`, `MCWeb`), the initial state chooses one and the others stay as they are: the
parts share no state in the code, and one run checks each on its own. Parts that would
interact are one module. The MC module extends its components, whose specifications have
names of their own for that (`MeshSpec`, `JobsSpec`, `FilesSpec`, `SettingsSpec`,
`ForwarderSpec`, `AccountsSpec`, `SchemaSpec`, `MetricsSpec`), so that the invariant a run
checks is the very definition a theorem is about. A run with fairness states that of the
part its liveness property is about; the properties of its other parts are safety
properties.

`TypeOK`, where a module has one, states the ranges its steps keep. The ones of
`DockerProcess`, `AgentRegistry`, `InstanceLifecycle` and `Accounts` are proved; the
others hold in the runs as well when they are added to the `.cfg` as an invariant.

**Bounds.** Two generations are enough for two watchers of different generations to meet,
three for one to meet a channel replaced twice; two callers for every pair of operations
to race. Two agents of one name delete each other's node; the shorter limit of `reg_all`
changes when a timeout comes, not what it does. A day of three units and a zone of one
have rows that go early, in time and too late. One waiting reply beside the goroutine that
holds `syncMu` makes two synchronisations in a row. Three backups exceed the two that are
kept. `MaxPending` bounds how many restarts are on their way when the operator starts the
instance. Two versions and one breakdown let an old push meet a new one; one event waits
for the engine (`MaxQueue`) where `eventCh` holds 100, and a full channel makes the
watcher wait in both; two requests let one list before and load after the other. Three
nodes on two hosts make one node replace another. A ring of two lines with three broadcast
wraps; queues of one and two overflow. Two sessions and two requests let a login and a
change overlap in every order. Two contexts let a request get the context whose goroutine
has not read it yet. Two audited settings and one that is not make two entries of one edit
and a setting that is written back over; the third request is a second rollback. Clients
are symmetric in `dp_all` and agents in `reg_all`: no action or property names one.

Deadlock is checked where the system must go on (`one_agent`, `dp_all`, `ar_loop`,
`reg_all`, `il_*`, `bk_*`); the other models stop at the bounds on requests, and say so in
their `.cfg`.

**Fairness.** Weak fairness of callers, watchers and handlers: the Go scheduler runs what
can run, and docker commands return. In `DockerProcess` nothing makes a blocked reader go
on: `ExitIsNoticed` and `StopReturns` have `LogsAreRead` as hypothesis, that no stream is
blocked for good. Strong fairness of the end of a stream, since its readers may block and
go on several times before they come to the end of the log. Weak fairness of the ticks:
they come from `time.Ticker`. In `AgentRegistry` strong fairness of handlers, heartbeats
and the health check, since each keeps the others off the lock for a moment again and
again, and of the listing of the instances, which may fail, but not in every pass; weak
fairness of the other statements of a pass; in `InstanceLifecycle` strong fairness of
replies for the same reason. In `FileSync` weak fairness of the watcher's loop, its
debouncing timer, the engine and the writer of the file; in `DockerNetworks` of the
requests' steps, the heartbeats and their handling. Nothing is assumed of operators,
exits, failures or restarts. `CreatedArrives` takes as hypothesis that agents do not
restart for ever.

## 5. What the violated runs show, and other behaviours of the code

- `il_revive`: the row is deleted last, so a heartbeat answered during a deletion
  recreates container and instance; `syncInstances` removes nothing.
- `bk_forms`: a cron part `N-M/S`, which `README.md:136` and the comment at
  `scheduler.go:228` name, is taken for a range whose end does not parse, and matches
  nothing. `ValidateCron` would refuse it but is called nowhere, so an instance with such
  a schedule is never backed up and nobody is told.
- `fm_author`: the goroutine that commits reads the user from a context that echo has
  reset for another request by then, so a commit may carry the name of somebody else,
  which `docs/file-management.md` excludes.

Five statements one might expect are written down in the modules and are false, as TLC
shows when they are put into a `.cfg`:

- `StoppingIsResolved` (`DockerProcess`): Stop checks the state and sets `stopping` in two
  sections. An exit in between leaves the process `stopping` for ever: the only watcher
  has gone.
- `OnlineIsTarget` (`AgentRegistry`): an agent that timed out is removed from the sync
  engine, and the heartbeat that makes it online again does not put it back; no file
  reaches it until the agent is restarted.
- `DuplicatesBlocked` (`BackupScheduler`): the 90 s are counted from `backup_last_at`,
  which is written at the end of a backup; one that takes longer than a minute is
  started a second time.
- `DefaultIsEnsured` (`DockerNetworks`): network names are unique, so the second node
  never gets a row for its default network (`handler_instance.go:954`).
- `HistoryIsPrefix` (`Console`): the `break` of "Buffer full, skip remaining history"
  leaves the `select` only; later lines of the history may still get in.

The properties that hold are stated with the circumstances they need. The models also
have behaviours outside them:

- `DockerProcess`: a Start during a Stop, or after a Kill whose watcher has not finished,
  gives two watchers that close the same channels, and the agent panics; hence `NoPanic`
  is claimed for one client, or for Starts alone. A container that Docker restarts by
  itself is reported stopped or crashed, and nobody watches it. A reader that finds the
  log channel full drops the oldest line, as the comment at `docker.go:406` says, and then
  sends without a `default`: if another sender was faster it blocks until a line is read.
  While the master is away nobody reads, `outputWg.Wait` does not return, and an exit is
  neither reported nor is `stopCh` closed.
- `AutoRestart`: with delays of 38 s and more the cap makes two waits equal, and a second
  restart may be scheduled on the tick on which the first one wakes; a kill counts as a
  crash (exit code 137) and is followed by a restart, also the kill that Stop falls back
  to; a restart on its way is made whatever the operator does meanwhile; an attempt that
  fails in `docker start` leaves `stopped`, from which there is no retry; the abort is
  logged while the last attempt still sleeps.
- `AgentRegistry`: after a restart of the master, or a failed registration, a connected
  agent is never online in memory (Heartbeat adds no entry), while the tables say
  online, also after it has died; an agent with the name of another deletes its node
  and instances. When the instances of an agent that has timed out cannot be listed,
  they stay `running` in the table until the next pass of the health check.
- `Schema`: of two masters on one file the second fails, on the primary key or a
  duplicate column, and has to be started again; the database stays whole.
- `InstanceLifecycle`: an instance deleted while it is being created stays on the agent;
  a synchronisation during a creation starts the server on a partial file, and so does
  an auto-start after a copy that failed half way; a creation that times out never gets
  its file; a deletion that outlives its 30 s removes the files of an instance created
  in its place; a synchronisation that races with a deletion leaves an instance without
  container; a `docker rm` that fails leaves a container nobody knows of. The name of a
  jar detected in a zip is kept in the agent's memory only, so after a restart of the
  agent its auto-start is skipped; the container runs `server.jar` whatever the name
  (`docker/images.go:34`).
- `Cron`: `ValidateCron` is stricter than the matching; the handler that stores an
  expression only counts the fields.
- `BackupScheduler`: an archive of more than 120 s is never recorded; two manual backups
  in one second share a file, and the checksum in the row is not compared on restore;
  manual backups never trim the rows; a minute without a tick is a backup missed; a
  restore goes on when its Stop has failed.
- `FileSync`: an empty file is never delivered and a deletion only logged; a push that
  meets a handler given up before may leave a torn or an older file, since the hash is
  that of the stream; a file read while it is being saved is pushed half, with a hash that
  agrees, and stays in place at the agent until the event of the rest brings the whole
  one; when the master starts the watcher gets all enabled mappings, not only the local
  ones that `handler_sync.go:555` speaks of. (`README.md:148` has chunks of 4 MB, the code
  256 KB.)
- `SyncJobs`: two jobs at a time can leave the older content; a save into the cache of a
  mapping with an agent as source is overwritten by the pull of its own job.
- `Mesh`: two setups at a time may get one index; when the greatest index cannot be
  read, a new node gets the first one, which another may have; a host whose interface is
  up when it comes with a new identifier keeps its old address, which its peers no
  longer know, while success is reported and `Address()`, "the current WG address"
  (`manager.go:97`), answers the new one; an agent whose silence a heartbeat ends
  misses the pushes in between, and nothing repeats them.
- `DockerNetworks`: a container made anew is connected to the oldest network only, and
  when that connection is removed later, which takes five operations in all, the next
  one in the table is one the container does not have; the
  record of an instance whose oldest remaining connection has no address stays as it
  was; an agent keeps the last names when the table gets empty.
- `LogForwarder`: a forwarder that ends late removes its successor's entry, and two then
  read one channel; a batch is lost with its stream.
- `Console`: the answer of a command whose page has gone is sent on a closed queue and
  ends the master; a page is told after 10 s that a command has failed while the agent
  still runs it; the fallbacks of the console try again after any failure, also of a
  command that was carried out.
- `Accounts`: a login that has read the row before a change of role, name or password,
  and creates its session after, keeps the old ones.
- `Settings`: two edits at a time undo each other without an entry, and their entries may
  come in the other order; an entry or a mark that cannot be stored is logged and
  forgotten, and a crash between the change and its entries loses them, so the log tells
  an old value, and an entry can be rolled back twice; a rename is not audited; edits
  reach the agent only when it registers the instance again (`instance_sync.go:33`).
- `FileManager`: `git add` refuses all paths when one of them is unknown, so a change may
  stay uncommitted.
- `Metrics`: what is cached of an instance that is gone is exported for good; terabytes
  are not in the unit table and are read as bytes, so the counter falls when docker comes
  to print them; the cutoff of the pruning is the text of a local time, which SQLite
  compares with UTC texts, so the history is shorter or longer than a day by the zone; a
  handler of an old stream can put an older sample over a newer one; a master restarted
  more often than hourly never prunes.

## 6. The proofs

Proved for every value of the constants that satisfies the named assumptions; nothing
else is assumed.

`DockerProcessProofs` (any callers, operations, generations, failures):

- `TypeCorrect`: `Spec => []TypeOK`. `TypeOK` is not inductive: a generation number stays
  in range because `Invoke` counts the callers that may still make one. `TypeInv` adds
  that bound (`chan + Cardinality(Starters) <= MaxStarts`), that a caller that launches
  goroutines has made a generation, and that the callers in the start section are
  starters.
- `Watched`: `Spec => []RunningIsWatched`, inductive relative to `TypeInv`. A step can
  falsify it only by ending the last watcher, and a watcher ends by writing a state
  that is not `running`; this holds across panics, timeouts and restarts.
- `StartsNeverPanic`: with `Ops \subseteq {"start"}` the agent never panics, whatever
  fails and however many Starts race. `StartsInv` says that at most one goroutine, a
  caller between its check and its launch or one live watcher, owns the process, that the
  current channels are open while it does, and that no stream outlives its owner.
- `SerialNeverPanics` and `SerialWaitsEnd` (`Serial`: one caller, which starts, stops and
  restarts; docker commands succeed, and within the 35 s of Stop): the agent never panics,
  and the waits that `StopReturns` and `ExitIsNoticed` are about are for something under
  way (`WaitsEnd`), or for a reader that is blocked on the log channel in use, which is
  open. `Serial` has what the run `one_agent` has, without its bound on the generations
  and with agent restarts; it cannot be dropped, see section 5. `SerialInv` says that a
  live watcher is the one of the channel in use and that nobody takes the process from it:
  a Stop returns only when that channel is closed, and Restart comes to Kill only when the
  watcher has written the state. `SerialDrain` has that a watcher in `outputWg.Wait` waits
  for streams that have been ended or cancelled.

`AgentRegistryProofs` (any agents, names and limit, with master restarts and failed
registrations): `TypeCorrect` (with: no instance row outlives its node), and
`TargetsOnline`, `TableAgreement`, `RunningOnline` from `Inv`, which adds to the three
properties what a handler has established at each of its lines (`Established`): after the
map is filled the agent is online until the handler ends, since a timeout needs an agent
without a handler. `RunningIsOnline` makes an exception of the agents that the pass of
the health check is at, and of those whose instances it could not list.

`InstanceLifecycleProofs` (every world, any number of waiting replies): `TypeCorrect`, and
from one inductive invariant `EntriesAreWhole`, `LoneDeletions` and `StartsHaveJar` (the
last an action property). `Inv` has four parts, each under the circumstances it needs:
`Separate` (a deletion has the instance for itself, creations and synchronisations find
the row), `Whole` (what either way to register an instance has established at each of
its lines), `Undone` (what a deletion has undone at each of its lines) and `Placed` (where
the upload is, and what is in the work directory then).

`NetworksProofs`, schema (any number of masters): `SchemaStaysWhole`. The invariant says
that the database is at *one* version `v`, and what each master may rely on then: it is at
most one migration ahead, and inside a transaction it holds the lock, so the version it
found missing is still missing when it commits. The theorem assumes `0 \notin Masters`
because 0 stands for the free lock.

`NetworksProofs`, mesh (any nodes, hosts, goroutines, and failures of every statement):
`AddressesStayDifferent` and `MeshStaysWhole`. `AddressInv` has that no index is greater
than the number of keys made, and, until two setups have overlapped, that the index on
its way to the table is `Free`: above all that are in it, or the 1 of a query that has
failed. `PushInv` has that, while no change has come into a push, every node of the table
is still on the list of the goroutine that pushes or has the keys and peers of now.
`GivenInv` has that every address in the table, on its way and on an interface is one its
host was given, which is what can be said of an interface that keeps its address. The
greatest index exists because the indices are bounded (well-founded induction, without an
operator parameter).

`NetworksProofs`, Docker networks (any instances, networks, nodes, requests, and any
outcome of every call): `ConnectedStaysAttached` and `NamesStayConnected`, from `NetInv`.
It is about the instances for which no requests have clashed. `Solo`: such an instance
has one request at a time, none beside the deletion of a network, and that network is not
one of its own. `Fit`: what the request has established at each of its lines, for
instance that the container is attached before the row is written. `Right`: every
connection in the table is one of the container, or was lost when it was made anew, and
an instance without a connection has no name, or a disconnection is about to delete it.
`NetsAssumption` has that the default network is a network and `"none"`, which stands for
no row, is not.

`FileSyncProofs`:

- `NeverTorn` (any agents, versions, breaks; an action property): an agent's file is only
  replaced by a later version, or by the rest of one whose first half is in place, and
  never has parts of two. The file is read twice, once for the hash and once
  for the push, each time in two halves, and is saved in two halves, so both may be torn
  or half. `SourceInv` says what a save has made of the file, `HashInv` and `OpenInv` what
  the engine has read of it, or of one that was removed and that it keeps open. The key
  (`SentInv`) is that the first half of a torn hash is of a past version, while the first
  half of a push is of the current one: if they agree, the hash was not torn, but may be
  of the beginning of a version that no agent has the whole of yet (`Unwhole`). The
  agent's comparison of hashes does the rest. `PushInv` keeps what is in the temporary
  file, `FinalInv` that the file in place is of one version and no later than what is
  being pushed.
- `WatchFollows` and `SavesReach` (any handlers, targets, jobs). `WatchInv` adds to the
  property that a list that has not been loaded yet is still what the table says.
  `SaveInv` follows a save through its job: until it walks, all enabled targets are on
  its list; from then on the ones no longer on it have the cached file.

`ConsoleProofs` (any pages, ring and queue sizes, lines, commands):

- `RingImplementsTail`: `Spec => RingIsTail`, the refinement of `LogTail`. It rests on what
  `Lines` returns for a ring of every size and position (`LinesAt`); `Add` maps to a step
  of `LogTail`, every other step to a stutter.
- `OnlyCommandsSendOnClosed` by `HubInv`: the hub's map has the connections between their
  registration and their end, and only the latter have a closed queue.
- `NothingMissed` by `PageInv`: `RingInv` says which lines the ring has and that none is
  in it twice, `HistoryInv` what a handler still has to read and whether it reads the
  live array, `Covered` that every line from the history on is shown, queued, under way
  or still to be read, and `TwiceAtMost` counts: a line that is on its way twice is no
  longer in what the page has yet to read of its history.
- `SingleReader` (any forwarders and runs) by `ReaderInv`: unless an entry was taken from
  the map, the forwarder of the latest run is the one in it, and no run has two.
- `RunsStayForwarded`: `RunIsForwarded`, for any runs, lines, forwarders and failures and
  every capacity and batch size; and `ForwarderTypes`. `ForwarderAssumption` has that the
  bounds are numbers and a channel has room for a line. The inductive invariant is
  `WayInv`, beside `ReaderInv`. `ChannelInv`: a channel has the last lines of its run, so
  the line a forwarder takes comes after every line that is anywhere on the way, and the
  numbers below it are the ones taken (`Taken`). `PathInv`: what was received, the batches
  that were sent and the batch of the forwarder are in this order (`OnTheWay`, which the
  lemmas from `TakeOnTheWay` to `OtherReceives` carry through each thing that can happen
  to a line), and no line is with two forwarders. After an eviction the order is lost and
  "before" becomes "other than" (`Apart`), with the same lemmas. `WholeInv`: of a run that
  nothing was cut from, every line taken is received or with a forwarder, and the last
  forwarder goes only when the channel is closed and empty (`Life` says what a forwarder
  has seen at each of its lines). `UnservedInv`: what leaves the channel of a run that has
  no forwarder yet was pushed out of a full one. When no forwarder is left, the lines
  received are thus all of them; that lines in order of which none is missing are the
  identity (`AllInOrder`) looks at the first that is out of its place.

`BackupSchedulerProofs` (any periods, guards, timeouts, counts, calendars, expressions and
numbers of backups):

- `SuccessIsNotRepeated` (an action property) by `LastInv`: a scheduled backup that is over
  has written `backup_last_at` after it began, so the age of that entry is at most its own
  age, and the guard refuses a start before that.
- `RestoredStaysRecorded` by `FileInv`: while names differ, the file of a job has the job's
  number, rows and restore name complete files only, and these are not written to again.
  Names that were equal once stay equal, so the condition need not be followed backwards.
- `NewestStayKept` by `KeepInv`: while backups are made one after the other and none is
  given up (`Calm`), rows and files have the same end (`Agree`) but for the backup that is
  at work, and a row without a file is older than as many as the agent keeps. Both
  retentions cut at the old end.
- `CronStaysMeant`: for every expression and time the scheduler matches only what the
  expression denotes, and all of it unless the expression has a part `N-M/S`, which
  `ValidateCron` refuses. `Multiples` says that `value % n = 0` picks
  the multiples of `n`, `PartMeans` does the forms of a part one by one, `ValidPart` shows
  that a part that `ValidateCron` accepts has values, all within the limits of its field.
  `IsExpression` has what a parser gives: fields that are not empty, and integers.

`OperatorsProofs`:

- `TypeCorrect` and `SessionsStayCurrent` (any users, sessions, requests; with
  `MaxUsers \in Nat \ {0}`, as the first user is there from the start): a session agrees
  with the row, or is about to be dropped by the request that changed the row, or is of
  a login that was overtaken.
- `WorkStaysCommitted` (any paths, users, contexts): two differences are followed for
  every path. Where a file differs from the index, a request or a goroutine that will
  add it is under way (`Seen`); where the index differs from the last commit, a
  goroutine that has added it and will commit (`Staged`). A commit takes the whole
  index, so it serves every goroutine that has staged.
- `AuditStaysTrue` (any settings, values, requests, failures and crashes), for each
  setting on its own. `FieldInv`: while the setting is not in `doubt`, one request at most
  has yet to write its entry, of the value the row has, and when none has, the log tells
  that value. The statement that changes the row decides about `doubt` from what it
  finds, so the property holds again after the next change, whatever went wrong before.
  `OnceInv`: until a mark was lost or a second rollback came before it, one request at
  most is about to roll the entry back or to mark it. `ControlInv` has that an answered
  command was carried out.
- `StoppedStays` (`AutoRestart`) by `DownInv`: what a Stop without its fallback has
  stopped is down, has no watcher that could write `crashed`, and no restart is on its way.
- `OneRestart` (`AutoRestart`, for all delays and limits with `WaitsGrow`) by `LoopInv`:
  while a restart sleeps, the time since the last attempt and the rest of the sleep make
  up the wait of that attempt (`Sleeping`), and the next attempt has to wait longer. The
  hypothesis is needed: see section 5.
- `HistoryStaysKept` (`Metrics`, all ages, periods, page sizes and zones of less than
  that age): `HistoryIsKept`.
  `PruneInv` has that the next pruning is at most a period away, and what the last one has
  left if it went well. That the page lists the newest rows needs that a finite table can
  be put in order (`RowsHaveOrder`); instead of an induction the proof takes a smallest
  set of rows that cannot, and puts its latest row behind the order of the others.
- `CountersStayGrowing` (`Metrics`): `CountersGrow`, which excepts readings in terabytes,
  with any number of heartbeats, runs of the container and restarts of the master.
  `SizesGrow` shows that what docker prints for a counter that grows is read as growing
  numbers until it comes to terabytes. `LatestInv`: nothing that was sent, cached, stored
  or told is ahead of the container and the clock, and the queue of a stream is in order;
  a heartbeat that is sent now may therefore go to the end. `ChainInv`, as long as no
  handler was overtaken: told and stored, cached, handled and queued are in this order,
  and one handler is at work at most. The two are separate because the first has to hold
  while handlers overtake each other: a restart of the master ends that, and the second
  then holds again.

Only model-checked: the eight liveness properties. Fairness and `ENABLED` are outside what
the prover handles; `SerialWaitsEnd` is the part of two of them that is a matter of safety.
Every other property of a passing run is stated by a theorem.

## 7. Not modelled

- `JavaProcess`: nothing constructs one.
- HTML rendering, and handlers that only read: functions from data to text. The generated
  gRPC code is more than a quarter of the lines, rendering a fifth.
- The database browser and the mc-operator client: they forward single requests and keep
  no state.
- Of the Docker manager, how command lines are put together, images, builds, compose
  files and the installation.
- Validation of the values in forms: an invalid one is refused before anything is
  written.
- Configuration and the wiring in `cmd/`, except the order in which the master starts its
  parts where a model depends on it.
