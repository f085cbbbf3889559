------------------------------- MODULE Schema -------------------------------
(***************************************************************************)
(* The opening of the master's database: store.New of                      *)
(* internal/master/store/db.go runs the migrations of migrations.go that   *)
(* the database has not seen, each with the row that records it in one     *)
(* transaction.  A master may die at any step and be started again, an     *)
(* older release may have left the database at any version, and two        *)
(* masters may be started on one file: the listening ports are opened      *)
(* after the database.                                                     *)
(*                                                                         *)
(* A database is the set of its objects: a table, a column added to a      *)
(* table after it was created, a row the schema itself puts in.  Indexes   *)
(* and the types of columns are left out.                                  *)
(***************************************************************************)
EXTENDS Integers, FiniteSets, FiniteSetsExt, Sequences

CONSTANTS
    Masters,    \* processes that open the database
    MaxStarts   \* bound: starts of a master

VARIABLES
    items,      \* the committed objects
    versions,   \* schema_migrations
    lock,       \* the master that holds SQLite's write lock, or 0
    stage,         \* where each master is
    current,    \* the version it read
    next,       \* the migration it is at
    work,       \* the objects as its transaction sees them
    starts

schemaVars == <<items, versions, lock, stage, current, next, work, starts>>

----------------------------------------------------------------------------
(* The migrations: the tables they create and the columns they add.  A     *)
(* CREATE TABLE IF NOT EXISTS leaves a table that exists as it is; an      *)
(* ALTER TABLE ADD COLUMN fails when the column exists.                    *)

Table(t) == <<t, "table">>
Tables(ts) == {Table(t) : t \in ts}
Columns(t, cs) == {<<t, c>> : c \in cs}

init ==
    [creates |-> Tables({"nodes", "instances", "sync_history", "backups"}), adds |-> {}]
sync_mappings ==
    [creates |-> Tables({"sync_mappings"}), adds |-> {}]
sync_targets_and_source ==
    [creates |-> Tables({"sync_targets"}),
     adds |-> Columns("sync_mappings", {"source_agent_id", "source_instance_id", "source_path"})]
instance_config_fields ==
    [creates |-> {},
     adds |-> Columns("instances", {"auto_start", "auto_restart", "restart_delay_sec",
                                    "stop_command", "jvm_args", "accept_eula"})]
instance_type_and_service_columns ==
    [creates |-> {},
     adds |-> Columns("instances",
                  {"instance_type", "service_version",
                   "mysql_root_password", "mysql_data_dir", "mysql_extra_args",
                   "pg_password", "pg_data_dir", "pg_extra_args",
                   "mongo_admin_user", "mongo_admin_password", "mongo_data_dir", "mongo_extra_args",
                   "redis_password", "redis_data_dir", "redis_extra_args",
                   "kafka_broker_id", "kafka_data_dir", "kafka_extra_args"})]
docker_networks ==
    [creates |-> Tables({"networks", "instance_networks"}), adds |-> {}]
backup_schedule ==
    [creates |-> {},
     adds |-> Columns("instances", {"backup_enabled", "backup_cron", "backup_max_count", "backup_last_at"})]
java_version_and_docker_customization ==
    [creates |-> {},
     adds |-> Columns("instances", {"java_version", "custom_dockerfile", "custom_compose"})]
\* The default mesh is inserted unless its row is there.
wireguard_mesh_network ==
    [creates |-> Tables({"mesh_networks", "dns_records"}) \cup {<<"mesh_networks", "row default">>},
     adds |-> Columns("nodes", {"wg_public_key", "wg_private_key", "wg_address", "wg_endpoint",
                                "wg_listen_port", "docker_subnet"})]
users_auth ==
    [creates |-> Tables({"users"}), adds |-> {}]
docker_resource_limits ==
    [creates |-> {}, adds |-> Columns("instances", {"docker_memory", "docker_cpus"})]
audit_logs ==
    [creates |-> Tables({"audit_logs"}), adds |-> {}]
instance_metrics ==
    [creates |-> Tables({"instance_metrics"}), adds |-> {}]

getMigrations ==
    <<init, sync_mappings, sync_targets_and_source, instance_config_fields,
      instance_type_and_service_columns, docker_networks, backup_schedule,
      java_version_and_docker_customization, wireguard_mesh_network, users_auth,
      docker_resource_limits, audit_logs, instance_metrics>>

Latest == Len(getMigrations)

\* The objects a database of version v has.
Objects(v) == UNION {getMigrations[n].creates \cup getMigrations[n].adds : n \in 1..v}

\* Every table that a column is added to is there, and none of the columns is.
CanRun(n, objects) ==
    /\ \A o \in getMigrations[n].adds : Table(o[1]) \in objects
    /\ getMigrations[n].adds \cap objects = {}

----------------------------------------------------------------------------
(* A database an earlier release has left, or none at all. *)
SchemaInit ==
    \E v \in 0..Latest :
        /\ items = Objects(v) /\ versions = 1..v
        /\ lock = 0 /\ starts = 0
        /\ stage = [p \in Masters |-> "down"]
        /\ current = [p \in Masters |-> 0] /\ next = [p \in Masters |-> 0]
        /\ work = [p \in Masters |-> {}]

IsAt(p, where) == stage[p] = where
MoveTo(p, where) == stage' = [stage EXCEPT ![p] = where]

\* New: the directory, the connection and the pragmas.  WAL mode and the
\* tracking table are written at once, and a table that exists is left alone.
New(p) ==
    /\ IsAt(p, "down") /\ starts < MaxStarts
    /\ starts' = starts + 1
    /\ MoveTo(p, "opened")
    /\ UNCHANGED <<items, versions, lock, current, next, work>>

\* migrate: the version is read once, before the loop and outside any transaction.
ReadVersion(p) ==
    /\ IsAt(p, "opened")
    /\ current' = [current EXCEPT ![p] = IF versions = {} THEN 0 ELSE Max(versions)]
    /\ next' = [next EXCEPT ![p] = 1]
    /\ MoveTo(p, "loop")
    /\ UNCHANGED <<items, versions, lock, work, starts>>

Skip(p) ==
    /\ IsAt(p, "loop") /\ next[p] <= Latest /\ next[p] <= current[p]
    /\ next' = [next EXCEPT ![p] = @ + 1]
    /\ UNCHANGED <<items, versions, lock, stage, current, work, starts>>

\* Faulty: the statements run on the connection, not in the transaction.
ExecOutsideTx(p) ==
    /\ IsAt(p, "loop") /\ next[p] <= Latest /\ next[p] > current[p]
    /\ lock = 0 /\ CanRun(next[p], items)
    /\ lock' = p
    /\ items' = items \cup getMigrations[next[p]].creates \cup getMigrations[next[p]].adds
    /\ work' = [work EXCEPT ![p] = items']
    /\ MoveTo(p, "executed")
    /\ UNCHANGED <<versions, current, next, starts>>

\* The transaction takes the write lock with its first statement and waits for
\* another writer; Fail is what happens when it waits for too long.
Exec(p) ==
    /\ IsAt(p, "loop") /\ next[p] <= Latest /\ next[p] > current[p]
    /\ lock = 0 /\ CanRun(next[p], items)
    /\ lock' = p
    /\ work' = [work EXCEPT ![p] = items \cup getMigrations[next[p]].creates \cup getMigrations[next[p]].adds]
    /\ MoveTo(p, "executed")
    /\ UNCHANGED <<items, versions, current, next, starts>>

\* The version is the primary key: recording it twice fails, see Fail.
Record(p) ==
    /\ IsAt(p, "executed") /\ next[p] \notin versions
    /\ MoveTo(p, "recorded")
    /\ UNCHANGED <<items, versions, lock, current, next, work, starts>>

Commit(p) ==
    /\ IsAt(p, "recorded")
    /\ items' = work[p] /\ versions' = versions \cup {next[p]}
    /\ lock' = 0
    /\ work' = [work EXCEPT ![p] = {}]
    /\ next' = [next EXCEPT ![p] = @ + 1]
    /\ MoveTo(p, "loop")
    /\ UNCHANGED <<current, starts>>

\* migrate is through, New returns the store.
Opened(p) ==
    /\ IsAt(p, "loop") /\ next[p] > Latest
    /\ MoveTo(p, "open")
    /\ UNCHANGED <<items, versions, lock, current, next, work, starts>>

\* A statement fails (a full disk, a lock held too long, a column or a version
\* that is there already) and the transaction is rolled back, or the process
\* dies and SQLite rolls it back when the file is next opened.  A master whose
\* New fails exits.
Fail(p) ==
    /\ ~IsAt(p, "down")
    /\ lock' = IF lock = p THEN 0 ELSE lock
    /\ work' = [work EXCEPT ![p] = {}]
    /\ current' = [current EXCEPT ![p] = 0] /\ next' = [next EXCEPT ![p] = 0]
    /\ MoveTo(p, "down")
    /\ UNCHANGED <<items, versions, starts>>

SchemaNext ==
    \E p \in Masters :
        \/ New(p) \/ ReadVersion(p) \/ Skip(p) \/ Exec(p) \/ Record(p) \/ Commit(p)
        \/ Opened(p) \/ Fail(p)

SchemaSpec == SchemaInit /\ [][SchemaNext]_schemaVars

----------------------------------------------------------------------------
\* At every moment, in the middle of a migration that will fail and between
\* those of two masters, the committed tables and columns are exactly those of
\* the versions recorded, without a gap; and a master that has opened the
\* database finds all of them.
SchemaIsWhole ==
    /\ versions = 1..Cardinality(versions)
    /\ items = Objects(Cardinality(versions))
    /\ (\E p \in Masters : IsAt(p, "open")) => versions = 1..Latest
=============================================================================
