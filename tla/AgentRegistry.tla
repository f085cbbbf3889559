---------------------------- MODULE AgentRegistry ----------------------------
(***************************************************************************)
(* What the master knows of its agents: the agents map of GRPCServer, the  *)
(* targets of the sync engine and the nodes and instances tables, written  *)
(* by RegisterAgent, Heartbeat, healthCheckLoop and a restart of the       *)
(* master.  Every agent runs at most one instance; NameOf gives agents     *)
(* their configured names.                                                 *)
(*                                                                         *)
(* A handler is cut where it releases GRPCServer.mu and at each statement  *)
(* it sends to the database; so is the pass of healthCheckLoop, which has  *)
(* the lock from its start to its end.  Time advances by the 30 s ticks of *)
(* healthCheckLoop.  Two facts of time are assumed: a connected agent has  *)
(* sent a heartbeat since the last tick (it sends one every 15 s), and a   *)
(* handler that has set LastSeen does not last over two ticks.             *)
(***************************************************************************)
EXTENDS Naturals

CONSTANTS
    Agents,              \* agent IDs
    NameOf,              \* cfg.Agent.Name of each
    Limit,               \* ticks an agent may be silent: 90 s is 3
    MasterMayRestart,    \* the master process may restart
    RegistrationMayFail  \* registerWithMaster may find the master unreachable

ASSUME NameAssumption == DOMAIN NameOf = Agents
ASSUME LimitAssumption == Limit \in Nat \ {0}
ASSUME FlagsAssumption == {MasterMayRestart, RegistrationMayFail} \subseteq BOOLEAN

VARIABLES
    agents,  \* GRPCServer.agents: "absent", or the Status of the entry
    age,     \* ticks since LastSeen
    targets, \* Engine.agents
    node,    \* the status in the nodes table, "none" without a row
    inst,    \* the status in the instances table, "none" without a row
    pc,      \* where the handler of the agent's call is
    stale,   \* the nodes RegisterAgent has yet to delete
    seen,    \* the instance state in the heartbeat being handled
    link,    \* "down": not running, "cut": no heartbeat arrives, "up"
    proc,    \* the state of the agent's instance, "none" if it has none yet
    check,   \* where the pass of healthCheckLoop is with an agent that timed out
    skipped  \* history: the agents whose instances the last pass could not list

memory == <<agents, age, targets>>
tables == <<node, inst>>
handler == <<pc, stale, seen>>
pass == <<check, skipped>>
vars == <<memory, tables, handler, link, proc, pass>>

ProcState == {"stopped", "running"}

TypeOK ==
    /\ agents \in [Agents -> {"absent", "online", "offline"}]
    /\ age \in [Agents -> 0 .. Limit + 1]
    /\ targets \subseteq Agents
    /\ node \in [Agents -> {"none", "online", "offline"}]
    /\ inst \in [Agents -> {"none", "offline"} \cup ProcState]
    /\ \A a \in Agents : node[a] = "none" => inst[a] = "none"
    /\ pc \in [Agents -> {"idle", "list", "delete", "connect", "target",
                          "upsert", "beat", "report"}]
    /\ stale \in [Agents -> SUBSET Agents]
    /\ seen \in [Agents -> {"none"} \cup ProcState]
    /\ link \in [Agents -> {"down", "cut", "up"}]
    /\ proc \in [Agents -> {"none"} \cup ProcState]
    /\ check \in [Agents -> {"none", "node", "target", "inst"}]
    /\ skipped \subseteq Agents

\* A new database, and no agent started.
Init ==
    /\ agents = [a \in Agents |-> "absent"]
    /\ age = [a \in Agents |-> 0]
    /\ targets = {}
    /\ node = [a \in Agents |-> "none"]
    /\ inst = [a \in Agents |-> "none"]
    /\ pc = [a \in Agents |-> "idle"]
    /\ stale = [a \in Agents |-> {}]
    /\ seen = [a \in Agents |-> "none"]
    /\ link = [a \in Agents |-> "down"]
    /\ proc = [a \in Agents |-> "none"]
    /\ check = [a \in Agents |-> "none"]
    /\ skipped = {}

\* healthCheckLoop has GRPCServer.mu.
Locked == \E a \in Agents : check[a] # "none"

-----------------------------------------------------------------------------
(* Agents.                                                                 *)

\* Agent.Start: RegisterAgent is called once; if the call fails, the agent
\* goes on with heartbeats alone.
AgentStart(a) ==
    /\ link[a] = "down" /\ pc[a] = "idle"
    /\ link' = [link EXCEPT ![a] = "up"]
    /\ \/ pc' = [pc EXCEPT ![a] = "list"]
       \/ RegistrationMayFail /\ UNCHANGED pc
    /\ UNCHANGED <<memory, tables, stale, seen, proc, pass>>

AgentStops(a) ==
    /\ link[a] # "down"
    /\ link' = [link EXCEPT ![a] = "down"]
    /\ proc' = [proc EXCEPT ![a] = "none"]
    /\ UNCHANGED <<memory, tables, handler, pass>>

LinkCut(a) ==
    /\ link[a] = "up"
    /\ link' = [link EXCEPT ![a] = "cut"]
    /\ UNCHANGED <<memory, tables, handler, proc, pass>>

LinkBack(a) ==
    /\ link[a] = "cut"
    /\ link' = [link EXCEPT ![a] = "up"]
    /\ UNCHANGED <<memory, tables, handler, proc, pass>>

ProcChanges(a) ==
    /\ proc[a] # "none"
    /\ proc' = [proc EXCEPT ![a] = CHOOSE s \in ProcState : s # proc[a]]
    /\ UNCHANGED <<memory, tables, handler, link, pass>>

-----------------------------------------------------------------------------
(* RegisterAgent.                                                          *)

\* ListNodes: those with this name and another ID are taken for stale ones.
RegisterList(a) ==
    /\ pc[a] = "list"
    /\ stale' = [stale EXCEPT ![a] =
                   {b \in Agents \ {a} : NameOf[b] = NameOf[a] /\ node[b] # "none"}]
    /\ pc' = [pc EXCEPT ![a] = "delete"]
    /\ UNCHANGED <<memory, tables, seen, link, proc, pass>>

\* The statements, on what the tables have for agent a; an update has no
\* effect where there is no row.
UpsertNode(a) == [node EXCEPT ![a] = "online"]
DeleteNode(a) == [node EXCEPT ![a] = "none"]
UpdateInstanceStatus(a, status) == IF inst[a] = "none" THEN "none" ELSE status

\* instances.node_id REFERENCES nodes(id) ON DELETE CASCADE.
WithoutInstances(b) == [inst EXCEPT ![b] = "none"]

\* DeleteNode cascades to the instances; the maps keep their entries.
RegisterDelete(a) ==
    /\ pc[a] = "delete"
    /\ \/ /\ stale[a] = {}
          /\ pc' = [pc EXCEPT ![a] = "connect"]
          /\ UNCHANGED <<tables, stale>>
       \/ \E b \in stale[a] :
          /\ node' = DeleteNode(b)
          /\ inst' = WithoutInstances(b)
          /\ stale' = [stale EXCEPT ![a] = @ \ {b}]
          /\ UNCHANGED pc
    /\ UNCHANGED <<memory, seen, link, proc, pass>>

\* RegisterAgentConnection: the agents map, the sync engine, the database.
RegisterConnect(a) ==
    /\ pc[a] = "connect" /\ ~Locked
    /\ agents' = [agents EXCEPT ![a] = "online"]
    /\ age' = [age EXCEPT ![a] = 0]
    /\ pc' = [pc EXCEPT ![a] = "target"]
    /\ UNCHANGED <<targets, tables, stale, seen, link, proc, pass>>

\* RegisterAgent of the sync engine.
WithTarget(a) == targets \cup {a}

RegisterTarget(a) ==
    /\ pc[a] = "target"
    /\ targets' = WithTarget(a)
    /\ pc' = [pc EXCEPT ![a] = "upsert"]
    /\ UNCHANGED <<agents, age, tables, stale, seen, link, proc, pass>>

\* Both UpsertNode calls; the assigned instances are in the reply.
RegisterUpsert(a) ==
    /\ pc[a] = "upsert"
    /\ node' = UpsertNode(a)
    /\ pc' = [pc EXCEPT ![a] = "idle"]
    /\ UNCHANGED <<memory, inst, stale, seen, link, proc, pass>>

-----------------------------------------------------------------------------
(* Heartbeat.                                                              *)

\* Faulty: LastSeen is updated and Status is not.
SeenOnly(a) == agents[a]

\* The Status of the entry, if there is one.
Revived(a) == IF agents[a] = "absent" THEN "absent" ELSE "online"

\* UpdateAgentHeartbeat, in memory.  The request was built by the agent.
Heartbeat(a) ==
    /\ link[a] = "up" /\ pc[a] = "idle" /\ ~Locked
    /\ seen' = [seen EXCEPT ![a] = proc[a]]
    /\ agents' = [agents EXCEPT ![a] = Revived(a)]
    /\ age' = [age EXCEPT ![a] = 0]
    /\ pc' = [pc EXCEPT ![a] = "beat"]
    /\ UNCHANGED <<targets, tables, stale, link, proc, pass>>

\* UpdateNodeStatus(id, "online").
HeartbeatNode(a) ==
    /\ pc[a] = "beat"
    /\ node' = [node EXCEPT ![a] = IF @ = "none" THEN "none" ELSE "online"]
    /\ pc' = [pc EXCEPT ![a] = "report"]
    /\ UNCHANGED <<memory, inst, stale, seen, link, proc, pass>>

\* UpdateInstanceStatus, and the reply, with the rows of the agent: it gets
\* the instances it does not have yet.
HeartbeatReport(a) ==
    /\ pc[a] = "report"
    /\ inst' = [inst EXCEPT ![a] = IF seen[a] = "none" THEN @ ELSE UpdateInstanceStatus(a, seen[a])]
    /\ proc' \in {proc} \cup (IF proc[a] = "none" /\ inst[a] # "none" /\ link[a] = "up"
                              THEN {[proc EXCEPT ![a] = s] : s \in ProcState} ELSE {})
    /\ pc' = [pc EXCEPT ![a] = "idle"]
    /\ seen' = [seen EXCEPT ![a] = "none"]
    /\ UNCHANGED <<memory, node, stale, link, pass>>

-----------------------------------------------------------------------------
(* The rest of the master.                                                 *)

\* Thirty seconds pass.
Elapsed(a) == IF age[a] > Limit THEN age[a] ELSE age[a] + 1

TimedOut(a) == agents[a] # "absent" /\ Elapsed(a) > Limit

\* healthCheckLoop: the ticker, and the lock if an agent has timed out.
HealthCheck ==
    /\ ~Locked
    /\ \A a \in Agents : /\ link[a] = "up" => age[a] = 0
                         /\ pc[a] \in {"target", "upsert", "beat", "report"} => age[a] = 0
    /\ age' = [a \in Agents |-> Elapsed(a)]
    /\ check' = [a \in Agents |-> IF TimedOut(a) THEN "node" ELSE "none"]
    /\ UNCHANGED <<agents, targets, tables, handler, link, proc, skipped>>

\* Faulty: a timeout is not written to the nodes table.
NodeKept(a) == node[a]

\* UpdateNodeStatus(id, "offline").
NodeAfter(a) == IF node[a] = "none" THEN "none" ELSE "offline"

\* The agents that have timed out, one after the other.
CheckNode(a) ==
    /\ check[a] = "node" /\ \A b \in Agents : check[b] \in {"none", "node"}
    /\ agents' = [agents EXCEPT ![a] = "offline"]
    /\ node' = [node EXCEPT ![a] = NodeAfter(a)]
    /\ check' = [check EXCEPT ![a] = "target"]
    /\ UNCHANGED <<age, targets, inst, handler, link, proc, skipped>>

\* Faulty: the sync engine keeps an agent that has timed out.
TargetsKept(a) == targets

\* UnregisterAgent.
TargetsLeft(a) == targets \ {a}

\* UnregisterAgent and ListInstances, if there is something to list.
CheckTarget(a) ==
    /\ check[a] = "target"
    /\ targets' = TargetsLeft(a)
    /\ check' = [check EXCEPT ![a] = IF inst[a] = "none" THEN "none" ELSE "inst"]
    /\ skipped' = skipped \ {a}
    /\ UNCHANGED <<agents, age, tables, handler, link, proc>>

\* ListInstances fails: the instances keep their status until the next pass.
CheckListFails(a) ==
    /\ check[a] = "target"
    /\ targets' = TargetsLeft(a)
    /\ check' = [check EXCEPT ![a] = "none"]
    /\ skipped' = skipped \cup {a}
    /\ UNCHANGED <<agents, age, tables, handler, link, proc>>

\* Faulty: the instances of an agent that has timed out keep their status.
InstKept(a) == inst[a]

\* The instances of an agent that has timed out.
InstAfter(a) == UpdateInstanceStatus(a, "offline")

CheckInst(a) ==
    /\ check[a] = "inst"
    /\ inst' = [inst EXCEPT ![a] = InstAfter(a)]
    /\ check' = [check EXCEPT ![a] = "none"]
    /\ UNCHANGED <<memory, node, handler, link, proc, skipped>>

\* An operator creates an instance on a node.
CreateInstance(a) ==
    /\ node[a] # "none" /\ inst[a] = "none"
    /\ inst' = [inst EXCEPT ![a] = "stopped"]
    /\ UNCHANGED <<memory, node, handler, link, proc, pass>>

\* The maps are lost, and ResetAllStatus runs; calls under way fail.
MasterRestart ==
    /\ MasterMayRestart
    /\ agents' = [a \in Agents |-> "absent"]
    /\ age' = [a \in Agents |-> 0]
    /\ targets' = {}
    /\ node' = [a \in Agents |-> IF node[a] = "none" THEN "none" ELSE "offline"]
    /\ inst' = [a \in Agents |-> IF inst[a] = "none" THEN "none" ELSE "stopped"]
    /\ pc' = [a \in Agents |-> "idle"]
    /\ stale' = [a \in Agents |-> {}]
    /\ seen' = [a \in Agents |-> "none"]
    /\ check' = [a \in Agents |-> "none"]
    /\ skipped' = {}
    /\ UNCHANGED <<link, proc>>

\* What the pages show: overlayNodeStatus and overlayInstanceStatus put what
\* memory says over what the tables say.
IsAgentOnline(a) == agents[a] = "online"
overlayNodeStatus(a) == IF IsAgentOnline(a) THEN "online" ELSE "offline"
overlayInstanceStatus(a) == IF IsAgentOnline(a) THEN inst[a] ELSE "offline"

Handler(a) ==
    \/ RegisterList(a) \/ RegisterDelete(a) \/ RegisterConnect(a) \/ RegisterTarget(a)
    \/ RegisterUpsert(a)
    \/ HeartbeatNode(a) \/ HeartbeatReport(a)

Check(a) == CheckNode(a) \/ CheckTarget(a) \/ CheckListFails(a) \/ CheckInst(a)

Next ==
    \/ \E a \in Agents :
       \/ AgentStart(a) \/ AgentStops(a) \/ LinkCut(a) \/ LinkBack(a) \/ ProcChanges(a)
       \/ Handler(a) \/ Heartbeat(a)
       \/ Check(a)
       \/ CreateInstance(a)
    \/ HealthCheck
    \/ MasterRestart

\* Handlers and passes run to their end, connected agents send heartbeats, the
\* master's ticker ticks, and a query that is made again and again succeeds.
Fairness ==
    /\ \A a \in Agents : /\ SF_vars(Handler(a)) /\ SF_vars(Heartbeat(a) /\ age[a] > 0)
                         /\ WF_vars(Check(a)) /\ SF_vars(CheckTarget(a))
    /\ SF_vars(HealthCheck)

Spec == Init /\ [][Next]_vars /\ Fairness
-----------------------------------------------------------------------------
(* Properties.                                                             *)

\* The sync engine pushes files only to agents the master has for online: an
\* agent that timed out is no target, whatever the order of its registration,
\* its heartbeats and the health checks, but for the moment in which the health
\* check is about to unregister it.
TargetsAreOnline == \A a \in targets : agents[a] = "online" \/ check[a] = "target"

\* Between two calls of an agent, the nodes table says of an agent that has a
\* row and an entry in memory what the entry says.
TableAgrees ==
    \A a \in Agents :
       pc[a] = "idle" /\ agents[a] # "absent" /\ node[a] # "none" => node[a] = agents[a]

\* The table has no instance for running on a node that is not online, unless the
\* health check is between the statement for the node and the one for the instance,
\* or could not list the instances when it last came to the node.
RunningIsOnline ==
    \A a \in Agents : inst[a] = "running" =>
        node[a] = "online" \/ check[a] \in {"target", "inst"} \/ a \in skipped

Forgotten(a) ==
    /\ overlayNodeStatus(a) = "offline" /\ overlayInstanceStatus(a) = "offline"
    /\ node[a] # "online" /\ inst[a] # "running" /\ a \notin targets

\* An agent that is gone for good ends up offline everywhere: on the pages, in
\* the tables and in the sync engine, while the master stays up.
DeadIsForgotten ==
    \A a \in Agents : <>[](link[a] # "up") => <>[]Forgotten(a)

\* An agent that stays connected ends up online, on the pages and in the table,
\* while the master stays up.
LiveIsOnline ==
    \A a \in Agents : <>[](link[a] = "up") =>
                     <>[](overlayNodeStatus(a) = "online" /\ node[a] \in {"online", "none"})

\* What one would expect and no run checks, because it is not so: an agent that
\* is online, and not about to be registered, gets the files of the sync
\* engine.  A heartbeat that ends a silence does not make it a target again.
OnlineIsTarget ==
    \A a \in Agents : agents[a] = "online" /\ pc[a] = "idle" => a \in targets
=============================================================================
