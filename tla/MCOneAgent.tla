----------------------------- MODULE MCOneAgent -----------------------------
(* One agent that nothing disturbs but its containers and its links, for   *)
(* what must happen in the end: a behaviour is of a process with a single  *)
(* caller, or of the agent's heartbeats against the health checks of a     *)
(* master that stays up.                                                   *)
EXTENDS DockerProcess

CONSTANTS Agents, NameOf, Limit, MasterMayRestart, RegistrationMayFail

VARIABLES agents, age, targets, node, inst, at, stale, seen, link, proc, check, skipped, part

Registry == INSTANCE AgentRegistry WITH pc <- at

registryVars == <<agents, age, targets, node, inst, at, stale, seen, link, proc, check, skipped>>

\* Every agent has a name of its own.
OwnNames == [a \in Agents |-> a]

MCInit ==
    /\ Init /\ Registry!Init
    /\ part \in {"process", "registry"}
    /\ part = "registry" => cstat = "created" /\ ccode = 0

ProcessStep == part = "process" /\ Next /\ UNCHANGED <<registryVars, part>>
RegistryStep == part = "registry" /\ Registry!Next /\ UNCHANGED <<vars, part>>

MCNext == ProcessStep \/ RegistryStep

MCSpec ==
    /\ MCInit /\ [][MCNext]_<<vars, registryVars, part>>
    /\ part = "process" => Fairness
    /\ part = "registry" => Registry!Fairness

\* An agent that is gone for good ends up offline everywhere while the master stays
\* up (healthCheckLoop).
DeadIsForgotten == part = "registry" => Registry!DeadIsForgotten

\* An agent that stays connected ends up online while the master stays up
\* (UpdateAgentHeartbeat).
LiveIsOnline == part = "registry" => Registry!LiveIsOnline
=============================================================================
