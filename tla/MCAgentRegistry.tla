-------------------------- MODULE MCAgentRegistry --------------------------
EXTENDS AgentRegistry, TLC

CONSTANTS a1, a2

\* All agents have the same name: it defaults to the host name.
OneName == [a \in Agents |-> "agent"]

\* Agents of one name can be exchanged.
Exchanged == Permutations(Agents)

\* Every agent has a name of its own.
OwnNames == [a \in Agents |-> a]
=============================================================================
