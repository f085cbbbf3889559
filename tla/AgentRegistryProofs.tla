------------------------- MODULE AgentRegistryProofs -------------------------
(***************************************************************************)
(* The invariants of AgentRegistry for any number of agents, any names and *)
(* any limit, with restarts of the master and failed registrations.        *)
(***************************************************************************)
EXTENDS AgentRegistry, TLAPS

USE LimitAssumption, FlagsAssumption DEF memory, tables, handler, pass, ProcState

\* Every step keeps the types, and no instance outlives its node.
LEMMA TypeStep ==
    ASSUME TypeOK, [Next]_vars PROVE TypeOK'
<1> USE DEF TypeOK
<1>1. ASSUME NEW a \in Agents, AgentStart(a) PROVE TypeOK'
  BY <1>1 DEF AgentStart
<1>2. ASSUME NEW a \in Agents, AgentStops(a) PROVE TypeOK'
  BY <1>2 DEF AgentStops
<1>3. ASSUME NEW a \in Agents, LinkCut(a) PROVE TypeOK'
  BY <1>3 DEF LinkCut
<1>4. ASSUME NEW a \in Agents, LinkBack(a) PROVE TypeOK'
  BY <1>4 DEF LinkBack
<1>5. ASSUME NEW a \in Agents, ProcChanges(a) PROVE TypeOK'
  BY <1>5 DEF ProcChanges
<1>6. ASSUME NEW a \in Agents, RegisterList(a) PROVE TypeOK'
  BY <1>6 DEF RegisterList
<1>7. ASSUME NEW a \in Agents, RegisterDelete(a) PROVE TypeOK'
  BY <1>7 DEF RegisterDelete, DeleteNode, WithoutInstances
<1>8. ASSUME NEW a \in Agents, RegisterConnect(a) PROVE TypeOK'
  BY <1>8 DEF RegisterConnect, Locked
<1>9. ASSUME NEW a \in Agents, RegisterTarget(a) PROVE TypeOK'
  BY <1>9 DEF RegisterTarget, WithTarget
<1>10. ASSUME NEW a \in Agents, RegisterUpsert(a) PROVE TypeOK'
  BY <1>10 DEF RegisterUpsert, UpsertNode
<1>11. ASSUME NEW a \in Agents, HeartbeatNode(a) PROVE TypeOK'
  BY <1>11 DEF HeartbeatNode
<1>12. ASSUME NEW a \in Agents, HeartbeatReport(a) PROVE TypeOK'
  BY <1>12 DEF HeartbeatReport, UpdateInstanceStatus
<1>13. ASSUME NEW a \in Agents, Heartbeat(a) PROVE TypeOK'
  BY <1>13 DEF Heartbeat, Revived, Locked
<1>14. ASSUME NEW a \in Agents, CreateInstance(a) PROVE TypeOK'
  BY <1>14 DEF CreateInstance
<1>15. ASSUME HealthCheck PROVE TypeOK'
  BY <1>15 DEF HealthCheck, Elapsed, TimedOut, Locked
<1>18. ASSUME NEW a \in Agents, CheckNode(a) PROVE TypeOK'
  BY <1>18 DEF CheckNode, NodeAfter
<1>19. ASSUME NEW a \in Agents, CheckTarget(a) PROVE TypeOK'
  BY <1>19 DEF CheckTarget, TargetsLeft
<1>20. ASSUME NEW a \in Agents, CheckListFails(a) PROVE TypeOK'
  BY <1>20 DEF CheckListFails, TargetsLeft
<1>21. ASSUME NEW a \in Agents, CheckInst(a) PROVE TypeOK'
  BY <1>21 DEF CheckInst, InstAfter, UpdateInstanceStatus
<1>16. ASSUME MasterRestart PROVE TypeOK'
  BY <1>16 DEF MasterRestart
<1>17. ASSUME UNCHANGED vars PROVE TypeOK'
  BY <1>17 DEF vars
<1> QED
  BY <1>1, <1>2, <1>3, <1>4, <1>5, <1>6, <1>7, <1>8, <1>9,
     <1>10, <1>11, <1>12, <1>13, <1>14, <1>15, <1>16, <1>17,
     <1>18, <1>19, <1>20, <1>21 DEF Next, Handler, Check

\* The registry stays in range, and the instances table never holds an
\* instance whose node is gone.
THEOREM TypeCorrect == Spec => []TypeOK
<1>1. Init => TypeOK
  BY DEF Init, TypeOK
<1> QED
  BY <1>1, TypeStep, PTL DEF Spec

\* What a handler has established when it is at a given line: after
\* RegisterAgentConnection has filled the map the agent is online, and after
\* UpdateAgentHeartbeat neither the map nor the table says offline.  The agents the
\* health check has still to deal with are in the map, and none of their calls has set
\* LastSeen: such a call would wait for the lock.
Established ==
    \A a \in Agents :
       /\ pc[a] \in {"target", "upsert"} => agents[a] = "online"
       /\ pc[a] \in {"beat", "report"} => agents[a] # "offline"
       /\ pc[a] = "report" => node[a] # "offline"
       /\ check[a] # "none" => /\ agents[a] # "absent"
                              /\ pc[a] \in {"idle", "list", "delete", "connect"}
       /\ check[a] \in {"target", "inst"} => agents[a] = "offline"

Inv == Established /\ TargetsAreOnline /\ TableAgrees /\ RunningIsOnline

\* Every step keeps the invariant: a timeout needs a silent agent, and the pass has
\* the lock, so it never falls between the two halves of a handler.
LEMMA InvStep ==
    ASSUME TypeOK, Inv, [Next]_vars PROVE Inv'
<1> USE DEF TypeOK, Inv, Established, TargetsAreOnline, TableAgrees, RunningIsOnline
<1>1. ASSUME NEW a \in Agents, AgentStart(a) PROVE Inv'
  BY <1>1 DEF AgentStart
<1>2. ASSUME NEW a \in Agents, AgentStops(a) PROVE Inv'
  BY <1>2 DEF AgentStops
<1>3. ASSUME NEW a \in Agents, LinkCut(a) PROVE Inv'
  BY <1>3 DEF LinkCut
<1>4. ASSUME NEW a \in Agents, LinkBack(a) PROVE Inv'
  BY <1>4 DEF LinkBack
<1>5. ASSUME NEW a \in Agents, ProcChanges(a) PROVE Inv'
  BY <1>5 DEF ProcChanges
<1>6. ASSUME NEW a \in Agents, RegisterList(a) PROVE Inv'
  BY <1>6 DEF RegisterList
<1>7. ASSUME NEW a \in Agents, RegisterDelete(a) PROVE Inv'
  BY <1>7 DEF RegisterDelete, DeleteNode, WithoutInstances
<1>8. ASSUME NEW a \in Agents, RegisterConnect(a) PROVE Inv'
  BY <1>8 DEF RegisterConnect, Locked
<1>9. ASSUME NEW a \in Agents, RegisterTarget(a) PROVE Inv'
  BY <1>9 DEF RegisterTarget, WithTarget
<1>10. ASSUME NEW a \in Agents, RegisterUpsert(a) PROVE Inv'
  BY <1>10 DEF RegisterUpsert, UpsertNode
<1>11. ASSUME NEW a \in Agents, HeartbeatNode(a) PROVE Inv'
  BY <1>11 DEF HeartbeatNode
<1>12. ASSUME NEW a \in Agents, HeartbeatReport(a) PROVE Inv'
  BY <1>12 DEF HeartbeatReport, UpdateInstanceStatus
<1>13. ASSUME NEW a \in Agents, Heartbeat(a) PROVE Inv'
  BY <1>13 DEF Heartbeat, Revived, Locked
<1>14. ASSUME NEW a \in Agents, CreateInstance(a) PROVE Inv'
  BY <1>14 DEF CreateInstance
<1>15. ASSUME HealthCheck PROVE Inv'
  BY <1>15 DEF HealthCheck, Elapsed, TimedOut, Locked
<1>18. ASSUME NEW a \in Agents, CheckNode(a) PROVE Inv'
  BY <1>18 DEF CheckNode, NodeAfter
<1>19. ASSUME NEW a \in Agents, CheckTarget(a) PROVE Inv'
  BY <1>19 DEF CheckTarget, TargetsLeft
<1>20. ASSUME NEW a \in Agents, CheckListFails(a) PROVE Inv'
  BY <1>20 DEF CheckListFails, TargetsLeft
<1>21. ASSUME NEW a \in Agents, CheckInst(a) PROVE Inv'
  BY <1>21 DEF CheckInst, InstAfter, UpdateInstanceStatus
<1>16. ASSUME MasterRestart PROVE Inv'
  BY <1>16 DEF MasterRestart
<1>17. ASSUME UNCHANGED vars PROVE Inv'
  BY <1>17 DEF vars
<1> QED
  BY <1>1, <1>2, <1>3, <1>4, <1>5, <1>6, <1>7, <1>8, <1>9,
     <1>10, <1>11, <1>12, <1>13, <1>14, <1>15, <1>16, <1>17,
     <1>18, <1>19, <1>20, <1>21 DEF Next, Handler, Check

\* Inv holds in every reachable state.
THEOREM Invariance == Spec => []Inv
<1>1. Init => Inv
  BY DEF Init, Inv, Established, TargetsAreOnline, TableAgrees, RunningIsOnline
<1>2. Inv /\ TypeOK /\ [Next]_vars => Inv'
  BY InvStep
<1> QED
  BY <1>1, <1>2, TypeCorrect, PTL DEF Spec

\* The sync engine pushes files only to agents that are online, but for the moment in
\* which healthCheckLoop is about to call UnregisterAgent.
THEOREM TargetsOnline == Spec => []TargetsAreOnline
<1>1. Inv => TargetsAreOnline
  BY DEF Inv
<1> QED
  BY <1>1, Invariance, PTL

\* Between two calls of an agent, memory and the nodes table agree on it.
THEOREM TableAgreement == Spec => []TableAgrees
<1>1. Inv => TableAgrees
  BY DEF Inv
<1> QED
  BY <1>1, Invariance, PTL

\* The tables have no instance for running on a node that is not online, but between
\* the two statements of healthCheckLoop and after a ListInstances of its that failed.
THEOREM RunningOnline == Spec => []RunningIsOnline
<1>1. Inv => RunningIsOnline
  BY DEF Inv
<1> QED
  BY <1>1, Invariance, PTL
=============================================================================
