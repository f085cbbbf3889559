-------------------------------- MODULE Mesh --------------------------------
(***************************************************************************)
(* The WireGuard mesh: every registration of an agent starts a goroutine   *)
(* that gives a new node its keys and its address, and then pushes the     *)
(* configuration of all nodes to all agents that are online.  Its steps    *)
(* are single statements and single remote calls, and the goroutines of    *)
(* several registrations interleave.                                       *)
(*                                                                         *)
(* A node is an identifier; it runs at a host, which is what the node is   *)
(* named after and what has the WireGuard interface.  A host that comes    *)
(* with a new identifier replaces the nodes of its name.                   *)
(***************************************************************************)
EXTENDS Integers, FiniteSets, FiniteSetsExt

CONSTANTS
    MeshNodes,
    HostOf,          \* the host of each node, a number; pushes go in its order
    MaxRoutines,     \* bound: goroutines of OnAgentRegistered at the same time
    MaxRegistrations \* bound: registrations, timeouts, losses of an agent, restarts

Routines == 1 .. MaxRoutines
Hosts == {HostOf[n] : n \in MeshNodes}

VARIABLES
    row,     \* the WireGuard columns of the nodes table: key and index, 0 for none
    online,  \* nodes the master takes for online
    routine, \* the goroutines
    iface,   \* the interface of each host: its key, index and peers
    keys,    \* keys generated so far
    steps,   \* registrations and the like, so far
    clash,   \* history: an index was read before another one was saved
    unread,  \* history: a read of the greatest index has failed
    given,   \* history: the indexes the nodes of each host have had
    dirty,   \* history: no goroutine has pushed to everyone, alone, since a node
             \* was removed, two pushed at a time, a list failed or the master stopped
    missed   \* history: hosts the last push to which has failed or left them out

indexes == <<clash, unread, given>>
meshVars == <<row, online, routine, iface, keys, steps, indexes, dirty, missed>>

NoRow == [known |-> FALSE, key |-> 0, idx |-> 0]
NoConfig == [key |-> 0, idx |-> 0, peers |-> {}]
Done == [pc |-> "done", node |-> {}, idx |-> 0, snap |-> [n \in MeshNodes |-> NoRow], todo |-> {}]

MeshInit ==
    /\ row = [n \in MeshNodes |-> NoRow]
    /\ online = {}
    /\ routine = [r \in Routines |-> Done]
    /\ iface = [h \in Hosts |-> NoConfig]
    /\ keys = 0 /\ steps = 0
    /\ clash = FALSE /\ unread = FALSE /\ given = [h \in Hosts |-> {}]
    /\ dirty = FALSE /\ missed = {}

Counted == steps < MaxRegistrations /\ steps' = steps + 1
RoutinesAt(pc) == {r \in Routines : routine[r].pc = pc}

-----------------------------------------------------------------------------
(* Agents.                                                                 *)

\* RegisterAgent removes the nodes of the same name, inserts or updates the
\* row, and starts the goroutine.
Registered(r, n) ==
    LET replaced == {m \in MeshNodes \ {n} : HostOf[m] = HostOf[n]} IN
    /\ Counted
    /\ routine[r].pc = "done" /\ \A q \in 1 .. r - 1 : routine[q].pc # "done"
    /\ row' = [m \in MeshNodes |-> IF m \in replaced THEN NoRow
                                   ELSE IF m = n THEN [row[n] EXCEPT !.known = TRUE] ELSE row[m]]
    /\ dirty' = (dirty \/ \E m \in replaced : row[m].key # 0)
    /\ online' = online \cup {n}
    /\ routine' = [routine EXCEPT ![r] = [Done EXCEPT !.pc = "look", !.node = {n}]]
    /\ UNCHANGED <<iface, keys, indexes, missed>>

\* The agent has not been heard of for too long; its next heartbeat makes it
\* online again, without a registration.
GoesOffline(n) ==
    /\ n \in online /\ Counted
    /\ online' = online \ {n}
    /\ UNCHANGED <<row, routine, iface, keys, indexes, dirty, missed>>

MeshHeartbeat(n) ==
    /\ n \notin online /\ row[n].known
    /\ online' = online \cup {n}
    /\ UNCHANGED <<row, routine, iface, keys, steps, indexes, dirty, missed>>

\* The host restarts, and has no interface until a configuration arrives.
HostRestarts(h) ==
    /\ iface[h] # NoConfig /\ Counted
    /\ iface' = [iface EXCEPT ![h] = NoConfig]
    /\ missed' = missed \cup {h}
    /\ UNCHANGED <<row, online, routine, keys, indexes, dirty>>

MasterRestart ==
    /\ Counted
    /\ online' = {}
    /\ routine' = [r \in Routines |-> Done]
    /\ dirty' = TRUE
    /\ UNCHANGED <<row, iface, keys, indexes, missed>>

-----------------------------------------------------------------------------
(* OnAgentRegistered.                                                      *)

Continue(r, pc) == routine' = [routine EXCEPT ![r].pc = pc]

\* The node, if it is still there, needs a setup if it has no key.
Look(r) ==
    /\ routine[r].pc = "look"
    /\ \E n \in routine[r].node :
          IF ~row[n].known THEN routine' = [routine EXCEPT ![r] = Done]
          ELSE Continue(r, IF row[n].key = 0 THEN "install" ELSE "list")
    /\ UNCHANGED <<row, online, iface, keys, steps, indexes, dirty, missed>>

\* WireGuardStatus at the agent installs WireGuard if it is not there, or fails.
WireGuardStatus == {"installed", "failed"}

\* WireGuard is installed at the agent, or the goroutine ends.
EnsureWireGuardInstalled(r) ==
    /\ routine[r].pc = "install"
    /\ \E status \in WireGuardStatus :
          IF status = "installed" THEN Continue(r, "index")
          ELSE routine' = [routine EXCEPT ![r] = Done]
    /\ UNCHANGED <<row, online, iface, keys, steps, indexes, dirty, missed>>

\* Faulty: the number of nodes, instead of the greatest index.
CountNodes(fails) == IF fails THEN 1 ELSE 1 + Cardinality({n \in MeshNodes : row[n].idx # 0})

\* The greatest index and one; when the query fails, 1 without an error.
NextWGIndex(fails) == IF fails THEN 1 ELSE 1 + Max({row[n].idx : n \in MeshNodes})

TakeIndex(r) ==
    /\ routine[r].pc = "index"
    /\ \E fails \in BOOLEAN :
          /\ routine' = [routine EXCEPT ![r].pc = "save", ![r].idx = NextWGIndex(fails)]
          /\ unread' = (unread \/ fails)
    /\ clash' = (clash \/ RoutinesAt("save") # {})
    /\ UNCHANGED <<row, online, iface, keys, steps, given, dirty, missed>>

\* A key nobody has.
generateWireGuardKeyPair == keys + 1

\* The statement has no effect on a node that has been removed.
UpdateNodeWireGuard(S, key, idx) ==
    [n \in MeshNodes |-> IF n \in S /\ row[n].known THEN [row[n] EXCEPT !.key = key, !.idx = idx]
                         ELSE row[n]]

SaveNode(r) ==
    /\ routine[r].pc = "save"
    /\ keys' = generateWireGuardKeyPair
    /\ row' = UpdateNodeWireGuard(routine[r].node, keys', routine[r].idx)
    /\ given' = [h \in Hosts |-> given[h] \cup
                    {row'[n].idx : n \in {m \in MeshNodes : HostOf[m] = h /\ row'[m].key # 0}}]
    /\ Continue(r, "list")
    /\ UNCHANGED <<online, iface, steps, clash, unread, dirty, missed>>

ListNodesWithWireGuard == {n \in MeshNodes : row[n].key # 0}

\* PushConfigToAllAgents lists the nodes ...
ListNodes(r) ==
    /\ routine[r].pc = "list"
    /\ routine' = [routine EXCEPT ![r] =
          IF ListNodesWithWireGuard = {} THEN Done
          ELSE [@ EXCEPT !.pc = "push", !.snap = row, !.todo = ListNodesWithWireGuard]]
    /\ dirty' = (RoutinesAt("push") # {} \/ (dirty /\ ListNodesWithWireGuard = {}))
    /\ UNCHANGED <<row, online, iface, keys, steps, indexes, missed>>

\* A statement that fails ends the goroutine.
StoreFails(r) ==
    /\ routine[r].pc \in {"look", "save", "list"}
    /\ routine' = [routine EXCEPT ![r] = Done]
    /\ dirty' = (dirty \/ routine[r].pc = "list")
    /\ UNCHANGED <<row, online, iface, keys, steps, indexes, missed>>

buildPeersFor(n, snap) ==
    {<<snap[m].key, snap[m].idx>> : m \in {m \in MeshNodes \ {n} : snap[m].key # 0}}

Config(n, snap) == [key |-> snap[n].key, idx |-> snap[n].idx, peers |-> buildPeersFor(n, snap)]

\* ApplyConfig at the agent brings the interface up.  One that is up it reloads, with
\* wg syncconf, which leaves the address as it is, or takes down and up again ...
ApplyConfig(h, config) ==
    /\ \/ iface' = [iface EXCEPT ![h] = config]
       \/ iface[h] # NoConfig /\ iface' = [iface EXCEPT ![h] = [config EXCEPT !.idx = iface[h].idx]]
    /\ missed' = missed \ {h}

\* ... after which it may not come up.
ApplyFails(h) ==
    /\ iface' \in {iface, [iface EXCEPT ![h] = NoConfig]}
    /\ missed' = missed \cup {h}

\* ConfigureWireGuard at the agent, called by the master.
ConfigureWireGuard(h, config) == ApplyConfig(h, config) \/ ApplyFails(h)

Advance(r, n) ==
    LET left == routine[r].todo \ {n} IN
    routine' = [routine EXCEPT ![r] = IF left = {} THEN Done ELSE [@ EXCEPT !.todo = left]]

\* Faulty: the configuration is sent to the new node alone.
PushToItself(r) ==
    /\ routine[r].pc = "push"
    /\ \E n \in routine[r].todo :
          /\ \A m \in routine[r].todo : HostOf[n] <= HostOf[m]
          /\ Advance(r, n)
          /\ IF n \notin online THEN missed' = missed \cup {HostOf[n]} /\ UNCHANGED iface
             ELSE IF n \notin routine[r].node THEN UNCHANGED <<iface, missed>>
             ELSE ConfigureWireGuard(HostOf[n], Config(n, routine[r].snap))
    /\ UNCHANGED <<row, online, keys, steps, indexes, dirty>>

\* ... and sends each, if it is online, its configuration.
PushConfig(r) ==
    /\ routine[r].pc = "push"
    /\ \E n \in routine[r].todo :
          /\ \A m \in routine[r].todo : HostOf[n] <= HostOf[m]
          /\ Advance(r, n)
          /\ IF n \notin online THEN missed' = missed \cup {HostOf[n]} /\ UNCHANGED iface
             ELSE ConfigureWireGuard(HostOf[n], Config(n, routine[r].snap))
    /\ UNCHANGED <<row, online, keys, steps, indexes, dirty>>

MeshNext ==
    \/ \E r \in Routines :
          \/ \E n \in MeshNodes : Registered(r, n)
          \/ Look(r) \/ EnsureWireGuardInstalled(r) \/ TakeIndex(r) \/ SaveNode(r)
          \/ ListNodes(r) \/ PushConfig(r) \/ StoreFails(r)
    \/ \E n \in MeshNodes : GoesOffline(n) \/ MeshHeartbeat(n)
    \/ \E h \in Hosts : HostRestarts(h)
    \/ MasterRestart

MeshSpec == MeshInit /\ [][MeshNext]_meshVars

-----------------------------------------------------------------------------
(* Properties.                                                             *)

Rows == [known : BOOLEAN, key : 0 .. MaxRegistrations, idx : 0 .. MaxRegistrations]

MeshTypeOK ==
    /\ row \in [MeshNodes -> Rows]
    /\ online \subseteq MeshNodes
    /\ routine \in [Routines -> [pc : {"done", "look", "install", "index", "save", "list", "push"},
                                 node : SUBSET MeshNodes, idx : 0 .. MaxRegistrations,
                                 snap : [MeshNodes -> Rows], todo : SUBSET MeshNodes]]
    /\ DOMAIN iface = Hosts
    /\ {keys, steps} \subseteq 0 .. MaxRegistrations
    /\ {clash, unread, dirty} \subseteq BOOLEAN /\ missed \subseteq Hosts
    /\ given \in [Hosts -> SUBSET (1 .. MaxRegistrations)]

\* No two nodes have the same WireGuard address and Docker subnet, whatever nodes
\* have been removed and added, unless the setups of two nodes read the greatest index
\* before either had saved its own; but for the first address, which a node gets, too,
\* when the index cannot be read.
AddressesDiffer ==
    clash \/ \A n, m \in ListNodesWithWireGuard :
                row[n].idx = row[m].idx => n = m \/ (unread /\ row[n].idx = 1)

\* When no goroutine is at work, every host that is online has the key and the peers,
\* with their addresses, of exactly the nodes of now, though every push works with the
\* nodes of when it began, and an address that one of its nodes was given, so that of
\* its node if there was but one; unless its last push failed or left it out, or
\* two goroutines have pushed at the same time, a node has been removed, or the nodes
\* could not be listed, with no other push since.
MeshIsWhole ==
    RoutinesAt("done") = Routines /\ ~dirty =>
       \A n \in ListNodesWithWireGuard \cap online :
          HostOf[n] \in missed \/
             \E idx \in given[HostOf[n]] : iface[HostOf[n]] = [Config(n, row) EXCEPT !.idx = idx]
=============================================================================
