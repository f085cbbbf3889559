---------------------------- MODULE DockerNetworks ----------------------------
(***************************************************************************)
(* The Docker networks of the instances and their DNS names: the tables    *)
(* networks, instance_networks and dns_records of the master, the networks *)
(* and containers at the nodes, the requests that change both, one         *)
(* statement or remote call at a time, and the DNS server of every agent,  *)
(* which gets the records with the answers to its heartbeats.              *)
(***************************************************************************)
EXTENDS Integers, Sequences, SequencesExt

CONSTANTS
    Nodes,
    Insts,
    NodeOf,      \* the node of each instance
    Nets,        \* names of networks
    Default,     \* "craftstack-default"
    Created,     \* instances, of one node, that may have been created before
    MaxRequests, \* bound: requests at the same time
    MaxOps       \* bound: requests, and starts of DNS servers, in a behaviour

Requests == 1 .. MaxRequests
Ips == 0 .. 1    \* 0: none is given at the connection

ASSUME NetsAssumption == Default \in Nets /\ "none" \notin Nets

VARIABLES
    net,      \* the rows of networks: the node of each name, which is unique
    inst,     \* the rows of instances
    link,     \* the rows of instance_networks, oldest first: network and address
    dns,      \* the address in the record of each instance; 0 for none
    docker,   \* the networks at each node
    attached, \* the networks each container is connected to
    made,     \* the instances that have a container
    req,      \* the requests
    server,   \* the DNS server of each agent
    answer,   \* the records in the answer to the heartbeat of each agent
    ops,      \* how many requests there have been
    clashed,  \* history: instances that two requests have been about at a time, or
              \* whose container has outlived them
    remade,   \* history: the networks of each instance that a container made
              \* anew was not connected to
    manual    \* history: instances given a record by hand

tables == <<net, inst, link, dns>>
nodes == <<docker, attached, made>>
mesh == <<server, answer>>
hist == <<clashed, remade, manual>>
vars == <<tables, nodes, mesh, req, ops, hist>>

NoReq == [op |-> "none", pc |-> "idle", net |-> Default, node |-> "none", inst |-> {}, ip |-> 0]

\* Nothing, or the instances Created with their default network.
Init ==
    /\ inst \in {{}, Created} /\ made = inst
    /\ net = [x \in Nets |-> IF x = Default /\ inst # {} THEN NodeOf[CHOOSE i \in inst : TRUE] ELSE "none"]
    /\ link = [i \in Insts |-> IF i \in inst THEN <<[net |-> Default, ip |-> 0]>> ELSE <<>>]
    /\ dns = [i \in Insts |-> 0]
    /\ docker = [n \in Nodes |-> {x \in Nets : net[x] = n}]
    /\ attached = [i \in Insts |-> IF i \in inst THEN {Default} ELSE {}]
    /\ req = [h \in Requests |-> NoReq]
    /\ server = [n \in Nodes |-> [on |-> FALSE, records |-> {}]]
    /\ answer = [n \in Nodes |-> <<>>]
    /\ ops = 0
    /\ clashed = {} /\ manual = {} /\ remade = [i \in Insts |-> {}]

Active == {h \in Requests : req[h].pc # "idle"}

\* A request comes in.  It clashes with the others about its instance, and a
\* deletion of a network with all.
Begin(h, r) ==
    LET hit == {g \in Active : req[g].inst \cap r.inst # {} \/ "delete" \in {r.op, req[g].op}} IN
    /\ req[h].pc = "idle" /\ \A g \in 1 .. h - 1 : req[g].pc # "idle"
    /\ ops < MaxOps /\ ops' = ops + 1
    /\ req' = [req EXCEPT ![h] = r]
    /\ clashed' = IF hit = {} THEN clashed
                  ELSE clashed \cup r.inst \cup UNION {req[g].inst : g \in hit}

Goto(h, pc) == req' = [req EXCEPT ![h].pc = pc]
End(h) == req' = [req EXCEPT ![h] = NoReq]
In(h, op, pc) == req[h].op = op /\ req[h].pc = pc

-----------------------------------------------------------------------------
(* The statements.                                                         *)

\* The name is unique, so that no second node gets a network of it.
CreateNetwork(x, n) == net' = [net EXCEPT ![x] = IF @ = "none" THEN n ELSE @]

CountNetworkInstances(x) == {i \in Insts : \E k \in DOMAIN link[i] : link[i][k].net = x}

\* The connections of an instance without the one to a network; there is one row
\* for each pair.
Unlinked(i, x) ==
    IF i \notin CountNetworkInstances(x) THEN link[i]
    ELSE RemoveAt(link[i], CHOOSE k \in DOMAIN link[i] : link[i][k].net = x)

\* The rows of instance_networks go with the network's.
DeleteNetwork(x, n) ==
    IF net[x] # n THEN UNCHANGED <<net, link>>
    ELSE /\ net' = [net EXCEPT ![x] = "none"]
         /\ link' = [i \in Insts |-> Unlinked(i, x)]

\* The network's row and the instance's have to be there; a row of the same
\* pair keeps its place.
AddInstanceToNetwork(i, x, n, ip) ==
    link' = [link EXCEPT ![i] =
       IF net[x] # n \/ i \notin inst THEN @
       ELSE IF i \in CountNetworkInstances(x)
            THEN [k \in DOMAIN @ |-> IF @[k].net = x THEN [net |-> x, ip |-> ip] ELSE @[k]]
       ELSE Append(@, [net |-> x, ip |-> ip])]

\* The connections of an instance, the oldest first.
ListInstanceNetworks(i) == link[i]

RemoveInstanceFromNetwork(i, x) == link' = [link EXCEPT ![i] = Unlinked(i, x)]

UpsertDNSRecord(i, ip) == dns' = [dns EXCEPT ![i] = ip]
DeleteDNSRecordByInstance(i) == dns' = [dns EXCEPT ![i] = 0]
ListDNSRecords == {i \in Insts : dns[i] # 0}

-----------------------------------------------------------------------------
(* Docker at a node.                                                       *)

NetworkCreate(n, x) == docker' = [docker EXCEPT ![n] = @ \cup {x}]

\* A network that running containers are connected to is not removed.
NetworkRemove(n, x) ==
    \/ docker' = [docker EXCEPT ![n] = @ \ {x}]
    \/ (\E i \in Insts : NodeOf[i] = n /\ x \in attached[i]) /\ UNCHANGED docker

NetworkConnect(i, x) ==
    /\ x \in docker[NodeOf[i]] /\ i \in made
    /\ attached' = [attached EXCEPT ![i] = @ \cup {x}]

NetworkDisconnect(i, x) == attached' = [attached EXCEPT ![i] = @ \ {x}]

-----------------------------------------------------------------------------
(* Networks: apiCreateNetwork and apiDeleteNetwork.                        *)

apiCreateNetwork(h, x, n) ==
    /\ Begin(h, [NoReq EXCEPT !.op = "new", !.pc = "docker", !.net = x, !.node = n])
    /\ UNCHANGED <<tables, nodes, mesh, remade, manual>>

\* The agent is asked first; if it cannot, that is all.
CreateAtNode(h) ==
    /\ In(h, "new", "docker")
    /\ \/ NetworkCreate(req[h].node, req[h].net) /\ Goto(h, "row")
       \/ UNCHANGED docker /\ End(h)
    /\ UNCHANGED <<tables, attached, made, mesh, ops, hist>>

CreateRow(h) ==
    /\ In(h, "new", "row")
    /\ CreateNetwork(req[h].net, req[h].node)
    /\ End(h)
    /\ UNCHANGED <<inst, link, dns, nodes, mesh, ops, hist>>

apiDeleteNetwork(h, x) ==
    /\ net[x] # "none" /\ CountNetworkInstances(x) = {}
    /\ Begin(h, [NoReq EXCEPT !.op = "delete", !.pc = "docker", !.net = x, !.node = net[x]])
    /\ UNCHANGED <<tables, nodes, mesh, remade, manual>>

\* Whether the agent does it or not.
DeleteAtNode(h) ==
    /\ In(h, "delete", "docker")
    /\ NetworkRemove(req[h].node, req[h].net) \/ UNCHANGED docker
    /\ Goto(h, "row")
    /\ UNCHANGED <<tables, attached, made, mesh, ops, hist>>

DeleteRow(h) ==
    /\ In(h, "delete", "row")
    /\ DeleteNetwork(req[h].net, req[h].node)
    /\ End(h)
    /\ UNCHANGED <<inst, dns, nodes, mesh, ops, hist>>

-----------------------------------------------------------------------------
(* Connections: apiConnectNetwork and apiDisconnectNetwork.                *)

apiConnectNetwork(h, x, i, ip) ==
    /\ i \in inst /\ net[x] = NodeOf[i]
    /\ Begin(h, [op |-> "connect", pc |-> "docker", net |-> x, node |-> net[x], inst |-> {i}, ip |-> ip])
    /\ UNCHANGED <<tables, nodes, mesh, remade, manual>>

\* Faulty: a refusal of the agent is only logged.
ConnectAnyway(h) ==
    /\ In(h, "connect", "docker")
    /\ \E i \in req[h].inst : NetworkConnect(i, req[h].net) \/ UNCHANGED attached
    /\ Goto(h, "row")
    /\ UNCHANGED <<tables, docker, made, mesh, ops, hist>>

ConnectAtNode(h) ==
    /\ In(h, "connect", "docker")
    /\ \/ (\E i \in req[h].inst : NetworkConnect(i, req[h].net)) /\ Goto(h, "row")
       \/ UNCHANGED attached /\ End(h)
    /\ UNCHANGED <<tables, docker, made, mesh, ops, hist>>

\* The row, and the goroutine of RegisterInstanceDNS.
ConnectRow(h) ==
    /\ In(h, "connect", "row")
    /\ \E i \in req[h].inst : AddInstanceToNetwork(i, req[h].net, req[h].node, req[h].ip)
    /\ Goto(h, "dns")
    /\ UNCHANGED <<net, inst, dns, nodes, mesh, ops, hist>>

apiDisconnectNetwork(h, x, i) ==
    /\ i \in inst /\ net[x] # "none"
    /\ Begin(h, [NoReq EXCEPT !.op = "disconnect", !.pc = "docker", !.net = x, !.inst = {i}])
    /\ UNCHANGED <<tables, nodes, mesh, remade, manual>>

DisconnectAtNode(h) ==
    /\ In(h, "disconnect", "docker")
    /\ (\E i \in req[h].inst : NetworkDisconnect(i, req[h].net)) \/ UNCHANGED attached
    /\ Goto(h, "row")
    /\ UNCHANGED <<tables, docker, made, mesh, ops, hist>>

DisconnectRow(h) ==
    /\ In(h, "disconnect", "row")
    /\ \E i \in req[h].inst : RemoveInstanceFromNetwork(i, req[h].net)
    /\ Goto(h, "names")
    /\ UNCHANGED <<net, inst, dns, nodes, mesh, ops, hist>>

\* Faulty: the record stays when the last connection goes.
KeepNames(h) ==
    /\ In(h, "disconnect", "names")
    /\ \E i \in req[h].inst : IF link[i] = <<>> THEN End(h) ELSE Goto(h, "dns")
    /\ UNCHANGED <<tables, nodes, mesh, ops, hist>>

\* Without a connection the record goes; else it is registered again.
DisconnectNames(h) ==
    /\ In(h, "disconnect", "names")
    /\ \E i \in req[h].inst :
          IF ListInstanceNetworks(i) = <<>> THEN DeleteDNSRecordByInstance(i) /\ End(h) ELSE UNCHANGED dns /\ Goto(h, "dns")
    /\ UNCHANGED <<net, inst, link, nodes, mesh, ops, hist>>

\* RegisterInstanceDNS looks at the oldest connection ...
RegisterInstanceDNS(h) ==
    /\ req[h].pc = "dns"
    /\ \E i \in req[h].inst : LET links == ListInstanceNetworks(i) IN
          IF links = <<>> \/ (links # <<>> /\ links[1].ip = 0) THEN End(h)
          ELSE req' = [req EXCEPT ![h].pc = "upsert", ![h].ip = links[1].ip]
    /\ UNCHANGED <<tables, nodes, mesh, ops, hist>>

\* ... and writes its address.
RegisterUpsert(h) ==
    /\ req[h].pc = "upsert"
    /\ \E i \in req[h].inst : UpsertDNSRecord(i, req[h].ip)
    /\ End(h)
    /\ UNCHANGED <<net, inst, link, nodes, mesh, ops, hist>>

-----------------------------------------------------------------------------
(* Instances, as far as their networks go.                                 *)

\* A new instance, and ensureDefaultNetwork: the row ...
apiCreateInstance(h, i) ==
    LET n == NodeOf[i] IN
    /\ i \notin inst
    /\ inst' = inst \cup {i}
    /\ CreateNetwork(Default, n)
    /\ Begin(h, [NoReq EXCEPT !.op = "instance", !.node = n, !.inst = {i},
                              !.pc = IF net[Default] \in {"none", n} THEN "ensure" ELSE "container"])
    /\ UNCHANGED <<link, dns, nodes, mesh, remade, manual>>

\* ... and the network.
EnsureAtNode(h) ==
    /\ In(h, "instance", "ensure")
    /\ NetworkCreate(req[h].node, Default) \/ UNCHANGED docker
    /\ Goto(h, "container")
    /\ UNCHANGED <<tables, attached, made, mesh, ops, hist>>

\* The network in the configuration of a container: the default one where
\* none is asked for.
BuildContainerConfig(x) == IF x = "none" THEN Default ELSE x

\* The container at the node is made with its network, which is created if
\* need be; one that is there is connected to it.
EnsureContainer(i, x) ==
    LET network == BuildContainerConfig(x) IN
    /\ NetworkCreate(NodeOf[i], network)
    /\ attached' = [attached EXCEPT ![i] = IF i \in made THEN @ \cup {network} ELSE {network}]
    /\ made' = made \cup {i}

CreateContainer(h) ==
    /\ In(h, "instance", "container")
    /\ \/ \E i \in req[h].inst : EnsureContainer(i, Default)
       \/ UNCHANGED nodes
    /\ Goto(h, "row")
    /\ UNCHANGED <<tables, mesh, ops, hist>>

CreateInstanceRow(h) ==
    /\ In(h, "instance", "row")
    /\ \E i \in req[h].inst : AddInstanceToNetwork(i, Default, req[h].node, 0)
    /\ Goto(h, "dns")
    /\ UNCHANGED <<net, inst, dns, nodes, mesh, ops, hist>>

\* The agent learns the oldest network of an instance with a heartbeat, and
\* sees to the container if it does not know the instance.
SyncInstance(h, i) ==
    /\ i \in inst
    /\ Begin(h, [NoReq EXCEPT !.op = "sync", !.pc = "container", !.inst = {i},
          !.net = IF ListInstanceNetworks(i) = <<>> THEN "none" ELSE ListInstanceNetworks(i)[1].net])
    /\ UNCHANGED <<tables, nodes, mesh, remade, manual>>

SyncContainer(h) ==
    /\ In(h, "sync", "container")
    /\ \E i \in req[h].inst :
          /\ EnsureContainer(i, req[h].net)
          /\ remade' = IF i \in made THEN remade
                       ELSE [remade EXCEPT ![i] = @ \cup {link[i][k].net : k \in DOMAIN link[i] \ {1}}]
    /\ End(h)
    /\ UNCHANGED <<tables, mesh, ops, clashed, manual>>

\* Somebody removes a container at the node.
ContainerLost(i) ==
    /\ i \in made /\ ops < MaxOps /\ ops' = ops + 1
    /\ made' = made \ {i} /\ attached' = [attached EXCEPT ![i] = {}]
    /\ UNCHANGED <<tables, docker, mesh, req, hist>>

\* The agent, if it answers, disconnects and removes the container ...
apiDeleteInstance(h, i) ==
    /\ i \in inst
    /\ Begin(h, [NoReq EXCEPT !.op = "remove", !.pc = "tables", !.inst = {i}])
    /\ \/ made' = made \ {i} /\ attached' = [attached EXCEPT ![i] = {}]
       \/ UNCHANGED <<made, attached>>
    /\ UNCHANGED <<tables, docker, mesh, remade, manual>>

\* ... and what the tables say of it goes.
DeleteInstanceRows(h) ==
    /\ In(h, "remove", "tables")
    /\ \E i \in req[h].inst :
          /\ DeleteDNSRecordByInstance(i)
          /\ link' = [link EXCEPT ![i] = <<>>]
          /\ inst' = inst \ {i}
          /\ clashed' = clashed \cup ({i} \cap made)
    /\ End(h)
    /\ UNCHANGED <<net, nodes, mesh, ops, remade, manual>>

-----------------------------------------------------------------------------
(* DNS.                                                                    *)

apiCreateDNSRecord(i, ip) ==
    /\ ops < MaxOps /\ ops' = ops + 1
    /\ UpsertDNSRecord(i, ip)
    /\ manual' = manual \cup {i}
    /\ UNCHANGED <<net, inst, link, nodes, mesh, req, clashed, remade>>

apiDeleteDNSRecord(i) ==
    /\ dns[i] # 0 /\ ops < MaxOps /\ ops' = ops + 1
    /\ DeleteDNSRecordByInstance(i)
    /\ UNCHANGED <<net, inst, link, nodes, mesh, req, hist>>

\* The first WireGuard configuration starts the server; when the agent starts
\* again there is none.
StartServer(n) ==
    /\ ops < MaxOps /\ ops' = ops + 1
    /\ server' = [server EXCEPT ![n] = [on |-> ~@.on, records |-> {}]]
    /\ answer' = [answer EXCEPT ![n] = <<>>]
    /\ UNCHANGED <<tables, nodes, req, hist>>

BuildDNSRecords == {<<i, dns[i]>> : i \in ListDNSRecords}

\* The master answers the heartbeat (an agent without a server ignores it) ...
Heartbeat(n) ==
    /\ answer[n] = <<>> /\ server[n].on
    /\ answer' = [answer EXCEPT ![n] = <<BuildDNSRecords>>]
    /\ UNCHANGED <<tables, nodes, req, server, ops, hist>>

\* Faulty: the server keeps the records it has.
KeepRecords(n, records) == IF server[n].records = {} THEN records ELSE server[n].records

\* UpdateRecords replaces the records.
UpdateRecords(n, records) == records

\* ... and the agent takes the records, if there are any and it has a server.
ReceiveRecords(n) ==
    /\ answer[n] # <<>>
    /\ server' = IF answer[n][1] # {}
                 THEN [server EXCEPT ![n].records = UpdateRecords(n, answer[n][1])] ELSE server
    /\ answer' = [answer EXCEPT ![n] = <<>>]
    /\ UNCHANGED <<tables, nodes, req, ops, hist>>

\* The addresses the server answers for the name of an instance, none meaning
\* that there is no such name.
handleQuery(n, i) == {r[2] : r \in {s \in server[n].records : s[1] = i}}

Step(h) ==
    \/ CreateAtNode(h) \/ CreateRow(h) \/ DeleteAtNode(h) \/ DeleteRow(h)
    \/ ConnectAtNode(h) \/ ConnectRow(h)
    \/ DisconnectAtNode(h) \/ DisconnectRow(h) \/ DisconnectNames(h)
    \/ RegisterInstanceDNS(h) \/ RegisterUpsert(h)
    \/ EnsureAtNode(h) \/ CreateContainer(h) \/ CreateInstanceRow(h)
    \/ SyncContainer(h) \/ DeleteInstanceRows(h)

Request(h) ==
    \/ \E x \in Nets : apiDeleteNetwork(h, x) \/ \E n \in Nodes : apiCreateNetwork(h, x, n)
    \/ \E i \in Insts :
          \/ apiCreateInstance(h, i) \/ apiDeleteInstance(h, i) \/ SyncInstance(h, i)
          \/ \E x \in Nets : apiDisconnectNetwork(h, x, i) \/ \E ip \in Ips : apiConnectNetwork(h, x, i, ip)

Beat == \E n \in Nodes : Heartbeat(n) \/ ReceiveRecords(n)

Next ==
    \/ \E h \in Requests : Request(h) \/ Step(h)
    \/ \E i \in Insts : ContainerLost(i) \/ apiDeleteDNSRecord(i) \/ apiCreateDNSRecord(i, 1)
    \/ \E n \in Nodes : StartServer(n)
    \/ Beat

\* Requests come to an end, and agents that are there send heartbeats.
Fairness ==
    /\ \A h \in Requests : WF_vars(Step(h))
    /\ \A n \in Nodes : WF_vars(Heartbeat(n)) /\ WF_vars(ReceiveRecords(n))

Spec == Init /\ [][Next]_vars /\ Fairness

-----------------------------------------------------------------------------
(* Properties.                                                             *)

Records == SUBSET (Insts \X Ips)

TypeOK ==
    /\ net \in [Nets -> Nodes \cup {"none"}]
    /\ {inst, made, clashed, manual} \subseteq SUBSET Insts
    /\ remade \in [Insts -> SUBSET Nets]
    /\ \A i \in Insts : \A k \in DOMAIN link[i] : link[i][k] \in [net : Nets, ip : Ips]
    /\ dns \in [Insts -> Ips]
    /\ docker \in [Nodes -> SUBSET Nets] /\ attached \in [Insts -> SUBSET Nets]
    /\ server \in [Nodes -> [on : BOOLEAN, records : Records]]
    /\ \A n \in Nodes : answer[n] = <<>> \/ answer[n][1] \in Records
    /\ ops \in 0 .. MaxOps

\* What the tables say of the connections of a container is so at its node,
\* whichever calls have failed, if no two requests about the instance have
\* overlapped and none has left its container behind.  A container that was made
\* anew has lost all but the oldest of that time, also when that one goes later.
ConnectedIsAttached ==
    \A i \in Insts \ clashed : i \in made => \A k \in DOMAIN link[i] :
       \/ link[i][k].net \in attached[i]
       \/ \E g \in Active : i \in req[g].inst
       \/ link[i][k].net \in remade[i]

\* Without a connection an instance has no name in the DNS, except one that
\* was given by hand or registered while another request was under way.
NamesAreConnected ==
    \A i \in Insts \ (clashed \cup manual) :
       (\A h \in Active : i \notin req[h].inst) /\ link[i] = <<>> => dns[i] = 0

\* Every agent with a DNS server gets to answer for each name what the master
\* has in its table, unless that is empty: then it keeps the last records.
NamesReachAgents ==
    \A n \in Nodes :
       <>[](server[n].on /\ BuildDNSRecords # {})
       => <>[](\A i \in Insts : handleQuery(n, i) = {dns[i]} \ {0})

\* What one would expect and no run checks, because it is not so: after
\* ensureDefaultNetwork the node of the instance has its default network in the
\* table.  Network names are unique, and the first node has taken the name.
DefaultIsEnsured ==
    \A h \in Requests : In(h, "instance", "container") => net[Default] = req[h].node
=============================================================================
