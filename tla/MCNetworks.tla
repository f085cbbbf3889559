----------------------------- MODULE MCNetworks -----------------------------
(* The networks of the instances, the mesh of the nodes and the opening of *)
(* the master's database, for one run: a behaviour is of one of them.      *)
EXTENDS DockerNetworks, Mesh, Schema

VARIABLE part

\* Two instances, each on a node of its own.
MCNodeOf == [i \in Insts |-> IF i = "i1" THEN "n1" ELSE "n2"]

\* Nodes 1 and 3 are agents of one host.
MCHostOf == [n \in MeshNodes |-> IF n = 3 THEN 1 ELSE n]

all == <<vars, meshVars, schemaVars, part>>

MCInit ==
    /\ Init /\ MeshInit /\ SchemaInit
    /\ part \in {"networks", "mesh", "schema"}
    /\ part # "networks" => inst = {}
    /\ part # "schema" => versions = {}

NetworksStep == part = "networks" /\ Next /\ UNCHANGED <<meshVars, schemaVars, part>>
MeshStep == part = "mesh" /\ MeshNext /\ UNCHANGED <<vars, schemaVars, part>>
SchemaStep == part = "schema" /\ SchemaNext /\ UNCHANGED <<vars, meshVars, part>>

MCNext == NetworksStep \/ MeshStep \/ SchemaStep

MCSpec == MCInit /\ [][MCNext]_all /\ Fairness
=============================================================================
