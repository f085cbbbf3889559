--------------------------- MODULE NetworksProofs ---------------------------
(***************************************************************************)
(* What the tables say of a container's networks and names is so at its    *)
(* node, the addresses of the mesh differ and its peers are the nodes in   *)
(* the table, and the schema of the database is that of the versions       *)
(* recorded, for any number of instances, networks, nodes, requests and    *)
(* masters.                                                                *)
(***************************************************************************)
EXTENDS DockerNetworks, Mesh, Schema, SequenceTheorems, FiniteSetTheorems, TLAPS

-----------------------------------------------------------------------------
(* The Docker networks of the instances and their names.                   *)

Link == [net : Nets, ip : Int]

Linked(i) == {link[i][k].net : k \in DOMAIN link[i]}

\* One row for each pair.
Unique(s) == \A j, k \in DOMAIN s : s[j].net = s[k].net => j = k

\* What a request about instance i has established at each of its lines.
Fit(i, r) ==
    /\ r.op = "connect" /\ r.pc = "row" /\ i \in made => r.net \in attached[i]
    /\ r.op = "instance" /\ r.pc \in {"ensure", "container", "row"} => link[i] = <<>>
    /\ r.op = "instance" /\ r.pc \in {"ensure", "container"} => i \notin made
    /\ r.op = "instance" /\ r.pc = "row" /\ i \in made => Default \in attached[i]
    /\ r.op = "sync" /\ link[i] # <<>> => r.net = link[i][1].net
    /\ r.pc = "upsert" => link[i] # <<>>

\* The requests about an instance: one at a time, and none beside the deletion of
\* a network, which is one the instance is not connected to.
Solo(i) ==
    /\ \A g, h \in Requests : i \in req[g].inst /\ i \in req[h].inst => g = h
    /\ \A h \in Requests : req[h].op = "delete" =>
          /\ \A g \in Requests : i \notin req[g].inst
          /\ \A k \in DOMAIN link[i] : link[i][k].net # req[h].net
    /\ \A h \in Requests : i \in req[h].inst => i \in inst /\ Fit(i, req[h])

\* The connections and the name of an instance, and who is about to set them right.
Right(i) ==
    /\ i \notin inst => i \notin made /\ link[i] = <<>>
    /\ i \in made => \A k \in DOMAIN link[i] :
          \/ link[i][k].net \in attached[i] \cup remade[i]
          \/ \E h \in Requests : i \in req[h].inst /\ In(h, "disconnect", "row") /\ req[h].net = link[i][k].net
    /\ i \notin manual /\ link[i] = <<>> =>
          \/ dns[i] = 0
          \/ \E h \in Requests : i \in req[h].inst /\ In(h, "disconnect", "names")

ReqOps == {"none", "new", "delete", "connect", "disconnect", "instance", "sync", "remove"}
ReqPcs == {"idle", "docker", "row", "dns", "names", "upsert", "ensure", "container", "tables"}
Fields == {"op", "pc", "net", "node", "inst", "ip"}

NetTypes ==
    /\ link \in [Insts -> Seq(Link)] /\ \A i \in Insts : Unique(link[i])
    /\ DOMAIN attached = Insts /\ DOMAIN remade = Insts /\ DOMAIN dns = Insts
    /\ DOMAIN req = Requests
    /\ \A h \in Requests :
          /\ DOMAIN req[h] = Fields /\ req[h].ip \in Int /\ (req[h].op # "sync" => req[h].net \in Nets)
          /\ req[h].inst \subseteq Insts /\ \A i, j \in req[h].inst : i = j
          /\ req[h].pc = "idle" => req[h].inst = {} /\ req[h].op = "none"

NetInv == NetTypes /\ \A i \in Insts \ clashed : Solo(i) /\ Right(i)

-----------------------------------------------------------------------------
(* The rows of instance_networks.                                          *)

LEMMA RemoveAtGives ==
    ASSUME NEW S, NEW s \in Seq(S), NEW k \in 1 .. Len(s)
    PROVE  /\ RemoveAt(s, k) \in Seq(S) /\ Len(RemoveAt(s, k)) = Len(s) - 1
           /\ \A j \in 1 .. Len(s) - 1 : RemoveAt(s, k)[j] = s[IF j < k THEN j ELSE j + 1]
<1> DEFINE n == Len(s)
           a == SubSeq(s, 1, k - 1)
           b == SubSeq(s, k + 1, n)
<1>1. n \in Nat /\ k \in 1 .. n /\ \A j \in 1 .. n : s[j] \in S
  BY ElementOfSeq
<1>2. /\ a \in Seq(S) /\ Len(a) = (IF 1 <= k - 1 THEN k - 1 - 1 + 1 ELSE 0)
      /\ \A j \in 1 .. k - 1 - 1 + 1 : a[j] = s[1 + j - 1]
  <2>1. 1 \in Int /\ k - 1 \in Int /\ \A j \in 1 .. k - 1 : s[j] \in S
    BY <1>1
  <2> QED
    BY <2>1, SubSeqProperties
<1>3. /\ b \in Seq(S) /\ Len(b) = (IF k + 1 <= n THEN n - (k + 1) + 1 ELSE 0)
      /\ \A j \in 1 .. n - (k + 1) + 1 : b[j] = s[k + 1 + j - 1]
  <2>1. k + 1 \in Int /\ n \in Int /\ \A j \in k + 1 .. n : s[j] \in S
    BY <1>1
  <2> QED
    BY <2>1, SubSeqProperties
<1>4. RemoveAt(s, k) = a \o b
  BY DEF RemoveAt
<1> HIDE DEF n, a, b
<1>5. /\ Len(a) = k - 1 /\ \A j \in 1 .. k - 1 : a[j] = s[j]
      /\ Len(b) = n - k /\ \A j \in 1 .. n - k : b[j] = s[k + j]
  BY <1>1, <1>2, <1>3
<1>6. /\ a \o b \in Seq(S) /\ Len(a \o b) = Len(a) + Len(b)
      /\ \A j \in 1 .. Len(a) + Len(b) : (a \o b)[j] = IF j <= Len(a) THEN a[j] ELSE b[j - Len(a)]
  BY <1>2, <1>3, ConcatProperties
<1>7. \A j \in 1 .. n - 1 : (a \o b)[j] = s[IF j < k THEN j ELSE j + 1]
  <2> SUFFICES ASSUME NEW j \in 1 .. n - 1 PROVE (a \o b)[j] = s[IF j < k THEN j ELSE j + 1]
    OBVIOUS
  <2>1. j \in 1 .. Len(a) + Len(b)
    BY <1>1, <1>5
  <2>2. CASE j < k
    BY <1>1, <1>5, <1>6, <2>1, <2>2
  <2>3. CASE ~(j < k)
    <3>1. j - (k - 1) \in 1 .. n - k /\ k + (j - (k - 1)) = j + 1 /\ ~(j <= k - 1)
      BY <1>1, <2>3
    <3> QED
      BY <1>5, <1>6, <2>1, <2>3, <3>1
  <2> QED
    BY <2>2, <2>3
<1> QED
  BY <1>1, <1>4, <1>5, <1>6, <1>7 DEF n

\* What is left when the row of a network goes.
LEMMA UnlinkedGives ==
    ASSUME NetTypes, NEW i \in Insts, NEW x
    PROVE  /\ Unlinked(i, x) \in Seq(Link) /\ Unique(Unlinked(i, x))
           /\ \A k \in DOMAIN Unlinked(i, x) :
                 /\ Unlinked(i, x)[k].net # x
                 /\ \E j \in DOMAIN link[i] : Unlinked(i, x)[k] = link[i][j]
           /\ (\A k \in DOMAIN link[i] : link[i][k].net # x) => Unlinked(i, x) = link[i]
<1> DEFINE s == link[i]
           u == Unlinked(i, x)
<1>1. s \in Seq(Link) /\ Unique(s)
  BY DEF NetTypes
<1>2. CASE i \notin CountNetworkInstances(x)
  BY <1>1, <1>2 DEF Unlinked, CountNetworkInstances
<1>3. CASE i \in CountNetworkInstances(x)
  <2> DEFINE m == CHOOSE k \in DOMAIN s : s[k].net = x
  <2>1. \E k \in DOMAIN s : s[k].net = x
    BY <1>3 DEF CountNetworkInstances
  <2>2. m \in DOMAIN s /\ s[m].net = x
    BY <2>1
  <2>3. u = RemoveAt(s, m)
    BY <1>3 DEF Unlinked
  <2> HIDE DEF m, u, s
  <2>4. Len(s) \in Nat /\ DOMAIN s = 1 .. Len(s)
    BY <1>1
  <2>5. m \in 1 .. Len(s)
    BY <2>2, <2>4
  <2>6. /\ u \in Seq(Link) /\ Len(u) = Len(s) - 1
        /\ \A j \in 1 .. Len(s) - 1 : u[j] = s[IF j < m THEN j ELSE j + 1]
    BY <1>1, <2>3, <2>5, RemoveAtGives
  <2>7. DOMAIN u = 1 .. Len(s) - 1
    BY <2>6
  <2> DEFINE p(j) == IF j < m THEN j ELSE j + 1
  <2>8. \A j \in DOMAIN u : p(j) \in DOMAIN s /\ p(j) # m /\ u[j] = s[p(j)]
    BY <2>4, <2>5, <2>6, <2>7
  <2>9. \A j, k \in DOMAIN u : p(j) = p(k) => j = k
    BY <2>4, <2>5, <2>7
  <2> HIDE DEF p
  <2>10. Unique(u)
    BY <1>1, <2>8, <2>9 DEF Unique
  <2>11. \A k \in DOMAIN u : u[k].net # x /\ \E j \in DOMAIN s : u[k] = s[j]
    BY <1>1, <2>2, <2>8 DEF Unique
  <2> QED
    BY <2>1, <2>6, <2>10, <2>11 DEF s, u
<1> QED
  BY <1>2, <1>3

\* A row is added, or gets another address.
LEMMA AddedGives ==
    ASSUME NetTypes, NEW i \in Insts, NEW x \in Nets, NEW n, NEW ip \in Int, AddInstanceToNetwork(i, x, n, ip)
    PROVE  /\ link' \in [Insts -> Seq(Link)] /\ \A j \in Insts : Unique(link'[j])
           /\ \A j \in Insts \ {i} : link'[j] = link[j]
           /\ link'[i] = <<>> => link[i] = <<>>
           /\ \A k \in DOMAIN link'[i] : \/ link'[i][k].net = x
                                         \/ k \in DOMAIN link[i] /\ link'[i][k].net = link[i][k].net
<1> DEFINE s == link[i]
           e == [net |-> x, ip |-> ip]
           t == [k \in DOMAIN s |-> IF s[k].net = x THEN e ELSE s[k]]
<1>1. s \in Seq(Link) /\ Unique(s) /\ link \in [Insts -> Seq(Link)] /\ \A j \in Insts : Unique(link[j])
  BY DEF NetTypes
<1>2. e \in Link /\ e.net = x
  BY DEF Link
<1>3. /\ link' = [link EXCEPT ![i] = link'[i]]
      /\ \/ link'[i] = s
         \/ link'[i] = t
         \/ link'[i] = Append(s, e) /\ \A k \in DOMAIN s : s[k].net # x
  BY <1>1 DEF AddInstanceToNetwork, CountNetworkInstances
<1> HIDE DEF e, s
<1>4. ASSUME NEW u \in Seq(Link), link' = [link EXCEPT ![i] = u], Unique(u)
      PROVE  /\ link' \in [Insts -> Seq(Link)] /\ (\A j \in Insts : Unique(link'[j])) /\ link'[i] = u
             /\ \A j \in Insts \ {i} : link'[j] = link[j]
  BY <1>1, <1>4
<1>5. CASE link'[i] = s
  <2>1. link' = [link EXCEPT ![i] = s]
    BY <1>3, <1>5
  <2> QED
    BY <1>1, <1>4, <2>1 DEF s
<1>6. CASE link'[i] = t
  <2>1. t \in Seq(Link) /\ DOMAIN t = DOMAIN s
    BY <1>1, <1>2
  <2>2. \A k \in DOMAIN s : t[k].net = s[k].net
    BY <1>2
  <2> HIDE DEF t
  <2>3. Unique(t)
    BY <1>1, <2>1, <2>2 DEF Unique
  <2>4. link' = [link EXCEPT ![i] = t]
    BY <1>3, <1>6
  <2>5. t = <<>> => s = <<>>
    BY <1>1, <2>1
  <2> QED
    BY <1>4, <2>1, <2>2, <2>3, <2>4, <2>5 DEF s
<1>7. CASE link'[i] = Append(s, e) /\ \A k \in DOMAIN s : s[k].net # x
  <2> DEFINE u == Append(s, e)
             m == Len(s)
  <2>1. /\ m \in Nat /\ DOMAIN s = 1 .. m /\ u \in Seq(Link) /\ DOMAIN u = 1 .. m + 1
        /\ u[m + 1] = e /\ \A k \in 1 .. m : u[k] = s[k]
    BY <1>1, <1>2
  <2> HIDE DEF u, m
  <2>2. \A k \in DOMAIN u : k = m + 1 \/ k \in DOMAIN s
    BY <2>1
  <2>3. Unique(u)
    <3> SUFFICES ASSUME NEW j \in DOMAIN u, NEW k \in DOMAIN u, u[j].net = u[k].net PROVE j = k
      BY DEF Unique
    <3>1. CASE j \in DOMAIN s /\ k \in DOMAIN s
      BY <1>1, <2>1, <3>1 DEF Unique
    <3>2. CASE j = m + 1 /\ k \in DOMAIN s
      BY <1>2, <1>7, <2>1, <3>2
    <3>3. CASE j \in DOMAIN s /\ k = m + 1
      BY <1>2, <1>7, <2>1, <3>3
    <3> QED
      BY <2>2, <3>1, <3>2, <3>3
  <2>4. link' = [link EXCEPT ![i] = u]
    BY <1>3, <1>7 DEF u
  <2>5. link'[i] = u /\ link' \in [Insts -> Seq(Link)] /\ (\A j \in Insts : Unique(link'[j]))
        /\ \A j \in Insts \ {i} : link'[j] = link[j]
    BY <1>4, <2>1, <2>3, <2>4
  <2>6. u # <<>>
    BY <2>1
  <2>7. \A k \in DOMAIN u : u[k].net = x \/ (k \in DOMAIN s /\ u[k].net = s[k].net)
    BY <1>2, <2>1, <2>2
  <2> QED
    BY <2>5, <2>6, <2>7 DEF s
<1> QED
  BY <1>3, <1>5, <1>6, <1>7

-----------------------------------------------------------------------------
(* What a step does to the requests.                                       *)

ReqTypes(r) ==
    /\ DOMAIN r = Fields /\ r.ip \in Int /\ (r.op # "sync" => r.net \in Nets)
    /\ r.inst \subseteq Insts /\ \A i, j \in r.inst : i = j
    /\ r.pc = "idle" => r.inst = {} /\ r.op = "none"

LEMMA NoReqIs ==
    /\ ReqTypes(NoReq) /\ NoReq.inst = {} /\ NoReq.op = "none" /\ NoReq.pc = "idle"
    /\ NoReq.net = Default /\ NoReq.ip = 0 /\ DOMAIN NoReq = Fields
  BY NetsAssumption DEF NoReq, ReqTypes, Fields

LEMMA TypesOf ==
    NetTypes => DOMAIN req = Requests /\ \A h \in Requests : ReqTypes(req[h])
  BY DEF NetTypes, ReqTypes

LEMMA GotoGives ==
    ASSUME NetTypes, NEW h \in Requests, NEW pc, pc # "idle", Goto(h, pc)
    PROVE  /\ DOMAIN req' = Requests /\ \A g \in Requests : ReqTypes(req'[g])
           /\ req'[h].pc = pc /\ req'[h].op = req[h].op /\ req'[h].inst = req[h].inst
           /\ req'[h].net = req[h].net /\ req'[h].ip = req[h].ip
           /\ \A g \in Requests \ {h} : req'[g] = req[g]
<1>1. DOMAIN req = Requests /\ \A g \in Requests : ReqTypes(req[g])
  BY TypesOf
<1>2. req' = [req EXCEPT ![h].pc = pc]
  BY DEF Goto
<1>3. /\ DOMAIN req' = Requests /\ \A g \in Requests \ {h} : req'[g] = req[g]
      /\ req'[h] = [req[h] EXCEPT !.pc = pc]
  BY <1>1, <1>2
<1>4. DOMAIN req[h] = Fields
  BY <1>1 DEF ReqTypes
<1>5. /\ DOMAIN req'[h] = Fields /\ req'[h].pc = pc /\ req'[h].op = req[h].op /\ req'[h].inst = req[h].inst
      /\ req'[h].net = req[h].net /\ req'[h].ip = req[h].ip
  BY <1>3, <1>4 DEF Fields
<1>6. ReqTypes(req'[h])
  BY <1>1, <1>5 DEF ReqTypes
<1> QED
  BY <1>1, <1>3, <1>5, <1>6

LEMMA EndGives ==
    ASSUME NetTypes, NEW h \in Requests, End(h)
    PROVE  /\ DOMAIN req' = Requests /\ \A g \in Requests : ReqTypes(req'[g])
           /\ req'[h].pc = "idle" /\ req'[h].op = "none" /\ req'[h].inst = {}
           /\ \A g \in Requests \ {h} : req'[g] = req[g]
  BY TypesOf, NoReqIs DEF End

-----------------------------------------------------------------------------
(* What a step leaves as it is.                                            *)

\* An instance that a step does nothing to.
Same(i) ==
    /\ link'[i] = link[i] /\ attached'[i] = attached[i] /\ remade'[i] = remade[i] /\ dns'[i] = dns[i]
    /\ (i \in made' <=> i \in made) /\ (i \in inst' <=> i \in inst) /\ (i \in manual => i \in manual')

\* The step of a request about others.
LEMMA Elsewhere ==
    ASSUME NEW i \in Insts, Solo(i), Right(i), NEW h \in Requests, i \notin req[h].inst, Same(i),
           \A g \in Requests \ {h} : req'[g] = req[g],
           i \notin req'[h].inst, req'[h].op = "delete" => req[h].op = "delete" /\ req'[h].net = req[h].net
    PROVE  Solo(i)' /\ Right(i)'
<1>1. \A g \in Requests : i \in req'[g].inst => req'[g] = req[g] /\ i \in req[g].inst
  OBVIOUS
<1>2. \A g \in Requests : i \in req[g].inst => req'[g] = req[g] /\ i \in req'[g].inst
  OBVIOUS
<1>3. \A g \in Requests : req'[g].op = "delete" => req[g].op = "delete" /\ req'[g].net = req[g].net
  OBVIOUS
<1>4. ASSUME NEW g \in Requests, i \in req'[g].inst PROVE i \in inst' /\ Fit(i, req[g])'
  <2>1. req'[g] = req[g] /\ i \in req[g].inst
    BY <1>1, <1>4
  <2> QED
    BY <2>1 DEF Solo, Fit, Same
<1>5. Solo(i)'
  BY <1>1, <1>3, <1>4 DEF Solo, Same
<1>6. Right(i)'
  BY <1>2 DEF Right, Same, In
<1> QED
  BY <1>5, <1>6

\* The step of the request about the instance itself.
LEMMA Own ==
    ASSUME NEW i \in Insts, Solo(i), NEW h \in Requests, i \in req[h].inst,
           \A g \in Requests \ {h} : req'[g] = req[g], req'[h].op # "delete",
           i \in req'[h].inst => i \in inst' /\ Fit(i, req[h])'
    PROVE  Solo(i)'
<1>1. \A g \in Requests \ {h} : i \notin req'[g].inst /\ req'[g].op # "delete"
  BY DEF Solo
<1> QED
  BY <1>1 DEF Solo

LEMMA RightStays ==
    ASSUME NEW i \in Insts, Right(i), Same(i), NEW h \in Requests, \A g \in Requests \ {h} : req'[g] = req[g],
           ~In(h, "disconnect", "row"), ~In(h, "disconnect", "names")
    PROVE  Right(i)'
<1>1. \A g \in Requests : In(g, "disconnect", "row") \/ In(g, "disconnect", "names") => req'[g] = req[g]
  OBVIOUS
<1> QED
  BY <1>1 DEF Right, Same, In

LEMMA TypesKept ==
    ASSUME DOMAIN req' = Requests, \A g \in Requests : ReqTypes(req'[g]),
           link' \in [Insts -> Seq(Link)], \A i \in Insts : Unique(link'[i]),
           DOMAIN attached' = Insts, DOMAIN remade' = Insts, DOMAIN dns' = Insts
    PROVE  NetTypes'
  BY DEF NetTypes, ReqTypes

-----------------------------------------------------------------------------
(* Requests come in.                                                       *)

LEMMA BeginGives ==
    ASSUME NetTypes, NEW h \in Requests, NEW r, ReqTypes(r), Begin(h, r)
    PROVE  /\ DOMAIN req' = Requests /\ \A g \in Requests : ReqTypes(req'[g])
           /\ req'[h] = r /\ \A g \in Requests \ {h} : req'[g] = req[g]
           /\ req[h].inst = {} /\ req[h].op = "none"
           /\ clashed \subseteq clashed'
           /\ \A i \in Insts \ clashed' :
                 /\ i \in r.inst => \A g \in Requests : i \notin req[g].inst /\ req[g].op # "delete"
                 /\ r.op = "delete" => \A g \in Requests : i \notin req[g].inst
<1> DEFINE hit == {g \in Active : req[g].inst \cap r.inst # {} \/ "delete" \in {r.op, req[g].op}}
           more == r.inst \cup UNION {req[g].inst : g \in hit}
<1>1. /\ req[h].pc = "idle" /\ req' = [req EXCEPT ![h] = r]
      /\ clashed' = IF hit = {} THEN clashed ELSE clashed \cup more
  BY DEF Begin
<1>2. DOMAIN req = Requests /\ \A g \in Requests : ReqTypes(req[g])
  BY TypesOf
<1>3. req[h].inst = {} /\ req[h].op = "none"
  BY <1>1, <1>2 DEF ReqTypes
<1>4. ASSUME NEW i \in Insts \ clashed', NEW g \in Requests, g \in hit PROVE i \notin req[g].inst /\ i \notin r.inst
  BY <1>1, <1>4
<1>5. ASSUME NEW i \in Insts \ clashed', i \in r.inst, NEW g \in Requests
      PROVE  i \notin req[g].inst /\ req[g].op # "delete"
  <2>1. g \notin hit
    BY <1>4, <1>5
  <2>2. CASE req[g].pc = "idle"
    BY <1>2, <2>2 DEF ReqTypes
  <2>3. CASE req[g].pc # "idle"
    BY <1>5, <2>1, <2>3 DEF Active
  <2> QED
    BY <2>2, <2>3
<1>6. ASSUME NEW i \in Insts \ clashed', r.op = "delete", NEW g \in Requests
      PROVE  i \notin req[g].inst
  <2>1. CASE req[g].pc = "idle"
    BY <1>2, <2>1 DEF ReqTypes
  <2>2. CASE req[g].pc # "idle"
    <3>1. g \in hit
      BY <1>6, <2>2 DEF Active
    <3> QED
      BY <1>4, <3>1
  <2> QED
    BY <2>1, <2>2
<1>7. clashed \subseteq clashed'
  BY <1>1
<1> HIDE DEF hit, more
<1> QED
  BY <1>1, <1>2, <1>3, <1>5, <1>6, <1>7

LEMMA SoloBegins ==
    ASSUME NEW i \in Insts, Solo(i), NEW h \in Requests, req[h].inst = {}, req[h].op = "none",
           \A g \in Requests \ {h} : req'[g] = req[g],
           i \in req'[h].inst => /\ \A g \in Requests : i \notin req[g].inst /\ req[g].op # "delete"
                                 /\ i \in inst' /\ Fit(i, req[h])' /\ req'[h].op # "delete",
           i \notin req'[h].inst => Same(i),
           req'[h].op = "delete" => /\ \A g \in Requests : i \notin req[g].inst
                                    /\ \A k \in DOMAIN link[i] : link[i][k].net # req'[h].net
    PROVE  Solo(i)'
<1>1. CASE i \in req'[h].inst
  <2>1. \A g \in Requests \ {h} : i \notin req'[g].inst /\ req'[g].op # "delete"
    BY <1>1
  <2> QED
    BY <1>1, <2>1 DEF Solo
<1>2. CASE i \notin req'[h].inst
  <2>1. \A g \in Requests : i \in req'[g].inst => req'[g] = req[g] /\ i \in req[g].inst
    BY <1>2
  <2>2. ASSUME NEW g \in Requests, i \in req'[g].inst PROVE i \in inst' /\ Fit(i, req[g])'
    <3>1. req'[g] = req[g] /\ i \in req[g].inst
      BY <2>1, <2>2
    <3> QED
      BY <1>2, <3>1 DEF Solo, Fit, Same
  <2>3. ASSUME NEW g \in Requests, req'[g].op = "delete"
        PROVE  /\ \A f \in Requests : i \notin req'[f].inst
               /\ \A k \in DOMAIN link'[i] : link'[i][k].net # req'[g].net
    <3>1. CASE g = h
      BY <1>2, <2>1, <2>3, <3>1 DEF Same
    <3>2. CASE g # h
      BY <1>2, <2>1, <2>3, <3>2 DEF Solo, Same
    <3> QED
      BY <3>1, <3>2
  <2>4. \A f, g \in Requests : i \in req'[f].inst /\ i \in req'[g].inst => f = g
    BY <2>1 DEF Solo
  <2> QED
    BY <2>2, <2>3, <2>4 DEF Solo
<1> QED
  BY <1>1, <1>2

\* The requests that change nothing yet.
LEMMA QuietBegin ==
    ASSUME NetInv, NEW h \in Requests, NEW r, ReqTypes(r), Begin(h, r),
           UNCHANGED <<tables, nodes, remade, manual>>,
           \A i \in r.inst : i \in inst,
           r.op # "instance", r.pc \notin {"row", "upsert"},
           \A i \in r.inst : r.op = "sync" /\ link[i] # <<>> => r.net = link[i][1].net,
           r.op = "delete" => r.inst = {} /\ \A i \in Insts : \A k \in DOMAIN link[i] : link[i][k].net # r.net
    PROVE  NetInv'
<1>1. NetTypes /\ \A i \in Insts \ clashed : Solo(i) /\ Right(i)
  BY DEF NetInv
<1>2. /\ DOMAIN req' = Requests /\ \A g \in Requests : ReqTypes(req'[g])
      /\ req'[h] = r /\ \A g \in Requests \ {h} : req'[g] = req[g]
      /\ req[h].inst = {} /\ req[h].op = "none"
      /\ clashed \subseteq clashed'
      /\ \A i \in Insts \ clashed' :
            /\ i \in r.inst => \A g \in Requests : i \notin req[g].inst /\ req[g].op # "delete"
            /\ r.op = "delete" => \A g \in Requests : i \notin req[g].inst
  BY <1>1, BeginGives
<1>3. \A i \in Insts : Same(i)
  BY DEF Same, tables, nodes
<1>4. NetTypes'
  BY <1>1, <1>2, TypesKept DEF NetTypes, tables, nodes
<1>5. ASSUME NEW i \in Insts \ clashed' PROVE Solo(i)' /\ Right(i)'
  <2>1. Solo(i) /\ Right(i) /\ i \in Insts
    BY <1>1, <1>2, <1>5
  <2>2. ASSUME i \in req'[h].inst PROVE i \in inst' /\ Fit(i, req[h])' /\ req'[h].op # "delete"
    <3>1. i \in r.inst /\ i \in inst /\ r.op # "delete"
      BY <1>2, <2>2
    <3>2. inst' = inst /\ link' = link
      BY DEF tables
    <3> QED
      BY <1>2, <3>1, <3>2 DEF Fit
  <2>3. Solo(i)'
    BY <1>2, <1>3, <1>5, <2>1, <2>2, SoloBegins
  <2>4. Right(i)'
    BY <1>2, <1>3, <2>1, RightStays DEF In
  <2> QED
    BY <2>3, <2>4
<1> QED
  BY <1>4, <1>5 DEF NetInv

LEMMA QuietRequests ==
    ASSUME NetInv, NEW h \in Requests, NEW x \in Nets
    PROVE  /\ \A n : apiCreateNetwork(h, x, n) => NetInv'
           /\ apiDeleteNetwork(h, x) => NetInv'
           /\ \A i \in Insts : apiDisconnectNetwork(h, x, i) => NetInv'
           /\ \A i \in Insts, ip \in Ips : apiConnectNetwork(h, x, i, ip) => NetInv'
           /\ \A i \in Insts : SyncInstance(h, i) => NetInv'
<1>1. ASSUME NEW n, apiCreateNetwork(h, x, n) PROVE NetInv'
  <2> DEFINE r == [NoReq EXCEPT !.op = "new", !.pc = "docker", !.net = x, !.node = n]
  <2>1. ReqTypes(r) /\ r.inst = {} /\ r.op = "new" /\ r.pc = "docker"
    BY DEF NoReq, ReqTypes, Fields
  <2>2. Begin(h, r) /\ UNCHANGED <<tables, nodes, remade, manual>>
    BY <1>1 DEF apiCreateNetwork
  <2> HIDE DEF r
  <2> QED
    BY <2>1, <2>2, QuietBegin
<1>2. ASSUME apiDeleteNetwork(h, x) PROVE NetInv'
  <2> DEFINE r == [NoReq EXCEPT !.op = "delete", !.pc = "docker", !.net = x, !.node = net[x]]
  <2>1. ReqTypes(r) /\ r.inst = {} /\ r.op = "delete" /\ r.pc = "docker" /\ r.net = x
    BY DEF NoReq, ReqTypes, Fields
  <2>2. Begin(h, r) /\ UNCHANGED <<tables, nodes, remade, manual>>
    BY <1>2 DEF apiDeleteNetwork
  <2>3. \A i \in Insts : \A k \in DOMAIN link[i] : link[i][k].net # x
    BY <1>2 DEF apiDeleteNetwork, CountNetworkInstances
  <2> HIDE DEF r
  <2> QED
    BY <2>1, <2>2, <2>3, QuietBegin
<1>3. ASSUME NEW i \in Insts, apiDisconnectNetwork(h, x, i) PROVE NetInv'
  <2> DEFINE r == [NoReq EXCEPT !.op = "disconnect", !.pc = "docker", !.net = x, !.inst = {i}]
  <2>1. ReqTypes(r) /\ r.inst = {i} /\ r.op = "disconnect" /\ r.pc = "docker"
    BY DEF NoReq, ReqTypes, Fields
  <2>2. Begin(h, r) /\ UNCHANGED <<tables, nodes, remade, manual>> /\ i \in inst
    BY <1>3 DEF apiDisconnectNetwork
  <2> HIDE DEF r
  <2> QED
    BY <2>1, <2>2, QuietBegin
<1>4. ASSUME NEW i \in Insts, NEW ip \in Ips, apiConnectNetwork(h, x, i, ip) PROVE NetInv'
  <2> DEFINE r == [op |-> "connect", pc |-> "docker", net |-> x, node |-> net[x], inst |-> {i}, ip |-> ip]
  <2>1. ReqTypes(r) /\ r.inst = {i} /\ r.op = "connect" /\ r.pc = "docker"
    BY DEF ReqTypes, Fields, Ips
  <2>2. Begin(h, r) /\ UNCHANGED <<tables, nodes, remade, manual>> /\ i \in inst
    BY <1>4 DEF apiConnectNetwork
  <2> HIDE DEF r
  <2> QED
    BY <2>1, <2>2, QuietBegin
<1>5. ASSUME NEW i \in Insts, SyncInstance(h, i) PROVE NetInv'
  <2> DEFINE y == IF ListInstanceNetworks(i) = <<>> THEN "none" ELSE ListInstanceNetworks(i)[1].net
             r == [NoReq EXCEPT !.op = "sync", !.pc = "container", !.inst = {i}, !.net = y]
  <2>1. link[i] # <<>> => y = link[i][1].net
    BY DEF ListInstanceNetworks
  <2> HIDE DEF y
  <2>2. ReqTypes(r) /\ r.inst = {i} /\ r.op = "sync" /\ r.pc = "container" /\ r.net = y
    BY DEF NoReq, ReqTypes, Fields
  <2>3. Begin(h, r) /\ UNCHANGED <<tables, nodes, remade, manual>> /\ i \in inst
    BY <1>5 DEF SyncInstance, y
  <2> HIDE DEF r
  <2> QED
    BY <2>1, <2>2, <2>3, QuietBegin
<1> QED
  BY <1>1, <1>2, <1>3, <1>4, <1>5

LEMMA CreateInstanceStep ==
    ASSUME NetInv, NEW h \in Requests, NEW j \in Insts, apiCreateInstance(h, j)
    PROVE  NetInv'
<1> DEFINE n == NodeOf[j]
           p == IF net[Default] \in {"none", n} THEN "ensure" ELSE "container"
           r == [NoReq EXCEPT !.op = "instance", !.node = n, !.inst = {j}, !.pc = p]
<1>1. NetTypes /\ \A i \in Insts \ clashed : Solo(i) /\ Right(i)
  BY DEF NetInv
<1>2. p \in {"ensure", "container"}
  OBVIOUS
<1>3. /\ j \notin inst /\ inst' = inst \cup {j} /\ Begin(h, r)
      /\ UNCHANGED <<link, dns, docker, attached, made, remade, manual>>
  BY DEF apiCreateInstance, nodes
<1> HIDE DEF n, p
<1>4. ReqTypes(r) /\ r.inst = {j} /\ r.op = "instance" /\ r.pc = p
  BY <1>2, NetsAssumption DEF NoReq, ReqTypes, Fields
<1> HIDE DEF r
<1>5. /\ DOMAIN req' = Requests /\ \A g \in Requests : ReqTypes(req'[g])
      /\ req'[h] = r /\ \A g \in Requests \ {h} : req'[g] = req[g]
      /\ req[h].inst = {} /\ req[h].op = "none"
      /\ clashed \subseteq clashed'
      /\ \A i \in Insts \ clashed' :
            i \in r.inst => \A g \in Requests : i \notin req[g].inst /\ req[g].op # "delete"
  BY <1>1, <1>3, <1>4, BeginGives
<1>6. NetTypes'
  BY <1>1, <1>3, <1>5, TypesKept DEF NetTypes
<1>7. \A i \in Insts \ {j} : Same(i)
  BY <1>3 DEF Same
<1>8. ASSUME NEW i \in Insts \ clashed' PROVE Solo(i)' /\ Right(i)'
  <2>1. Solo(i) /\ Right(i) /\ i \in Insts
    BY <1>1, <1>5, <1>8
  <2>2. CASE i # j
    <3>1. i \notin req'[h].inst /\ req'[h].op # "delete"
      BY <1>4, <1>5, <2>2
    <3>2. Solo(i)'
      BY <1>5, <1>7, <2>1, <2>2, <3>1, SoloBegins
    <3>3. Right(i)'
      BY <1>5, <1>7, <2>1, <2>2, RightStays DEF In
    <3> QED
      BY <3>2, <3>3
  <2>3. CASE i = j
    <3>1. i \notin made /\ link[i] = <<>>
      BY <1>3, <2>1, <2>3 DEF Right
    <3>2. \A g \in Requests : i \notin req[g].inst /\ req[g].op # "delete"
      BY <1>4, <1>5, <1>8, <2>3
    <3>3. i \in inst' /\ Fit(i, req[h])' /\ req'[h].op # "delete" /\ i \in req'[h].inst
      BY <1>2, <1>3, <1>4, <1>5, <2>3, <3>1 DEF Fit
    <3>4. Solo(i)'
      BY <1>5, <2>1, <3>2, <3>3, SoloBegins
    <3>5. i \notin manual => dns[i] = 0
      BY <2>1, <3>1, <3>2 DEF Right
    <3> QED
      BY <1>3, <3>1, <3>3, <3>4, <3>5 DEF Right
  <2> QED
    BY <2>2, <2>3
<1> QED
  BY <1>6, <1>8 DEF NetInv

LEMMA DeleteInstanceStep ==
    ASSUME NetInv, NEW h \in Requests, NEW j \in Insts, apiDeleteInstance(h, j)
    PROVE  NetInv'
<1> DEFINE r == [NoReq EXCEPT !.op = "remove", !.pc = "tables", !.inst = {j}]
<1>1. NetTypes /\ \A i \in Insts \ clashed : Solo(i) /\ Right(i)
  BY DEF NetInv
<1>2. /\ j \in inst /\ Begin(h, r)
      /\ \/ made' = made \ {j} /\ attached' = [attached EXCEPT ![j] = {}]
         \/ UNCHANGED <<made, attached>>
      /\ UNCHANGED <<inst, link, dns, remade, manual>>
  BY DEF apiDeleteInstance, tables
<1>3. ReqTypes(r) /\ r.inst = {j} /\ r.op = "remove" /\ r.pc = "tables"
  BY NetsAssumption DEF NoReq, ReqTypes, Fields
<1> HIDE DEF r
<1>4. /\ DOMAIN req' = Requests /\ \A g \in Requests : ReqTypes(req'[g])
      /\ req'[h] = r /\ \A g \in Requests \ {h} : req'[g] = req[g]
      /\ req[h].inst = {} /\ req[h].op = "none"
      /\ clashed \subseteq clashed'
      /\ \A i \in Insts \ clashed' :
            i \in r.inst => \A g \in Requests : i \notin req[g].inst /\ req[g].op # "delete"
  BY <1>1, <1>2, <1>3, BeginGives
<1>5. DOMAIN attached' = Insts
  BY <1>1, <1>2 DEF NetTypes
<1>6. NetTypes'
  BY <1>1, <1>2, <1>4, <1>5, TypesKept DEF NetTypes
<1>7. \A i \in Insts \ {j} : Same(i)
  BY <1>1, <1>2 DEF Same, NetTypes
<1>8. ASSUME NEW i \in Insts \ clashed' PROVE Solo(i)' /\ Right(i)'
  <2>1. Solo(i) /\ Right(i) /\ i \in Insts
    BY <1>1, <1>4, <1>8
  <2>2. CASE i # j
    <3>1. i \notin req'[h].inst /\ req'[h].op # "delete"
      BY <1>3, <1>4, <2>2
    <3>2. Solo(i)'
      BY <1>4, <1>7, <2>1, <2>2, <3>1, SoloBegins
    <3>3. Right(i)'
      BY <1>4, <1>7, <2>1, <2>2, RightStays DEF In
    <3> QED
      BY <3>2, <3>3
  <2>3. CASE i = j
    <3>1. \A g \in Requests : i \notin req[g].inst /\ req[g].op # "delete"
      BY <1>3, <1>4, <1>8, <2>3
    <3>2. i \in inst' /\ Fit(i, req[h])' /\ req'[h].op # "delete" /\ i \in req'[h].inst
      BY <1>2, <1>3, <1>4, <2>3 DEF Fit
    <3>3. Solo(i)'
      BY <1>4, <2>1, <3>1, <3>2, SoloBegins
    <3>4. i \in made' => i \in made /\ attached' = attached
      BY <1>2, <2>3
    <3>5. i \in made => \A k \in DOMAIN link[i] : link[i][k].net \in attached[i] \cup remade[i]
      BY <2>1, <3>1 DEF Right
    <3>6. i \notin manual /\ link[i] = <<>> => dns[i] = 0
      BY <2>1, <3>1 DEF Right
    <3> QED
      BY <1>2, <3>2, <3>3, <3>4, <3>5, <3>6 DEF Right
  <2> QED
    BY <2>2, <2>3
<1> QED
  BY <1>6, <1>8 DEF NetInv

-----------------------------------------------------------------------------
(* Requests go on.                                                         *)

\* What has to be shown of the step of a request.
LEMMA GoesOn ==
    ASSUME NetInv, NEW h \in Requests, NetTypes', clashed \subseteq clashed',
           \A g \in Requests \ {h} : req'[g] = req[g],
           req'[h].inst \subseteq req[h].inst,
           req'[h].op = "delete" => req[h].op = "delete" /\ req'[h].net = req[h].net,
           \A i \in Insts \ (req[h].inst \cup clashed') : Same(i),
           \A i \in req[h].inst \ clashed' : /\ i \in req'[h].inst => i \in inst' /\ Fit(i, req[h])'
                                             /\ Right(i)'
    PROVE  NetInv'
<1>1. NetTypes /\ \A i \in Insts \ clashed : Solo(i) /\ Right(i)
  BY DEF NetInv
<1>2. ASSUME NEW i \in Insts \ clashed' PROVE Solo(i)' /\ Right(i)'
  <2>1. Solo(i) /\ Right(i) /\ i \in Insts
    BY <1>1, <1>2
  <2>2. CASE i \in req[h].inst
    <3>1. req'[h].op # "delete"
      BY <2>1, <2>2 DEF Solo
    <3>2. Solo(i)'
      BY <1>2, <2>1, <2>2, <3>1, Own
    <3> QED
      BY <1>2, <2>2, <3>2
  <2>3. CASE i \notin req[h].inst
    <3>1. Same(i) /\ i \notin req'[h].inst
      BY <1>2, <2>3
    <3> QED
      BY <2>1, <2>3, <3>1, Elsewhere
  <2> QED
    BY <2>2, <2>3
<1> QED
  BY <1>2 DEF NetInv

\* A request moves on and the rows and containers stay.
LEMMA MovesOn ==
    ASSUME NetInv, NEW h \in Requests, NEW pc, pc # "idle", Goto(h, pc) \/ End(h),
           UNCHANGED <<link, attached, remade, dns, made, inst, manual, clashed>>,
           ~In(h, "disconnect", "row"), ~In(h, "disconnect", "names"),
           \A i \in req[h].inst \ clashed : Goto(h, pc) => Fit(i, req[h])'
    PROVE  NetInv'
<1>1. NetTypes /\ \A i \in Insts \ clashed : Solo(i) /\ Right(i)
  BY DEF NetInv
<1>2. /\ DOMAIN req' = Requests /\ \A g \in Requests : ReqTypes(req'[g])
      /\ \A g \in Requests \ {h} : req'[g] = req[g]
      /\ req'[h].inst \subseteq req[h].inst
      /\ req'[h].op = "delete" => req[h].op = "delete" /\ req'[h].net = req[h].net
      /\ ~Goto(h, pc) => req'[h].inst = {}
  <2>1. CASE Goto(h, pc)
    BY <1>1, <2>1, GotoGives
  <2>2. CASE End(h)
    BY <1>1, <2>2, EndGives
  <2> QED
    BY <2>1, <2>2
<1>3. NetTypes'
  BY <1>1, <1>2, TypesKept DEF NetTypes
<1>4. \A i \in Insts : Same(i)
  BY DEF Same
<1>5. ASSUME NEW i \in req[h].inst \ clashed'
      PROVE  (i \in req'[h].inst => i \in inst' /\ Fit(i, req[h])') /\ Right(i)'
  <2>1. i \in Insts \ clashed /\ Solo(i) /\ Right(i)
    BY <1>1, <1>5, TypesOf DEF ReqTypes
  <2>2. Right(i)'
    BY <1>2, <1>4, <2>1, RightStays
  <2>3. i \in inst
    BY <1>5, <2>1 DEF Solo
  <2> QED
    BY <1>2, <1>5, <2>2, <2>3
<1> QED
  BY <1>2, <1>3, <1>4, <1>5, GoesOn

\* What is known of the request that makes a step, and of its instance.
LEMMA Given ==
    ASSUME NetInv, NEW h \in Requests
    PROVE  /\ NetTypes /\ req[h].inst \subseteq Insts /\ req[h].ip \in Int
           /\ \A i, j \in req[h].inst : i = j
           /\ req[h].op # "sync" => req[h].net \in Nets
           /\ \A i \in req[h].inst \ clashed : Solo(i) /\ Right(i) /\ i \in inst /\ Fit(i, req[h])
           /\ \A i \in req[h].inst \ clashed : \A g \in Requests \ {h} : i \notin req[g].inst
  BY TypesOf DEF NetInv, ReqTypes, Solo

LEMMA NetworkSteps ==
    ASSUME NetInv, NEW h \in Requests
    PROVE  /\ CreateAtNode(h) => NetInv'
           /\ CreateRow(h) => NetInv'
           /\ DeleteAtNode(h) => NetInv'
           /\ EnsureAtNode(h) => NetInv'
<1> USE DEF tables, nodes, mesh, hist
<1>0. NetTypes
  BY DEF NetInv
<1>1. ASSUME CreateAtNode(h) PROVE NetInv'
  <2>1. Goto(h, "row") \/ End(h)
    BY <1>1 DEF CreateAtNode
  <2>2. UNCHANGED <<link, attached, remade, dns, made, inst, manual, clashed>> /\ req[h].op = "new"
    BY <1>1 DEF CreateAtNode, In
  <2>3. ASSUME Goto(h, "row"), NEW i \in req[h].inst \ clashed PROVE Fit(i, req[h])'
    <3>1. req'[h].op = "new" /\ req'[h].pc = "row"
      BY <1>0, <2>2, <2>3, GotoGives
    <3> QED
      BY <3>1 DEF Fit
  <2> QED
    BY <2>1, <2>2, <2>3, MovesOn DEF In
<1>2. ASSUME CreateRow(h) PROVE NetInv'
  <2>1. End(h) /\ UNCHANGED <<link, attached, remade, dns, made, inst, manual, clashed>> /\ req[h].op = "new"
    BY <1>2 DEF CreateRow, In
  <2>2. ASSUME Goto(h, "row"), NEW i \in req[h].inst \ clashed PROVE Fit(i, req[h])'
    <3>1. req'[h].pc = "row" /\ req'[h].pc = "idle"
      BY <1>0, <2>1, <2>2, GotoGives, EndGives
    <3> QED
      BY <3>1
  <2> QED
    BY <2>1, <2>2, MovesOn DEF In
<1>3. ASSUME DeleteAtNode(h) PROVE NetInv'
  <2>1. /\ Goto(h, "row") /\ UNCHANGED <<link, attached, remade, dns, made, inst, manual, clashed>>
        /\ req[h].op = "delete"
    BY <1>3 DEF DeleteAtNode, In
  <2>2. req'[h].op = "delete" /\ req'[h].pc = "row"
    BY <1>0, <2>1, GotoGives
  <2>3. \A i \in req[h].inst \ clashed : Fit(i, req[h])'
    BY <2>2 DEF Fit
  <2> QED
    BY <2>1, <2>3, MovesOn DEF In
<1>4. ASSUME EnsureAtNode(h) PROVE NetInv'
  <2>1. /\ Goto(h, "container") /\ UNCHANGED <<link, attached, remade, dns, made, inst, manual, clashed>>
        /\ req[h].op = "instance" /\ req[h].pc = "ensure"
    BY <1>4 DEF EnsureAtNode, In
  <2>2. req'[h].op = "instance" /\ req'[h].pc = "container"
    BY <1>0, <2>1, GotoGives
  <2>3. \A i \in req[h].inst \ clashed : Fit(i, req[h])'
    BY <2>1, <2>2, Given DEF Fit
  <2> QED
    BY <2>1, <2>3, MovesOn DEF In
<1> QED
  BY <1>1, <1>2, <1>3, <1>4

LEMMA DeleteRowStep ==
    ASSUME NetInv, NEW h \in Requests, DeleteRow(h)
    PROVE  NetInv'
<1> DEFINE x == req[h].net
<1>1. NetTypes /\ \A i \in Insts \ clashed : Solo(i)
  BY DEF NetInv
<1>2. /\ req[h].op = "delete" /\ End(h)
      /\ link' = link \/ link' = [i \in Insts |-> Unlinked(i, x)]
      /\ UNCHANGED <<attached, remade, dns, made, inst, manual, clashed>>
  BY DEF DeleteRow, DeleteNetwork, In, nodes, hist
<1>3. /\ DOMAIN req' = Requests /\ \A g \in Requests : ReqTypes(req'[g])
      /\ req'[h].op = "none" /\ req'[h].inst = {}
      /\ \A g \in Requests \ {h} : req'[g] = req[g]
  BY <1>1, <1>2, EndGives
<1>4. link' \in [Insts -> Seq(Link)] /\ \A i \in Insts : Unique(link'[i])
  <2>1. \A i \in Insts : Unlinked(i, x) \in Seq(Link) /\ Unique(Unlinked(i, x))
    BY <1>1, UnlinkedGives
  <2>2. CASE link' = link
    BY <1>1, <2>2 DEF NetTypes
  <2>3. CASE link' = [i \in Insts |-> Unlinked(i, x)]
    BY <2>1, <2>3
  <2> QED
    BY <1>2, <2>2, <2>3
<1>5. NetTypes'
  BY <1>1, <1>2, <1>3, <1>4, TypesKept DEF NetTypes
<1>6. ASSUME NEW i \in Insts \ clashed PROVE Same(i) /\ i \notin req[h].inst
  <2>1. i \notin req[h].inst /\ \A k \in DOMAIN link[i] : link[i][k].net # x
    BY <1>1, <1>2 DEF Solo
  <2>2. Unlinked(i, x) = link[i]
    BY <1>1, <2>1, UnlinkedGives
  <2>3. link'[i] = link[i]
    BY <1>2, <2>2
  <2> QED
    BY <1>2, <2>1, <2>3 DEF Same
<1>7. req[h].inst \subseteq Insts
  BY Given
<1> QED
  BY <1>2, <1>3, <1>5, <1>6, <1>7, GoesOn

LEMMA ConnectAtNodeStep ==
    ASSUME NetInv, NEW h \in Requests, ConnectAtNode(h)
    PROVE  NetInv'
<1> USE DEF tables, mesh, hist
<1>0. NetTypes
  BY DEF NetInv
<1>1. In(h, "connect", "docker") /\ UNCHANGED <<link, remade, dns, made, inst, manual, clashed>>
  BY DEF ConnectAtNode
<1>2. CASE UNCHANGED attached /\ End(h)
  <2>1. ASSUME Goto(h, "row"), NEW i \in req[h].inst \ clashed PROVE Fit(i, req[h])'
    <3>1. req'[h].pc = "row" /\ req'[h].pc = "idle"
      BY <1>0, <1>2, <2>1, GotoGives, EndGives
    <3> QED
      BY <3>1
  <2> QED
    BY <1>1, <1>2, <2>1, MovesOn DEF In
<1>3. ASSUME NEW j \in req[h].inst, NetworkConnect(j, req[h].net), Goto(h, "row") PROVE NetInv'
  <2>1. attached' = [attached EXCEPT ![j] = @ \cup {req[h].net}] /\ j \in Insts /\ DOMAIN attached = Insts
    BY <1>0, <1>3, Given DEF NetworkConnect, NetTypes
  <2>2. /\ DOMAIN req' = Requests /\ \A g \in Requests : ReqTypes(req'[g])
        /\ req'[h].pc = "row" /\ req'[h].op = "connect" /\ req'[h].inst = req[h].inst
        /\ req'[h].net = req[h].net /\ \A g \in Requests \ {h} : req'[g] = req[g]
    BY <1>0, <1>1, <1>3, GotoGives DEF In
  <2>3. NetTypes'
    BY <1>0, <1>1, <2>1, <2>2, TypesKept DEF NetTypes
  <2>4. \A i \in Insts \ req[h].inst : Same(i)
    BY <1>1, <1>3, <2>1 DEF Same
  <2>5. ASSUME NEW i \in req[h].inst \ clashed PROVE i \in inst' /\ Fit(i, req[h])' /\ Right(i)'
    <3>1. i = j /\ i \in inst /\ Right(i) /\ \A g \in Requests \ {h} : i \notin req[g].inst
      BY <1>3, <2>5, Given
    <3>2. attached'[i] = attached[i] \cup {req[h].net}
      BY <2>1, <3>1
    <3>3. Fit(i, req[h])'
      BY <2>2, <3>2 DEF Fit
    <3>4. Right(i)'
      BY <1>1, <3>1, <3>2 DEF Right, In
    <3> QED
      BY <1>1, <3>1, <3>3, <3>4
  <2> QED
    BY <1>1, <2>2, <2>3, <2>4, <2>5, GoesOn
<1> QED
  BY <1>2, <1>3 DEF ConnectAtNode

\* The row of a connection or of a new instance's default network is added: the
\* container, if there is one, has the network by now.
LEMMA AddRow ==
    ASSUME NetInv, NEW h \in Requests, NEW j \in req[h].inst, NEW x \in Nets, NEW n, NEW ip \in Int,
           AddInstanceToNetwork(j, x, n, ip), Goto(h, "dns"), req[h].op \in {"connect", "instance"},
           req[h].pc = "row", j \in made /\ j \notin clashed => x \in attached[j],
           UNCHANGED <<attached, remade, dns, made, inst, manual, clashed>>
    PROVE  NetInv'
<1>0. NetTypes /\ j \in Insts
  BY Given DEF NetInv
<1>1. /\ DOMAIN req' = Requests /\ \A g \in Requests : ReqTypes(req'[g])
      /\ req'[h].pc = "dns" /\ req'[h].op = req[h].op /\ req'[h].inst = req[h].inst
      /\ req'[h].net = req[h].net /\ \A g \in Requests \ {h} : req'[g] = req[g]
  BY <1>0, GotoGives
<1>2. /\ link' \in [Insts -> Seq(Link)] /\ \A i \in Insts : Unique(link'[i])
      /\ \A i \in Insts \ {j} : link'[i] = link[i]
      /\ link'[j] = <<>> => link[j] = <<>>
      /\ \A k \in DOMAIN link'[j] : \/ link'[j][k].net = x
                                    \/ k \in DOMAIN link[j] /\ link'[j][k].net = link[j][k].net
  BY <1>0, AddedGives
<1>3. NetTypes'
  BY <1>0, <1>1, <1>2, TypesKept DEF NetTypes
<1>4. \A i \in Insts \ req[h].inst : Same(i)
  BY <1>2 DEF Same
<1>5. ASSUME NEW i \in req[h].inst \ clashed PROVE i \in inst' /\ Fit(i, req[h])' /\ Right(i)'
  <2>1. i = j /\ i \in inst /\ Right(i) /\ \A g \in Requests \ {h} : i \notin req[g].inst
    BY <1>5, Given
  <2>2. Fit(i, req[h])'
    BY <1>1 DEF Fit
  <2>3. \A g \in Requests : i \in req[g].inst => ~In(g, "disconnect", "row") /\ ~In(g, "disconnect", "names")
    BY <2>1 DEF In
  <2>4. i \in made => \A k \in DOMAIN link'[i] : link'[i][k].net \in attached[i] \cup remade[i]
    BY <1>2, <1>5, <2>1, <2>3 DEF Right
  <2>5. i \notin manual /\ link'[i] = <<>> => dns[i] = 0
    BY <1>2, <2>1, <2>3 DEF Right
  <2>6. Right(i)'
    BY <2>1, <2>4, <2>5 DEF Right
  <2> QED
    BY <2>1, <2>2, <2>6
<1> QED
  BY <1>1, <1>3, <1>4, <1>5, GoesOn

LEMMA RowSteps ==
    ASSUME NetInv, NEW h \in Requests
    PROVE  /\ ConnectRow(h) => NetInv'
           /\ CreateInstanceRow(h) => NetInv'
<1> USE DEF tables, nodes, mesh, hist
<1>1. ASSUME ConnectRow(h) PROVE NetInv'
  <2>1. PICK j \in req[h].inst : AddInstanceToNetwork(j, req[h].net, req[h].node, req[h].ip)
    BY <1>1 DEF ConnectRow
  <2>2. /\ req[h].op = "connect" /\ req[h].pc = "row" /\ Goto(h, "dns")
        /\ UNCHANGED <<attached, remade, dns, made, inst, manual, clashed>>
    BY <1>1 DEF ConnectRow, In
  <2>3. j \in made /\ j \notin clashed => req[h].net \in attached[j]
    BY <2>2, Given DEF Fit
  <2>4. req[h].net \in Nets /\ req[h].ip \in Int
    BY <2>2, Given
  <2> QED
    BY <2>1, <2>2, <2>3, <2>4, AddRow
<1>2. ASSUME CreateInstanceRow(h) PROVE NetInv'
  <2>1. PICK j \in req[h].inst : AddInstanceToNetwork(j, Default, req[h].node, 0)
    BY <1>2 DEF CreateInstanceRow
  <2>2. /\ req[h].op = "instance" /\ req[h].pc = "row" /\ Goto(h, "dns")
        /\ UNCHANGED <<attached, remade, dns, made, inst, manual, clashed>>
    BY <1>2 DEF CreateInstanceRow, In
  <2>3. j \in made /\ j \notin clashed => Default \in attached[j]
    BY <2>2, Given DEF Fit
  <2> QED
    BY <2>1, <2>2, <2>3, NetsAssumption, AddRow
<1> QED
  BY <1>1, <1>2

LEMMA DisconnectSteps ==
    ASSUME NetInv, NEW h \in Requests
    PROVE  /\ DisconnectAtNode(h) => NetInv'
           /\ DisconnectRow(h) => NetInv'
           /\ DisconnectNames(h) => NetInv'
<1> USE DEF tables, nodes, mesh, hist
<1>0. NetTypes /\ DOMAIN attached = Insts /\ DOMAIN dns = Insts /\ link \in [Insts -> Seq(Link)]
  BY DEF NetInv, NetTypes
<1>1. ASSUME DisconnectAtNode(h) PROVE NetInv'
  <2>1. /\ req[h].op = "disconnect" /\ req[h].pc = "docker" /\ Goto(h, "row")
        /\ UNCHANGED <<link, remade, dns, made, inst, manual, clashed>>
    BY <1>1 DEF DisconnectAtNode, In
  <2>2. /\ DOMAIN req' = Requests /\ \A g \in Requests : ReqTypes(req'[g])
        /\ req'[h].pc = "row" /\ req'[h].op = "disconnect" /\ req'[h].inst = req[h].inst
        /\ req'[h].net = req[h].net /\ \A g \in Requests \ {h} : req'[g] = req[g]
    BY <1>0, <2>1, GotoGives
  <2>3. /\ DOMAIN attached' = Insts /\ \A i \in Insts \ req[h].inst : attached'[i] = attached[i]
        /\ \A i \in Insts : attached[i] \subseteq attached'[i] \cup {req[h].net}
    <3>1. CASE UNCHANGED attached
      BY <1>0, <3>1
    <3>2. ASSUME NEW j \in req[h].inst, NetworkDisconnect(j, req[h].net)
          PROVE  /\ DOMAIN attached' = Insts /\ \A i \in Insts \ req[h].inst : attached'[i] = attached[i]
                 /\ \A i \in Insts : attached[i] \subseteq attached'[i] \cup {req[h].net}
      <4>1. attached' = [attached EXCEPT ![j] = @ \ {req[h].net}] /\ j \in Insts
        BY <3>2, Given DEF NetworkDisconnect
      <4> QED
        BY <1>0, <3>2, <4>1
    <3> QED
      BY <1>1, <3>1, <3>2 DEF DisconnectAtNode
  <2>4. NetTypes'
    BY <1>0, <2>1, <2>2, <2>3, TypesKept DEF NetTypes
  <2>5. \A i \in Insts \ req[h].inst : Same(i)
    BY <2>1, <2>3 DEF Same
  <2>6. ASSUME NEW i \in req[h].inst \ clashed PROVE i \in inst' /\ Fit(i, req[h])' /\ Right(i)'
    <3>1. i \in Insts /\ i \in inst /\ Right(i) /\ \A g \in Requests \ {h} : i \notin req[g].inst
      BY <2>6, Given
    <3>2. Fit(i, req[h])'
      BY <2>2 DEF Fit
    <3>3. \A g \in Requests : i \in req[g].inst => ~In(g, "disconnect", "row") /\ ~In(g, "disconnect", "names")
      BY <2>1, <3>1 DEF In
    <3>4. i \in made => \A k \in DOMAIN link[i] : link[i][k].net \in attached[i] \cup remade[i]
      BY <3>1, <3>3 DEF Right
    <3>5. i \notin manual /\ link[i] = <<>> => dns[i] = 0
      BY <3>1, <3>3 DEF Right
    <3>6. i \in req'[h].inst /\ In(h, "disconnect", "row")' /\ req'[h].net = req[h].net
      BY <2>2, <2>6 DEF In
    <3>7. i \in made => \A k \in DOMAIN link[i] : link[i][k].net \in attached'[i] \cup remade[i] \/ link[i][k].net = req[h].net
      BY <2>3, <3>1, <3>4
    <3>8. Right(i)'
      BY <2>1, <3>1, <3>5, <3>6, <3>7 DEF Right
    <3> QED
      BY <2>1, <3>1, <3>2, <3>8
  <2> QED
    BY <2>1, <2>2, <2>4, <2>5, <2>6, GoesOn
<1>2. ASSUME DisconnectRow(h) PROVE NetInv'
  <2> DEFINE x == req[h].net
  <2>1. PICK j \in req[h].inst : RemoveInstanceFromNetwork(j, x)
    BY <1>2 DEF DisconnectRow
  <2>2. /\ req[h].op = "disconnect" /\ req[h].pc = "row" /\ Goto(h, "names")
        /\ UNCHANGED <<attached, remade, dns, made, inst, manual, clashed>>
    BY <1>2 DEF DisconnectRow, In
  <2>3. /\ DOMAIN req' = Requests /\ \A g \in Requests : ReqTypes(req'[g])
        /\ req'[h].pc = "names" /\ req'[h].op = "disconnect" /\ req'[h].inst = req[h].inst
        /\ req'[h].net = req[h].net /\ \A g \in Requests \ {h} : req'[g] = req[g]
    BY <1>0, <2>2, GotoGives
  <2>4. j \in Insts /\ link' = [link EXCEPT ![j] = Unlinked(j, x)]
    BY <2>1, Given DEF RemoveInstanceFromNetwork
  <2>5. /\ Unlinked(j, x) \in Seq(Link) /\ Unique(Unlinked(j, x))
        /\ \A k \in DOMAIN Unlinked(j, x) :
              /\ Unlinked(j, x)[k].net # x
              /\ \E l \in DOMAIN link[j] : Unlinked(j, x)[k] = link[j][l]
    BY <1>0, <2>4, UnlinkedGives
  <2>6. link'[j] = Unlinked(j, x) /\ \A i \in Insts \ {j} : link'[i] = link[i]
    BY <1>0, <2>4
  <2>7. link' \in [Insts -> Seq(Link)] /\ \A i \in Insts : Unique(link'[i])
    BY <1>0, <2>4, <2>5, <2>6 DEF NetTypes
  <2>8. NetTypes'
    BY <1>0, <2>2, <2>3, <2>7, TypesKept DEF NetTypes
  <2>9. \A i \in Insts \ req[h].inst : Same(i)
    BY <2>2, <2>6 DEF Same
  <2>10. ASSUME NEW i \in req[h].inst \ clashed PROVE i \in inst' /\ Fit(i, req[h])' /\ Right(i)'
    <3>1. i = j /\ i \in inst /\ Right(i) /\ \A g \in Requests \ {h} : i \notin req[g].inst
      BY <2>10, Given
    <3>2. Fit(i, req[h])'
      BY <2>3 DEF Fit
    <3>3. i \in made => \A k \in DOMAIN link[i] : link[i][k].net \in attached[i] \cup remade[i] \/ link[i][k].net = x
      BY <3>1 DEF Right
    <3>4. i \in made => \A k \in DOMAIN link'[i] : link'[i][k].net \in attached[i] \cup remade[i]
      BY <2>5, <2>6, <3>1, <3>3
    <3>5. i \in req'[h].inst /\ In(h, "disconnect", "names")'
      BY <2>3, <2>10 DEF In
    <3>6. Right(i)'
      BY <2>2, <3>1, <3>4, <3>5 DEF Right
    <3> QED
      BY <2>2, <3>1, <3>2, <3>6
  <2> QED
    BY <2>2, <2>3, <2>8, <2>9, <2>10, GoesOn
<1>3. ASSUME DisconnectNames(h) PROVE NetInv'
  <2>1. PICK j \in req[h].inst : IF link[j] = <<>> THEN DeleteDNSRecordByInstance(j) /\ End(h)
                                 ELSE UNCHANGED dns /\ Goto(h, "dns")
    BY <1>3 DEF DisconnectNames, ListInstanceNetworks
  <2>2. /\ req[h].op = "disconnect" /\ req[h].pc = "names" /\ j \in Insts
        /\ UNCHANGED <<link, attached, remade, made, inst, manual, clashed>>
    BY <1>3, Given DEF DisconnectNames, In
  <2>3. /\ DOMAIN req' = Requests /\ \A g \in Requests : ReqTypes(req'[g])
        /\ req'[h].inst \subseteq req[h].inst /\ req'[h].op # "delete"
        /\ (req'[h].inst # {} => req'[h].pc = "dns" /\ req'[h].op = "disconnect")
        /\ \A g \in Requests \ {h} : req'[g] = req[g]
    <3>1. CASE link[j] = <<>>
      BY <1>0, <2>1, <3>1, EndGives
    <3>2. CASE link[j] # <<>>
      BY <1>0, <2>1, <2>2, <3>2, GotoGives
    <3> QED
      BY <3>1, <3>2
  <2>4. /\ DOMAIN dns' = Insts /\ \A i \in Insts \ {j} : dns'[i] = dns[i]
        /\ link[j] = <<>> => dns'[j] = 0
    BY <1>0, <2>1, <2>2 DEF DeleteDNSRecordByInstance
  <2>5. NetTypes'
    BY <1>0, <2>2, <2>3, <2>4, TypesKept DEF NetTypes
  <2>6. \A i \in Insts \ req[h].inst : Same(i)
    BY <2>2, <2>4 DEF Same
  <2>7. ASSUME NEW i \in req[h].inst \ clashed
        PROVE  (i \in req'[h].inst => i \in inst' /\ Fit(i, req[h])') /\ Right(i)'
    <3>1. i = j /\ i \in inst /\ Right(i) /\ \A g \in Requests \ {h} : i \notin req[g].inst
      BY <2>7, Given
    <3>2. i \in req'[h].inst => Fit(i, req[h])'
      BY <2>3 DEF Fit
    <3>3. i \in made => \A k \in DOMAIN link[i] : link[i][k].net \in attached[i] \cup remade[i]
      BY <2>2, <3>1 DEF Right, In
    <3>4. Right(i)'
      BY <2>2, <2>4, <3>1, <3>3 DEF Right
    <3> QED
      BY <2>2, <3>1, <3>2, <3>4
  <2> QED
    BY <2>2, <2>3, <2>5, <2>6, <2>7, GoesOn
<1> QED
  BY <1>1, <1>2, <1>3

LEMMA RegisterSteps ==
    ASSUME NetInv, NEW h \in Requests
    PROVE  /\ RegisterInstanceDNS(h) => NetInv'
           /\ RegisterUpsert(h) => NetInv'
<1> USE DEF tables, nodes, mesh, hist
<1>0. NetTypes /\ DOMAIN dns = Insts /\ link \in [Insts -> Seq(Link)]
  BY DEF NetInv, NetTypes
<1>1. ASSUME RegisterInstanceDNS(h) PROVE NetInv'
  <2>1. PICK j \in req[h].inst :
           \/ End(h)
           \/ link[j] # <<>> /\ req' = [req EXCEPT ![h].pc = "upsert", ![h].ip = link[j][1].ip]
    BY <1>1 DEF RegisterInstanceDNS, ListInstanceNetworks
  <2>2. /\ req[h].pc = "dns" /\ j \in Insts
        /\ UNCHANGED <<link, attached, remade, dns, made, inst, manual, clashed>>
    BY <1>1, Given DEF RegisterInstanceDNS
  <2>3. CASE End(h)
    <3>1. ASSUME Goto(h, "dns"), NEW i \in req[h].inst \ clashed PROVE Fit(i, req[h])'
      <4>1. req'[h].pc = "dns" /\ req'[h].pc = "idle"
        BY <1>0, <2>3, <3>1, GotoGives, EndGives
      <4> QED
        BY <4>1
    <3> QED
      BY <2>2, <2>3, <3>1, MovesOn DEF In
  <2>4. CASE link[j] # <<>> /\ req' = [req EXCEPT ![h].pc = "upsert", ![h].ip = link[j][1].ip]
    <3> DEFINE ip == link[j][1].ip
    <3>1. ip \in Int
      <4>1. link[j] \in Seq(Link) /\ link[j] # <<>>
        BY <1>0, <2>2, <2>4
      <4>2. link[j][1] \in Link
        BY <4>1
      <4> QED
        BY <4>2 DEF Link
    <3> HIDE DEF ip
    <3>2. DOMAIN req = Requests /\ \A g \in Requests : ReqTypes(req[g])
      BY <1>0, TypesOf
    <3>3. /\ DOMAIN req' = Requests /\ \A g \in Requests \ {h} : req'[g] = req[g]
          /\ req'[h] = [req[h] EXCEPT !.pc = "upsert", !.ip = ip]
      BY <2>4, <3>2 DEF ip
    <3>4. /\ DOMAIN req'[h] = Fields /\ req'[h].pc = "upsert" /\ req'[h].ip = ip /\ req'[h].op = req[h].op
          /\ req'[h].inst = req[h].inst /\ req'[h].net = req[h].net
      BY <3>2, <3>3 DEF ReqTypes, Fields
    <3>5. \A g \in Requests : ReqTypes(req'[g])
      <4>1. ReqTypes(req[h])
        BY <3>2
      <4>2. ReqTypes(req'[h])
        BY <3>1, <3>4, <4>1 DEF ReqTypes
      <4> QED
        BY <3>2, <3>3, <4>2
    <3>6. NetTypes'
      BY <1>0, <2>2, <3>3, <3>5, TypesKept DEF NetTypes
    <3>7. \A i \in Insts : Same(i)
      BY <2>2 DEF Same
    <3>8. ASSUME NEW i \in req[h].inst \ clashed PROVE i \in inst' /\ Fit(i, req[h])' /\ Right(i)'
      <4>1. i = j /\ i \in inst /\ Right(i) /\ Fit(i, req[h])
        BY <3>8, Given
      <4>2. Fit(i, req[h])'
        BY <2>2, <2>4, <3>4, <4>1 DEF Fit
      <4>3. Right(i)'
        BY <2>2, <3>3, <3>7, <4>1, RightStays DEF In
      <4> QED
        BY <2>2, <4>1, <4>2, <4>3
    <3> QED
      BY <2>2, <3>3, <3>4, <3>6, <3>7, <3>8, GoesOn
  <2> QED
    BY <2>1, <2>3, <2>4
<1>2. ASSUME RegisterUpsert(h) PROVE NetInv'
  <2>1. PICK j \in req[h].inst : UpsertDNSRecord(j, req[h].ip)
    BY <1>2 DEF RegisterUpsert
  <2>2. /\ req[h].pc = "upsert" /\ j \in Insts /\ End(h)
        /\ UNCHANGED <<link, attached, remade, made, inst, manual, clashed>>
    BY <1>2, Given DEF RegisterUpsert
  <2>3. /\ DOMAIN req' = Requests /\ \A g \in Requests : ReqTypes(req'[g])
        /\ req'[h].inst = {} /\ req'[h].op # "delete"
        /\ \A g \in Requests \ {h} : req'[g] = req[g]
    BY <1>0, <2>2, EndGives
  <2>4. DOMAIN dns' = Insts /\ \A i \in Insts \ {j} : dns'[i] = dns[i]
    BY <1>0, <2>1, <2>2 DEF UpsertDNSRecord
  <2>5. NetTypes'
    BY <1>0, <2>2, <2>3, <2>4, TypesKept DEF NetTypes
  <2>6. \A i \in Insts \ req[h].inst : Same(i)
    BY <2>2, <2>4 DEF Same
  <2>7. ASSUME NEW i \in req[h].inst \ clashed PROVE Right(i)'
    <3>1. i = j /\ i \in inst /\ Right(i) /\ Fit(i, req[h]) /\ \A g \in Requests \ {h} : i \notin req[g].inst
      BY <2>7, Given
    <3>2. link[i] # <<>>
      BY <2>2, <3>1 DEF Fit
    <3>3. i \in made => \A k \in DOMAIN link[i] : link[i][k].net \in attached[i] \cup remade[i]
      BY <2>2, <3>1 DEF Right, In
    <3> QED
      BY <2>2, <3>1, <3>2, <3>3 DEF Right
  <2> QED
    BY <2>2, <2>3, <2>5, <2>6, <2>7, GoesOn
<1> QED
  BY <1>1, <1>2

LEMMA ContainerSteps ==
    ASSUME NetInv, NEW h \in Requests
    PROVE  /\ CreateContainer(h) => NetInv'
           /\ SyncContainer(h) => NetInv'
<1> USE DEF tables, mesh, hist
<1>0. NetTypes /\ DOMAIN attached = Insts /\ DOMAIN remade = Insts /\ link \in [Insts -> Seq(Link)]
  BY DEF NetInv, NetTypes
<1>1. ASSUME CreateContainer(h) PROVE NetInv'
  <2>1. /\ req[h].op = "instance" /\ req[h].pc = "container" /\ Goto(h, "row")
        /\ UNCHANGED <<link, remade, dns, inst, manual, clashed>>
    BY <1>1 DEF CreateContainer, In
  <2>2. /\ DOMAIN req' = Requests /\ \A g \in Requests : ReqTypes(req'[g])
        /\ req'[h].pc = "row" /\ req'[h].op = "instance" /\ req'[h].inst = req[h].inst
        /\ req'[h].net = req[h].net /\ \A g \in Requests \ {h} : req'[g] = req[g]
    BY <1>0, <2>1, GotoGives
  <2>3. /\ DOMAIN attached' = Insts
        /\ \A i \in Insts \ req[h].inst : attached'[i] = attached[i] /\ (i \in made' <=> i \in made)
        /\ \A i \in req[h].inst : i \in made' => i \in made \/ Default \in attached'[i]
    <3>1. CASE UNCHANGED nodes
      BY <1>0, <3>1 DEF nodes
    <3>2. ASSUME NEW j \in req[h].inst, EnsureContainer(j, Default)
          PROVE  /\ DOMAIN attached' = Insts
                 /\ \A i \in Insts \ req[h].inst : attached'[i] = attached[i] /\ (i \in made' <=> i \in made)
                 /\ \A i \in req[h].inst : i \in made' => i \in made \/ Default \in attached'[i]
      <4>1. /\ made' = made \cup {j} /\ j \in Insts /\ \A i \in req[h].inst : i = j
            /\ attached' = [attached EXCEPT ![j] = IF j \in made THEN @ \cup {Default} ELSE {Default}]
        BY <3>2, Given DEF EnsureContainer, BuildContainerConfig
      <4> QED
        BY <1>0, <3>2, <4>1
    <3> QED
      BY <1>1, <3>1, <3>2 DEF CreateContainer
  <2>4. NetTypes'
    BY <1>0, <2>1, <2>2, <2>3, TypesKept DEF NetTypes
  <2>5. \A i \in Insts \ req[h].inst : Same(i)
    BY <2>1, <2>3 DEF Same
  <2>6. ASSUME NEW i \in req[h].inst \ clashed PROVE i \in inst' /\ Fit(i, req[h])' /\ Right(i)'
    <3>1. /\ i \in Insts /\ i \in inst /\ Right(i) /\ Fit(i, req[h])
          /\ \A g \in Requests \ {h} : i \notin req[g].inst
      BY <2>6, Given
    <3>2. link[i] = <<>> /\ i \notin made
      BY <2>1, <3>1 DEF Fit
    <3>3. Fit(i, req[h])'
      BY <2>1, <2>2, <2>3, <2>6, <3>2 DEF Fit
    <3>4. i \notin manual => dns[i] = 0
      BY <2>1, <3>1, <3>2 DEF Right, In
    <3>5. Right(i)'
      BY <2>1, <3>1, <3>2, <3>4 DEF Right
    <3> QED
      BY <2>1, <3>1, <3>3, <3>5
  <2> QED
    BY <2>1, <2>2, <2>4, <2>5, <2>6, GoesOn
<1>2. ASSUME SyncContainer(h) PROVE NetInv'
  <2> DEFINE others(i) == {link[i][k].net : k \in DOMAIN link[i] \ {1}}
             network == BuildContainerConfig(req[h].net)
  <2>1. PICK j \in req[h].inst :
           /\ EnsureContainer(j, req[h].net)
           /\ remade' = IF j \in made THEN remade ELSE [remade EXCEPT ![j] = @ \cup others(j)]
    BY <1>2 DEF SyncContainer
  <2>2. /\ req[h].op = "sync" /\ req[h].pc = "container" /\ End(h)
        /\ UNCHANGED <<link, dns, inst, manual, clashed>>
    BY <1>2 DEF SyncContainer, In
  <2>3. /\ DOMAIN req' = Requests /\ \A g \in Requests : ReqTypes(req'[g])
        /\ req'[h].inst = {} /\ req'[h].op # "delete"
        /\ \A g \in Requests \ {h} : req'[g] = req[g]
    BY <1>0, <2>2, EndGives
  <2>4. /\ made' = made \cup {j} /\ j \in Insts
        /\ attached' = [attached EXCEPT ![j] = IF j \in made THEN @ \cup {network} ELSE {network}]
    BY <2>1, Given DEF EnsureContainer
  <2> HIDE DEF others, network
  <2>5. /\ DOMAIN attached' = Insts /\ DOMAIN remade' = Insts
        /\ \A i \in Insts \ {j} : attached'[i] = attached[i] /\ remade'[i] = remade[i]
        /\ network \in attached'[j]
        /\ j \in made => attached[j] \subseteq attached'[j] /\ remade'[j] = remade[j]
        /\ j \notin made => others(j) \subseteq remade'[j]
    BY <1>0, <2>1, <2>4
  <2>6. NetTypes'
    BY <1>0, <2>2, <2>3, <2>5, TypesKept DEF NetTypes
  <2>7. \A i \in Insts \ req[h].inst : Same(i)
    BY <2>2, <2>4, <2>5 DEF Same
  <2>8. ASSUME NEW i \in req[h].inst \ clashed PROVE Right(i)'
    <3>1. /\ i = j /\ i \in inst /\ Right(i) /\ Fit(i, req[h])
          /\ \A g \in Requests \ {h} : i \notin req[g].inst
      BY <2>8, Given
    <3>2. i \in made => \A k \in DOMAIN link[i] : link[i][k].net \in attached[i] \cup remade[i]
      BY <2>2, <3>1 DEF Right, In
    <3>3. i \notin manual /\ link[i] = <<>> => dns[i] = 0
      BY <2>2, <3>1 DEF Right, In
    <3>4. ASSUME 1 \in DOMAIN link[i] PROVE link[i][1].net = network
      <4>1. link[i] # <<>> /\ link[i][1] \in Link
        BY <1>0, <2>4, <3>1, <3>4
      <4>2. req[h].net = link[i][1].net /\ req[h].net \in Nets
        BY <2>2, <3>1, <4>1 DEF Fit, Link
      <4> QED
        BY <4>2, NetsAssumption DEF network, BuildContainerConfig
    <3>5. \A k \in DOMAIN link[i] : link[i][k].net \in attached'[i] \cup remade'[i]
      <4>1. CASE i \in made
        BY <2>5, <3>1, <3>2, <4>1
      <4>2. ASSUME i \notin made, NEW k \in DOMAIN link[i] PROVE link[i][k].net \in attached'[i] \cup remade'[i]
        <5>1. CASE k = 1
          BY <2>5, <3>1, <3>4, <4>2, <5>1
        <5>2. CASE k # 1
          <6>1. link[i][k].net \in others(i)
            BY <4>2, <5>2 DEF others
          <6> QED
            BY <2>5, <3>1, <4>2, <6>1
        <5> QED
          BY <5>1, <5>2
      <4> QED
        BY <4>1, <4>2
    <3> QED
      BY <2>2, <3>1, <3>3, <3>5 DEF Right
  <2> QED
    BY <2>2, <2>3, <2>6, <2>7, <2>8, GoesOn
<1> QED
  BY <1>1, <1>2

LEMMA DeleteRowsStep ==
    ASSUME NetInv, NEW h \in Requests, DeleteInstanceRows(h)
    PROVE  NetInv'
<1>0. NetTypes /\ DOMAIN dns = Insts /\ link \in [Insts -> Seq(Link)] /\ \A i \in Insts : Unique(link[i])
  BY DEF NetInv, NetTypes
<1>1. PICK j \in req[h].inst : /\ DeleteDNSRecordByInstance(j) /\ link' = [link EXCEPT ![j] = <<>>]
                               /\ inst' = inst \ {j} /\ clashed' = clashed \cup ({j} \cap made)
  BY DEF DeleteInstanceRows
<1>2. End(h) /\ UNCHANGED <<attached, remade, made, manual>> /\ j \in Insts
  BY Given DEF DeleteInstanceRows, nodes
<1>3. /\ DOMAIN req' = Requests /\ \A g \in Requests : ReqTypes(req'[g])
      /\ req'[h].inst = {} /\ req'[h].op # "delete"
      /\ \A g \in Requests \ {h} : req'[g] = req[g]
  BY <1>0, <1>2, EndGives
<1>4. /\ DOMAIN dns' = Insts /\ dns'[j] = 0 /\ link'[j] = <<>>
      /\ \A i \in Insts \ {j} : dns'[i] = dns[i] /\ link'[i] = link[i]
  BY <1>0, <1>1, <1>2 DEF DeleteDNSRecordByInstance
<1>5. link' \in [Insts -> Seq(Link)] /\ \A i \in Insts : Unique(link'[i])
  <2>1. <<>> \in Seq(Link) /\ Unique(<<>>)
    BY DEF Unique
  <2> QED
    BY <1>0, <1>1, <1>2, <1>4, <2>1
<1>6. NetTypes'
  BY <1>0, <1>2, <1>3, <1>4, <1>5, TypesKept DEF NetTypes
<1>7. \A i \in Insts \ req[h].inst : Same(i)
  BY <1>1, <1>2, <1>4 DEF Same
<1>8. ASSUME NEW i \in req[h].inst \ clashed' PROVE Right(i)'
  <2>1. i = j /\ i \notin made
    BY <1>1, <1>8, Given
  <2> QED
    BY <1>2, <1>4, <2>1 DEF Right
<1> QED
  BY <1>1, <1>3, <1>6, <1>7, <1>8, GoesOn

-----------------------------------------------------------------------------
(* What happens beside the requests.                                       *)

LEMMA LostStep ==
    ASSUME NetInv, NEW j \in Insts, ContainerLost(j)
    PROVE  NetInv'
<1>0. NetTypes /\ DOMAIN attached = Insts /\ \A i \in Insts \ clashed : Solo(i) /\ Right(i)
  BY DEF NetInv, NetTypes
<1>1. /\ made' = made \ {j} /\ attached' = [attached EXCEPT ![j] = {}]
      /\ UNCHANGED <<inst, link, dns, req, remade, manual, clashed>>
  BY DEF ContainerLost, tables, hist
<1>2. NetTypes'
  BY <1>0, <1>1, TypesOf, TypesKept DEF NetTypes
<1>3. ASSUME NEW i \in Insts \ clashed PROVE Solo(i)' /\ Right(i)'
  <2>1. i \in made' => i \in made /\ attached'[i] = attached[i]
    BY <1>0, <1>1
  <2>2. \A h \in Requests : Fit(i, req[h]) => Fit(i, req[h])'
    BY <1>1, <2>1 DEF Fit
  <2>3. Solo(i)'
    BY <1>0, <1>1, <1>3, <2>2 DEF Solo
  <2>4. Right(i)'
    BY <1>0, <1>1, <1>3, <2>1 DEF Right, In
  <2> QED
    BY <2>3, <2>4
<1> QED
  BY <1>1, <1>2, <1>3 DEF NetInv

\* Records that are made and deleted by hand, servers and heartbeats.
LEMMA RecordStep ==
    ASSUME NetInv, UNCHANGED <<inst, link, attached, made, req, remade, clashed>>, manual \subseteq manual',
           DOMAIN dns' = Insts, \A i \in Insts : dns'[i] = dns[i] \/ dns'[i] = 0 \/ i \in manual'
    PROVE  NetInv'
<1>0. NetTypes /\ \A i \in Insts \ clashed : Solo(i) /\ Right(i)
  BY DEF NetInv
<1>1. NetTypes'
  BY <1>0, TypesOf, TypesKept DEF NetTypes
<1>2. ASSUME NEW i \in Insts \ clashed PROVE Solo(i)' /\ Right(i)'
  <2>1. Solo(i)'
    BY <1>0, <1>2 DEF Solo, Fit
  <2>2. Right(i)'
    BY <1>0, <1>2 DEF Right, In
  <2> QED
    BY <2>1, <2>2
<1> QED
  BY <1>1, <1>2 DEF NetInv

LEMMA NetStart == Init => NetInv
<1> SUFFICES ASSUME Init PROVE NetInv
  OBVIOUS
<1> DEFINE e == [net |-> Default, ip |-> 0]
<1>1. e \in Link /\ e.net = Default
  BY NetsAssumption DEF Link
<1>2. /\ link = [i \in Insts |-> IF i \in inst THEN <<e>> ELSE <<>>]
      /\ attached = [i \in Insts |-> IF i \in inst THEN {Default} ELSE {}]
      /\ dns = [i \in Insts |-> 0] /\ req = [h \in Requests |-> NoReq]
      /\ remade = [i \in Insts |-> {}] /\ made = inst
  BY DEF Init
<1> HIDE DEF e
<1>3. <<e>> \in Seq(Link) /\ <<>> \in Seq(Link) /\ Unique(<<e>>) /\ Unique(<<>>)
  BY <1>1 DEF Unique
<1>4. link \in [Insts -> Seq(Link)] /\ \A i \in Insts : Unique(link[i])
  BY <1>2, <1>3
<1>5. \A h \in Requests : ReqTypes(req[h]) /\ req[h].inst = {} /\ req[h].op = "none"
  BY <1>2, NoReqIs
<1>6. NetTypes
  BY <1>2, <1>4, <1>5 DEF NetTypes, ReqTypes
<1>7. ASSUME NEW i \in Insts PROVE Solo(i) /\ Right(i)
  <2>1. Solo(i)
    BY <1>5 DEF Solo
  <2>2. i \notin inst => i \notin made /\ link[i] = <<>>
    BY <1>2
  <2>3. i \in made => \A k \in DOMAIN link[i] : link[i][k].net \in attached[i]
    BY <1>1, <1>2
  <2>4. dns[i] = 0
    BY <1>2
  <2> QED
    BY <2>1, <2>2, <2>3, <2>4 DEF Right
<1> QED
  BY <1>6, <1>7 DEF NetInv

LEMMA NetKept ==
    ASSUME NetInv, [Next]_vars PROVE NetInv'
<1> USE DEF tables, nodes, mesh, hist
<1>1. ASSUME NEW h \in Requests, Request(h) PROVE NetInv'
  <2>1. Default \in Nets
    BY NetsAssumption
  <2>2. CASE \E x \in Nets : apiDeleteNetwork(h, x) \/ \E n \in Nodes : apiCreateNetwork(h, x, n)
    BY <2>2, QuietRequests
  <2>3. CASE \E i \in Insts : apiCreateInstance(h, i) \/ apiDeleteInstance(h, i)
    BY <2>3, CreateInstanceStep, DeleteInstanceStep
  <2>4. CASE \E i \in Insts : SyncInstance(h, i)
    BY <2>1, <2>4, QuietRequests
  <2>5. CASE \E i \in Insts, x \in Nets : apiDisconnectNetwork(h, x, i)
    BY <2>5, QuietRequests
  <2>6. CASE \E i \in Insts, x \in Nets, ip \in Ips : apiConnectNetwork(h, x, i, ip)
    BY <2>6, QuietRequests
  <2> QED
    BY <1>1, <2>2, <2>3, <2>4, <2>5, <2>6, Zenon DEF Request
<1>2. ASSUME NEW h \in Requests, Step(h) PROVE NetInv'
  BY <1>2, NetworkSteps, DeleteRowStep, ConnectAtNodeStep, RowSteps, DisconnectSteps, RegisterSteps,
     ContainerSteps, DeleteRowsStep, Zenon DEF Step
<1>3. DOMAIN dns = Insts
  BY DEF NetInv, NetTypes
<1>4. ASSUME NEW i \in Insts, apiDeleteDNSRecord(i) PROVE NetInv'
  <2>1. /\ UNCHANGED <<inst, link, attached, made, req, remade, clashed, manual>>
        /\ dns' = [dns EXCEPT ![i] = 0]
    BY <1>4 DEF apiDeleteDNSRecord, DeleteDNSRecordByInstance
  <2>2. DOMAIN dns' = Insts /\ \A j \in Insts : dns'[j] = dns[j] \/ dns'[j] = 0
    BY <1>3, <2>1
  <2> QED
    BY <2>1, <2>2, RecordStep
<1>5. ASSUME NEW i \in Insts, apiCreateDNSRecord(i, 1) PROVE NetInv'
  <2>1. /\ UNCHANGED <<inst, link, attached, made, req, remade, clashed>>
        /\ dns' = [dns EXCEPT ![i] = 1] /\ manual' = manual \cup {i}
    BY <1>5 DEF apiCreateDNSRecord, UpsertDNSRecord
  <2>2. DOMAIN dns' = Insts /\ \A j \in Insts : dns'[j] = dns[j] \/ j \in manual'
    BY <1>3, <2>1
  <2> QED
    BY <2>1, <2>2, RecordStep
<1>6. ASSUME \E n \in Nodes : StartServer(n) \/ Heartbeat(n) \/ ReceiveRecords(n) PROVE NetInv'
  <2>1. UNCHANGED <<inst, link, dns, attached, made, req, remade, clashed, manual>>
    BY <1>6 DEF StartServer, Heartbeat, ReceiveRecords
  <2> QED
    BY <1>3, <2>1, RecordStep
<1>7. CASE UNCHANGED vars
  BY <1>3, <1>7, RecordStep DEF vars
<1> QED
  BY <1>1, <1>2, <1>4, <1>5, <1>6, <1>7, LostStep DEF Next, Beat

\* For any instances, nodes, networks and requests at a time, whichever calls fail:
\* a container is connected to what the tables say, as far as no two requests about
\* it have overlapped and it was not made anew (apiConnectNetwork,
\* apiDisconnectNetwork, syncInstances).
THEOREM ConnectedStaysAttached == Spec => []ConnectedIsAttached
<1>1. ASSUME NetInv PROVE ConnectedIsAttached
  <2> SUFFICES ASSUME NEW i \in Insts \ clashed, i \in made, NEW k \in DOMAIN link[i],
                      link[i][k].net \notin attached[i], link[i][k].net \notin remade[i]
               PROVE  \E g \in Active : i \in req[g].inst
    BY DEF ConnectedIsAttached
  <2>1. PICK h \in Requests : i \in req[h].inst /\ In(h, "disconnect", "row")
    BY <1>1 DEF NetInv, Right
  <2> QED
    BY <2>1 DEF In, Active
<1> QED
  BY <1>1, NetStart, NetKept, PTL DEF Spec

\* For any instances, nodes, networks and requests at a time: an instance without
\* a connection has no name in the DNS once the request about it has ended, unless
\* requests have overlapped or the name was given by hand (apiDisconnectNetwork,
\* deleteInstance).
THEOREM NamesStayConnected == Spec => []NamesAreConnected
<1>1. ASSUME NetInv PROVE NamesAreConnected
  <2> SUFFICES ASSUME NEW i \in Insts \ (clashed \cup manual), \A h \in Active : i \notin req[h].inst,
                      link[i] = <<>>
               PROVE  dns[i] = 0
    BY DEF NamesAreConnected
  <2>1. Right(i)
    BY <1>1 DEF NetInv
  <2>2. ASSUME NEW h \in Requests, i \in req[h].inst, In(h, "disconnect", "names") PROVE FALSE
    BY <2>2 DEF In, Active
  <2> QED
    BY <2>1, <2>2 DEF Right
<1> QED
  BY <1>1, NetStart, NetKept, PTL DEF Spec

-----------------------------------------------------------------------------
(* The mesh of the nodes.                                                  *)

MeshRow == [known : BOOLEAN, key : Nat, idx : Nat]
RoutinePcs == {"done", "look", "install", "index", "save", "list", "push"}
Routine == [pc : RoutinePcs, node : SUBSET MeshNodes, idx : Nat, snap : [MeshNodes -> MeshRow], todo : SUBSET MeshNodes]

MeshTypes ==
    /\ row \in [MeshNodes -> MeshRow]
    /\ routine \in [Routines -> Routine]
    /\ DOMAIN iface = Hosts
    /\ keys \in Nat
    /\ clash \in BOOLEAN /\ unread \in BOOLEAN
    /\ dirty \in BOOLEAN
    /\ missed \subseteq Hosts

-----------------------------------------------------------------------------
LEMMA RowIsTyped == NoRow \in MeshRow /\ Done \in Routine /\ Done.pc = "done" /\ NoRow.key = 0 /\ NoRow.idx = 0
<1>1. NoRow \in MeshRow /\ NoRow.key = 0 /\ NoRow.idx = 0
  BY DEF NoRow, MeshRow
<1>2. [n \in MeshNodes |-> NoRow] \in [MeshNodes -> MeshRow]
  BY <1>1
<1> DEFINE snap == [n \in MeshNodes |-> NoRow]
<1> HIDE DEF snap
<1>3. Done = [pc |-> "done", node |-> {}, idx |-> 0, snap |-> snap, todo |-> {}]
  BY DEF Done, snap
<1> QED
  BY <1>1, <1>2, <1>3 DEF Routine, RoutinePcs, snap

\* A bounded set of numbers has a greatest one.
LEMMA GreatestOf ==
    ASSUME NEW S \in SUBSET Nat, S # {}, NEW b \in Nat, \A x \in S : x <= b
    PROVE  Max(S) \in S /\ \A y \in S : Max(S) >= y
<1> DEFINE R == OpToRel(<, Nat)
           T == {b - x : x \in S}
<1>1. T \subseteq Nat /\ T # {}
  <2>1. \A x \in S : b - x \in Nat
    OBVIOUS
  <2> QED
    BY <2>1
<1>2. \E x \in T : \A y \in T : ~(<<y, x>> \in R)
  BY <1>1, WFMin, NatLessThanWellFounded
<1>3. PICK m \in T : \A y \in T : ~(<<y, m>> \in R)
  BY <1>2
<1>4. \A y \in T : ~(y < m)
  BY <1>1, <1>3 DEF OpToRel
<1>5. PICK x \in S : m = b - x
  OBVIOUS
<1>6. \A y \in S : x >= y
  BY <1>4, <1>5
<1> QED
  BY <1>6 DEF Max

-----------------------------------------------------------------------------
(* What a step does to the goroutines.                                     *)

\* A goroutine is at another statement.
LEMMA ContinueEffect ==
    ASSUME MeshTypes, NEW r \in Routines, NEW pc \in RoutinePcs, Continue(r, pc)
    PROVE  \E x \in Routine :
              /\ routine' = [routine EXCEPT ![r] = x]
              /\ x.pc = pc /\ x.node = routine[r].node /\ x.idx = routine[r].idx
<1> DEFINE x == [routine[r] EXCEPT !.pc = pc]
<1>1. routine[r] \in Routine
  BY DEF MeshTypes
<1>2. x \in Routine
  BY <1>1 DEF Routine
<1>3. x.pc = pc /\ x.node = routine[r].node /\ x.idx = routine[r].idx
  BY <1>1 DEF Routine
<1>4. routine' = [routine EXCEPT ![r] = x]
  BY DEF Continue, MeshTypes
<1> HIDE DEF x
<1> QED
  BY <1>2, <1>3, <1>4

LEMMA RegisteredEffect ==
    ASSUME MeshTypes, NEW r \in Routines, NEW n \in MeshNodes, Registered(r, n)
    PROVE  /\ UNCHANGED <<iface, keys, clash, unread, missed>>
           /\ row' \in [MeshNodes -> MeshRow]
           /\ \A m \in MeshNodes :
                 IF m # n /\ HostOf[m] = HostOf[n] THEN row'[m] = NoRow
                 ELSE /\ row'[m].key = row[m].key /\ row'[m].idx = row[m].idx
                      /\ row'[m].known => row[m].known \/ m = n
                      /\ row[m].known => row'[m].known
           /\ dirty' \in BOOLEAN
           /\ ~dirty' => ~dirty /\ \A m \in MeshNodes : m # n /\ HostOf[m] = HostOf[n] => row[m].key = 0
           /\ routine[r].pc = "done"
           /\ \E x \in Routine : routine' = [routine EXCEPT ![r] = x] /\ x.pc = "look" /\ x.node = {n}
<1> DEFINE replaced == {m \in MeshNodes \ {n} : HostOf[m] = HostOf[n]}
<1>1. /\ UNCHANGED <<iface, keys, clash, unread, missed>> /\ routine[r].pc = "done"
      /\ row' = [m \in MeshNodes |-> IF m \in replaced THEN NoRow
                                     ELSE IF m = n THEN [row[n] EXCEPT !.known = TRUE] ELSE row[m]]
      /\ dirty' = (dirty \/ \E m \in replaced : row[m].key # 0)
      /\ routine' = [routine EXCEPT ![r] = [Done EXCEPT !.pc = "look", !.node = {n}]]
  BY DEF Registered, indexes
<1>2. [row[n] EXCEPT !.known = TRUE] \in MeshRow
  BY DEF MeshTypes, MeshRow
<1>3. /\ [row[n] EXCEPT !.known = TRUE].key = row[n].key
      /\ [row[n] EXCEPT !.known = TRUE].idx = row[n].idx
      /\ [row[n] EXCEPT !.known = TRUE].known
  BY DEF MeshTypes, MeshRow
<1> DEFINE new == [row[n] EXCEPT !.known = TRUE]
           x == [Done EXCEPT !.pc = "look", !.node = {n}]
<1> HIDE DEF new
<1>4. row' = [m \in MeshNodes |-> IF m \in replaced THEN NoRow ELSE IF m = n THEN new ELSE row[m]]
  BY <1>1 DEF new
<1>5. row' \in [MeshNodes -> MeshRow]
  BY <1>2, <1>4, RowIsTyped DEF MeshTypes, new
<1>6. ASSUME NEW m \in MeshNodes
      PROVE  IF m # n /\ HostOf[m] = HostOf[n] THEN row'[m] = NoRow
             ELSE /\ row'[m].key = row[m].key /\ row'[m].idx = row[m].idx
                  /\ row'[m].known => row[m].known \/ m = n
                  /\ row[m].known => row'[m].known
  <2>1. CASE m # n /\ HostOf[m] = HostOf[n]
    BY <1>4, <2>1
  <2>2. CASE m = n
    BY <1>3, <1>4, <2>2 DEF new
  <2>3. CASE m # n /\ HostOf[m] # HostOf[n]
    BY <1>4, <2>3
  <2> QED
    BY <2>1, <2>2, <2>3
<1>7. /\ dirty' \in BOOLEAN
      /\ ~dirty' => ~dirty /\ \A m \in MeshNodes : m # n /\ HostOf[m] = HostOf[n] => row[m].key = 0
  BY <1>1, Zenon DEF MeshTypes
<1>8. x \in Routine
  BY RowIsTyped DEF Routine, RoutinePcs
<1>9. x.pc = "look" /\ x.node = {n}
  BY RowIsTyped DEF Routine
<1>10. routine' = [routine EXCEPT ![r] = x]
  BY <1>1
<1> HIDE DEF x
<1> QED
  BY <1>1, <1>5, <1>6, <1>7, <1>8, <1>9, <1>10

LEMMA LookEffect ==
    ASSUME MeshTypes, NEW r \in Routines, Look(r)
    PROVE  /\ routine[r].pc = "look"
           /\ \/ routine' = [routine EXCEPT ![r] = Done]
              \/ \E x \in Routine : /\ routine' = [routine EXCEPT ![r] = x]
                                    /\ x.pc \in {"install", "list"} /\ x.node = routine[r].node
<1>1. routine[r].pc = "look"
  BY DEF Look
<1>2. \/ routine' = [routine EXCEPT ![r] = Done]
      \/ \E pc \in {"install", "list"} : Continue(r, pc)
  BY DEF Look
<1>3. "install" \in RoutinePcs /\ "list" \in RoutinePcs
  BY DEF RoutinePcs
<1> QED
  BY <1>1, <1>2, <1>3, ContinueEffect

LEMMA InstallEffect ==
    ASSUME MeshTypes, NEW r \in Routines, EnsureWireGuardInstalled(r)
    PROVE  /\ routine[r].pc = "install"
           /\ \/ routine' = [routine EXCEPT ![r] = Done]
              \/ \E x \in Routine : /\ routine' = [routine EXCEPT ![r] = x]
                                    /\ x.pc = "index" /\ x.node = routine[r].node
<1>1. routine[r].pc = "install"
  BY DEF EnsureWireGuardInstalled
<1>2. routine' = [routine EXCEPT ![r] = Done] \/ Continue(r, "index")
  BY DEF EnsureWireGuardInstalled
<1>3. "index" \in RoutinePcs
  BY DEF RoutinePcs
<1> QED
  BY <1>1, <1>2, <1>3, ContinueEffect

\* The index is greater than every index there is, or the first.
LEMMA TakeIndexEffect ==
    ASSUME MeshTypes, NEW r \in Routines, TakeIndex(r), \A n \in MeshNodes : row[n].idx <= keys,
           \E n \in MeshNodes : routine[r].node = {n}
    PROVE  /\ routine[r].pc = "index"
           /\ clash' \in BOOLEAN /\ (~clash' => ~clash /\ RoutinesAt("save") = {})
           /\ unread' \in BOOLEAN /\ (unread => unread')
           /\ \E x \in Routine :
                 /\ routine' = [routine EXCEPT ![r] = x]
                 /\ x.pc = "save" /\ x.node = routine[r].node
                 /\ x.idx >= 1 /\ x.idx <= keys + 1
                 /\ (\A n \in MeshNodes : row[n].idx < x.idx) \/ (unread' /\ x.idx = 1)
<1>0. PICK fails \in BOOLEAN :
         /\ routine' = [routine EXCEPT ![r].pc = "save", ![r].idx = NextWGIndex(fails)]
         /\ unread' = (unread \/ fails)
  BY DEF TakeIndex
<1> DEFINE S == {row[n].idx : n \in MeshNodes}
           i == NextWGIndex(fails)
           x == [routine[r] EXCEPT !.pc = "save", !.idx = i]
<1>1. S \in SUBSET Nat /\ S # {} /\ \A y \in S : y <= keys
  BY DEF MeshTypes, MeshRow
<1>2. keys \in Nat
  BY DEF MeshTypes
<1> HIDE DEF S
<1>3. Max(S) \in S /\ \A y \in S : Max(S) >= y
  BY <1>1, <1>2, GreatestOf
<1>4. i = IF fails THEN 1 ELSE 1 + Max(S)
  BY DEF NextWGIndex, S
<1> HIDE DEF i
<1>5. i \in Nat /\ i >= 1 /\ i <= keys + 1 /\ ((\A y \in S : y < i) \/ (fails /\ i = 1))
  <2> DEFINE m == Max(S)
  <2>1. m \in S /\ (\A y \in S : m >= y) /\ (i = IF fails THEN 1 ELSE 1 + m)
    BY <1>3, <1>4
  <2> HIDE DEF m
  <2>2. m \in Nat /\ m <= keys
    BY <1>1, <2>1
  <2>3. \A y \in S : y \in Nat
    BY <1>1
  <2>4. CASE fails
    <3>1. i = 1
      BY <2>1, <2>4
    <3> QED
      BY <1>2, <2>4, <3>1
  <2>5. CASE ~fails
    <3>1. i = 1 + m
      BY <2>1, <2>5
    <3> QED
      BY <1>2, <2>1, <2>2, <2>3, <3>1
  <2> QED
    BY <2>4, <2>5
<1>6. (\A n \in MeshNodes : row[n].idx < i) \/ (unread' /\ i = 1)
  <2>1. fails => unread'
    BY <1>0
  <2> QED
    BY <1>5, <2>1 DEF S
<1>7. routine[r] \in Routine
  BY DEF MeshTypes
<1>8. x \in Routine
  BY <1>5, <1>7 DEF Routine, RoutinePcs
<1>9. x.pc = "save" /\ x.node = routine[r].node /\ x.idx = i
  BY <1>5, <1>7 DEF Routine
<1>10. routine' = [routine EXCEPT ![r] = x] /\ routine[r].pc = "index"
  BY <1>0 DEF TakeIndex, MeshTypes, i
<1>11. /\ clash' \in BOOLEAN /\ (~clash' => ~clash /\ RoutinesAt("save") = {})
       /\ unread' \in BOOLEAN /\ (unread => unread')
  BY <1>0, Zenon DEF TakeIndex, MeshTypes
<1> HIDE DEF x
<1> QED
  BY <1>5, <1>6, <1>8, <1>9, <1>10, <1>11

LEMMA SaveNodeEffect ==
    ASSUME MeshTypes, NEW r \in Routines, NEW n \in MeshNodes, routine[r].node = {n}, SaveNode(r)
    PROVE  /\ routine[r].pc = "save" /\ keys' = keys + 1
           /\ row' \in [MeshNodes -> MeshRow]
           /\ \A m \in MeshNodes : row'[m].known = row[m].known
           /\ \A m \in MeshNodes : row'[m].key # 0 => row[m].key # 0 \/ row[m].known
           /\ \A m \in MeshNodes : row'[m] = row[m] \/ (m = n /\ row'[m].idx = routine[r].idx)
           /\ \E x \in Routine : /\ routine' = [routine EXCEPT ![r] = x]
                                 /\ x.pc = "list" /\ x.node = routine[r].node
<1> DEFINE k == keys + 1
           i == routine[r].idx
<1>1. k \in Nat /\ i \in Nat
  BY DEF MeshTypes, Routine
<1>2. /\ routine[r].pc = "save" /\ keys' = k /\ Continue(r, "list")
      /\ row' = [m \in MeshNodes |-> IF m \in {n} /\ row[m].known THEN [row[m] EXCEPT !.key = k, !.idx = i]
                                     ELSE row[m]]
  BY DEF SaveNode, generateWireGuardKeyPair, UpdateNodeWireGuard
<1> HIDE DEF k, i
<1>3. ASSUME NEW m \in MeshNodes
      PROVE  /\ row'[m] \in MeshRow /\ row'[m].known = row[m].known
             /\ row'[m].key # 0 => row[m].key # 0 \/ row[m].known
             /\ row'[m] = row[m] \/ (m = n /\ row'[m].idx = i)
  <2>1. row[m] \in MeshRow
    BY DEF MeshTypes
  <2>2. CASE m = n /\ row[m].known
    <3>1. row'[m] = [row[m] EXCEPT !.key = k, !.idx = i]
      BY <1>2, <2>2
    <3> QED
      BY <1>1, <2>1, <2>2, <3>1 DEF MeshRow
  <2>3. CASE ~(m = n /\ row[m].known)
    BY <1>2, <2>1, <2>3
  <2> QED
    BY <2>2, <2>3
<1>4. row' \in [MeshNodes -> MeshRow]
  BY <1>2, <1>3
<1>5. "list" \in RoutinePcs
  BY DEF RoutinePcs
<1>6. \E x \in Routine : /\ routine' = [routine EXCEPT ![r] = x]
                         /\ x.pc = "list" /\ x.node = routine[r].node
  <2>1. Continue(r, "list")
    BY <1>2
  <2> QED
    BY <1>5, <2>1, ContinueEffect
<1> QED
  BY <1>2, <1>3, <1>4, <1>6 DEF k, i

LEMMA ListNodesEffect ==
    ASSUME MeshTypes, NEW r \in Routines, ListNodes(r)
    PROVE  /\ routine[r].pc = "list" /\ UNCHANGED <<row, iface, keys, clash, unread, missed>>
           /\ dirty' \in BOOLEAN
           /\ ~dirty' => RoutinesAt("push") = {}
           /\ \/ ListNodesWithWireGuard = {} /\ routine' = [routine EXCEPT ![r] = Done]
              \/ \E x \in Routine : /\ routine' = [routine EXCEPT ![r] = x]
                                    /\ x.pc = "push" /\ x.node = routine[r].node
                                    /\ x.snap = row /\ x.todo = ListNodesWithWireGuard
<1> DEFINE L == ListNodesWithWireGuard
           x == [routine[r] EXCEPT !.pc = "push", !.snap = row, !.todo = L]
<1>1. /\ routine[r].pc = "list" /\ UNCHANGED <<row, iface, keys, clash, unread, missed>>
      /\ dirty' \in BOOLEAN /\ (~dirty' => RoutinesAt("push") = {})
  BY Zenon DEF ListNodes, indexes
<1>2. routine' = [routine EXCEPT ![r] = IF L = {} THEN Done ELSE x]
  BY DEF ListNodes, MeshTypes
<1>3. routine[r] \in Routine /\ L \in SUBSET MeshNodes /\ row \in [MeshNodes -> MeshRow]
  BY DEF MeshTypes, ListNodesWithWireGuard
<1> HIDE DEF L
<1>4. x \in Routine
  BY <1>3 DEF Routine, RoutinePcs
<1>5. x.pc = "push" /\ x.node = routine[r].node /\ x.snap = row /\ x.todo = L
  BY <1>3 DEF Routine
<1> HIDE DEF x
<1> QED
  BY <1>1, <1>2, <1>4, <1>5 DEF L

\* An interface has a configuration, but for its address, which is that of the
\* configuration or the one it had.
Shows(c, config) == c = [config EXCEPT !.idx = c.idx]
AddressFrom(c, old, config) == c.idx = config.idx \/ (old # NoConfig /\ c.idx = old.idx)

LEMMA ApplyEffect ==
    ASSUME NEW c, NEW old, NEW i, NEW k, NEW P, c = [key |-> k, idx |-> i, peers |-> P],
           NEW d, d = c \/ (old # NoConfig /\ d = [c EXCEPT !.idx = old.idx])
    PROVE  Shows(d, c) /\ AddressFrom(d, old, c)
<1>1. CASE d = c
  BY <1>1 DEF Shows, AddressFrom
<1>2. CASE old # NoConfig /\ d = [c EXCEPT !.idx = old.idx]
  BY <1>2 DEF Shows, AddressFrom
<1> QED
  BY <1>1, <1>2

\* One node gets its configuration or not; the goroutine ends after the last.
LEMMA PushConfigEffect ==
    ASSUME MeshTypes, NEW r \in Routines, PushConfig(r)
    PROVE  \E n \in routine[r].todo :
              /\ routine[r].pc = "push" /\ UNCHANGED <<row, keys, clash, unread, given, dirty>>
              /\ DOMAIN iface' = Hosts /\ missed' \subseteq Hosts
              /\ \A h \in Hosts : h # HostOf[n] =>
                    iface'[h] = iface[h] /\ (h \in missed => h \in missed')
              /\ LET h == HostOf[n]
                     c == Config(n, routine[r].snap)
                 IN \/ h \in missed' /\ iface'[h] \in {iface[h], NoConfig}
                    \/ Shows(iface'[h], c) /\ AddressFrom(iface'[h], iface[h], c)
              /\ \/ routine[r].todo = {n} /\ routine' = [routine EXCEPT ![r] = Done]
                 \/ \E x \in Routine :
                       /\ routine' = [routine EXCEPT ![r] = x]
                       /\ x.pc = "push" /\ x.node = routine[r].node /\ x.snap = routine[r].snap
                       /\ x.todo = routine[r].todo \ {n}
<1>1. PICK n \in routine[r].todo :
         /\ Advance(r, n)
         /\ IF n \notin online THEN missed' = missed \cup {HostOf[n]} /\ UNCHANGED iface
            ELSE ConfigureWireGuard(HostOf[n], Config(n, routine[r].snap))
  BY DEF PushConfig
<1> DEFINE h == HostOf[n]
           c == Config(n, routine[r].snap)
           x == [routine[r] EXCEPT !.todo = routine[r].todo \ {n}]
<1>2. routine[r].pc = "push" /\ UNCHANGED <<row, keys, clash, unread, given, dirty>>
  BY DEF PushConfig, indexes
<1>3. routine[r] \in Routine /\ n \in MeshNodes /\ h \in Hosts
  BY DEF MeshTypes, Routine, Hosts
<1>4. /\ x \in Routine /\ x.pc = routine[r].pc /\ x.node = routine[r].node /\ x.snap = routine[r].snap
      /\ x.todo = routine[r].todo \ {n}
  BY <1>3 DEF Routine
<1>5. routine' = [routine EXCEPT ![r] = IF routine[r].todo \ {n} = {} THEN Done ELSE x]
  BY <1>1 DEF Advance, MeshTypes
<1>a. \E i, k, P : c = [key |-> k, idx |-> i, peers |-> P]
  BY DEF Config
<1> HIDE DEF x, c, h
<1>6. \/ missed' = missed \cup {h} /\ UNCHANGED iface
      \/ missed' = missed \cup {h} /\ iface' = [iface EXCEPT ![h] = NoConfig]
      \/ /\ missed' = missed \ {h}
         /\ \E d : /\ iface' = [iface EXCEPT ![h] = d]
                   /\ d = c \/ (iface[h] # NoConfig /\ d = [c EXCEPT !.idx = iface[h].idx])
  BY <1>1 DEF ConfigureWireGuard, ApplyConfig, ApplyFails, h, c
<1>7. /\ DOMAIN iface' = Hosts /\ missed' \subseteq Hosts
      /\ \A g \in Hosts : g # h => iface'[g] = iface[g] /\ (g \in missed => g \in missed')
  BY <1>3, <1>6 DEF MeshTypes
<1>b. \/ h \in missed' /\ iface'[h] \in {iface[h], NoConfig}
      \/ Shows(iface'[h], c) /\ AddressFrom(iface'[h], iface[h], c)
  <2>1. CASE \/ missed' = missed \cup {h} /\ UNCHANGED iface
             \/ missed' = missed \cup {h} /\ iface' = [iface EXCEPT ![h] = NoConfig]
    BY <2>1, <1>3 DEF MeshTypes
  <2>2. ASSUME NEW d, iface' = [iface EXCEPT ![h] = d],
               d = c \/ (iface[h] # NoConfig /\ d = [c EXCEPT !.idx = iface[h].idx])
        PROVE  Shows(iface'[h], c) /\ AddressFrom(iface'[h], iface[h], c)
    <3>1. iface'[h] = d
      BY <2>2, <1>3 DEF MeshTypes
    <3>2. Shows(d, c) /\ AddressFrom(d, iface[h], c)
      BY <2>2, <1>a, ApplyEffect
    <3> QED
      BY <3>1, <3>2
  <2> QED
    BY <2>1, <2>2, <1>6
<1>8. routine[r].todo \ {n} = {} => routine[r].todo = {n}
  OBVIOUS
<1> QED
  BY <1>2, <1>4, <1>5, <1>7, <1>8, <1>b DEF h, c

-----------------------------------------------------------------------------
(* The addresses.                                                          *)

\* A goroutine that is at work has one node; a host has one known node; only
\* known nodes have keys.
NodeInv ==
    /\ \A r \in Routines : routine[r].pc # "done" => \E n \in MeshNodes : routine[r].node = {n}
    /\ \A n, m \in MeshNodes : row[n].known /\ row[m].known /\ HostOf[n] = HostOf[m] => n = m
    /\ \A n \in MeshNodes : row[n].key # 0 => row[n].known

\* Every index is at most the number of keys, and as long as the setups come one
\* after the other, the one that is to be saved is greater than all saved ones, or it
\* could not be read.
Free(i) == (\A n \in MeshNodes : row[n].idx < i) \/ (unread /\ i = 1)
AddressInv ==
    /\ \A n \in MeshNodes : row[n].idx <= keys
    /\ \A r \in RoutinesAt("save") : routine[r].idx >= 1 /\ routine[r].idx <= keys + 1
    /\ ~clash =>
          /\ \A r, q \in RoutinesAt("save") : r = q
          /\ \A r \in RoutinesAt("save") : Free(routine[r].idx)
          /\ AddressesDiffer

MeshInv == MeshTypes /\ NodeInv /\ AddressInv

\* A goroutine goes on or ends, and is not about to save.
LEMMA RoutineStep ==
    ASSUME MeshInv, NEW r \in Routines, NEW x \in Routine, routine' = [routine EXCEPT ![r] = x],
           x.pc # "save", x.pc # "done" => \E n \in MeshNodes : x.node = {n},
           UNCHANGED <<row, keys, clash, unread>>, DOMAIN iface' = Hosts, missed' \subseteq Hosts, dirty' \in BOOLEAN
    PROVE  MeshInv'
<1>1. MeshTypes'
  BY DEF MeshInv, MeshTypes
<1>2. /\ \A q \in Routines \ {r} : routine'[q] = routine[q]
      /\ routine'[r] = x
  BY DEF MeshInv, MeshTypes
<1>3. NodeInv'
  BY <1>2 DEF MeshInv, NodeInv
<1>4. RoutinesAt("save")' \subseteq RoutinesAt("save") /\ \A q \in RoutinesAt("save")' : routine'[q] = routine[q]
  BY <1>2 DEF RoutinesAt
<1>5. AddressesDiffer => AddressesDiffer'
  BY DEF AddressesDiffer, ListNodesWithWireGuard
<1>6. AddressInv'
  <2>1. \A q \in RoutinesAt("save")' : q \in RoutinesAt("save") /\ routine'[q].idx = routine[q].idx
    BY <1>4
  <2> HIDE DEF RoutinesAt
  <2> QED
    BY <1>5, <2>1 DEF MeshInv, AddressInv, Free
<1> QED
  BY <1>1, <1>3, <1>6 DEF MeshInv

\* Steps that leave rows, goroutines and keys alone.
LEMMA OtherStep ==
    ASSUME MeshInv, UNCHANGED <<row, routine, keys, clash, unread>>, DOMAIN iface' = Hosts,
           missed' \subseteq Hosts, dirty' \in BOOLEAN
    PROVE  MeshInv'
<1>1. MeshTypes'
  BY DEF MeshInv, MeshTypes
<1>2. NodeInv'
  BY DEF MeshInv, NodeInv
<1>3. AddressInv'
  BY DEF MeshInv, AddressInv, Free, RoutinesAt, AddressesDiffer, ListNodesWithWireGuard
<1> QED
  BY <1>1, <1>2, <1>3 DEF MeshInv

LEMMA RegisteredStep ==
    ASSUME MeshInv, NEW r \in Routines, NEW n \in MeshNodes, Registered(r, n) PROVE MeshInv'
<1>1. MeshTypes
  BY DEF MeshInv
<1>2. /\ UNCHANGED <<iface, keys, clash, unread, missed>>
      /\ row' \in [MeshNodes -> MeshRow] /\ dirty' \in BOOLEAN
      /\ \A m \in MeshNodes :
            IF m # n /\ HostOf[m] = HostOf[n] THEN row'[m] = NoRow
            ELSE /\ row'[m].key = row[m].key /\ row'[m].idx = row[m].idx
                 /\ row'[m].known => row[m].known \/ m = n
                 /\ row[m].known => row'[m].known
  BY <1>1, RegisteredEffect
<1>3. PICK x \in Routine : routine' = [routine EXCEPT ![r] = x] /\ x.pc = "look" /\ x.node = {n}
  BY <1>1, RegisteredEffect
<1>4. MeshTypes'
  BY <1>1, <1>2, <1>3 DEF MeshTypes
<1>5. routine'[r] = x /\ \A q \in Routines \ {r} : routine'[q] = routine[q]
  BY <1>1, <1>3 DEF MeshTypes
<1>6. \A m \in MeshNodes : /\ row'[m].known => row[m].known \/ m = n
                           /\ row'[m].known /\ m # n => HostOf[m] # HostOf[n]
                           /\ row'[m].key # 0 => row'[m].key = row[m].key /\ row'[m].idx = row[m].idx
                           /\ row'[m].key # 0 /\ row[m].known => row'[m].known
                           /\ row'[m].idx = row[m].idx \/ row'[m].idx = 0
  <2>1. ~NoRow.known
    BY DEF NoRow
  <2> QED
    BY <1>2, <2>1, RowIsTyped
<1>7. NodeInv'
  <2>1. \A q \in Routines : routine'[q].pc # "done" => \E m \in MeshNodes : routine'[q].node = {m}
    BY <1>3, <1>5 DEF MeshInv, NodeInv
  <2>2. \A a, b \in MeshNodes : row'[a].known /\ row'[b].known /\ HostOf[a] = HostOf[b] => a = b
    BY <1>6 DEF MeshInv, NodeInv
  <2>3. \A m \in MeshNodes : row'[m].key # 0 => row'[m].known
    BY <1>6 DEF MeshInv, NodeInv
  <2> QED
    BY <2>1, <2>2, <2>3 DEF NodeInv
<1>8. \A q \in RoutinesAt("save")' : q \in RoutinesAt("save") /\ routine'[q].idx = routine[q].idx
  BY <1>3, <1>5 DEF RoutinesAt
<1>9. AddressesDiffer => AddressesDiffer'
  BY <1>2, <1>6 DEF AddressesDiffer, ListNodesWithWireGuard
<1>10. AddressInv'
  <2>1. keys \in Nat /\ \A m \in MeshNodes : row[m].idx \in Nat
    BY <1>1 DEF MeshTypes, MeshRow
  <2>2. \A m \in MeshNodes : row'[m].idx <= keys'
    BY <1>2, <1>6, <2>1 DEF MeshInv, AddressInv
  <2>3. \A q \in RoutinesAt("save") : routine[q].idx \in Nat
    BY <1>1 DEF MeshTypes, Routine, RoutinesAt
  <2>4. \A q \in RoutinesAt("save") : routine[q].idx >= 1 /\ routine[q].idx <= keys + 1
    BY DEF MeshInv, AddressInv
  <2>5. ASSUME ~clash, NEW q \in RoutinesAt("save")
        PROVE  (\A m \in MeshNodes : row'[m].idx < routine[q].idx) \/ (unread' /\ routine[q].idx = 1)
    <3>1. Free(routine[q].idx)
      BY <2>5 DEF MeshInv, AddressInv
    <3>2. routine[q].idx \in Nat /\ routine[q].idx >= 1
      BY <2>3, <2>4
    <3> QED
      BY <1>2, <1>6, <2>1, <3>1, <3>2 DEF Free
  <2>6. ~clash => AddressesDiffer /\ \A p, q \in RoutinesAt("save") : p = q
    BY DEF MeshInv, AddressInv
  <2>7. ~clash => \A q \in RoutinesAt("save")' : Free(routine[q].idx)'
    BY <1>8, <2>5 DEF Free
  <2>8. \A q \in RoutinesAt("save")' : routine'[q].idx >= 1 /\ routine'[q].idx <= keys' + 1
    BY <1>2, <1>8, <2>4
  <2>9. ~clash => AddressesDiffer' /\ \A p, q \in RoutinesAt("save")' : p = q
    BY <1>8, <1>9, <2>6
  <2> QED
    BY <1>2, <2>2, <2>7, <2>8, <2>9 DEF AddressInv
<1> QED
  BY <1>4, <1>7, <1>10 DEF MeshInv

LEMMA TakeIndexStep ==
    ASSUME MeshInv, NEW r \in Routines, TakeIndex(r) PROVE MeshInv'
<1>1. MeshTypes /\ (\A n \in MeshNodes : row[n].idx <= keys) /\ (\E n \in MeshNodes : routine[r].node = {n})
  BY DEF MeshInv, AddressInv, NodeInv, TakeIndex
<1>2. /\ clash' \in BOOLEAN /\ (~clash' => ~clash /\ RoutinesAt("save") = {})
      /\ unread' \in BOOLEAN /\ (unread => unread')
  BY <1>1, TakeIndexEffect
<1>3. PICK x \in Routine :
         /\ routine' = [routine EXCEPT ![r] = x]
         /\ x.pc = "save" /\ x.node = routine[r].node
         /\ x.idx >= 1 /\ x.idx <= keys + 1
         /\ (\A n \in MeshNodes : row[n].idx < x.idx) \/ (unread' /\ x.idx = 1)
  BY <1>1, TakeIndexEffect
<1>4. UNCHANGED <<row, iface, keys, dirty, missed>>
  BY DEF TakeIndex
<1>5. MeshTypes'
  BY <1>1, <1>2, <1>3, <1>4 DEF MeshTypes
<1>6. routine'[r] = x /\ \A q \in Routines \ {r} : routine'[q] = routine[q]
  BY <1>1, <1>3 DEF MeshTypes
<1>7. NodeInv'
  BY <1>1, <1>3, <1>4, <1>6 DEF MeshInv, NodeInv
<1>8. \A q \in RoutinesAt("save")' : q = r \/ (q \in RoutinesAt("save") /\ routine'[q] = routine[q])
  BY <1>6 DEF RoutinesAt
<1>9. ~clash => AddressesDiffer
  BY DEF MeshInv, AddressInv
<1>10. AddressInv'
  <2>1. \A n \in MeshNodes : row'[n].idx <= keys'
    BY <1>1, <1>4
  <2>2. \A q \in RoutinesAt("save")' : routine'[q].idx >= 1 /\ routine'[q].idx <= keys' + 1
    BY <1>3, <1>4, <1>6, <1>8 DEF MeshInv, AddressInv
  <2>3. ASSUME ~clash'
        PROVE  /\ \A p, q \in RoutinesAt("save")' : p = q
               /\ \A q \in RoutinesAt("save")' : Free(routine[q].idx)'
               /\ AddressesDiffer'
    <3>1. \A q \in RoutinesAt("save")' : q = r
      BY <1>2, <1>8, <2>3
    <3>2. AddressesDiffer'
      BY <1>2, <1>4, <1>9, <2>3 DEF AddressesDiffer, ListNodesWithWireGuard
    <3> QED
      BY <1>3, <1>4, <1>6, <3>1, <3>2 DEF Free
  <2> QED
    BY <2>1, <2>2, <2>3 DEF AddressInv
<1> QED
  BY <1>5, <1>7, <1>10 DEF MeshInv

LEMMA SaveNodeStep ==
    ASSUME MeshInv, NEW r \in Routines, SaveNode(r) PROVE MeshInv'
<1>1. MeshTypes /\ routine[r].pc = "save" /\ r \in RoutinesAt("save")
  BY DEF MeshInv, SaveNode, RoutinesAt
<1>2. PICK n \in MeshNodes : routine[r].node = {n}
  BY <1>1 DEF MeshInv, NodeInv
<1>3. /\ keys' = keys + 1 /\ row' \in [MeshNodes -> MeshRow]
      /\ \A m \in MeshNodes : row'[m].known = row[m].known
      /\ \A m \in MeshNodes : row'[m].key # 0 => row[m].key # 0 \/ row[m].known
      /\ \A m \in MeshNodes : row'[m] = row[m] \/ (m = n /\ row'[m].idx = routine[r].idx)
  BY <1>1, <1>2, SaveNodeEffect
<1>4. PICK x \in Routine :
         routine' = [routine EXCEPT ![r] = x] /\ x.pc = "list" /\ x.node = routine[r].node
  BY <1>1, <1>2, SaveNodeEffect
<1>5. UNCHANGED <<iface, clash, unread, dirty, missed>>
  BY DEF SaveNode
<1>6. MeshTypes'
  BY <1>1, <1>3, <1>4, <1>5 DEF MeshTypes
<1>7. routine'[r] = x /\ \A q \in Routines \ {r} : routine'[q] = routine[q]
  BY <1>1, <1>4 DEF MeshTypes
<1>8. NodeInv'
  BY <1>2, <1>3, <1>4, <1>7 DEF MeshInv, NodeInv
<1>9. \A q \in RoutinesAt("save")' : q # r /\ q \in RoutinesAt("save") /\ routine'[q] = routine[q]
  BY <1>4, <1>7 DEF RoutinesAt
<1>10. keys \in Nat /\ (\A m \in MeshNodes : row[m].idx \in Nat) /\ routine[r].idx \in Nat
  BY <1>1 DEF MeshTypes, MeshRow, Routine
<1>11. AddressInv'
  <2>1. \A m \in MeshNodes : row'[m].idx <= keys'
    BY <1>1, <1>3, <1>10 DEF MeshInv, AddressInv
  <2>2. \A q \in RoutinesAt("save")' : routine'[q].idx >= 1 /\ routine'[q].idx <= keys' + 1
    <3>1. \A q \in RoutinesAt("save") : routine[q].idx \in Nat /\ routine[q].idx >= 1 /\ routine[q].idx <= keys + 1
      BY <1>1 DEF MeshInv, AddressInv, MeshTypes, Routine, RoutinesAt
    <3> QED
      BY <1>3, <1>9, <1>10, <3>1
  <2>3. ASSUME ~clash'
        PROVE  /\ \A p, q \in RoutinesAt("save")' : p = q
               /\ \A q \in RoutinesAt("save")' : Free(routine[q].idx)'
               /\ AddressesDiffer'
    <3>1. RoutinesAt("save")' = {}
      BY <1>1, <1>5, <1>9, <2>3 DEF MeshInv, AddressInv
    <3>2. AddressesDiffer /\ Free(routine[r].idx)
      BY <1>1, <1>5, <2>3 DEF MeshInv, AddressInv
    <3>3. ASSUME NEW a \in MeshNodes, NEW b \in MeshNodes, row'[a].key # 0, row'[b].key # 0, row'[a].idx = row'[b].idx
          PROVE  a = b \/ (unread /\ row'[a].idx = 1)
      <4>1. CASE row'[a] = row[a] /\ row'[b] = row[b]
        BY <1>5, <2>3, <3>2, <3>3, <4>1 DEF AddressesDiffer, ListNodesWithWireGuard
      <4>2. CASE row'[a] # row[a] \/ row'[b] # row[b]
        BY <1>3, <1>10, <3>2, <3>3, <4>2 DEF Free
      <4> QED
        BY <4>1, <4>2
    <3> QED
      BY <1>5, <3>1, <3>3 DEF AddressesDiffer, ListNodesWithWireGuard
  <2> QED
    BY <2>1, <2>2, <2>3 DEF AddressInv
<1> QED
  BY <1>6, <1>8, <1>11 DEF MeshInv

\* Every step keeps the invariant.
LEMMA MeshInvStep ==
    ASSUME MeshInv, [MeshNext]_meshVars PROVE MeshInv'
<1>0. MeshTypes /\ DOMAIN iface = Hosts /\ missed \subseteq Hosts /\ dirty \in BOOLEAN
  BY DEF MeshInv, MeshTypes
<1>1. ASSUME NEW r \in Routines, NEW n \in MeshNodes, Registered(r, n) PROVE MeshInv'
  BY <1>1, RegisteredStep
<1>2. ASSUME NEW r \in Routines, Look(r) PROVE MeshInv'
  <2>1. \E n \in MeshNodes : routine[r].node = {n}
    BY <1>2 DEF Look, MeshInv, NodeInv
  <2>2. PICK x \in Routine :
           /\ routine' = [routine EXCEPT ![r] = x]
           /\ x.pc \in {"done", "install", "list"} /\ (x.pc # "done" => x.node = routine[r].node)
    BY <1>0, <1>2, LookEffect, RowIsTyped
  <2>3. UNCHANGED <<row, keys, clash, unread, iface, missed, dirty>>
    BY <1>2 DEF Look, indexes
  <2> QED
    BY <1>0, <2>1, <2>2, <2>3, RoutineStep
<1>3. ASSUME NEW r \in Routines, EnsureWireGuardInstalled(r) PROVE MeshInv'
  <2>1. \E n \in MeshNodes : routine[r].node = {n}
    BY <1>3 DEF EnsureWireGuardInstalled, MeshInv, NodeInv
  <2>2. PICK x \in Routine :
           /\ routine' = [routine EXCEPT ![r] = x]
           /\ x.pc \in {"done", "index"} /\ (x.pc # "done" => x.node = routine[r].node)
    BY <1>0, <1>3, InstallEffect, RowIsTyped
  <2>3. UNCHANGED <<row, keys, clash, unread, iface, missed, dirty>>
    BY <1>3 DEF EnsureWireGuardInstalled, indexes
  <2> QED
    BY <1>0, <2>1, <2>2, <2>3, RoutineStep
<1>4. ASSUME NEW r \in Routines, TakeIndex(r) PROVE MeshInv'
  BY <1>4, TakeIndexStep
<1>5. ASSUME NEW r \in Routines, SaveNode(r) PROVE MeshInv'
  BY <1>5, SaveNodeStep
<1>6. ASSUME NEW r \in Routines, ListNodes(r) PROVE MeshInv'
  <2>1. /\ \E n \in MeshNodes : routine[r].node = {n}
        /\ UNCHANGED <<row, iface, keys, clash, unread, missed>> /\ dirty' \in BOOLEAN
    BY <1>0, <1>6, ListNodesEffect DEF MeshInv, NodeInv
  <2>2. PICK x \in Routine :
           /\ routine' = [routine EXCEPT ![r] = x]
           /\ x.pc \in {"done", "push"} /\ (x.pc # "done" => x.node = routine[r].node)
    BY <1>0, <1>6, ListNodesEffect, RowIsTyped
  <2> QED
    BY <1>0, <2>1, <2>2, RoutineStep
<1>7. ASSUME NEW r \in Routines, PushConfig(r) PROVE MeshInv'
  <2>1. /\ routine[r].pc = "push" /\ UNCHANGED <<row, keys, clash, unread, dirty>>
        /\ DOMAIN iface' = Hosts /\ missed' \subseteq Hosts
    BY <1>0, <1>7, PushConfigEffect
  <2>2. \E n \in MeshNodes : routine[r].node = {n}
    BY <2>1 DEF MeshInv, NodeInv
  <2>3. PICK x \in Routine :
           /\ routine' = [routine EXCEPT ![r] = x]
           /\ x.pc \in {"done", "push"} /\ (x.pc # "done" => x.node = routine[r].node)
    BY <1>0, <1>7, PushConfigEffect, RowIsTyped
  <2> QED
    BY <1>0, <2>1, <2>2, <2>3, RoutineStep
<1>8. ASSUME NEW n \in MeshNodes, GoesOffline(n) \/ MeshHeartbeat(n) PROVE MeshInv'
  BY <1>0, <1>8, OtherStep DEF GoesOffline, MeshHeartbeat, indexes
<1>9. ASSUME NEW h \in Hosts, HostRestarts(h) PROVE MeshInv'
  <2>1. DOMAIN iface' = Hosts /\ missed' \subseteq Hosts /\ UNCHANGED <<row, routine, keys, clash, unread, dirty>>
    BY <1>0, <1>9 DEF HostRestarts, indexes
  <2> QED
    BY <1>0, <2>1, OtherStep
<1>10. ASSUME MasterRestart PROVE MeshInv'
  <2>1. /\ routine' = [r \in Routines |-> Done] /\ dirty' = TRUE
        /\ UNCHANGED <<row, iface, keys, clash, unread, missed>>
    BY <1>10 DEF MasterRestart, indexes
  <2>2. MeshTypes'
    BY <1>0, <2>1, RowIsTyped DEF MeshTypes
  <2>3. RoutinesAt("save")' = {}
    BY <2>1, RowIsTyped DEF RoutinesAt
  <2>4. NodeInv'
    BY <2>1, RowIsTyped DEF MeshInv, NodeInv
  <2>5. AddressInv'
    BY <2>1, <2>3 DEF MeshInv, AddressInv, AddressesDiffer, ListNodesWithWireGuard
  <2> QED
    BY <2>2, <2>4, <2>5 DEF MeshInv
<1>11. ASSUME UNCHANGED meshVars PROVE MeshInv'
  BY <1>0, <1>11, OtherStep DEF meshVars, indexes
<1>12. ASSUME NEW r \in Routines, StoreFails(r) PROVE MeshInv'
  <2>1. routine' = [routine EXCEPT ![r] = Done] /\ UNCHANGED <<row, keys, clash, unread, iface, missed>>
    BY <1>12 DEF StoreFails, indexes
  <2>2. dirty' \in BOOLEAN
    BY <1>12, Zenon DEF StoreFails
  <2> QED
    BY <1>0, <2>1, <2>2, RoutineStep, RowIsTyped
<1> QED
  BY <1>1, <1>2, <1>3, <1>4, <1>5, <1>6, <1>7, <1>8, <1>9, <1>10, <1>11, <1>12 DEF MeshNext

\* The invariant holds in every reachable state.
LEMMA MeshInvariance == MeshSpec => []MeshInv
<1>1. MeshInit => MeshInv
  <2> SUFFICES ASSUME MeshInit PROVE MeshInv
    OBVIOUS
  <2>1. /\ row = [n \in MeshNodes |-> NoRow] /\ routine = [r \in Routines |-> Done]
        /\ DOMAIN iface = Hosts /\ keys = 0 /\ missed = {} /\ ~clash /\ ~dirty
        /\ clash \in BOOLEAN /\ dirty \in BOOLEAN /\ unread \in BOOLEAN
    BY DEF MeshInit
  <2>2. MeshTypes
    BY <2>1, RowIsTyped DEF MeshTypes
  <2>3. RoutinesAt("save") = {}
    BY <2>1, RowIsTyped DEF RoutinesAt
  <2>4. \A n \in MeshNodes : ~row[n].known /\ row[n].key = 0 /\ row[n].idx = 0
    BY <2>1, RowIsTyped DEF NoRow
  <2>5. NodeInv
    BY <2>1, <2>4, RowIsTyped DEF NodeInv
  <2>6. AddressInv
    BY <2>1, <2>3, <2>4 DEF AddressInv, AddressesDiffer, ListNodesWithWireGuard
  <2> QED
    BY <2>2, <2>5, <2>6 DEF MeshInv
<1>2. MeshInv /\ [MeshNext]_meshVars => MeshInv'
  BY MeshInvStep
<1> QED
  BY <1>1, <1>2, PTL DEF MeshSpec

\* Unless two setups have overlapped, no two nodes have the same address, whatever
\* nodes were removed and added again, but for the first, which a read of the index
\* that fails gives again: for any number of nodes (NextWGIndex).
THEOREM AddressesStayDifferent == MeshSpec => []AddressesDiffer
<1>1. MeshInv => AddressesDiffer
  BY DEF MeshInv, AddressInv, AddressesDiffer
<1> QED
  BY <1>1, MeshInvariance, PTL

-----------------------------------------------------------------------------
(* The configurations.                                                     *)

\* Two tables that give the same configurations.
SameKeys(a, b) == \A m \in MeshNodes : a[m].key = b[m].key /\ (b[m].key # 0 => a[m].idx = b[m].idx)

\* A host has the configuration of now, or is known not to have it.
Configured(n) == HostOf[n] \in missed \/ Shows(iface[HostOf[n]], Config(n, row))

\* As long as one goroutine pushes at a time, and none has yet to list the nodes,
\* the one that pushes has the table of now, and every node has its
\* configuration but for those the goroutine has yet to push to.
PushInv ==
    ~dirty =>
       /\ \A r, q \in RoutinesAt("push") : r = q
       /\ RoutinesAt("list") = {} =>
             /\ \A r \in RoutinesAt("push") :
                   SameKeys(routine[r].snap, row) /\ routine[r].todo \subseteq ListNodesWithWireGuard
             /\ \A n \in ListNodesWithWireGuard :
                   (\E r \in RoutinesAt("push") : n \in routine[r].todo) \/ Configured(n)

LEMMA SameConfig ==
    ASSUME NEW a, NEW b, SameKeys(a, b), NEW n \in MeshNodes, b[n].key # 0
    PROVE  Config(n, a) = Config(n, b)
<1>1. buildPeersFor(n, a) = buildPeersFor(n, b)
  <2>1. {m \in MeshNodes \ {n} : a[m].key # 0} = {m \in MeshNodes \ {n} : b[m].key # 0}
    BY DEF SameKeys
  <2> DEFINE M == {m \in MeshNodes \ {n} : b[m].key # 0}
  <2>2. \A m \in M : a[m].key = b[m].key /\ a[m].idx = b[m].idx
    BY DEF SameKeys
  <2>3. /\ buildPeersFor(n, a) = {<<a[m].key, a[m].idx>> : m \in M}
        /\ buildPeersFor(n, b) = {<<b[m].key, b[m].idx>> : m \in M}
    BY <2>1 DEF buildPeersFor
  <2> HIDE DEF M
  <2> QED
    BY <2>2, <2>3
<1>2. a[n].key = b[n].key /\ a[n].idx = b[n].idx
  BY DEF SameKeys
<1> QED
  BY <1>1, <1>2 DEF Config

\* Steps that leave the keys, the interfaces and the pushes alone.
LEMMA PushKept ==
    ASSUME PushInv, ~dirty' => ~dirty /\ SameKeys(row', row) /\ SameKeys(row, row'),
           RoutinesAt("push")' = RoutinesAt("push"), \A r \in RoutinesAt("push") : routine'[r] = routine[r],
           RoutinesAt("list") \subseteq RoutinesAt("list")',
           \A h \in Hosts : iface'[h] = iface[h] \/ h \in missed', missed \subseteq missed'
    PROVE  PushInv'
<1> SUFFICES ASSUME ~dirty' PROVE PushInv'
  BY DEF PushInv
<1>1. ~dirty /\ SameKeys(row', row) /\ SameKeys(row, row') /\ ListNodesWithWireGuard' = ListNodesWithWireGuard
  BY DEF SameKeys, ListNodesWithWireGuard
<1>2. \A r, q \in RoutinesAt("push")' : r = q
  BY <1>1 DEF PushInv
<1>3. ASSUME RoutinesAt("list")' = {}
      PROVE  /\ \A r \in RoutinesAt("push")' :
                   SameKeys(routine'[r].snap, row') /\ routine'[r].todo \subseteq ListNodesWithWireGuard'
             /\ \A n \in ListNodesWithWireGuard' :
                   (\E r \in RoutinesAt("push")' : n \in routine'[r].todo) \/ Configured(n)'
  <2>1. RoutinesAt("list") = {}
    BY <1>3
  <2>2. ASSUME NEW r \in RoutinesAt("push")
        PROVE  SameKeys(routine'[r].snap, row') /\ routine'[r].todo \subseteq ListNodesWithWireGuard'
    <3>1. routine'[r] = routine[r] /\ SameKeys(routine[r].snap, row) /\ routine[r].todo \subseteq ListNodesWithWireGuard
      BY <1>1, <2>1 DEF PushInv
    <3>2. SameKeys(routine[r].snap, row')
      BY <1>1, <3>1 DEF SameKeys
    <3> QED
      BY <1>1, <3>1, <3>2
  <2>3. ASSUME NEW n \in ListNodesWithWireGuard, Configured(n) PROVE Configured(n)'
    <3>1. n \in MeshNodes /\ HostOf[n] \in Hosts /\ row[n].key # 0 /\ row'[n].key # 0
      BY <1>1 DEF ListNodesWithWireGuard, Hosts, SameKeys
    <3>2. Config(n, row) = Config(n, row')
      BY <1>1, <3>1, SameConfig
    <3> QED
      BY <2>3, <3>1, <3>2 DEF Configured
  <2> QED
    BY <1>1, <2>1, <2>2, <2>3 DEF PushInv
<1> QED
  BY <1>2, <1>3 DEF PushInv

\* A goroutine that does not push and does not begin to moves: no harm.
LEMMA PushMoved ==
    ASSUME MeshTypes, NEW r \in Routines, NEW x \in Routine, routine' = [routine EXCEPT ![r] = x],
           routine[r].pc \notin {"push", "list"}, x.pc # "push"
    PROVE  /\ RoutinesAt("push")' = RoutinesAt("push") /\ \A q \in RoutinesAt("push") : routine'[q] = routine[q]
           /\ RoutinesAt("list") \subseteq RoutinesAt("list")'
  BY DEF MeshTypes, RoutinesAt

LEMMA ReflSame == SameKeys(row, row)
  BY DEF SameKeys

LEMMA ListStep ==
    ASSUME MeshInv, PushInv, NEW r \in Routines, ListNodes(r) PROVE PushInv'
<1>1. MeshTypes
  BY DEF MeshInv
<1>2. /\ routine[r].pc = "list" /\ UNCHANGED <<row, iface, keys, clash, unread, missed>>
      /\ ~dirty' => RoutinesAt("push") = {}
      /\ \/ ListNodesWithWireGuard = {} /\ routine' = [routine EXCEPT ![r] = Done]
         \/ \E x \in Routine : /\ routine' = [routine EXCEPT ![r] = x]
                               /\ x.pc = "push" /\ x.node = routine[r].node
                               /\ x.snap = row /\ x.todo = ListNodesWithWireGuard
  BY <1>1, ListNodesEffect
<1> SUFFICES ASSUME ~dirty' PROVE PushInv'
  BY DEF PushInv
<1>3. ListNodesWithWireGuard' = ListNodesWithWireGuard
  BY <1>2 DEF ListNodesWithWireGuard
<1>4. CASE ListNodesWithWireGuard = {} /\ routine' = [routine EXCEPT ![r] = Done]
  <2>1. RoutinesAt("push")' = {}
    BY <1>1, <1>2, <1>4, RowIsTyped DEF RoutinesAt, MeshTypes
  <2> QED
    BY <1>3, <1>4, <2>1 DEF PushInv
<1>5. ASSUME NEW x \in Routine, routine' = [routine EXCEPT ![r] = x], x.pc = "push",
             x.snap = row, x.todo = ListNodesWithWireGuard
      PROVE  PushInv'
  <2>1. RoutinesAt("push")' = {r} /\ routine'[r] = x
    BY <1>1, <1>2, <1>5 DEF RoutinesAt, MeshTypes
  <2>2. SameKeys(routine'[r].snap, row')
    BY <1>2, <1>5, <2>1, ReflSame
  <2> QED
    BY <1>3, <1>5, <2>1, <2>2 DEF PushInv
<1> QED
  BY <1>2, <1>4, <1>5

LEMMA PushStep ==
    ASSUME MeshInv, PushInv, NEW r \in Routines, PushConfig(r) PROVE PushInv'
<1>1. MeshTypes
  BY DEF MeshInv
<1> SUFFICES ASSUME ~dirty' PROVE PushInv'
  BY DEF PushInv
<1>2. PICK n \in routine[r].todo :
         /\ routine[r].pc = "push" /\ UNCHANGED <<row, keys, clash, unread, dirty>>
         /\ DOMAIN iface' = Hosts /\ missed' \subseteq Hosts
         /\ \A h \in Hosts : h # HostOf[n] => iface'[h] = iface[h] /\ (h \in missed => h \in missed')
         /\ HostOf[n] \in missed' \/ Shows(iface'[HostOf[n]], Config(n, routine[r].snap))
         /\ \/ routine[r].todo = {n} /\ routine' = [routine EXCEPT ![r] = Done]
            \/ \E x \in Routine :
                  /\ routine' = [routine EXCEPT ![r] = x]
                  /\ x.pc = "push" /\ x.node = routine[r].node /\ x.snap = routine[r].snap
                  /\ x.todo = routine[r].todo \ {n}
  BY <1>1, PushConfigEffect
<1>3. ~dirty /\ r \in RoutinesAt("push") /\ \A q \in RoutinesAt("push") : q = r
  BY <1>2 DEF PushInv, RoutinesAt
<1>4. RoutinesAt("list")' = RoutinesAt("list") /\ ListNodesWithWireGuard' = ListNodesWithWireGuard
  BY <1>1, <1>2, RowIsTyped DEF RoutinesAt, MeshTypes, ListNodesWithWireGuard
<1>5. RoutinesAt("push")' \subseteq {r}
  BY <1>1, <1>2, <1>3, RowIsTyped DEF RoutinesAt, MeshTypes
<1>6. \A q \in RoutinesAt("push")' : /\ routine'[q].snap = routine[r].snap
                                     /\ routine'[q].todo = routine[r].todo \ {n}
  BY <1>1, <1>2, <1>5, RowIsTyped DEF RoutinesAt, MeshTypes
<1>7. RoutinesAt("push")' = {} => routine[r].todo = {n}
  BY <1>1, <1>2, RowIsTyped DEF RoutinesAt, MeshTypes
<1>8. ASSUME RoutinesAt("list")' = {}
      PROVE  /\ \A q \in RoutinesAt("push")' :
                   SameKeys(routine'[q].snap, row') /\ routine'[q].todo \subseteq ListNodesWithWireGuard'
             /\ \A m \in ListNodesWithWireGuard' :
                   (\E q \in RoutinesAt("push")' : m \in routine'[q].todo) \/ Configured(m)'
  <2>1. SameKeys(routine[r].snap, row) /\ routine[r].todo \subseteq ListNodesWithWireGuard
    BY <1>3, <1>4, <1>8 DEF PushInv
  <2>2. n \in MeshNodes /\ row[n].key # 0 /\ row[n].known
    BY <2>1 DEF ListNodesWithWireGuard, MeshInv, NodeInv
  <2>3. Configured(n)'
    <3>1. Config(n, routine[r].snap) = Config(n, row)
      BY <2>1, <2>2, SameConfig
    <3> QED
      BY <1>2, <3>1 DEF Configured
  <2>4. ASSUME NEW m \in ListNodesWithWireGuard, m # n, Configured(m) PROVE Configured(m)'
    <3>1. m \in MeshNodes /\ row[m].known /\ HostOf[m] \in Hosts
      BY DEF ListNodesWithWireGuard, MeshInv, NodeInv, Hosts
    <3>2. HostOf[m] # HostOf[n]
      BY <2>2, <2>4, <3>1 DEF MeshInv, NodeInv
    <3>3. iface'[HostOf[m]] = iface[HostOf[m]] /\ (HostOf[m] \in missed => HostOf[m] \in missed') /\ row' = row
      BY <1>2, <3>1, <3>2
    <3> QED
      BY <2>4, <3>3 DEF Configured
  <2>5. ASSUME NEW m \in ListNodesWithWireGuard
        PROVE  (\E q \in RoutinesAt("push")' : m \in routine'[q].todo) \/ Configured(m)'
    <3>1. m \in routine[r].todo \/ Configured(m)
      BY <1>3, <1>4, <1>8 DEF PushInv
    <3>2. CASE m = n
      BY <2>3, <3>2
    <3>3. CASE m # n /\ m \in routine[r].todo
      <4>1. PICK q \in RoutinesAt("push")' : TRUE
        BY <1>7, <3>3
      <4> QED
        BY <1>6, <3>3, <4>1
    <3>4. CASE m # n /\ Configured(m)
      BY <2>4, <3>4
    <3> QED
      BY <3>1, <3>2, <3>3, <3>4
  <2>6. ASSUME NEW q \in RoutinesAt("push")'
        PROVE  SameKeys(routine'[q].snap, row') /\ routine'[q].todo \subseteq ListNodesWithWireGuard'
    BY <1>2, <1>4, <1>6, <2>1
  <2> QED
    BY <1>4, <2>5, <2>6
<1> QED
  BY <1>5, <1>8 DEF PushInv

\* Every step keeps the pushes in order.
LEMMA PushInvStep ==
    ASSUME MeshInv, PushInv, [MeshNext]_meshVars PROVE PushInv'
<1>0. MeshTypes /\ SameKeys(row, row)
  BY ReflSame DEF MeshInv
<1>1. ASSUME NEW r \in Routines, NEW n \in MeshNodes, Registered(r, n) PROVE PushInv'
  <2>1. /\ UNCHANGED <<iface, missed>> /\ routine[r].pc = "done"
        /\ \A m \in MeshNodes :
              IF m # n /\ HostOf[m] = HostOf[n] THEN row'[m] = NoRow
              ELSE /\ row'[m].key = row[m].key /\ row'[m].idx = row[m].idx
                   /\ row'[m].known => row[m].known \/ m = n
                   /\ row[m].known => row'[m].known
        /\ ~dirty' => ~dirty /\ \A m \in MeshNodes : m # n /\ HostOf[m] = HostOf[n] => row[m].key = 0
    BY <1>0, <1>1, RegisteredEffect
  <2>2. PICK x \in Routine : routine' = [routine EXCEPT ![r] = x] /\ x.pc = "look" /\ x.node = {n}
    BY <1>0, <1>1, RegisteredEffect
  <2>3. ~dirty' => ~dirty /\ SameKeys(row', row) /\ SameKeys(row, row')
    <3> SUFFICES ASSUME ~dirty' PROVE SameKeys(row', row) /\ SameKeys(row, row')
      BY <2>1
    <3>1. \A m \in MeshNodes : row'[m].key = row[m].key /\ (row[m].key # 0 => row'[m].idx = row[m].idx)
      BY <2>1, RowIsTyped
    <3> QED
      BY <3>1 DEF SameKeys
  <2>4. /\ RoutinesAt("push")' = RoutinesAt("push") /\ \A q \in RoutinesAt("push") : routine'[q] = routine[q]
        /\ RoutinesAt("list") \subseteq RoutinesAt("list")'
    <3>1. routine[r].pc \notin {"push", "list"} /\ x.pc # "push"
      BY <2>1, <2>2
    <3> QED
      BY <1>0, <2>2, <3>1, PushMoved
  <2> QED
    BY <2>1, <2>3, <2>4, PushKept
<1>2. ASSUME NEW r \in Routines, NEW x \in Routine, routine' = [routine EXCEPT ![r] = x],
             routine[r].pc \notin {"push", "list"}, x.pc # "push",
             UNCHANGED <<row, iface, missed, dirty>>
      PROVE  PushInv'
  <2>1. /\ RoutinesAt("push")' = RoutinesAt("push") /\ \A q \in RoutinesAt("push") : routine'[q] = routine[q]
        /\ RoutinesAt("list") \subseteq RoutinesAt("list")'
    BY <1>0, <1>2, PushMoved
  <2> QED
    BY <1>0, <1>2, <2>1, PushKept
<1>3. ASSUME NEW r \in Routines, Look(r) PROVE PushInv'
  <2>1. routine[r].pc = "look" /\ UNCHANGED <<row, iface, missed, dirty>>
    BY <1>3 DEF Look
  <2>2. PICK x \in Routine : routine' = [routine EXCEPT ![r] = x] /\ x.pc \in {"done", "install", "list"}
    BY <1>0, <1>3, LookEffect, RowIsTyped
  <2> QED
    BY <1>2, <2>1, <2>2
<1>4. ASSUME NEW r \in Routines, EnsureWireGuardInstalled(r) PROVE PushInv'
  <2>1. routine[r].pc = "install" /\ UNCHANGED <<row, iface, missed, dirty>>
    BY <1>4 DEF EnsureWireGuardInstalled
  <2>2. PICK x \in Routine : routine' = [routine EXCEPT ![r] = x] /\ x.pc \in {"done", "index"}
    BY <1>0, <1>4, InstallEffect, RowIsTyped
  <2> QED
    BY <1>2, <2>1, <2>2
<1>5. ASSUME NEW r \in Routines, TakeIndex(r) PROVE PushInv'
  <2>1. /\ routine[r].pc = "index" /\ UNCHANGED <<row, iface, missed, dirty>>
        /\ (\A n \in MeshNodes : row[n].idx <= keys) /\ (\E n \in MeshNodes : routine[r].node = {n})
    BY <1>5 DEF TakeIndex, MeshInv, NodeInv, AddressInv
  <2>2. PICK x \in Routine : routine' = [routine EXCEPT ![r] = x] /\ x.pc = "save"
    BY <1>0, <1>5, <2>1, TakeIndexEffect
  <2> QED
    BY <1>2, <2>1, <2>2
<1>6. ASSUME NEW r \in Routines, SaveNode(r) PROVE PushInv'
  <2>1. routine[r].pc = "save" /\ UNCHANGED <<iface, missed, dirty>> /\ \E n \in MeshNodes : routine[r].node = {n}
    BY <1>6 DEF SaveNode, MeshInv, NodeInv
  <2>2. PICK x \in Routine : routine' = [routine EXCEPT ![r] = x] /\ x.pc = "list"
    BY <1>0, <1>6, <2>1, SaveNodeEffect
  <2>3. r \in RoutinesAt("list")' /\ RoutinesAt("push")' = RoutinesAt("push")
    BY <1>0, <2>1, <2>2 DEF RoutinesAt, MeshTypes
  <2> QED
    BY <2>1, <2>3 DEF PushInv
<1>7. ASSUME NEW r \in Routines, ListNodes(r) PROVE PushInv'
  BY <1>7, ListStep
<1>8. ASSUME NEW r \in Routines, PushConfig(r) PROVE PushInv'
  BY <1>8, PushStep
<1>9. ASSUME NEW n \in MeshNodes, GoesOffline(n) \/ MeshHeartbeat(n) PROVE PushInv'
  <2>1. UNCHANGED <<row, routine, iface, missed, dirty>>
    BY <1>9 DEF GoesOffline, MeshHeartbeat
  <2> QED
    BY <1>0, <2>1, PushKept DEF RoutinesAt
<1>10. ASSUME NEW h \in Hosts, HostRestarts(h) PROVE PushInv'
  <2>1. /\ UNCHANGED <<row, routine, dirty>> /\ missed \subseteq missed'
        /\ \A g \in Hosts : iface'[g] = iface[g] \/ g \in missed'
    BY <1>0, <1>10 DEF HostRestarts, MeshTypes
  <2> QED
    BY <1>0, <2>1, PushKept DEF RoutinesAt
<1>11. ASSUME MasterRestart PROVE PushInv'
  BY <1>11 DEF MasterRestart, PushInv
<1>13. ASSUME NEW r \in Routines, StoreFails(r) PROVE PushInv'
  <2>1. /\ routine' = [routine EXCEPT ![r] = Done] /\ UNCHANGED <<row, iface, missed>>
        /\ routine[r].pc \in {"look", "save", "list"}
        /\ dirty' = (dirty \/ routine[r].pc = "list")
    BY <1>13 DEF StoreFails
  <2>2. CASE dirty'
    BY <2>2 DEF PushInv
  <2>3. CASE ~dirty'
    <3>1. UNCHANGED dirty /\ routine[r].pc \notin {"push", "list"}
      BY <2>1, <2>3 DEF MeshInv, MeshTypes
    <3> QED
      BY <1>2, <2>1, <3>1, RowIsTyped
  <2> QED
    BY <2>2, <2>3
<1>12. ASSUME UNCHANGED meshVars PROVE PushInv'
  <2>1. UNCHANGED <<row, routine, iface, missed, dirty>>
    BY <1>12 DEF meshVars
  <2> QED
    BY <1>0, <2>1, PushKept DEF RoutinesAt
<1> QED
  BY <1>1, <1>3, <1>4, <1>5, <1>6, <1>7, <1>8, <1>9, <1>10, <1>11, <1>12, <1>13 DEF MeshNext

\* The addresses a host is given: those of its nodes, of the configurations on their
\* way to it, and of its interface.
GivenInv ==
    /\ \A n \in MeshNodes : row[n].key # 0 => row[n].idx \in given[HostOf[n]]
    /\ \A r \in RoutinesAt("push") : \A n \in routine[r].todo :
          routine[r].snap[n].idx \in given[HostOf[n]]
    /\ \A h \in Hosts : iface[h] # NoConfig => iface[h].idx \in given[h]

LEMMA GivenKept ==
    ASSUME GivenInv, \A h \in Hosts : given[h] \subseteq given'[h],
           \A n \in MeshNodes : row'[n].key # 0 =>
              (row[n].key # 0 /\ row'[n].idx = row[n].idx) \/ row'[n].idx \in given'[HostOf[n]],
           \A r \in RoutinesAt("push")' : \A n \in routine'[r].todo :
              \/ r \in RoutinesAt("push") /\ n \in routine[r].todo /\ routine'[r].snap = routine[r].snap
              \/ routine'[r].snap[n].idx \in given'[HostOf[n]],
           \A r \in RoutinesAt("push") : routine[r].todo \subseteq MeshNodes,
           \A h \in Hosts : iface'[h] \in {iface[h], NoConfig} \/ iface'[h].idx \in given'[h]
    PROVE  GivenInv'
<1>1. \A n \in MeshNodes : HostOf[n] \in Hosts
  BY DEF Hosts
<1>2. \A n \in MeshNodes : row'[n].key # 0 => row'[n].idx \in given'[HostOf[n]]
  BY <1>1 DEF GivenInv
<1>3. \A r \in RoutinesAt("push")' : \A n \in routine'[r].todo :
          routine'[r].snap[n].idx \in given'[HostOf[n]]
  BY <1>1 DEF GivenInv
<1>4. \A h \in Hosts : iface'[h] # NoConfig => iface'[h].idx \in given'[h]
  BY DEF GivenInv
<1> QED
  BY <1>2, <1>3, <1>4 DEF GivenInv

LEMMA GivenInvStep ==
    ASSUME MeshInv, GivenInv, [MeshNext]_meshVars PROVE GivenInv'
<1>0. MeshTypes /\ (\A n \in MeshNodes : HostOf[n] \in Hosts) /\ \A r \in Routines : routine[r] \in Routine
  BY DEF MeshInv, MeshTypes, Hosts
<1>a. \A r \in RoutinesAt("push") : routine[r].todo \subseteq MeshNodes
  BY <1>0 DEF RoutinesAt, Routine
\* A goroutine moves that does not begin to push.
<1>1. ASSUME NEW r \in Routines, NEW x \in Routine, routine' = [routine EXCEPT ![r] = x], x.pc # "push",
             \A h \in Hosts : given[h] \subseteq given'[h], UNCHANGED iface,
             \A n \in MeshNodes : row'[n].key # 0 =>
                (row[n].key # 0 /\ row'[n].idx = row[n].idx) \/ row'[n].idx \in given'[HostOf[n]]
      PROVE  GivenInv'
  <2>1. \A q \in RoutinesAt("push")' : q \in RoutinesAt("push") /\ routine'[q] = routine[q]
    BY <1>0, <1>1 DEF RoutinesAt, MeshTypes
  <2> QED
    BY <1>a, <1>1, <2>1, GivenKept
<1>2. ASSUME NEW r \in Routines, NEW n \in MeshNodes, Registered(r, n) PROVE GivenInv'
  <2>1. PICK x \in Routine : routine' = [routine EXCEPT ![r] = x] /\ x.pc = "look" /\ x.node = {n}
    BY <1>0, <1>2, RegisteredEffect
  <2>2. UNCHANGED <<iface, given>>
    BY <1>2 DEF Registered, indexes
  <2>3. \A m \in MeshNodes : row'[m].key # 0 => row[m].key # 0 /\ row'[m].idx = row[m].idx
    BY <1>0, <1>2, RegisteredEffect, RowIsTyped
  <2> QED
    BY <1>1, <2>1, <2>2, <2>3
<1>3. ASSUME NEW r \in Routines, Look(r) \/ EnsureWireGuardInstalled(r) \/ TakeIndex(r) \/ StoreFails(r)
      PROVE  GivenInv'
  <2>1. UNCHANGED <<row, iface, given>>
    BY <1>3 DEF Look, EnsureWireGuardInstalled, TakeIndex, StoreFails, indexes
  <2>2. PICK x \in Routine : routine' = [routine EXCEPT ![r] = x] /\ x.pc # "push"
    <3>1. CASE Look(r)
      BY <1>0, <3>1, LookEffect, RowIsTyped
    <3>2. CASE EnsureWireGuardInstalled(r)
      BY <1>0, <3>2, InstallEffect, RowIsTyped
    <3>3. CASE TakeIndex(r)
      <4>1. (\A n \in MeshNodes : row[n].idx <= keys) /\ (\E n \in MeshNodes : routine[r].node = {n})
        BY <3>3 DEF TakeIndex, MeshInv, NodeInv, AddressInv
      <4> QED
        BY <1>0, <3>3, <4>1, TakeIndexEffect
    <3>4. CASE StoreFails(r)
      BY <3>4, RowIsTyped DEF StoreFails
    <3> QED
      BY <1>3, <3>1, <3>2, <3>3, <3>4
  <2> QED
    BY <1>1, <2>1, <2>2
<1>4. ASSUME NEW r \in Routines, SaveNode(r) PROVE GivenInv'
  <2>1. /\ \E n \in MeshNodes : routine[r].node = {n}
        /\ UNCHANGED iface
        /\ given' = [h \in Hosts |-> given[h] \cup
                       {row'[n].idx : n \in {m \in MeshNodes : HostOf[m] = h /\ row'[m].key # 0}}]
    BY <1>4 DEF SaveNode, MeshInv, NodeInv
  <2>2. PICK x \in Routine : routine' = [routine EXCEPT ![r] = x] /\ x.pc = "list"
    BY <1>0, <1>4, <2>1, SaveNodeEffect
  <2>3. /\ \A h \in Hosts : given[h] \subseteq given'[h]
        /\ \A n \in MeshNodes : row'[n].key # 0 => row'[n].idx \in given'[HostOf[n]]
    BY <1>0, <2>1
  <2> QED
    BY <1>1, <2>1, <2>2, <2>3
<1>5. ASSUME NEW r \in Routines, ListNodes(r) PROVE GivenInv'
  <2>1. UNCHANGED <<row, iface, given>>
    BY <1>5 DEF ListNodes, indexes
  <2>2. CASE routine' = [routine EXCEPT ![r] = Done]
    BY <1>1, <2>1, <2>2, RowIsTyped
  <2>3. ASSUME NEW x \in Routine, routine' = [routine EXCEPT ![r] = x], x.snap = row,
               x.todo = ListNodesWithWireGuard
        PROVE  GivenInv'
    <3>1. routine'[r] = x /\ \A q \in Routines \ {r} : routine'[q] = routine[q]
      BY <1>0, <2>3 DEF MeshTypes
    <3>2. \A n \in routine'[r].todo : routine'[r].snap[n].idx \in given'[HostOf[n]]
      BY <2>1, <2>3, <3>1 DEF GivenInv, ListNodesWithWireGuard
    <3>3. \A q \in RoutinesAt("push")' : q # r => q \in RoutinesAt("push") /\ routine'[q] = routine[q]
      BY <3>1 DEF RoutinesAt
    <3> QED
      BY <1>a, <2>1, <3>2, <3>3, GivenKept
  <2> QED
    BY <1>0, <1>5, <2>2, <2>3, ListNodesEffect
<1>6. ASSUME NEW r \in Routines, PushConfig(r) PROVE GivenInv'
  <2>1. PICK n \in routine[r].todo :
           /\ routine[r].pc = "push" /\ UNCHANGED <<row, given>>
           /\ \A h \in Hosts : h # HostOf[n] => iface'[h] = iface[h]
           /\ \/ iface'[HostOf[n]] \in {iface[HostOf[n]], NoConfig}
              \/ AddressFrom(iface'[HostOf[n]], iface[HostOf[n]], Config(n, routine[r].snap))
           /\ \E x \in Routine : /\ routine' = [routine EXCEPT ![r] = x]
                                 /\ x.pc = "push" => /\ x.snap = routine[r].snap
                                                     /\ x.todo = routine[r].todo \ {n}
    BY <1>0, <1>6, PushConfigEffect, RowIsTyped
  <2>2. n \in MeshNodes /\ HostOf[n] \in Hosts /\ r \in RoutinesAt("push")
    BY <1>0, <1>a, <2>1 DEF RoutinesAt
  <2>3. routine[r].snap[n].idx \in given[HostOf[n]]
    BY <2>1, <2>2 DEF GivenInv
  <2>4. \A h \in Hosts : iface'[h] \in {iface[h], NoConfig} \/ iface'[h].idx \in given'[h]
    <3>1. CASE AddressFrom(iface'[HostOf[n]], iface[HostOf[n]], Config(n, routine[r].snap))
      <4>1. Config(n, routine[r].snap).idx = routine[r].snap[n].idx
        BY DEF Config
      <4>2. iface'[HostOf[n]].idx \in given[HostOf[n]]
        BY <2>2, <2>3, <3>1, <4>1 DEF AddressFrom, GivenInv
      <4> QED
        BY <2>1, <4>2
    <3> QED
      BY <2>1, <3>1
  <2>5. \A q \in RoutinesAt("push")' : /\ q \in RoutinesAt("push") /\ routine'[q].snap = routine[q].snap
                                       /\ routine'[q].todo \subseteq routine[q].todo
    BY <1>0, <2>1, <2>2 DEF RoutinesAt, MeshTypes
  <2>6. \A q \in RoutinesAt("push")' : \A m \in routine'[q].todo :
           q \in RoutinesAt("push") /\ m \in routine[q].todo /\ routine'[q].snap = routine[q].snap
    BY <2>5
  <2>7. \A m \in MeshNodes : row'[m].key # 0 => row[m].key # 0 /\ row'[m].idx = row[m].idx
    BY <2>1
  <2> QED
    BY <1>a, <2>1, <2>4, <2>6, <2>7, GivenKept
<1>7. ASSUME UNCHANGED <<row, given>>, \A h \in Hosts : iface'[h] \in {iface[h], NoConfig},
             \/ UNCHANGED routine \/ RoutinesAt("push")' = {}
      PROVE  GivenInv'
  BY <1>a, <1>7, GivenKept DEF RoutinesAt
<1>8. ASSUME NEW n \in MeshNodes, GoesOffline(n) \/ MeshHeartbeat(n) PROVE GivenInv'
  BY <1>7, <1>8 DEF GoesOffline, MeshHeartbeat, indexes
<1>9. ASSUME NEW h \in Hosts, HostRestarts(h) PROVE GivenInv'
  <2>1. UNCHANGED <<row, routine, given>> /\ \A g \in Hosts : iface'[g] \in {iface[g], NoConfig}
    BY <1>0, <1>9 DEF HostRestarts, indexes, MeshTypes
  <2> QED
    BY <1>7, <2>1
<1>10. ASSUME MasterRestart PROVE GivenInv'
  <2>1. UNCHANGED <<row, iface, given>> /\ routine' = [r \in Routines |-> Done]
    BY <1>10 DEF MasterRestart, indexes
  <2>2. RoutinesAt("push")' = {}
    BY <2>1, RowIsTyped DEF RoutinesAt
  <2> QED
    BY <1>7, <2>1, <2>2
<1>11. ASSUME UNCHANGED meshVars PROVE GivenInv'
  BY <1>7, <1>11 DEF meshVars, indexes
<1> QED
  BY <1>2, <1>3, <1>4, <1>5, <1>6, <1>8, <1>9, <1>10, <1>11 DEF MeshNext

\* When no goroutine is at work, the hosts have the keys and peers of the nodes of
\* now, and an address that a node of theirs was given, for any number of nodes,
\* goroutines and failures: unless a push has missed a host, or since a node was removed,
\* two goroutines pushed at a time or a list failed none has pushed alone (ApplyConfig).
THEOREM MeshStaysWhole == MeshSpec => []MeshIsWhole
<1>1. MeshInit => PushInv /\ GivenInv
  <2> SUFFICES ASSUME MeshInit PROVE PushInv /\ GivenInv
    OBVIOUS
  <2>1. RoutinesAt("push") = {}
    BY RowIsTyped DEF MeshInit, RoutinesAt
  <2>2. ListNodesWithWireGuard = {}
    BY RowIsTyped DEF MeshInit, ListNodesWithWireGuard
  <2>3. PushInv
    BY <2>1, <2>2 DEF PushInv
  <2>4. GivenInv
    BY <2>1, RowIsTyped DEF MeshInit, GivenInv
  <2> QED
    BY <2>3, <2>4
<1>2. MeshInv /\ PushInv /\ [MeshNext]_meshVars => PushInv'
  BY PushInvStep
<1>3. MeshInv /\ GivenInv /\ [MeshNext]_meshVars => GivenInv'
  BY GivenInvStep
<1>4. PushInv /\ GivenInv => MeshIsWhole
  <2> SUFFICES ASSUME PushInv, GivenInv, RoutinesAt("done") = Routines, ~dirty,
                      NEW n \in ListNodesWithWireGuard \cap online, HostOf[n] \notin missed
               PROVE  \E idx \in given[HostOf[n]] : iface[HostOf[n]] = [Config(n, row) EXCEPT !.idx = idx]
    BY DEF MeshIsWhole
  <2> DEFINE c == iface[HostOf[n]]
  <2>1. RoutinesAt("push") = {} /\ RoutinesAt("list") = {}
    BY DEF RoutinesAt
  <2>2. c = [Config(n, row) EXCEPT !.idx = c.idx]
    BY <2>1 DEF PushInv, Configured, Shows
  <2>3. c.key = row[n].key /\ row[n].key # 0 /\ HostOf[n] \in Hosts
    BY <2>2 DEF Config, ListNodesWithWireGuard, Hosts
  <2>4. c # NoConfig
    BY <2>3 DEF NoConfig
  <2> QED
    BY <2>2, <2>3, <2>4 DEF GivenInv
<1> QED
  BY <1>1, <1>2, <1>3, <1>4, MeshInvariance, PTL DEF MeshSpec

-----------------------------------------------------------------------------
(* The schema of the database.                                             *)

Stages == {"down", "opened", "loop", "executed", "recorded", "open"}

SchemaTypes ==
    /\ lock \in Masters \cup {0}
    /\ stage \in [Masters -> Stages]
    /\ current \in [Masters -> Nat] /\ next \in [Masters -> Nat]
    /\ DOMAIN work = Masters

\* The database is at version v.
Is(v) == versions = 1..v /\ items = Objects(v)

\* What master p relies on when the database is at version v.  It is never more
\* than one migration ahead of the database; inside a transaction it holds the
\* lock, so that the version it has checked is still missing when it commits.
Follows(p, v) ==
    /\ stage[p] \in {"executed", "recorded"} <=> lock = p
    /\ stage[p] \in {"loop", "executed", "recorded", "open"} =>
          next[p] >= 1 /\ next[p] <= v + 1 /\ current[p] <= v
    /\ stage[p] \in {"executed", "recorded"} =>
          /\ next[p] <= Latest
          /\ work[p] = items \cup getMigrations[next[p]].creates \cup getMigrations[next[p]].adds
    /\ stage[p] = "recorded" => next[p] = v + 1
    /\ stage[p] = "open" => v = Latest

SchemaInv == \E v \in 0..Latest : Is(v) /\ \A p \in Masters : Follows(p, v)

-----------------------------------------------------------------------------
LEMMA LatestNat == Latest \in Nat
  BY DEF Latest, getMigrations

\* One migration more is one version more.
LEMMA NextObjects ==
    ASSUME NEW v \in Nat
    PROVE  Objects(v + 1) = Objects(v) \cup getMigrations[v + 1].creates \cup getMigrations[v + 1].adds
<1>1. \A n : n \in 1..(v + 1) <=> n \in 1..v \/ n = v + 1
  OBVIOUS
<1>2. \A o : o \in Objects(v + 1)
             <=> o \in Objects(v) \/ o \in getMigrations[v + 1].creates \cup getMigrations[v + 1].adds
  BY <1>1, Zenon DEF Objects
<1> QED
  BY <1>2

\* What migrate reads as the version.
LEMMA MaxVersion ==
    ASSUME NEW v \in Nat, versions = 1..v
    PROVE  (IF versions = {} THEN 0 ELSE Max(versions)) = v
<1>1. CASE v = 0
  BY <1>1
<1>2. CASE v > 0
  <2>1. v \in versions /\ \A y \in versions : v >= y
    BY <1>2
  <2>2. \A x \in versions : (\A y \in versions : x >= y) => x = v
    BY <2>1
  <2> QED
    BY <2>1, <2>2 DEF Max
<1> QED
  BY <1>1, <1>2

\* Every step keeps the invariant, with the version it was at or the next one.
LEMMA SchemaStep ==
    ASSUME 0 \notin Masters, SchemaTypes, SchemaInv, [SchemaNext]_schemaVars PROVE SchemaTypes' /\ SchemaInv'
<1>1. PICK v \in 0..Latest : Is(v) /\ \A p \in Masters : Follows(p, v)
  BY DEF SchemaInv
<1>2. Latest \in Nat /\ v \in Nat
  BY LatestNat
<1>3. SUFFICES SchemaTypes' /\ \E w \in 0..Latest : Is(w)' /\ \A q \in Masters : Follows(q, w)'
  BY LatestNat DEF SchemaInv, Latest
<1> USE DEF IsAt, MoveTo, SchemaTypes, Stages
<1>4. ASSUME NEW p \in Masters, New(p) PROVE SchemaTypes' /\ Is(v)' /\ \A q \in Masters : Follows(q, v)'
  BY <1>1, <1>2, <1>4 DEF New, Is, Follows
<1>5. ASSUME NEW p \in Masters, ReadVersion(p)
      PROVE  SchemaTypes' /\ Is(v)' /\ \A q \in Masters : Follows(q, v)'
  <2>1. current' = [current EXCEPT ![p] = v]
    BY <1>1, <1>2, <1>5, MaxVersion DEF ReadVersion, Is
  <2>2. /\ stage[p] = "opened" /\ stage' = [stage EXCEPT ![p] = "loop"] /\ next' = [next EXCEPT ![p] = 1]
        /\ UNCHANGED <<items, versions, lock, work>>
    BY <1>5 DEF ReadVersion
  <2>3. SchemaTypes' /\ Is(v)'
    BY <1>1, <1>2, <2>1, <2>2 DEF Is
  <2>4. ASSUME NEW q \in Masters PROVE Follows(q, v)'
    <3>1. CASE q = p
      BY <1>1, <1>2, <2>1, <2>2, <3>1 DEF Follows
    <3>2. CASE q # p
      BY <1>1, <2>1, <2>2, <3>2 DEF Follows
    <3> QED
      BY <3>1, <3>2
  <2> QED
    BY <2>3, <2>4
<1>6. ASSUME NEW p \in Masters, Skip(p) PROVE SchemaTypes' /\ Is(v)' /\ \A q \in Masters : Follows(q, v)'
  BY <1>1, <1>2, <1>6 DEF Skip, Is, Follows
<1>7. ASSUME NEW p \in Masters, Exec(p) PROVE SchemaTypes' /\ Is(v)' /\ \A q \in Masters : Follows(q, v)'
  BY <1>1, <1>2, <1>7 DEF Exec, Is, Follows
<1>8. ASSUME NEW p \in Masters, Record(p) PROVE SchemaTypes' /\ Is(v)' /\ \A q \in Masters : Follows(q, v)'
  BY <1>1, <1>2, <1>8 DEF Record, Is, Follows
<1>9. ASSUME NEW p \in Masters, Commit(p)
      PROVE  v + 1 \in 0..Latest /\ SchemaTypes' /\ Is(v + 1)' /\ \A q \in Masters : Follows(q, v + 1)'
  <2>1. next[p] = v + 1 /\ v + 1 <= Latest /\ lock = p
    BY <1>1, <1>2, <1>9 DEF Commit, Follows
  <2>2. items' = Objects(v + 1)
    BY <1>1, <1>2, <1>9, <2>1, NextObjects DEF Commit, Follows, Is
  <2>3. versions' = 1..(v + 1)
    BY <1>1, <1>2, <1>9, <2>1 DEF Commit, Is
  <2>4. SchemaTypes'
    BY <1>9 DEF Commit
  <2>5. ASSUME NEW q \in Masters PROVE Follows(q, v + 1)'
    BY <1>1, <1>2, <1>9, <2>1 DEF Commit, Follows
  <2> QED
    BY <1>2, <2>1, <2>2, <2>3, <2>4, <2>5 DEF Is
<1>10. ASSUME NEW p \in Masters, Opened(p) PROVE SchemaTypes' /\ Is(v)' /\ \A q \in Masters : Follows(q, v)'
  BY <1>1, <1>2, <1>10 DEF Opened, Is, Follows
<1>11. ASSUME NEW p \in Masters, Fail(p) PROVE SchemaTypes' /\ Is(v)' /\ \A q \in Masters : Follows(q, v)'
  BY <1>1, <1>2, <1>11 DEF Fail, Is, Follows
<1>12. ASSUME UNCHANGED schemaVars PROVE SchemaTypes' /\ Is(v)' /\ \A q \in Masters : Follows(q, v)'
  BY <1>1, <1>12 DEF schemaVars, Is, Follows
<1> QED
  BY <1>4, <1>5, <1>6, <1>7, <1>8, <1>9, <1>10, <1>11, <1>12 DEF SchemaNext

\* However many masters are started on the file, and wherever they die, the
\* committed objects are those of the versions recorded, the versions have no
\* gap, and a master that is open finds all of them.  That no master is called
\* 0 is what lets 0 stand for a free lock.
THEOREM SchemaStaysWhole ==
    ASSUME 0 \notin Masters PROVE SchemaSpec => []SchemaIsWhole
<1>1. SchemaInit => SchemaTypes /\ SchemaInv
  <2> SUFFICES ASSUME SchemaInit PROVE SchemaTypes /\ SchemaInv
    OBVIOUS
  <2>1. PICK v \in 0..Latest :
           /\ items = Objects(v) /\ versions = 1..v /\ lock = 0
           /\ stage = [p \in Masters |-> "down"]
           /\ current = [p \in Masters |-> 0] /\ next = [p \in Masters |-> 0]
           /\ work = [p \in Masters |-> {}]
    BY DEF SchemaInit
  <2>2. SchemaTypes
    BY <2>1 DEF SchemaTypes, Stages
  <2>3. Is(v) /\ \A p \in Masters : Follows(p, v)
    BY <2>1 DEF Is, Follows
  <2> QED
    BY <2>2, <2>3 DEF SchemaInv
<1>2. SchemaTypes /\ SchemaInv /\ [SchemaNext]_schemaVars => SchemaTypes' /\ SchemaInv'
  BY SchemaStep
<1>3. SchemaInv => SchemaIsWhole
  <2> SUFFICES ASSUME SchemaInv PROVE SchemaIsWhole
    OBVIOUS
  <2>1. PICK v \in 0..Latest : Is(v) /\ \A p \in Masters : Follows(p, v)
    BY DEF SchemaInv
  <2>2. v \in Nat /\ Latest \in Nat
    BY LatestNat
  <2>3. Cardinality(versions) = v
    BY <2>1, <2>2, FS_Interval DEF Is
  <2> QED
    BY <2>1, <2>3 DEF SchemaIsWhole, Is, Follows, IsAt
<1> QED
  BY <1>1, <1>2, <1>3, PTL DEF SchemaSpec
=============================================================================
