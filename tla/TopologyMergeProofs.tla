------------------------- MODULE TopologyMergeProofs -------------------------
(***************************************************************************)
(* What is true of the merged topology for all texts, nodes, bindings,     *)
(* services and ingresses, and however many of them are read.              *)
(***************************************************************************)
EXTENDS TopologyMerge, TLAPS

(***************************************************************************)
(* Ports.                                                                  *)
(***************************************************************************)

(* Of two sets of ports, Keep has the ports of both. *)
LEMMA KeepDomain ==
    ASSUME NEW A, NEW B
    PROVE  DOMAIN Keep(A, B) = DOMAIN A \cup DOMAIN B
BY DEF Keep

LEMMA KeepType ==
    ASSUME NEW A, NEW B, PortsType(A), PortsType(B)
    PROVE  PortsType(Keep(A, B))
BY DEF PortsType, Keep

LEMMA PriorityType ==
    ASSUME NEW s \in Sources
    PROVE  Priority(s) \in 0..3
BY DEF Priority, Sources

LEMMA PortKeyType ==
    ASSUME NEW b \in Bindings
    PROVE  PortKey(b) \in PortKeys /\ b.source \in Sources
<1>1. b \in BindingType
  BY InputAssumption
<1>2. NormalHost(b.host) \in Opt /\ LowerCase[b.protocol] \in Text
  BY <1>1, TextAssumption DEF BindingType, NormalHost, Opt
<1> QED
  BY <1>1, <1>2 DEF PortKey, PortKeys, BindingType

(* Keep is a merge of best reports: when one set of ports is the best of some reports,
   and another the best of reports that came later, then Keep is the best of all. *)
LEMMA KeepBest ==
    ASSUME NEW A, NEW B, NEW S, NEW T,
           BestOf(A, S), BestOf(B, T),
           \A r \in S \cup T : r.source \in Sources /\ r.at \in Nat,
           \A r \in S, q \in T : r.at < q.at
    PROVE  BestOf(Keep(A, B), S \cup T)
<1> DEFINE K == Keep(A, B)
<1>0. DOMAIN A = {r.port : r \in S} /\ DOMAIN B = {r.port : r \in T}
  BY DEF BestOf
<1>1. DOMAIN K = {r.port : r \in S \cup T}
  <2>1. DOMAIN K = {r.port : r \in S} \cup {r.port : r \in T}
    BY <1>0, KeepDomain
  <2> QED
    BY <2>1
<1>2. \A r \in S \cup T : Priority(r.source) \in Nat
  BY PriorityType
<1>3. ASSUME NEW k \in DOMAIN K
      PROVE  \E r \in S \cup T : /\ r.port = k /\ r.source = K[k]
                                 /\ \A q \in S \cup T : q.port = k => Preferred(r, q)
  <2>1. CASE k \notin DOMAIN B
    <3>1. k \in DOMAIN A /\ K[k] = A[k] /\ \A q \in T : q.port # k
      BY <2>1, <1>3, KeepDomain DEF Keep, BestOf
    <3> QED
      BY <3>1 DEF BestOf
  <2>2. CASE k \notin DOMAIN A
    <3>1. k \in DOMAIN B /\ K[k] = B[k] /\ \A q \in S : q.port # k
      BY <2>2, <1>3, KeepDomain DEF Keep, BestOf
    <3> QED
      BY <3>1 DEF BestOf
  <2>3. CASE k \in DOMAIN A /\ k \in DOMAIN B
    <3>1. PICK r \in S : /\ r.port = k /\ r.source = A[k]
                         /\ \A q \in S : q.port = k => Preferred(r, q)
      BY <2>3 DEF BestOf
    <3>2. PICK t \in T : /\ t.port = k /\ t.source = B[k]
                         /\ \A q \in T : q.port = k => Preferred(t, q)
      BY <2>3 DEF BestOf
    <3>3. CASE Priority(B[k]) <= Priority(A[k])
      <4>1. K[k] = A[k]
        BY <2>3, <3>3 DEF Keep
      <4>2. ASSUME NEW q \in T, q.port = k
            PROVE  Preferred(r, q)
        <5>1. Preferred(t, q) /\ r.at < q.at
          BY <3>1, <3>2, <4>2
        <5> QED
          BY <5>1, <1>2, <3>1, <3>2, <3>3 DEF Preferred
      <4> QED
        BY <3>1, <4>1, <4>2
    <3>4. CASE ~ (Priority(B[k]) <= Priority(A[k]))
      <4>1. K[k] = B[k]
        BY <2>3, <3>4 DEF Keep
      <4>2. ASSUME NEW q \in S, q.port = k
            PROVE  Preferred(t, q)
        <5>1. Preferred(r, q)
          BY <3>1, <4>2
        <5> QED
          BY <5>1, <1>2, <3>1, <3>2, <3>4 DEF Preferred
      <4> QED
        BY <3>2, <4>1, <4>2
    <3> QED
      BY <3>3, <3>4
  <2> QED
    BY <2>1, <2>2, <2>3
<1> QED
  BY <1>1, <1>3 DEF BestOf

(***************************************************************************)
(* Type correctness.                                                       *)
(***************************************************************************)

LEMMA OrElseType ==
    ASSUME NEW v \in Opt, NEW w \in Opt
    PROVE  OrElse(v, w) \in Opt
BY DEF OrElse

LEMMA ProtoContainerType ==
    ASSUME NEW n \in Nodes, NEW ports, PortsType(ports)
    PROVE  /\ ContainerType(ProtoContainer(n, ports))
           /\ ContainerKey(ProtoContainer(n, ports)) = NodeKey(n)
           /\ ProtoContainer(n, ports).exposed = ports
<1>1. n \in NodeType
  BY InputAssumption
<1> QED
  BY <1>1 DEF NodeType, ContainerType, ProtoContainer, ContainerKey, NodeKey, OrElse, Opt

LEMMA MergeType ==
    ASSUME NEW c, NEW d, ContainerType(c), ContainerType(d)
    PROVE  ContainerType(Merge(c, d)) /\ Merge(c, d).exposed = Keep(c.exposed, d.exposed)
<1> DEFINE m == Merge(c, d)
<1>1. m.id \in Opt /\ m.name \in Text /\ m.image \in Opt
  BY OrElseType DEF Merge, ContainerType
<1>2. m.attrs \in [Attributes -> Opt] /\ m.env \in [EnvKeys -> Opt]
  BY OrElseType DEF Merge, ContainerType
<1>3. m.image_hash \in Opt /\ m.image_sha256 \in Opt
  BY OrElseType DEF Merge, ContainerType
<1>4. m.volumes \subseteq Text /\ m.networks \subseteq Text
  BY DEF Merge, ContainerType, Extend
<1>5. m.exposed = Keep(c.exposed, d.exposed)
  BY DEF Merge
<1>6. PortsType(m.exposed)
  BY <1>5, KeepType DEF ContainerType
<1> QED
  BY <1>1, <1>2, <1>3, <1>4, <1>5, <1>6 DEF ContainerType

LEMMA NoPortsType == PortsType(NoPorts) /\ DOMAIN NoPorts = {}
BY DEF PortsType, NoPorts

(* The ports of one binding. *)
LEMMA OneBinding ==
    ASSUME NEW b \in Bindings
    PROVE  PortsType([k \in {PortKey(b)} |-> b.source])
BY PortKeyType DEF PortsType

LEMMA TypeInit == Init => TypeOK
BY InputAssumption, NoPortsType DEF Init, TypeOK

LEMMA TypeNext ==
    ASSUME TypeOK, [Next]_vars
    PROVE  TypeOK'
<1> USE InputAssumption DEF TypeOK
<1>1. ASSUME NEW n \in Nodes, BeginNode(n)
      PROVE  TypeOK'
  <2>1. PortsType(exposed')
    BY <1>1, NoPortsType DEF BeginNode
  <2> QED
    BY <1>1, <2>1 DEF BeginNode
<1>2. ASSUME NEW b \in Bindings, ReadBinding(b)
      PROVE  TypeOK'
  <2>1. PortsType(exposed')
    BY <1>2, OneBinding, KeepType DEF ReadBinding
  <2>2. PortKey(b) \in PortKeys /\ b.source \in Sources
    BY PortKeyType
  <2>3. clock' \in 0..MaxBindings
    BY <1>2 DEF ReadBinding
  <2>4. nodes \in 0..nodes
    BY <1>2 DEF ReadBinding
  <2>5. ASSUME NEW r \in reported'
        PROVE  r.port \in PortKeys /\ r.source \in Sources /\ r.at \in 0..clock'-1 /\ r.of \in 0..nodes'
    BY <1>2, <2>2, <2>3, <2>4, <2>5 DEF ReadBinding
  <2> QED
    BY <1>2, <2>1, <2>3, <2>5 DEF ReadBinding
<1>3. CASE FinishNode
  <2> DEFINE c == ProtoContainer(node, exposed)
             k == ContainerKey(c)
  <2>1. node \in Nodes
    BY <1>3 DEF FinishNode
  <2>2. ContainerType(c)
    BY <2>1, ProtoContainerType
  <2>3. \A j \in DOMAIN containers' : ContainerType(containers'[j])
    <3>1. containers' = Insert(k, c)
      BY <1>3 DEF FinishNode
    <3> HIDE DEF c, k
    <3>2. k \in DOMAIN containers => ContainerType(Merge(containers[k], c))
      BY <2>2, MergeType
    <3> QED
      BY <2>2, <3>1, <3>2 DEF Insert
  <2>4. PortsType(exposed')
    BY <1>3, NoPortsType DEF FinishNode
  <2> QED
    BY <1>3, <2>1, <2>3, <2>4 DEF FinishNode
<1>4. ASSUME NEW s \in Services, InsertService(s)
      PROVE  TypeOK'
  BY <1>4 DEF InsertService
<1>5. ASSUME NEW i \in Ingresses, InsertIngress(i)
      PROVE  TypeOK'
  BY <1>5 DEF InsertIngress
<1>6. CASE UNCHANGED vars
  BY <1>6 DEF vars
<1> QED
  BY <1>1, <1>2, <1>3, <1>4, <1>5, <1>6 DEF Next

(* Every port, source, attribute and hash of a merged container is one an extractor
   may report (build_network_topology_from_resources). *)
THEOREM TypeCorrect == Spec => []TypeOK
BY TypeInit, TypeNext, PTL DEF Spec

(***************************************************************************)
(* The best source of every port is kept.                                  *)
(***************************************************************************)

(* The reports of the node being read, and of container k before it. *)
Own == {r \in reported : r.of = nodes}
Before(k) == {r \in reported : r.container = k /\ (node # Nothing => r.of < nodes)}

(* Reports are numbered in the order of their nodes. *)
OrderInv == \A r, q \in reported : r.of < q.of => r.at < q.at

(* A report is of the node being read, or its container was inserted. *)
OwnerInv ==
    \A r \in reported :
        IF node # Nothing /\ r.of = nodes THEN r.container = NodeKey(node)
        ELSE r.container \in DOMAIN containers

ExposedInv == node # Nothing => BestOf(exposed, Own)

ContainersInv == \A k \in DOMAIN containers : BestOf(containers[k].exposed, Before(k))

PortsInv == TypeOK /\ OrderInv /\ OwnerInv /\ ExposedInv /\ ContainersInv

LEMMA BestOfNothing == BestOf(NoPorts, {})
BY NoPortsType DEF BestOf

LEMMA ReportNumbers ==
    ASSUME TypeOK
    PROVE  /\ clock \in Nat /\ nodes \in Nat
           /\ \A r \in reported : /\ r.source \in Sources /\ r.at \in Nat /\ r.of \in Nat
                                 /\ r.at < clock /\ r.of <= nodes
BY InputAssumption DEF TypeOK

LEMMA PortsInit == Init => PortsInv
<1> SUFFICES ASSUME Init PROVE PortsInv
  OBVIOUS
<1> QED
  BY TypeInit DEF Init, PortsInv, OrderInv, OwnerInv, ExposedInv, ContainersInv

LEMMA PortsNext ==
    ASSUME PortsInv, [Next]_vars
    PROVE  PortsInv'
<1>t. TypeOK'
  BY TypeNext DEF PortsInv
<1>n. /\ clock \in Nat /\ nodes \in Nat
      /\ \A r \in reported : /\ r.source \in Sources /\ r.at \in Nat /\ r.of \in Nat
                            /\ r.at < clock /\ r.of <= nodes
  BY ReportNumbers DEF PortsInv
<1>1. ASSUME NEW n \in Nodes, BeginNode(n)
      PROVE  PortsInv'
  <2>1. /\ node = Nothing /\ nodes' = nodes + 1 /\ exposed' = NoPorts
        /\ UNCHANGED <<containers, reported>>
    BY <1>1 DEF BeginNode
  <2>2. \A r \in reported' : r.of < nodes'
    BY <1>n, <2>1
  <2>3. OrderInv' /\ OwnerInv'
    BY <1>n, <2>1, <2>2 DEF PortsInv, OrderInv, OwnerInv
  <2>4. ExposedInv'
    <3>1. Own' = {}
      BY <2>2, <1>n, <2>1 DEF Own
    <3> QED
      BY <2>1, <3>1, BestOfNothing DEF ExposedInv
  <2>5. ContainersInv'
    <3>1. \A k : Before(k)' = Before(k)
      BY <2>1, <2>2 DEF Before
    <3> QED
      BY <2>1, <3>1 DEF PortsInv, ContainersInv
  <2> QED
    BY <1>t, <2>3, <2>4, <2>5 DEF PortsInv
<1>2. ASSUME NEW b \in Bindings, ReadBinding(b)
      PROVE  PortsInv'
  <2> DEFINE new == [container |-> NodeKey(node), of |-> nodes, port |-> PortKey(b),
                     source |-> b.source, at |-> clock]
             port == [k \in {PortKey(b)} |-> b.source]
  <2>1. /\ node # Nothing /\ reported' = reported \cup {new}
        /\ exposed' = Keep(exposed, port)
        /\ UNCHANGED <<node, containers, nodes>>
    BY <1>2 DEF ReadBinding
  <2>2. new.source \in Sources /\ new.at = clock /\ new.of = nodes /\ new.container = NodeKey(node)
    BY PortKeyType
  <2>3. BestOf(port, {new})
    BY <1>n DEF BestOf, Preferred
  <2> HIDE DEF new, port
  <2>4. OrderInv' /\ OwnerInv'
    BY <1>n, <2>1, <2>2 DEF PortsInv, OrderInv, OwnerInv
  <2>5. ExposedInv'
    <3>1. Own' = Own \cup {new}
      BY <2>1, <2>2 DEF Own
    <3>2. BestOf(exposed, Own)
      BY <2>1 DEF PortsInv, ExposedInv
    <3>3. BestOf(Keep(exposed, port), Own \cup {new})
      BY <1>n, <2>2, <2>3, <3>2, KeepBest DEF Own
    <3> QED
      BY <2>1, <3>1, <3>3 DEF ExposedInv
  <2>6. ContainersInv'
    <3>1. \A k : Before(k)' = Before(k)
      BY <1>n, <2>1, <2>2 DEF Before
    <3> QED
      BY <2>1, <3>1 DEF PortsInv, ContainersInv
  <2> QED
    BY <1>t, <2>4, <2>5, <2>6 DEF PortsInv
<1>3. CASE FinishNode
  <2> DEFINE c == ProtoContainer(node, exposed)
             k == NodeKey(node)
  <2>1. /\ node \in Nodes /\ node # Nothing /\ node' = Nothing
        /\ UNCHANGED <<reported, nodes>>
    BY <1>3 DEF FinishNode, PortsInv, TypeOK
  <2>2. ContainerType(c) /\ ContainerKey(c) = k /\ c.exposed = exposed
    BY <2>1, ProtoContainerType DEF PortsInv, TypeOK
  <2>3. containers' = Insert(k, c)
    BY <1>3, <2>2 DEF FinishNode
  <2>4. \A r \in reported : r.of = nodes => r.container = k
    BY <2>1 DEF PortsInv, OwnerInv
  <2>5. \A r \in reported : r.of # nodes => r.of < nodes /\ r.container \in DOMAIN containers
    BY <1>n, <2>1 DEF PortsInv, OwnerInv
  <2>6. BestOf(c.exposed, Own)
    BY <2>1, <2>2 DEF PortsInv, ExposedInv
  <2> HIDE DEF c, k
  <2>7. DOMAIN containers' = DOMAIN containers \cup {k}
    BY <2>3 DEF Insert
  <2>8. OrderInv' /\ OwnerInv'
    BY <2>1, <2>4, <2>5, <2>7 DEF PortsInv, OrderInv, OwnerInv
  <2>9. ASSUME NEW j \in DOMAIN containers'
        PROVE  BestOf(containers'[j].exposed, Before(j)')
    <3>1. Before(j)' = {r \in reported : r.container = j}
      BY <2>1 DEF Before
    <3>2. CASE j # k
      <4>1. j \in DOMAIN containers /\ containers'[j] = containers[j]
        BY <2>3, <2>7, <2>9, <3>2 DEF Insert
      <4>2. Before(j)' = Before(j)
        BY <2>4, <2>5, <3>1, <3>2 DEF Before
      <4> QED
        BY <4>1, <4>2 DEF PortsInv, ContainersInv
    <3>3. CASE j = k /\ k \in DOMAIN containers
      <4>1. containers'[j].exposed = Keep(containers[k].exposed, c.exposed)
        <5>1. containers'[j] = Merge(containers[k], c)
          BY <2>3, <3>3 DEF Insert
        <5>2. ContainerType(containers[k])
          BY <3>3 DEF PortsInv, TypeOK
        <5> QED
          BY <2>2, <5>1, <5>2, MergeType
      <4>2. Before(j)' = Before(k) \cup Own
        BY <2>1, <2>4, <2>5, <3>1, <3>3 DEF Before, Own
      <4>3. BestOf(containers[k].exposed, Before(k))
        BY <3>3 DEF PortsInv, ContainersInv
      <4>4. \A r \in Before(k), q \in Own : r.at < q.at
        BY <2>1 DEF PortsInv, OrderInv, Before, Own
      <4>5. \A r \in Before(k) \cup Own : r.source \in Sources /\ r.at \in Nat
        BY <1>n DEF Before, Own
      <4> QED
        BY <2>6, <4>1, <4>2, <4>3, <4>4, <4>5, KeepBest
    <3>4. CASE j = k /\ k \notin DOMAIN containers
      <4>1. containers'[j] = c
        BY <2>3, <3>4 DEF Insert
      <4>2. Before(j)' = Own
        BY <2>4, <2>5, <3>1, <3>4 DEF Own
      <4> QED
        BY <2>6, <4>1, <4>2
    <3> QED
      BY <3>2, <3>3, <3>4
  <2>10. ExposedInv' /\ ContainersInv'
    BY <2>1, <2>9 DEF ExposedInv, ContainersInv
  <2> QED
    BY <1>t, <2>8, <2>10 DEF PortsInv
<1>4. CASE UNCHANGED <<node, exposed, containers, reported, clock, nodes>>
  BY <1>t, <1>4 DEF PortsInv, OrderInv, OwnerInv, ExposedInv, ContainersInv, Own, Before
<1>5. (\E s \in Services : InsertService(s)) \/ (\E i \in Ingresses : InsertIngress(i)) \/ UNCHANGED vars
      => UNCHANGED <<node, exposed, containers, reported, clock, nodes>>
  BY DEF InsertService, InsertIngress, vars
<1> QED
  BY <1>1, <1>2, <1>3, <1>4, <1>5 DEF Next

(* However the bindings of a container are spread over its reports, and in whatever
   order they come, its ports are the first reports from their best sources
   (dedupe_port_bindings, merge_container). *)
THEOREM BestSource == Spec => []BestSourceKept
<1>1. PortsInv => BestSourceKept
  BY DEF PortsInv, ContainersInv, BestSourceKept, Before
<1> QED
  BY <1>1, PortsInit, PortsNext, PTL DEF Spec

(***************************************************************************)
(* Attributes and hashes.                                                  *)
(***************************************************************************)

Same(k) == {n \in read : NodeKey(n) = k}

(* What a container that was read once looks like, and one that was read again. *)
KnownOf(c, ns) ==
    /\ Known(c.image, {n.image : n \in ns})
    /\ \A a \in Attributes : Known(c.attrs[a], {n.attrs[a] : n \in ns})
    /\ \A e \in EnvKeys : Known(c.env[e], {n.env[e] : n \in ns})
    /\ c.volumes = UNION {n.volumes : n \in ns}
    /\ c.networks = UNION {n.networks : n \in ns}

PairedOf(c, ns) ==
    /\ c.image_hash = Nothing <=> c.image_sha256 = Nothing
    /\ \E n \in ns : /\ c.image_hash \in {n.image_hash, n.image_sha256}
                     /\ c.image_sha256 \in {n.image_hash, n.image_sha256}

(* Every container read was inserted. *)
ReadInv == \A n \in read : NodeKey(n) \in DOMAIN containers

KnownInv == \A k \in DOMAIN containers : KnownOf(containers[k], Same(k))

PairedInv == \A k \in DOMAIN containers : PairedOf(containers[k], Same(k))

MergeInv == TypeOK /\ ReadInv /\ KnownInv /\ PairedInv

LEMMA KnownMore ==
    ASSUME NEW v, NEW w, NEW V, Known(v, V)
    PROVE  Known(OrElse(v, w), V \cup {w}) /\ Known(OrElse(w, v), V \cup {w})
BY DEF Known, OrElse

(* One report. *)
LEMMA KnownOnce ==
    ASSUME NEW n \in Nodes, NEW ports
    PROVE  KnownOf(ProtoContainer(n, ports), {n}) /\ PairedOf(ProtoContainer(n, ports), {n})
<1> DEFINE c == ProtoContainer(n, ports)
<1>1. /\ c.image = n.image /\ c.attrs = n.attrs /\ c.env = n.env
      /\ c.volumes = n.volumes /\ c.networks = n.networks
      /\ c.image_hash = OrElse(n.image_hash, n.image_sha256)
      /\ c.image_sha256 = OrElse(n.image_sha256, c.image_hash)
  BY DEF ProtoContainer
<1> HIDE DEF c
<1>2. KnownOf(c, {n})
  BY <1>1 DEF KnownOf, Known
<1>3. PairedOf(c, {n})
  BY <1>1 DEF PairedOf, OrElse
<1> QED
  BY <1>2, <1>3 DEF c

(* One more report. *)
LEMMA KnownMerge ==
    ASSUME NEW c, NEW ns, NEW n \in Nodes, NEW ports, KnownOf(c, ns), PairedOf(c, ns)
    PROVE  LET m == Merge(c, ProtoContainer(n, ports))
           IN KnownOf(m, ns \cup {n}) /\ PairedOf(m, ns \cup {n})
<1> DEFINE d == ProtoContainer(n, ports)
           m == Merge(c, d)
<1>1. KnownOf(d, {n}) /\ PairedOf(d, {n})
  BY KnownOnce
<1>2. /\ d.image = n.image /\ d.attrs = n.attrs /\ d.env = n.env
      /\ d.volumes = n.volumes /\ d.networks = n.networks
  BY DEF ProtoContainer
<1> HIDE DEF d
<1>3. /\ m.image = OrElse(c.image, d.image)
      /\ \A a \in Attributes : m.attrs[a] = OrElse(c.attrs[a], d.attrs[a])
      /\ \A e \in EnvKeys : m.env[e] = OrElse(d.env[e], c.env[e])
      /\ m.volumes = c.volumes \cup d.volumes
      /\ m.networks = c.networks \cup d.networks
      /\ m.image_hash = OrElse(c.image_hash, OrElse(d.image_hash, d.image_sha256))
      /\ m.image_sha256 = OrElse(c.image_sha256, OrElse(d.image_sha256, d.image_hash))
  BY DEF Merge, Extend
<1> HIDE DEF m
<1>4. Known(m.image, {x.image : x \in ns \cup {n}})
  <2>1. {x.image : x \in ns \cup {n}} = {x.image : x \in ns} \cup {n.image}
    OBVIOUS
  <2> QED
    BY <1>2, <1>3, <2>1, KnownMore DEF KnownOf
<1>5. ASSUME NEW a \in Attributes
      PROVE  Known(m.attrs[a], {x.attrs[a] : x \in ns \cup {n}})
  <2>1. {x.attrs[a] : x \in ns \cup {n}} = {x.attrs[a] : x \in ns} \cup {n.attrs[a]}
    OBVIOUS
  <2>2. Known(c.attrs[a], {x.attrs[a] : x \in ns})
    BY DEF KnownOf
  <2> QED
    BY <1>2, <1>3, <2>1, <2>2, KnownMore
<1>6. ASSUME NEW e \in EnvKeys
      PROVE  Known(m.env[e], {x.env[e] : x \in ns \cup {n}})
  <2>1. {x.env[e] : x \in ns \cup {n}} = {x.env[e] : x \in ns} \cup {n.env[e]}
    OBVIOUS
  <2>2. Known(c.env[e], {x.env[e] : x \in ns})
    BY DEF KnownOf
  <2>3. m.env[e] = OrElse(n.env[e], c.env[e])
    BY <1>2, <1>3
  <2>4. Known(OrElse(n.env[e], c.env[e]), {x.env[e] : x \in ns} \cup {n.env[e]})
    BY <2>2, KnownMore
  <2> QED
    BY <2>1, <2>3, <2>4
<1>7. m.volumes = UNION {x.volumes : x \in ns \cup {n}}
  <2>1. c.volumes = UNION {x.volumes : x \in ns} /\ d.volumes = n.volumes
    BY <1>2 DEF KnownOf
  <2> QED
    BY <1>3, <2>1
<1>8. m.networks = UNION {x.networks : x \in ns \cup {n}}
  <2>1. c.networks = UNION {x.networks : x \in ns} /\ d.networks = n.networks
    BY <1>2 DEF KnownOf
  <2> QED
    BY <1>3, <2>1
<1>9. PairedOf(m, ns \cup {n})
  BY <1>1, <1>3 DEF PairedOf, OrElse
<1> QED
  BY <1>4, <1>5, <1>6, <1>7, <1>8, <1>9 DEF KnownOf, m, d

LEMMA MergeInit == Init => MergeInv
BY TypeInit DEF Init, MergeInv, ReadInv, KnownInv, PairedInv

LEMMA MergeNext ==
    ASSUME MergeInv, [Next]_vars
    PROVE  MergeInv'
<1>t. TypeOK'
  BY TypeNext DEF MergeInv
<1>1. CASE FinishNode
  <2> DEFINE c == ProtoContainer(node, exposed)
             k == NodeKey(node)
  <2>1. node \in Nodes /\ read' = read \cup {node}
    BY <1>1 DEF FinishNode, MergeInv, TypeOK
  <2>2. ContainerKey(c) = k
    BY <2>1, ProtoContainerType DEF MergeInv, TypeOK
  <2>3. containers' = Insert(k, c)
    BY <1>1, <2>2 DEF FinishNode
  <2>4. KnownOf(c, {node}) /\ PairedOf(c, {node})
    BY <2>1, KnownOnce
  <2>5. \A ns : KnownOf(containers[k], ns) /\ PairedOf(containers[k], ns)
                => /\ KnownOf(Merge(containers[k], c), ns \cup {node})
                   /\ PairedOf(Merge(containers[k], c), ns \cup {node})
    BY <2>1, KnownMerge
  <2> HIDE DEF c
  <2>6. DOMAIN containers' = DOMAIN containers \cup {k}
    BY <2>3 DEF Insert
  <2>7. ReadInv'
    BY <2>1, <2>6 DEF MergeInv, ReadInv
  <2>8. ASSUME NEW j \in DOMAIN containers'
        PROVE  KnownOf(containers'[j], Same(j)') /\ PairedOf(containers'[j], Same(j)')
    <3>1. CASE j # k
      <4>1. j \in DOMAIN containers /\ containers'[j] = containers[j] /\ Same(j)' = Same(j)
        BY <2>1, <2>3, <2>6, <2>8, <3>1 DEF Insert, Same
      <4> QED
        BY <4>1 DEF MergeInv, KnownInv, PairedInv
    <3>2. CASE j = k /\ k \in DOMAIN containers
      <4>1. containers'[j] = Merge(containers[k], c) /\ Same(j)' = Same(k) \cup {node}
        BY <2>1, <2>3, <3>2 DEF Insert, Same
      <4>2. KnownOf(containers[k], Same(k)) /\ PairedOf(containers[k], Same(k))
        BY <3>2 DEF MergeInv, KnownInv, PairedInv
      <4> QED
        BY <2>5, <4>1, <4>2
    <3>3. CASE j = k /\ k \notin DOMAIN containers
      <4>1. containers'[j] = c /\ Same(j)' = {node}
        BY <2>1, <2>3, <3>3 DEF Insert, Same, MergeInv, ReadInv
      <4> QED
        BY <2>4, <4>1
    <3> QED
      BY <3>1, <3>2, <3>3
  <2> QED
    BY <1>t, <2>7, <2>8 DEF MergeInv, KnownInv, PairedInv
<1>2. CASE UNCHANGED <<containers, read>>
  BY <1>t, <1>2 DEF MergeInv, ReadInv, KnownInv, PairedInv, Same
<1>3. \/ \E n \in Nodes : BeginNode(n)
      \/ \E b \in Bindings : ReadBinding(b)
      \/ \E s \in Services : InsertService(s)
      \/ \E i \in Ingresses : InsertIngress(i)
      \/ UNCHANGED vars
      => UNCHANGED <<containers, read>>
  BY DEF BeginNode, ReadBinding, InsertService, InsertIngress, vars
<1> QED
  BY <1>1, <1>2, <1>3 DEF Next

(* No attribute, environment value, volume or network reported for a container is lost
   when its reports are merged, and none comes from elsewhere (merge_container). *)
THEOREM AttributesKept == Spec => []AttributesReported
<1>1. MergeInv => AttributesReported
  BY DEF MergeInv, KnownInv, KnownOf, Same, AttributesReported
<1> QED
  BY <1>1, MergeInit, MergeNext, PTL DEF Spec

(* The two digests of a container's image are those of one report
   (proto_container_from_node, merge_container). *)
THEOREM HashesKept == Spec => []HashesPaired
<1>1. MergeInv => HashesPaired
  BY DEF MergeInv, PairedInv, PairedOf, Same, HashesPaired
<1> QED
  BY <1>1, MergeInit, MergeNext, PTL DEF Spec

(***************************************************************************)
(* Routes.                                                                 *)
(***************************************************************************)

(* The published ports of a merge are those of both sides. *)
LEMMA PublishedKeep ==
    ASSUME NEW A, NEW B
    PROVE  Published(Keep(A, B)) = Published(A) \cup Published(B)
<1>1. Published(Keep(A, B)) = {k \in DOMAIN A \cup DOMAIN B : k.host_port # Nothing}
  BY KeepDomain, Zenon DEF Published
<1> QED
  BY <1>1 DEF Published

RoutesInv == TypeOK /\ RoutesMatchPorts

LEMMA RoutesInit == Init => RoutesInv
BY TypeInit DEF Init, RoutesInv, RoutesMatchPorts

LEMMA RoutesNext ==
    ASSUME RoutesInv, [Next]_vars
    PROVE  RoutesInv'
<1>t. TypeOK'
  BY TypeNext DEF RoutesInv
<1>1. CASE FinishNode
  <2> DEFINE c == ProtoContainer(node, exposed)
             k == NodeKey(node)
  <2>1. node \in Nodes /\ read' = read \cup {node}
    BY <1>1 DEF FinishNode, RoutesInv, TypeOK
  <2>2. /\ ContainerType(c) /\ ContainerKey(c) = k
        /\ c.exposed = exposed /\ c.name = node.name
    BY <2>1, ProtoContainerType DEF RoutesInv, TypeOK, ProtoContainer
  <2>3. containers' = Insert(k, c)
    BY <1>1, <2>2 DEF FinishNode
  <2>4. routes' = routes \cup {DockerRoute(node.name, p) : p \in Published(exposed)}
    BY <1>1, <2>2 DEF FinishNode, ContainerRoutes
  <2>5. k \in DOMAIN containers =>
            Published(Merge(containers[k], c).exposed)
                = Published(containers[k].exposed) \cup Published(exposed)
    BY <2>2, MergeType, PublishedKeep DEF RoutesInv, TypeOK
  <2> HIDE DEF c, k
  <2>6. DOMAIN containers' = DOMAIN containers \cup {k}
    BY <2>3 DEF Insert
  <2>7. \A j \in DOMAIN containers' :
            Published(containers'[j].exposed) =
                (IF j \in DOMAIN containers THEN Published(containers[j].exposed) ELSE {})
                \cup (IF j = k THEN Published(exposed) ELSE {})
    BY <2>2, <2>3, <2>5, <2>6 DEF Insert
  <2>8. ASSUME NEW j \in DOMAIN containers', NEW p \in Published(containers'[j].exposed)
        PROVE  \E n \in read' : NodeKey(n) = j /\ DockerRoute(n.name, p) \in routes'
    <3>1. CASE j \in DOMAIN containers /\ p \in Published(containers[j].exposed)
      BY <2>1, <2>4, <3>1 DEF RoutesInv, RoutesMatchPorts
    <3>2. CASE j = k /\ p \in Published(exposed)
      BY <2>1, <2>4, <3>2 DEF k
    <3> QED
      BY <2>7, <2>8, <3>1, <3>2
  <2>9. ASSUME NEW r \in routes', r.kind = "docker_port_binding"
        PROVE  \E j \in DOMAIN containers' : \E p \in Published(containers'[j].exposed) :
                  /\ r.host = p.host /\ r.protocol = p.protocol
                  /\ r.source_port = p.number /\ r.published_port = p.host_port
    <3>1. CASE r \in routes
      <4>1. PICK j \in DOMAIN containers : \E p \in Published(containers[j].exposed) :
                  /\ r.host = p.host /\ r.protocol = p.protocol
                  /\ r.source_port = p.number /\ r.published_port = p.host_port
        BY <2>9, <3>1 DEF RoutesInv, RoutesMatchPorts
      <4>2. Published(containers[j].exposed) \subseteq Published(containers'[j].exposed)
        BY <2>6, <2>7
      <4> QED
        BY <2>6, <4>1, <4>2
    <3>2. CASE r \notin routes
      <4>1. PICK p \in Published(exposed) : r = DockerRoute(node.name, p)
        BY <2>4, <2>9, <3>2
      <4>2. k \in DOMAIN containers' /\ p \in Published(containers'[k].exposed)
        BY <2>6, <2>7, <4>1
      <4>3. /\ r.host = p.host /\ r.protocol = p.protocol
            /\ r.source_port = p.number /\ r.published_port = p.host_port
        BY <4>1 DEF DockerRoute
      <4> QED
        BY <4>2, <4>3
    <3> QED
      BY <3>1, <3>2
  <2> QED
    BY <1>t, <2>8, <2>9 DEF RoutesInv, RoutesMatchPorts
<1>2. CASE UNCHANGED <<containers, read>> /\ routes \subseteq routes'
           /\ \A r \in routes' \ routes : r.kind # "docker_port_binding"
  BY <1>t, <1>2 DEF RoutesInv, RoutesMatchPorts
<1>3. ASSUME NEW s \in Services, InsertService(s)
      PROVE  RoutesInv'
  <2>1. \A r \in ServiceRoutes(s) : r.kind = "k8s_service"
    BY DEF ServiceRoutes
  <2> QED
    BY <1>2, <1>3, <2>1 DEF InsertService
<1>4. ASSUME NEW i \in Ingresses, InsertIngress(i)
      PROVE  RoutesInv'
  <2>1. \A r \in IngressRoutes(i) : r.kind = "k8s_ingress"
    BY DEF IngressRoutes, IngressRoute
  <2> QED
    BY <1>2, <1>4, <2>1 DEF InsertIngress
<1>5. \/ \E n \in Nodes : BeginNode(n)
      \/ \E b \in Bindings : ReadBinding(b)
      \/ UNCHANGED vars
      => UNCHANGED <<containers, routes, read>>
  BY DEF BeginNode, ReadBinding, vars
<1> QED
  BY <1>1, <1>2, <1>3, <1>4, <1>5 DEF Next

(* The routes made of the ports of each report agree with the ports that are left when
   all reports are merged (container_routes_from_proto_container, insert_routes,
   merge_container). *)
THEOREM RoutesAgree == Spec => []RoutesMatchPorts
<1>1. RoutesInv => RoutesMatchPorts
  BY DEF RoutesInv
<1> QED
  BY <1>1, RoutesInit, RoutesNext, PTL DEF Spec
=============================================================================
