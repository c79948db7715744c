---------------------------- MODULE TopologyMerge ----------------------------
(***************************************************************************)
(* How what the Docker and the Kubernetes extractor report becomes one set *)
(* of containers and routes: build_network_topology_from_resources,        *)
(* dedupe_port_bindings, merge_container and insert_routes                 *)
(* (src/discovery.rs).                                                     *)
(*                                                                         *)
(* The reports of one container are merged into one, in the order they     *)
(* come.  Of several bindings of one port the one from the best source is  *)
(* kept, and the first of them when there are several.  A step is one      *)
(* iteration of a loop of the code: reading a port binding of the current  *)
(* container node, or inserting a finished container, service or ingress.  *)
(*                                                                         *)
(* A text is an opaque value.  Nothing stands for None, for the image      *)
(* "unknown" and for an empty id.  A route is represented by its route_key:*)
(* two routes with the same key differ only in how no host is spelled.     *)
(***************************************************************************)
EXTENDS Naturals

CONSTANTS
    Text, Nothing,
    EnvKeys,       \* the keys of environments and labels
    LowerCase,     \* normalize_protocol: trimmed, in lower case
    HostName,      \* normalize_route_host: trimmed; "", 0.0.0.0, :: and localhost are no host
    Nodes,         \* the container nodes the extractors may report, without their ports
    Bindings,      \* the port bindings they may report
    Services, Ingresses,
    MaxBindings,   \* bound: bindings read
    MaxNodes       \* bound: container nodes read

Opt == Text \cup {Nothing}

Attributes == {"image_version", "privileged", "run_as_root"}

Sources == {"k8s_container", "docker_port_bindings", "docker_exposed_ports",
            "docker_summary", "other"}

(* runtime: the prefix of an id such as docker://abc.  What holds of the environment
   holds of the labels, which are merged the same way. *)
NodeType == [id : [runtime : Opt, value : Opt], name : Text, image : Opt,
             attrs : [Attributes -> Opt], image_hash : Opt, image_sha256 : Opt,
             env : [EnvKeys -> Opt], volumes : SUBSET Text, networks : SUBSET Text]

BindingType == [number : Text, protocol : Text, host : Opt, host_port : Opt, source : Sources]

ASSUME TextAssumption ==
    /\ Nothing \notin Text
    /\ LowerCase \in [Text -> Text] /\ \A t \in Text : LowerCase[LowerCase[t]] = LowerCase[t]
    /\ HostName \in [Text -> Opt]
    /\ \A t \in Text : HostName[t] # Nothing => HostName[HostName[t]] = HostName[t]
ASSUME InputAssumption ==
    /\ Nodes \subseteq NodeType /\ Nothing \notin Nodes
    /\ Bindings \subseteq BindingType
    /\ MaxBindings \in Nat /\ MaxNodes \in Nat

VARIABLES
    node,        \* the container node being read; Nothing between two resources
    exposed,     \* the ports read of it so far (deduped)
    containers,  \* merged_containers, by container_key
    routes,      \* the keys of routes
    read,        \* history: the nodes inserted so far
    reported,    \* history: the port bindings read, numbered
    clock,       \* the number of the next one
    nodes        \* how many nodes were begun

vars == <<node, exposed, containers, routes, read, reported, clock, nodes>>

(***************************************************************************)
(* Mutated forms of definitions below: the plausible bugs the properties   *)
(* are there to catch.  Nothing in the specification uses them.            *)
(***************************************************************************)

(* PortKey: the source is part of the key, and nothing is a duplicate. *)
PortKeyWithSource(b) ==
    [number |-> b.number, protocol |-> LowerCase[b.protocol], host |-> b.host,
     host_port |-> b.host_port, source |-> b.source]

(* Keep: the last binding of a port is kept, whatever its source. *)
KeepLast(ports, later) ==
    [k \in DOMAIN ports \cup DOMAIN later |-> IF k \in DOMAIN later THEN later[k] ELSE ports[k]]

(* OrElse: the fallback is forgotten. *)
OrElseDropped(value, other) == value

(* Extend: the list is only filled when it is empty. *)
ExtendEmpty(list, more) == IF list = {} THEN more ELSE list

(* ContainerRoutes: exposed ports without a host port get a route too. *)
RoutesOfExposed(c) ==
    {[kind |-> "docker_port_binding", source |-> c.name, namespace |-> Nothing,
      target |-> k.host, host |-> k.host, path |-> Nothing, path_type |-> Nothing,
      protocol |-> k.protocol, source_port |-> k.number,
      target_port |-> k.host_port, published_port |-> k.host_port] : k \in DOMAIN c.exposed}

(***************************************************************************)
(* Ports.                                                                  *)
(***************************************************************************)

NormalHost(host) == IF host = Nothing THEN Nothing ELSE HostName[host]

PortKeys == [number : Text, protocol : Text, host : Opt, host_port : Opt]

(* PortBindingKey::from_binding of the normalized binding. *)
PortKey(b) == [number |-> b.number, protocol |-> LowerCase[b.protocol],
               host |-> NormalHost(b.host), host_port |-> b.host_port]

Priority(source) ==
    CASE source \in {"docker_port_bindings", "k8s_container"} -> 3
      [] source = "docker_exposed_ports" -> 2
      [] source = "docker_summary" -> 1
      [] OTHER -> 0

(* A set of ports maps each port to the source it is kept from.  The loops of
   dedupe_port_bindings and dedupe_proto_ports keep of two bindings of a port the
   later one only if its source is better. *)
Keep(ports, later) ==
    [k \in DOMAIN ports \cup DOMAIN later |->
        IF k \in DOMAIN ports /\ (k \in DOMAIN later => Priority(later[k]) <= Priority(ports[k]))
        THEN ports[k] ELSE later[k]]

NoPorts == [k \in {} |-> Nothing]

(* ProtoContainer::ports, recomputed by normalize_proto_container. *)
Published(ports) == {k \in DOMAIN ports : k.host_port # Nothing}

(***************************************************************************)
(* Containers.                                                             *)
(***************************************************************************)

OrElse(value, other) == IF value = Nothing THEN other ELSE value

(* extend a list by what is not in it yet *)
Extend(list, more) == list \cup more

(* proto_container_from_node, with the ports its two loops have left. *)
ProtoContainer(n, ports) ==
    LET hash == OrElse(n.image_hash, n.image_sha256) IN
    [id |-> n.id.value, name |-> n.name, image |-> n.image, attrs |-> n.attrs,
     image_hash |-> hash, image_sha256 |-> OrElse(n.image_sha256, hash),
     env |-> n.env, volumes |-> n.volumes, networks |-> n.networks,
     exposed |-> ports]

(* container_key: containers without an id are told apart by name and image. *)
ContainerKey(c) == IF c.id = Nothing THEN <<c.name, c.image>> ELSE <<c.id>>
NodeKey(n) == ContainerKey(ProtoContainer(n, NoPorts))

(* merge_container: of an environment the last report of a key counts, of
   everything else the first. *)
Merge(c, d) ==
    [id |-> OrElse(c.id, d.id), name |-> c.name,
     image |-> OrElse(c.image, d.image),
     attrs |-> [a \in Attributes |-> OrElse(c.attrs[a], d.attrs[a])],
     image_hash |-> OrElse(c.image_hash, OrElse(d.image_hash, d.image_sha256)),
     image_sha256 |-> OrElse(c.image_sha256, OrElse(d.image_sha256, d.image_hash)),
     env |-> [e \in EnvKeys |-> OrElse(d.env[e], c.env[e])],
     volumes |-> Extend(c.volumes, d.volumes), networks |-> Extend(c.networks, d.networks),
     exposed |-> Keep(c.exposed, d.exposed)]

(***************************************************************************)
(* Routes.                                                                 *)
(***************************************************************************)

(* container_routes_from_proto_container; a target that is Nothing is localhost. *)
DockerRoute(name, k) ==
    [kind |-> "docker_port_binding", source |-> name, namespace |-> Nothing,
     target |-> k.host, host |-> k.host, path |-> Nothing, path_type |-> Nothing,
     protocol |-> k.protocol, source_port |-> k.number,
     target_port |-> k.host_port, published_port |-> k.host_port]

ContainerRoutes(c) == {DockerRoute(c.name, k) : k \in Published(c.exposed)}

(* service_routes_from_node. *)
ServiceRoutes(s) ==
    {[kind |-> "k8s_service", source |-> s.name, namespace |-> s.namespace,
      target |-> s.name, host |-> NormalHost(s.cluster_ip),
      path |-> Nothing, path_type |-> Nothing,
      protocol |-> LowerCase[p.protocol], source_port |-> p.port,
      target_port |-> p.target_port, published_port |-> p.node_port] : p \in s.ports}

(* proto_route_from_ingress_backend; a backend is in the namespace of its ingress. *)
IngressRoute(i, host, path, path_type, backend) ==
    [kind |-> "k8s_ingress", source |-> i.name, namespace |-> i.namespace,
     target |-> backend.service_name, host |-> NormalHost(host),
     path |-> path, path_type |-> path_type,
     protocol |-> Nothing, source_port |-> Nothing,
     target_port |-> OrElse(backend.port_name, backend.port_number),
     published_port |-> backend.port_number]

(* ingress_routes_from_node: the default backends (one or none), then every path of
   every rule. *)
IngressRoutes(i) ==
    {IngressRoute(i, Nothing, Nothing, Nothing, b) : b \in i.default_backend}
    \cup UNION {{IngressRoute(i, rule.host, p.path, p.path_type, p.backend) : p \in rule.paths}
                : rule \in i.rules}

(***************************************************************************)
(* build_network_topology_from_resources.                                  *)
(***************************************************************************)

Init ==
    /\ node = Nothing /\ exposed = NoPorts
    /\ containers = [k \in {} |-> Nothing]
    /\ routes = {} /\ read = {} /\ reported = {}
    /\ clock = 0 /\ nodes = 0

(* The next resource is a container, or a container of a pod. *)
BeginNode(n) ==
    /\ node = Nothing
    /\ nodes < MaxNodes /\ nodes' = nodes + 1
    /\ node' = n /\ exposed' = NoPorts
    /\ UNCHANGED <<containers, routes, read, reported, clock>>

(* One iteration of dedupe_port_bindings.  The second dedupe, of the proto ports,
   finds every port once, already normalized, and changes nothing. *)
ReadBinding(b) ==
    /\ node # Nothing
    /\ clock < MaxBindings /\ clock' = clock + 1
    /\ exposed' = Keep(exposed, [k \in {PortKey(b)} |-> b.source])
    /\ reported' = reported \cup
           {[container |-> NodeKey(node), of |-> nodes, port |-> PortKey(b),
             source |-> b.source, at |-> clock]}
    /\ UNCHANGED <<node, containers, routes, read, nodes>>

(* insert_container. *)
Insert(k, c) ==
    [j \in DOMAIN containers \cup {k} |->
        IF j # k THEN containers[j]
        ELSE IF k \in DOMAIN containers THEN Merge(containers[k], c) ELSE c]

(* insert_routes and insert_container, once all ports are read. *)
FinishNode ==
    /\ node # Nothing
    /\ LET c == ProtoContainer(node, exposed)
       IN /\ routes' = routes \cup ContainerRoutes(c)
          /\ containers' = Insert(ContainerKey(c), c)
    /\ read' = read \cup {node}
    /\ node' = Nothing /\ exposed' = NoPorts
    /\ UNCHANGED <<reported, clock, nodes>>

InsertService(s) ==
    /\ node = Nothing
    /\ routes' = routes \cup ServiceRoutes(s)
    /\ UNCHANGED <<node, exposed, containers, read, reported, clock, nodes>>

InsertIngress(i) ==
    /\ node = Nothing
    /\ routes' = routes \cup IngressRoutes(i)
    /\ UNCHANGED <<node, exposed, containers, read, reported, clock, nodes>>

Next ==
    \/ \E n \in Nodes : BeginNode(n)
    \/ \E b \in Bindings : ReadBinding(b)
    \/ FinishNode
    \/ \E s \in Services : InsertService(s)
    \/ \E i \in Ingresses : InsertIngress(i)

Spec == Init /\ [][Next]_vars
-----------------------------------------------------------------------------

PortsType(ports) == DOMAIN ports \subseteq PortKeys /\ \A k \in DOMAIN ports : ports[k] \in Sources

ContainerType(c) ==
    /\ c.id \in Opt /\ c.name \in Text /\ c.image \in Opt
    /\ c.attrs \in [Attributes -> Opt]
    /\ c.image_hash \in Opt /\ c.image_sha256 \in Opt
    /\ c.env \in [EnvKeys -> Opt]
    /\ c.volumes \subseteq Text /\ c.networks \subseteq Text
    /\ PortsType(c.exposed)

(* Every merged container is one the extractors could have reported, its ports
   normalized (normalize_proto_container). *)
TypeOK ==
    /\ node \in Nodes \cup {Nothing} /\ PortsType(exposed)
    /\ \A k \in DOMAIN containers : ContainerType(containers[k])
    /\ read \subseteq Nodes
    /\ clock \in 0..MaxBindings /\ nodes \in 0..MaxNodes
    /\ \A r \in reported :
          /\ r.port \in PortKeys /\ r.source \in Sources
          /\ r.at \in 0..clock-1 /\ r.of \in 0..nodes

(* Report r of a port is to be preferred to report q of the same port. *)
Preferred(r, q) ==
    \/ Priority(r.source) > Priority(q.source)
    \/ Priority(r.source) = Priority(q.source) /\ r.at <= q.at

(* These ports are what is to be kept of these reports, by definition: every
   reported port once, from the first report of the best source. *)
BestOf(ports, reports) ==
    /\ DOMAIN ports = {r.port : r \in reports}
    /\ \A k \in DOMAIN ports :
          \E r \in reports :
             /\ r.port = k /\ r.source = ports[k]
             /\ \A q \in reports : q.port = k => Preferred(r, q)

(* However the bindings of a container are spread over its reports, and whatever is
   merged when, its ports are those defined by BestOf over all of them
   (dedupe_port_bindings, merge_container). *)
BestSourceKept ==
    node = Nothing =>
        \A k \in DOMAIN containers :
            BestOf(containers[k].exposed, {r \in reported : r.container = k})

(* This value is one of those reported, and is missing only if all of them are. *)
Known(value, values) == value \in values /\ (value = Nothing => values = {Nothing})

(* What any report of a container knows the merged container knows, and what it
   knows was reported for it: no attribute is lost or taken from another container
   (merge_container). *)
AttributesReported ==
    \A k \in DOMAIN containers :
        LET c == containers[k]
            same == {n \in read : NodeKey(n) = k}
        IN /\ Known(c.image, {n.image : n \in same})
           /\ \A a \in Attributes : Known(c.attrs[a], {n.attrs[a] : n \in same})
           /\ \A e \in EnvKeys : Known(c.env[e], {n.env[e] : n \in same})
           /\ c.volumes = UNION {n.volumes : n \in same}
           /\ c.networks = UNION {n.networks : n \in same}

(* The two fields that hold the digest of an image are those of one report of the
   container, never one of each of two reports, and both there or both absent,
   whichever of them the report had (proto_container_from_node, merge_container). *)
HashesPaired ==
    \A k \in DOMAIN containers :
        LET c == containers[k] IN
        /\ c.image_hash = Nothing <=> c.image_sha256 = Nothing
        /\ \E n \in read :
              /\ NodeKey(n) = k
              /\ c.image_hash \in {n.image_hash, n.image_sha256}
              /\ c.image_sha256 \in {n.image_hash, n.image_sha256}

(* Every published port of a container has its route, under the name of a report of
   that container, and every route of a container its published port: the routes
   made before a merge still agree with the ports kept after it
   (build_network_topology_from_resources). *)
RoutesMatchPorts ==
    /\ \A k \in DOMAIN containers : \A p \in Published(containers[k].exposed) :
          \E n \in read : NodeKey(n) = k /\ DockerRoute(n.name, p) \in routes
    /\ \A r \in routes : r.kind = "docker_port_binding" =>
          \E k \in DOMAIN containers : \E p \in Published(containers[k].exposed) :
             /\ r.host = p.host /\ r.protocol = p.protocol
             /\ r.source_port = p.number /\ r.published_port = p.host_port
=============================================================================
