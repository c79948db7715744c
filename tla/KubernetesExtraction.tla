------------------------ MODULE KubernetesExtraction ------------------------
(***************************************************************************)
(* The Kubernetes part of a collection: list_active_resources of the       *)
(* K8sExtractor (src/extractor/k8s.rs), which lists the pods, the services *)
(* and the ingresses one after the other while the cluster changes, and    *)
(* maps what it got.                                                       *)
(*                                                                         *)
(* An optional value is a set of at most one element.  Labels, selectors,  *)
(* ports, images, environment and volumes are copied from the answers      *)
(* (TopologyMerge and DatabaseSchema have what becomes of them).           *)
(***************************************************************************)
EXTENDS Naturals, Sequences, SequencesExt

CONSTANTS
    Clusters,      \* what may be in the cluster: objects of each kind
    ExcludedNamespaces, \* those should_include_k8s_namespace refuses
    MaxChanges     \* bound: changes of the cluster during a collection

PodPhases == {"Pending", "Running", "Succeeded", "Failed", "Unknown"}

AtMostOne(option) == \A x, y \in option : x = y
Named(list) == \A i, j \in DOMAIN list : list[i].name = list[j].name => i = j

IsFlag(option) == option \subseteq BOOLEAN /\ AtMostOne(option)

ContainerOk(c) == AtMostOne(c.user) /\ IsFlag(c.nonRoot) /\ IsFlag(c.privileged)
StatusOk(status) == AtMostOne(status.id) /\ AtMostOne(status.hash)
PodOk(pod) ==
    /\ pod.phase \in PodPhases /\ AtMostOne(pod.user) /\ IsFlag(pod.nonRoot)
    /\ Named(pod.containers) /\ Named(pod.statuses)
    /\ \A i \in DOMAIN pod.containers : ContainerOk(pod.containers[i])
    /\ \A i \in DOMAIN pod.statuses : StatusOk(pod.statuses[i])
    /\ \A i, j \in DOMAIN pod.statuses : pod.statuses[i].id \cap pod.statuses[j].id # {} => i = j

(* What the API server accepts, and reports of what runs: containers, and objects of a
   kind in a namespace, differ by name, and containers that run by their ids. *)
KubernetesConstants ==
    /\ \A some \in Clusters :
           /\ \A pod \in some["Pod"] : PodOk(pod)
           /\ \A kind \in {"Pod", "Service", "Ingress"} : \A o, p \in some[kind] :
                  o.namespace = p.namespace /\ o.name = p.name => o = p
    /\ MaxChanges \in Nat

VARIABLES
    objects,     \* the objects in the cluster
    changes,
    pc,          \* the kind to be listed next, or what comes after
    listed,      \* pod_list, service_list and ingress_list
    resources    \* in the Ok of list_active_resources

cluster == <<objects, changes>>
vars == <<cluster, pc, listed, resources>>

Kinds == {"Pod", "Service", "Ingress"}

OrElse(option, other) == IF option # {} THEN option ELSE other
IsZero(users) == {u = 0 : u \in users}
Not(flags) == {~f : f \in flags}

(***************************************************************************)
(* Mutated forms of definitions below: the plausible bugs the properties   *)
(* are there to catch.  Nothing in the specification uses them.            *)
(***************************************************************************)

(* OwnStatus: the statuses are taken to be in the order of the containers. *)
StatusInOrder(pod, i) == {pod.statuses[j] : j \in DOMAIN pod.statuses \cap {i}}

(* RunAsRoot: what the container says comes before what the pod says. *)
RunAsRootContainerFirst(pod, c) ==
    OrElse(IsZero(c.user), OrElse(Not(c.nonRoot), OrElse(IsZero(pod.user), Not(pod.nonRoot))))

(* ListFails: the objects of the lists before are reported. *)
ListFailsPartly ==
    /\ pc \in Kinds /\ pc' = "map"
    /\ listed' = [kind \in Kinds |-> IF kind \in DOMAIN listed THEN listed[kind] ELSE {}]
    /\ UNCHANGED <<cluster, resources>>

(***************************************************************************)
(* From objects to nodes.                                                  *)
(***************************************************************************)

(* The status with the container's name.  A container that has not started has none. *)
OwnStatus(pod, i) ==
    {pod.statuses[j] : j \in {n \in DOMAIN pod.statuses :
                                 pod.statuses[n].name = pod.containers[i].name}}

(* container_privileges *)
Privileged(pod, c) == OrElse(c.privileged, Not(pod.nonRoot))
RunAsRoot(pod, c) ==
    OrElse(IsZero(c.user), OrElse(IsZero(pod.user), OrElse(Not(c.nonRoot), Not(pod.nonRoot))))

(* map_pod_container *)
ContainerNode(pod, i) ==
    LET c == pod.containers[i]
        own == OwnStatus(pod, i)
    IN  [name |-> c.name,
         id |-> UNION {s.id : s \in own}, hash |-> UNION {s.hash : s \in own},
         state |-> {s.state : s \in own},
         privileged |-> Privileged(pod, c), root |-> RunAsRoot(pod, c)]

PodNode(pod) ==
    [kind |-> "Pod", namespace |-> pod.namespace, name |-> pod.name,
     containers |-> [i \in DOMAIN pod.containers |-> ContainerNode(pod, i)]]

ServiceNode(service) ==
    [kind |-> "Service", namespace |-> service.namespace, name |-> service.name]

(* ingress_backend_to_node: a resource is taken for a service of that name. *)
BackendNode(backend, namespace) ==
    IF backend.kind = "none" THEN <<>>
    ELSE <<[service |-> backend.name, namespace |-> namespace,
            port |-> IF backend.kind = "service" THEN backend.port ELSE {}]>>

IngressNode(ingress) ==
    [kind |-> "Ingress", namespace |-> ingress.namespace, name |-> ingress.name,
     backends |-> FlattenSeq([i \in DOMAIN ingress.backends |->
                                 BackendNode(ingress.backends[i], ingress.namespace)])]

IsActivePod(pod) == pod.phase \notin {"Succeeded", "Failed"}

(* should_include_k8s_namespace, for pods with is_active_pod *)
IsIncluded(kind, object) ==
    object.namespace \notin ExcludedNamespaces /\ (kind = "Pod" => IsActivePod(object))

Included(kind, some) == {object \in some : IsIncluded(kind, object)}

Nodes(lists) ==
    {PodNode(pod) : pod \in Included("Pod", lists["Pod"])}
    \cup {ServiceNode(service) : service \in Included("Service", lists["Service"])}
    \cup {IngressNode(ingress) : ingress \in Included("Ingress", lists["Ingress"])}

(***************************************************************************)
(* The collection.                                                         *)
(***************************************************************************)

(* No two of the resources are of one object, and a container has at most one id, hash
   and state (map_pod_container). *)
TypeOK ==
    /\ objects \in Clusters /\ changes \in 0..MaxChanges
    /\ pc \in Kinds \cup {"map", "done", "failed"}
    /\ \A kind \in DOMAIN listed : \E some \in Clusters : listed[kind] = some[kind]
    /\ \A r, s \in resources :
           <<r.kind, r.namespace, r.name>> = <<s.kind, s.namespace, s.name>> => r = s
    /\ \A r \in resources : r.kind = "Pod" => \A i, j \in DOMAIN r.containers :
           LET c == r.containers[i]
               d == r.containers[j]
           IN  /\ c.id \cap d.id # {} => i = j
               /\ AtMostOne(c.id) /\ AtMostOne(c.hash) /\ AtMostOne(c.state)
               /\ c.privileged \subseteq BOOLEAN /\ AtMostOne(c.privileged)
               /\ c.root \subseteq BOOLEAN /\ AtMostOne(c.root)

Init ==
    /\ objects \in Clusters /\ changes = 0
    /\ pc = "Pod" /\ listed = <<>> /\ resources = {}

After == [Pod |-> "Service", Service |-> "Ingress", Ingress |-> "map"]

List ==
    /\ pc \in Kinds
    /\ listed' = [kind \in DOMAIN listed \cup {pc} |->
                   IF kind = pc THEN objects[pc] ELSE listed[kind]]
    /\ pc' = After[pc]
    /\ UNCHANGED <<cluster, resources>>

(* The lists before are dropped. *)
ListFails == pc \in Kinds /\ pc' = "failed" /\ UNCHANGED <<cluster, listed, resources>>

Map ==
    /\ pc = "map" /\ pc' = "done"
    /\ resources' = Nodes(listed)
    /\ UNCHANGED <<cluster, listed>>

Collect == List \/ ListFails \/ Map

Change ==
    /\ pc \notin {"done", "failed"}
    /\ changes < MaxChanges /\ changes' = changes + 1
    /\ objects' \in Clusters
    /\ UNCHANGED <<pc, listed, resources>>

Ended == pc \in {"done", "failed"} /\ UNCHANGED vars

Next == Collect \/ Change \/ Ended

Spec == Init /\ [][Next]_vars
-----------------------------------------------------------------------------

Identity(kind, some) == {<<kind, object.namespace, object.name>> : object \in some}
Reportable(kind, some) ==
    Identity(kind, {o \in some : o.namespace \notin ExcludedNamespaces
                                 /\ (kind = "Pod" => o.phase \in {"Pending", "Running", "Unknown"})})

(* The extractor keeps the promise of a TopologyExtractor: exactly the objects of its
   three lists that are active and not of a refused namespace, each list as it was when
   it was asked for, or nothing at all (list_active_resources). *)
Extraction ==
    INSTANCE Extraction WITH
        Items <- UNION {Reportable(kind, some[kind]) : kind \in Kinds, some \in Clusters},
        there <- [kind \in Kinds |-> Reportable(kind, objects[kind])],
        seen <- [kind \in DOMAIN listed |-> Reportable(kind, listed[kind])],
        outcome <- IF pc = "done" THEN "found" ELSE IF pc = "failed" THEN "failed" ELSE "running",
        answer <- {<<r.kind, r.namespace, r.name>> : r \in resources}

AnswersAsListed == Extraction!Spec

(* The pod and the container of the lists that a reported container is about. *)
Reported(r, i) ==
    {p \in UNION {[pod : {pod}, container : {pod.containers[j] : j \in DOMAIN pod.containers}] :
                     pod \in listed["Pod"]} :
        p.pod.namespace = r.namespace /\ p.pod.name = r.name
        /\ p.container.name = r.containers[i].name}

Statuses(pod) == {pod.statuses[j] : j \in DOMAIN pod.statuses}

(* What is reported of a container's state is from its own status, whatever the order
   of the statuses and whichever of them are missing (map_pod_container). *)
StatusOfOwnContainer ==
    \A r \in resources : r.kind = "Pod" => \A i \in DOMAIN r.containers :
        \A p \in Reported(r, i) :
            LET n == r.containers[i]
                name == p.container.name
            IN
            IF \E s \in Statuses(p.pod) : s.name = name
            THEN <<name, n.id, n.hash, n.state>>
                     \in {<<s.name, s.id, s.hash, {s.state}>> : s \in Statuses(p.pod)}
            ELSE n.id = {} /\ n.hash = {} /\ n.state = {}

(* A container is reported to run as root exactly if the user set for it, or else for
   its pod, is 0. Without a user, one that must not run as root is reported not to, and
   nothing is reported if that is not set either (container_privileges). Left open is a
   container without a user that may run as root: it is reported to, although its image
   decides. *)
RootAsRun ==
    \A r \in resources : r.kind = "Pod" => \A i \in DOMAIN r.containers :
        \A p \in Reported(r, i) :
            LET user == OrElse(p.container.user, p.pod.user)
                nonRoot == OrElse(p.container.nonRoot, p.pod.nonRoot)
                root == r.containers[i].root
            IN  /\ user # {} => root = {0 \in user}
                /\ user = {} /\ nonRoot = {TRUE} => root = {FALSE}
                /\ user = {} /\ nonRoot = {} => root = {}
=============================================================================
