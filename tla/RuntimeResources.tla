-------------------------- MODULE RuntimeResources --------------------------
(***************************************************************************)
(* A collection of runtime resources: collect_runtime_resources in         *)
(* src/discovery.rs asks Docker (DockerExtraction) and then Kubernetes     *)
(* (KubernetesExtraction), each about resources that change all the time,  *)
(* and extends one vector by what they found.                              *)
(*                                                                         *)
(* How the Docker daemon is found is modelled too (connect_to_docker_      *)
(* socket and the candidates of src/extractor/docker.rs): a socket is one  *)
(* of the places the code knows.                                           *)
(***************************************************************************)
EXTENDS Naturals, Sequences

CONSTANTS
    Hosts,        \* where the agent may run: settings, sockets, daemon, cluster, changes to come
    \* DockerExtraction
    Ids, Names, References, Images, Users, None, Versioned, RootUsers, ExcludedContainers,
    \* KubernetesExtraction
    Clusters, ExcludedNamespaces,
    MaxChanges    \* bound: changes of the daemon, and of the cluster, during a collection

VARIABLES
    pc,
    settings,    \* DOCKER_HOST, HOME, the current context, a runtime directory, KUBECONFIG
    sockets,     \* the sockets that exist
    endpoint,    \* the socket the Docker client was made for
    resources,   \* the vector
    toCome,      \* bound: changes of daemon and cluster still to come
    \* DockerExtraction
    dContainers, dTags, dWithHash, dChanges, dPc, dNodes, dTodo, dCurrent, dListed, dInspected,
    \* KubernetesExtraction
    kObjects, kChanges, kPc, kListed, kResources

docker ==
    <<dContainers, dTags, dWithHash, dChanges, dPc, dNodes, dTodo, dCurrent, dListed, dInspected>>
kubernetes == <<kObjects, kChanges, kPc, kListed, kResources>>
agent == <<pc, settings, sockets, endpoint, resources>>
vars == <<agent, toCome, docker, kubernetes>>

Docker ==
    INSTANCE DockerExtraction WITH
        containers <- dContainers, tags <- dTags, withHash <- dWithHash, changes <- dChanges,
        pc <- dPc, nodes <- dNodes, todo <- dTodo, current <- dCurrent,
        listed <- dListed, inspected <- dInspected

Kubernetes ==
    INSTANCE KubernetesExtraction WITH
        objects <- kObjects, changes <- kChanges,
        pc <- kPc, listed <- kListed, resources <- kResources

(* DOCKER_HOST is only looked at if it is a path or a unix:// URL: "custom". *)
Sockets == {"custom", "orbstack", "desktop", "runtime", "system"}
Contexts == {"orbstack", "desktop-linux", "default"}
Settings ==
    [host : {<<>>, <<"custom">>}, home : BOOLEAN, context : Contexts,
     runtime : {<<>>, <<"runtime">>}, kube : BOOLEAN]

ASSUME ConstantsAssumption ==
    /\ Docker!DockerConstants /\ Kubernetes!KubernetesConstants
    /\ \A h \in Hosts : h.settings \in Settings /\ h.sockets \subseteq Sockets
                        /\ h.clusters \subseteq Clusters
                        /\ h.changes \in 0..MaxChanges

(***************************************************************************)
(* Mutated forms of definitions below: the plausible bugs the properties   *)
(* are there to catch.  Nothing in the specification uses them.            *)
(***************************************************************************)

(* Deduped: the last of the equal ones stays. *)
DedupedLast(list) == {i \in DOMAIN list : \A j \in DOMAIN list : j > i => list[j] # list[i]}

(* Extended: the vector becomes what was found. *)
ExtendedAnew(source, found) == <<[source |-> source, found |-> found]>>

(* ConnectKubernetes: the environment is not looked at. *)
ConnectKubernetesAnyway ==
    /\ pc = "kubernetes"
    /\ pc' = "askKubernetes" \/ pc' = "collected"
    /\ UNCHANGED <<settings, sockets, endpoint, resources, toCome, docker, kubernetes>>

(***************************************************************************)
(* Where the Docker daemon is looked for.                                  *)
(***************************************************************************)

ContextSocket(context) ==
    IF context = "orbstack" THEN <<"orbstack">>
    ELSE IF context = "desktop-linux" THEN <<"desktop">> ELSE <<>>

(* The candidates of unix_docker_socket_candidates, before the duplicates are removed *)
Candidates(s) ==
    s.host
    \o (IF s.home THEN ContextSocket(s.context) ELSE <<>>)
    \o (IF s.home THEN <<"orbstack", "desktop">> ELSE <<>>)
    \o s.runtime \o <<"system">>

(* Where those that stay are in the list *)
Deduped(list) == {i \in DOMAIN list : \A j \in DOMAIN list : j < i => list[j] # list[i]}

(* Those a client can be made for: the file must exist.  That nobody listens to it is
   found out when the containers are listed. *)
Reachable(s, existing) == {i \in Deduped(Candidates(s)) : Candidates(s)[i] \in existing}

(***************************************************************************)
(* The collection.                                                         *)
(***************************************************************************)

(* Only an extractor that was made is asked, the second when the first has ended
   (collect_runtime_resources). *)
TypeOK ==
    /\ pc \in {"docker", "askDocker", "kubernetes", "askKubernetes", "collected"}
    /\ settings \in Settings /\ sockets \subseteq Sockets
    /\ endpoint \in Sockets \cup {"none"}
    /\ Docker!TypeOK /\ Kubernetes!TypeOK
    /\ dPc # "list" => endpoint # "none"
    /\ pc = "askDocker" \/ dPc \in {"list", "done", "failed"}
    /\ kPc # "Pod" => settings.kube /\ pc \in {"askKubernetes", "collected"}
    /\ Len(resources) <= 2 /\ toCome \in 0..MaxChanges

Init ==
    /\ \E h \in Hosts :
           /\ settings = h.settings /\ sockets = h.sockets /\ toCome = h.changes
           /\ kObjects \in h.clusters
           /\ \E d \in h.daemons :
                  dContainers = d.containers /\ dTags = d.tags /\ dWithHash = d.withHash
    /\ Docker!Init /\ Kubernetes!Init
    /\ pc = "docker" /\ endpoint = "none" /\ resources = <<>>

(* DockerExtractor::new takes the first one. *)
ConnectDocker ==
    /\ pc = "docker" /\ pc' = "askDocker"
    /\ \E first \in Reachable(settings, sockets) :
           /\ \A i \in Reachable(settings, sockets) : first <= i
           /\ endpoint' = Candidates(settings)[first]
    /\ UNCHANGED <<settings, sockets, resources, toCome, docker, kubernetes>>

(* The local defaults of the library are among the candidates. *)
DockerSkipped ==
    /\ pc = "docker" /\ pc' = "kubernetes"
    /\ Reachable(settings, sockets) = {}
    /\ UNCHANGED <<settings, sockets, endpoint, resources, toCome, docker, kubernetes>>

AskDocker ==
    /\ pc = "askDocker" /\ Docker!Collect
    /\ UNCHANGED <<agent, toCome, kubernetes>>

Extended(source, found) == Append(resources, [source |-> source, found |-> found])

(* collect_resources_from_extractor *)
DockerFound ==
    /\ pc = "askDocker" /\ dPc = "done" /\ pc' = "kubernetes"
    /\ resources' = Extended("Docker", dNodes)
    /\ UNCHANGED <<settings, sockets, endpoint, toCome, docker, kubernetes>>

DockerFailed ==
    /\ pc = "askDocker" /\ dPc = "failed" /\ pc' = "kubernetes"
    /\ UNCHANGED <<settings, sockets, endpoint, resources, toCome, docker, kubernetes>>

(* K8sExtractor::new: without the environment of a pod or KUBECONFIG no client is made;
   with it, making one may fail. *)
ConnectKubernetes ==
    /\ pc = "kubernetes"
    /\ \/ settings.kube /\ pc' = "askKubernetes"
       \/ pc' = "collected"
    /\ UNCHANGED <<settings, sockets, endpoint, resources, toCome, docker, kubernetes>>

AskKubernetes ==
    /\ pc = "askKubernetes" /\ Kubernetes!Collect
    /\ UNCHANGED <<agent, toCome, docker>>

KubernetesFound ==
    /\ pc = "askKubernetes" /\ kPc = "done" /\ pc' = "collected"
    /\ resources' = Extended("Kubernetes", kResources)
    /\ UNCHANGED <<settings, sockets, endpoint, toCome, docker, kubernetes>>

KubernetesFailed ==
    /\ pc = "askKubernetes" /\ kPc = "failed" /\ pc' = "collected"
    /\ UNCHANGED <<settings, sockets, endpoint, resources, toCome, docker, kubernetes>>

Collect ==
    \/ ConnectDocker \/ DockerSkipped \/ AskDocker \/ DockerFound \/ DockerFailed
    \/ ConnectKubernetes \/ AskKubernetes \/ KubernetesFound \/ KubernetesFailed

(* What changes while the other source is asked is as good as there from the start, or
   no longer of interest. *)
ContainersChange ==
    /\ pc = "askDocker" /\ toCome > 0 /\ toCome' = toCome - 1 /\ Docker!DaemonChanges
    /\ UNCHANGED <<agent, kubernetes>>

ClusterChanges ==
    /\ pc = "askKubernetes" /\ toCome > 0 /\ toCome' = toCome - 1 /\ Kubernetes!Change
    /\ UNCHANGED <<agent, docker>>

Collected == pc = "collected" /\ UNCHANGED vars

Next == Collect \/ ContainersChange \/ ClusterChanges \/ Collected

Spec == Init /\ [][Next]_vars

(* The loop is scheduled, and a request that is not answered ends: after 120 seconds to
   the daemon. That the client to the API server gives up too is an assumption about its
   defaults; nothing in k8s.rs sets a timeout. *)
FairSpec == Spec /\ WF_vars(Collect)
-----------------------------------------------------------------------------

FoundBy(source) == {resources[i].found : i \in {j \in DOMAIN resources : resources[j].source = source}}

(* Whatever becomes of one source, the resources of the other are reported as it
   answered, and a source that failed or was not there adds nothing
   (collect_runtime_resources). That a source answers once is in TypeOK. *)
SourcesIndependent ==
    pc = "collected" =>
        /\ FoundBy("Docker") = IF dPc = "done" THEN {dNodes} ELSE {}
        /\ FoundBy("Kubernetes") = IF kPc = "done" THEN {kResources} ELSE {}

(* The daemon that is asked is the one the user chose, by DOCKER_HOST or else by the
   current context, whenever its socket exists, although the context's socket is a
   candidate twice (unix_docker_socket_candidates, connect_to_docker_socket). *)
ChosenDaemonAsked ==
    [][endpoint' # endpoint =>
          LET chosen == settings.host \o (IF settings.home THEN ContextSocket(settings.context)
                                          ELSE <<>>)
              IsFirst(i) == /\ chosen[i] \in sockets
                            /\ \A j \in DOMAIN chosen : j < i => chosen[j] \notin sockets
          IN  \A i \in DOMAIN chosen : IsFirst(i) => endpoint' = chosen[i]]_vars

(* The collection ends, whatever the daemon and the API server answer and whatever
   changes meanwhile (collect_runtime_resources). *)
CollectionEnds == <>(pc = "collected")

(* Each extractor keeps the promise of a TopologyExtractor, in a collection that asks
   both: it reports exactly what its lists held when they were asked for, or nothing
   (list_active_resources of DockerExtractor and of K8sExtractor). *)
AnswersAsListed == Docker!AnswersAsListed /\ Kubernetes!AnswersAsListed

(* Hashes in a Docker report are those of the container's own image, even if tags move
   between the listing and the two inspections.  So are versions, except where the
   container's reference was moved to another image meanwhile: the version may then be a
   tag of that one (enrich_node_with_inspect, enrich_node_with_image_inspect). *)
ImageOfOwnContainer == []Docker!HashOfOwnImage /\ Docker!VersionOfOwnImage

(* Ids, hashes and states in a Kubernetes report are those of the container's own
   status (map_pod_container). *)
StatusOfOwnContainer == Kubernetes!StatusOfOwnContainer

(* Whether a container of a pod runs as root is reported as its and the pod's settings
   decide it, wherever they do (container_privileges). *)
RootAsRun == Kubernetes!RootAsRun
=============================================================================
