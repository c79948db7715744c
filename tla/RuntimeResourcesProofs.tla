----------------------- MODULE RuntimeResourcesProofs -----------------------
(***************************************************************************)
(* RuntimeResources: that both extractors keep the promise of Extraction,  *)
(* that neither costs the other its report, and that images are not mixed  *)
(* up, for every daemon, every cluster and every number of changes.        *)
(***************************************************************************)
EXTENDS RuntimeResources, FiniteSetTheorems, TLAPS

(***************************************************************************)
(* A step of the collection is at most one step of each extractor.         *)
(***************************************************************************)

LEMMA DockerSteps == [Next]_vars => [Docker!Next]_(Docker!vars)
BY DEF Next, Collect, ContainersChange, ClusterChanges, Collected, ConnectDocker, DockerSkipped,
       AskDocker, DockerFound, DockerFailed, ConnectKubernetes, AskKubernetes, KubernetesFound,
       KubernetesFailed, Docker!Next, vars, docker, Docker!vars, Docker!daemon,
       Docker!collection, Docker!history

LEMMA KubernetesSteps == [Next]_vars => [Kubernetes!Next]_(Kubernetes!vars)
BY DEF Next, Collect, ContainersChange, ClusterChanges, Collected, ConnectDocker, DockerSkipped,
       AskDocker, DockerFound, DockerFailed, ConnectKubernetes, AskKubernetes, KubernetesFound,
       KubernetesFailed, Kubernetes!Next, vars, kubernetes, Kubernetes!vars, Kubernetes!cluster

(***************************************************************************)
(* The Docker extractor.                                                   *)
(***************************************************************************)

LEMMA DockerConstantsHold == Docker!DockerConstants
BY ConstantsAssumption

LEMMA FromSummaryTyped ==
    ASSUME NEW c \in Docker!Containers
    PROVE  Docker!FromSummary(c) \in Docker!NodeType
BY DockerConstantsHold
   DEF Docker!Containers, Docker!FromSummary, Docker!ListedImage, Docker!Version,
       Docker!NodeType, Docker!DockerConstants

LEMMA DockerTypeInit == Docker!Init => Docker!TypeOK
BY DockerConstantsHold DEF Docker!Init, Docker!TypeOK, Docker!DockerConstants, Docker!Containers

(* Before the list there is nothing, and a node that is asked about is one of it. *)
DockerStage ==
    /\ dPc = "list" => /\ dNodes = <<>> /\ dListed = <<>>
                       /\ dTodo = {} /\ dInspected = {} /\ dCurrent = None
    /\ dPc \in {"inspect", "image"} => dCurrent \in DOMAIN dNodes

LEMMA StoppedTyped ==
    ASSUME NEW c \in Docker!Containers
    PROVE  LET d == [c EXCEPT !.running = FALSE]
           IN  d \in Docker!Containers /\ d.image = c.image /\ d.reference = c.reference
BY DEF Docker!Containers

LEMMA WithInspectTyped ==
    ASSUME NEW n \in Docker!NodeType, NEW c \in Docker!Containers
    PROVE  Docker!WithInspect(n, c) \in Docker!NodeType
<1>1. Docker!IsRootUser(c.user) \in BOOLEAN
  BY DEF Docker!IsRootUser
<1>2. /\ Docker!OrElse(n.version, Docker!Version(c.reference)) \in Versioned \cup Images \cup {None}
      /\ Docker!OrElse(n.hash, c.image) \in Images \cup {None}
      /\ c.reference \in References \cup Images
  BY DEF Docker!Containers, Docker!NodeType, Docker!OrElse, Docker!Version
<1>3. QED
  BY <1>1, <1>2 DEF Docker!WithInspect, Docker!NodeType

LEMMA WithImageTyped ==
    ASSUME NEW n \in Docker!NodeType, NEW image \in Images
    PROVE  Docker!WithImage(n, Docker!RepoVersions(image), image) \in Docker!NodeType
<1> DEFINE tagged == Docker!RepoVersions(image)
<1>1. tagged # {} => (CHOOSE t \in tagged : TRUE) \in Versioned
  BY DEF Docker!RepoVersions
<1>2. Docker!OrElse(n.hash, image) \in Images \cup {None}
  BY DEF Docker!NodeType, Docker!OrElse
<1> HIDE DEF tagged
<1>3. (IF n.version = None /\ tagged # {} THEN CHOOSE t \in tagged : TRUE ELSE n.version)
          \in Versioned \cup Images \cup {None}
  BY <1>1 DEF Docker!NodeType
<1>4. Docker!WithImage(n, tagged, image) \in Docker!NodeType
  BY <1>2, <1>3 DEF Docker!WithImage, Docker!NodeType
<1>5. QED
  BY <1>4 DEF tagged

LEMMA DockerTypeStep ==
    Docker!TypeOK /\ DockerStage /\ [Docker!Next]_(Docker!vars)
        => Docker!TypeOK' /\ DockerStage'
<1> SUFFICES ASSUME Docker!TypeOK, DockerStage, [Docker!Next]_(Docker!vars)
             PROVE  Docker!TypeOK' /\ DockerStage'
  OBVIOUS
<1> USE DEF DockerStage
<1>1. CASE Docker!List
  <2>1. \A i \in DOMAIN dListed' : dListed'[i] \in Docker!Containers
    BY <1>1 DEF Docker!List, Docker!TypeOK
  <2>2. \A i \in DOMAIN dNodes' : i \in DOMAIN dListed' /\ dNodes'[i] \in Docker!NodeType
    BY <1>1, <2>1, FromSummaryTyped DEF Docker!List
  <2>3. QED
    BY <1>1, <2>1, <2>2 DEF Docker!List, Docker!TypeOK, Docker!daemon
<1>2. CASE Docker!Inspect
  <2>1. dContainers[dCurrent] \in Docker!Containers
    BY <1>2 DEF Docker!Inspect, Docker!TypeOK
  <2>2. Docker!WithInspect(dNodes[dCurrent], dContainers[dCurrent]) \in Docker!NodeType
    BY <1>2, <2>1, WithInspectTyped DEF Docker!Inspect, Docker!TypeOK
  <2>3. QED
    BY <1>2, <2>2 DEF Docker!Inspect, Docker!TypeOK, Docker!daemon
<1>3. CASE Docker!InspectImage
  <2> DEFINE image == Docker!Denoted(dNodes[dCurrent].image)
  <2>1. image \in Images
    BY <1>3 DEF Docker!InspectImage, Docker!TypeOK, Docker!NodeType, Docker!Denoted
  <2>2. Docker!WithImage(dNodes[dCurrent], Docker!RepoVersions(image), image) \in Docker!NodeType
    BY <1>3, <2>1, WithImageTyped DEF Docker!InspectImage, Docker!TypeOK
  <2>3. QED
    BY <1>3, <2>2 DEF Docker!InspectImage, Docker!TypeOK, Docker!daemon, Docker!history
<1>4. CASE Docker!ListFails \/ Docker!TakeNode \/ Docker!ListDone \/ Docker!InspectFails
             \/ Docker!InspectImageFails \/ Docker!Ended \/ UNCHANGED Docker!vars
  BY <1>4 DEF Docker!ListFails, Docker!TakeNode, Docker!ListDone, Docker!InspectFails,
     Docker!InspectImageFails, Docker!Ended, Docker!vars, Docker!TypeOK, Docker!daemon,
     Docker!collection, Docker!history
<1>5. ASSUME NEW i \in Ids, Docker!Stop(i) \/ Docker!Remove(i) PROVE Docker!TypeOK' /\ DockerStage'
  <2>1. \A j \in DOMAIN dContainers' : j \in Ids /\ dContainers'[j] \in Docker!Containers
    BY <1>5, StoppedTyped DEF Docker!Stop, Docker!Remove, Docker!TypeOK
  <2>2. dChanges' \in 0..MaxChanges
    BY <1>5, DockerConstantsHold
       DEF Docker!Stop, Docker!Remove, Docker!Change, Docker!TypeOK, Docker!DockerConstants
  <2>3. QED
    BY <1>5, <2>1, <2>2 DEF Docker!Stop, Docker!Remove, Docker!Change, Docker!TypeOK,
       Docker!collection, Docker!history
<1>6. ASSUME NEW r \in References, Docker!Retag(r) PROVE Docker!TypeOK' /\ DockerStage'
  <2>1. dTags' \in [References -> Images \cup {None}]
    BY <1>6 DEF Docker!Retag, Docker!TypeOK
  <2>2. dChanges' \in 0..MaxChanges
    BY <1>6, DockerConstantsHold
       DEF Docker!Retag, Docker!Change, Docker!TypeOK, Docker!DockerConstants
  <2>3. QED
    BY <1>6, <2>1, <2>2 DEF Docker!Retag, Docker!Change, Docker!TypeOK, Docker!collection,
       Docker!history
<1>7. QED
  BY <1>1, <1>2, <1>3, <1>4, <1>5, <1>6 DEF Docker!Next, Docker!Collect, Docker!DaemonChanges

LEMMA DockerAbstractInit == Docker!Init => Docker!Extraction!Init
<1>1. Docker!Init => Docker!Reportable \subseteq Ids
  BY DockerTypeInit DEF Docker!TypeOK, Docker!Reportable
<1>2. QED
  BY <1>1 DEF Docker!Init, Docker!Extraction!Init

(* A step that neither asks for a list nor changes the daemon keeps the nodes. *)
LEMMA DockerKeepsNodes ==
    ASSUME Docker!TakeNode \/ Docker!Inspect \/ Docker!InspectFails \/ Docker!InspectImage
           \/ Docker!InspectImageFails
    PROVE  /\ dPc \notin {"list", "failed", "done"} /\ dPc' \notin {"list", "failed", "done"}
           /\ DOMAIN dNodes' = DOMAIN dNodes /\ UNCHANGED Docker!daemon
BY DEF Docker!TakeNode, Docker!Inspect, Docker!InspectFails, Docker!InspectImage,
       Docker!InspectImageFails

LEMMA DockerReportableKept ==
    ASSUME UNCHANGED <<dContainers, dTags, dWithHash>> PROVE UNCHANGED Docker!Reportable
BY DEF Docker!Reportable, Docker!FromSummary, Docker!ListedImage

LEMMA DockerAbstractStep ==
    Docker!TypeOK /\ DockerStage /\ [Docker!Next]_(Docker!vars)
        => [Docker!Extraction!Next]_(Docker!Extraction!vars)
<1> SUFFICES ASSUME Docker!TypeOK, DockerStage, [Docker!Next]_(Docker!vars)
             PROVE  [Docker!Extraction!Next]_(Docker!Extraction!vars)
  OBVIOUS
<1>1. ASSUME UNCHANGED Docker!daemon
      PROVE  UNCHANGED [kind \in {"Container"} |-> Docker!Reportable]
  BY <1>1, DockerReportableKept DEF Docker!daemon
<1>2. CASE Docker!List
  <2>1. DOMAIN dNodes' = Docker!Reportable
    BY <1>2 DEF Docker!List, Docker!Reportable
  <2>2. Docker!Extraction!See("Container")
    BY <1>1, <1>2, <2>1 DEF Docker!List, Docker!Extraction!See
  <2>3. QED
    BY <2>2 DEF Docker!Extraction!Next, Docker!Extraction!Extract
<1>3. CASE Docker!ListFails
  <2>1. Docker!Extraction!Fail
    BY <1>1, <1>3 DEF Docker!ListFails, Docker!Extraction!Fail
  <2>2. QED
    BY <2>1 DEF Docker!Extraction!Next, Docker!Extraction!Extract
<1>4. CASE Docker!ListDone
  <2>1. Docker!Extraction!Succeed
    BY <1>1, <1>4 DEF Docker!ListDone, Docker!Extraction!Succeed
  <2>2. QED
    BY <2>1 DEF Docker!Extraction!Next, Docker!Extraction!Extract
<1>5. CASE Docker!TakeNode \/ Docker!Inspect \/ Docker!InspectFails \/ Docker!InspectImage
           \/ Docker!InspectImageFails
  BY <1>1, <1>5, DockerKeepsNodes DEF Docker!Extraction!vars
<1>6. ASSUME Docker!DaemonChanges PROVE Docker!Extraction!Change
  <2>1. UNCHANGED <<dPc, dNodes>> /\ dPc \notin {"done", "failed"}
    BY <1>6 DEF Docker!DaemonChanges, Docker!Stop, Docker!Remove, Docker!Retag, Docker!Change,
       Docker!collection
  <2>2. DOMAIN dContainers' \subseteq Ids
    BY <1>6 DEF Docker!TypeOK, Docker!DaemonChanges, Docker!Stop, Docker!Remove, Docker!Retag
  <2>3. Docker!Reportable' \subseteq Ids
    BY <2>2 DEF Docker!Reportable
  <2>4. QED
    BY <2>1, <2>3 DEF Docker!Extraction!Change
<1>7. CASE Docker!Ended \/ UNCHANGED Docker!vars
  BY <1>1, <1>7 DEF Docker!Ended, Docker!vars, Docker!collection, Docker!Extraction!vars
<1>8. QED
  BY <1>2, <1>3, <1>4, <1>5, <1>6, <1>7
     DEF Docker!Next, Docker!Collect, Docker!Extraction!Next

(***************************************************************************)
(* Images are not mixed up.                                                *)
(***************************************************************************)

(* Neither the image nor the reference of a container changes, and what a node has for
   its image is one of the two.  Whoever has been inspected knows its hash. *)
ImagesInv ==
    /\ \A i \in DOMAIN dListed \cap DOMAIN dContainers :
           /\ dContainers[i].image = dListed[i].image
           /\ dContainers[i].reference = dListed[i].reference
    /\ \A i \in DOMAIN dNodes :
           /\ dNodes[i].image \in {dListed[i].reference, dListed[i].image}
           /\ \/ dNodes[i].hash = dListed[i].image
              \/ ~dWithHash /\ i \notin dInspected
    /\ dPc \in {"inspect", "image"} => dCurrent \notin dTodo
    /\ \A i \in DOMAIN dNodes :
           i \in dTodo \/ (dPc = "inspect" /\ i = dCurrent) =>
               dNodes[i].hash \in {None, dListed[i].image}

LEMMA ImagesInit == Docker!Init => ImagesInv
BY DEF Docker!Init, ImagesInv

LEMMA ImagesStep ==
    Docker!TypeOK /\ DockerStage /\ ImagesInv /\ [Docker!Next]_(Docker!vars) => ImagesInv'
<1> SUFFICES ASSUME Docker!TypeOK, DockerStage, ImagesInv, [Docker!Next]_(Docker!vars)
             PROVE  ImagesInv'
  OBVIOUS
<1>1. CASE Docker!List
  BY <1>1 DEF Docker!List, Docker!daemon, DockerStage, ImagesInv, Docker!FromSummary,
     Docker!ListedImage
<1>2. CASE Docker!Inspect
  <2>1. /\ dContainers[dCurrent].image = dListed[dCurrent].image
        /\ dContainers[dCurrent].reference = dListed[dCurrent].reference
        /\ dListed[dCurrent].image # None
        /\ dNodes[dCurrent] \in Docker!NodeType
        /\ dNodes[dCurrent].hash \in {None, dListed[dCurrent].image}
    BY <1>2, DockerConstantsHold DEF Docker!Inspect, DockerStage, Docker!TypeOK, ImagesInv,
       Docker!Containers, Docker!DockerConstants
  <2> DEFINE n == Docker!WithInspect(dNodes[dCurrent], dContainers[dCurrent])
  <2>2. /\ n.image = dContainers[dCurrent].reference
        /\ n.hash = dListed[dCurrent].image
    BY <2>1 DEF Docker!WithInspect, Docker!OrElse, Docker!NodeType
  <2>3. QED
    BY <1>2, <2>1, <2>2 DEF Docker!Inspect, Docker!daemon, ImagesInv
<1>3. CASE Docker!InspectImage
  <2> DEFINE image == Docker!Denoted(dNodes[dCurrent].image)
             n == Docker!WithImage(dNodes[dCurrent], Docker!RepoVersions(image), image)
  <2>1. /\ n.image = dNodes[dCurrent].image
        /\ dNodes[dCurrent].hash # None => n.hash = dNodes[dCurrent].hash
    BY <1>3 DEF Docker!WithImage, Docker!OrElse, DockerStage, Docker!TypeOK, Docker!NodeType
  <2>2. dListed[dCurrent].image # None
    BY <1>3, DockerConstantsHold DEF Docker!InspectImage, DockerStage, Docker!TypeOK,
       Docker!Containers, Docker!DockerConstants
  <2>3. QED
    BY <1>3, <2>1, <2>2 DEF Docker!InspectImage, Docker!daemon, Docker!history, ImagesInv
<1>4. CASE Docker!ListFails \/ Docker!TakeNode \/ Docker!ListDone \/ Docker!InspectFails
             \/ Docker!InspectImageFails \/ Docker!Ended \/ UNCHANGED Docker!vars
  BY <1>4 DEF Docker!ListFails, Docker!TakeNode, Docker!ListDone, Docker!InspectFails,
     Docker!InspectImageFails, Docker!Ended, Docker!vars, ImagesInv, Docker!daemon,
     Docker!collection, Docker!history
<1>5. CASE Docker!DaemonChanges
  <2>1. UNCHANGED <<dNodes, dListed, dInspected, dWithHash, dPc, dTodo, dCurrent>>
    BY <1>5 DEF Docker!DaemonChanges, Docker!Stop, Docker!Remove, Docker!Retag,
       Docker!collection, Docker!history
  <2>2. \A i \in DOMAIN dContainers' :
           /\ i \in DOMAIN dContainers
           /\ dContainers'[i].image = dContainers[i].image
           /\ dContainers'[i].reference = dContainers[i].reference
    BY <1>5, StoppedTyped
       DEF Docker!DaemonChanges, Docker!Stop, Docker!Remove, Docker!Retag, Docker!TypeOK
  <2>3. QED
    BY <2>1, <2>2 DEF ImagesInv
<1>6. QED
  BY <1>1, <1>2, <1>3, <1>4, <1>5 DEF Docker!Next, Docker!Collect

LEMMA VersionStep ==
    ASSUME Docker!TypeOK, DockerStage, ImagesInv, [Docker!Next]_(Docker!vars),
           NEW i \in DOMAIN dNodes', dNodes'[i].version # Docker!Known(i)
    PROVE  Docker!VersionFromOwnImage(i)
<1>1. CASE Docker!List
  <2> DEFINE image == Docker!ListedImage(dListed'[i])
  <2>1. dNodes'[i].version = Docker!Version(image)
    BY <1>1 DEF Docker!List, Docker!FromSummary
  <2>2. Docker!Known(i) = None
    BY <1>1 DEF Docker!List, DockerStage, Docker!Known
  <2>3. dNodes'[i].version = image
    BY <2>1, <2>2 DEF Docker!Version
  <2>4. QED
    BY <2>3 DEF Docker!ListedImage, Docker!VersionFromOwnImage
<1>2. CASE Docker!Inspect
  <2>1. /\ i = dCurrent /\ i \in DOMAIN dNodes
        /\ dNodes'[i] = Docker!WithInspect(dNodes[i], dContainers[i])
        /\ dNodes[i] \in Docker!NodeType
    BY <1>2 DEF Docker!Inspect, DockerStage, Docker!TypeOK, Docker!Known
  <2>2. dNodes'[i].version = Docker!OrElse(dNodes[i].version, Docker!Version(dContainers[i].reference))
    BY <2>1 DEF Docker!WithInspect, Docker!NodeType
  <2>3. dNodes'[i].version = dContainers[i].reference
    BY <2>1, <2>2 DEF Docker!OrElse, Docker!Version, Docker!Known
  <2>4. dContainers[i].reference = dListed'[i].reference
    BY <1>2, <2>1 DEF Docker!Inspect, Docker!TypeOK, ImagesInv
  <2>5. QED
    BY <2>3, <2>4 DEF Docker!VersionFromOwnImage
<1>3. CASE Docker!InspectImage
  <2> DEFINE image == Docker!Denoted(dNodes[i].image)
             tagged == Docker!RepoVersions(image)
  <2>1. /\ i = dCurrent /\ i \in DOMAIN dNodes
        /\ dNodes'[i] = Docker!WithImage(dNodes[i], tagged, image)
        /\ dNodes[i] \in Docker!NodeType /\ dListed[i] \in Docker!Containers
        /\ dListed' = dListed
    BY <1>3 DEF Docker!InspectImage, DockerStage, Docker!TypeOK, Docker!Known, Docker!history
  <2>2. dNodes'[i].version \in tagged
    <3> HIDE DEF tagged
    <3>1. tagged # {} => (CHOOSE t \in tagged : TRUE) \in tagged
      OBVIOUS
    <3>2. dNodes'[i].version
            = IF dNodes[i].version = None /\ tagged # {} THEN CHOOSE t \in tagged : TRUE
              ELSE dNodes[i].version
      BY <2>1 DEF Docker!WithImage, Docker!NodeType
    <3>3. QED
      BY <2>1, <3>1, <3>2 DEF Docker!Known
  <2>3. dNodes'[i].version \in References /\ dTags[dNodes'[i].version] = image
    BY <2>2, DockerConstantsHold DEF Docker!RepoVersions, Docker!DockerConstants
  <2>4. dNodes[i].image \in {dListed[i].reference, dListed[i].image}
    BY <2>1 DEF ImagesInv
  <2>5. image \in {dListed[i].image, dTags[dNodes[i].image]}
        /\ (image # dListed[i].image => dNodes[i].image = dListed[i].reference)
    BY <2>1, <2>4, DockerConstantsHold
       DEF Docker!Denoted, Docker!Containers, Docker!DockerConstants
  <2>6. QED
    BY <2>1, <2>3, <2>5 DEF Docker!VersionFromOwnImage
<1>4. CASE UNCHANGED dNodes
  BY <1>4 DEF Docker!Known
<1>5. QED
  BY <1>1, <1>2, <1>3, <1>4
     DEF Docker!Next, Docker!Collect, Docker!DaemonChanges, Docker!ListFails, Docker!TakeNode,
         Docker!ListDone, Docker!InspectFails, Docker!InspectImageFails, Docker!Ended,
         Docker!Stop, Docker!Remove, Docker!Retag, Docker!vars, Docker!collection

(***************************************************************************)
(* The Docker extractor in a collection.                                   *)
(***************************************************************************)

DockerInv == Docker!TypeOK /\ DockerStage /\ ImagesInv

LEMMA DockerInvariant == Spec => []DockerInv
<1>1. Init => DockerInv
  BY DockerTypeInit, ImagesInit DEF Init, DockerInv, DockerStage, Docker!Init
<1>2. DockerInv /\ [Next]_vars => DockerInv'
  BY DockerSteps, DockerTypeStep, ImagesStep DEF DockerInv
<1>3. QED
  BY <1>1, <1>2, PTL DEF Spec

(* Hashes and versions in a Docker report are of the container's own image. *)
THEOREM ImagesKeptApart == Spec => ImageOfOwnContainer
<1>1. DockerInv => Docker!HashOfOwnImage
  BY DEF DockerInv, ImagesInv, Docker!HashOfOwnImage
<1>2. DockerInv /\ [Next]_vars =>
        [\A i \in DOMAIN dNodes' : dNodes'[i].version # Docker!Known(i)
            => Docker!VersionFromOwnImage(i)]_(Docker!vars)
  BY DockerSteps, VersionStep DEF DockerInv
<1>3. QED
  BY <1>1, <1>2, DockerInvariant, PTL DEF Spec, ImageOfOwnContainer, Docker!VersionOfOwnImage

(* The Docker extractor keeps the promise of a TopologyExtractor. *)
THEOREM DockerAnswers == Spec => Docker!AnswersAsListed
<1>1. Init => Docker!Extraction!Init
  BY DockerAbstractInit DEF Init
<1>2. DockerInv /\ [Next]_vars => [Docker!Extraction!Next]_(Docker!Extraction!vars)
  BY DockerSteps, DockerAbstractStep DEF DockerInv
<1>3. QED
  BY <1>1, <1>2, DockerInvariant, PTL DEF Spec, Docker!AnswersAsListed, Docker!Extraction!Spec

(***************************************************************************)
(* The Kubernetes extractor.                                               *)
(***************************************************************************)

LEMMA KubernetesConstantsHold == Kubernetes!KubernetesConstants
BY ConstantsAssumption

(* Which lists there are at each point, of which clusters. *)
ListsInv ==
    /\ kObjects \in Clusters
    /\ kPc \in Kubernetes!Kinds \cup {"map", "done", "failed"}
    /\ kPc = "Pod" => kListed = <<>>
    /\ kPc = "Service" => DOMAIN kListed = {"Pod"}
    /\ kPc = "Ingress" => DOMAIN kListed = {"Pod", "Service"}
    /\ kPc \in {"map", "done"} => DOMAIN kListed = Kubernetes!Kinds
    /\ kPc # "done" => kResources = {}
    /\ \A kind \in DOMAIN kListed : \E some \in Clusters : kListed[kind] = some[kind]

LEMMA ListsInit == Kubernetes!Init => ListsInv
BY DEF Kubernetes!Init, ListsInv, Kubernetes!Kinds

LEMMA ListsStep == ListsInv /\ [Kubernetes!Next]_(Kubernetes!vars) => ListsInv'
<1> SUFFICES ASSUME ListsInv, [Kubernetes!Next]_(Kubernetes!vars) PROVE ListsInv'
  OBVIOUS
<1> USE DEF ListsInv, Kubernetes!Kinds
<1>1. CASE Kubernetes!List
  <2>1. \A kind \in DOMAIN kListed' : \E some \in Clusters : kListed'[kind] = some[kind]
    BY <1>1 DEF Kubernetes!List
  <2>2. QED
    BY <1>1, <2>1 DEF Kubernetes!List, Kubernetes!After, Kubernetes!cluster
<1>2. CASE Kubernetes!ListFails \/ Kubernetes!Map \/ Kubernetes!Change
  BY <1>2 DEF Kubernetes!ListFails, Kubernetes!Map, Kubernetes!Change, Kubernetes!cluster
<1>3. CASE Kubernetes!Ended \/ UNCHANGED Kubernetes!vars
  BY <1>3 DEF Kubernetes!Ended, Kubernetes!vars, Kubernetes!cluster
<1>4. QED
  BY <1>1, <1>2, <1>3 DEF Kubernetes!Next, Kubernetes!Collect

Object(r) == <<r.kind, r.namespace, r.name>>

(* The resources made of three lists are about the objects to be reported of each. *)
LEMMA NodesOfLists ==
    ASSUME NEW lists, \A pod \in lists["Pod"] : pod.phase \in Kubernetes!PodPhases
    PROVE  {Object(r) : r \in Kubernetes!Nodes(lists)}
             = UNION {Kubernetes!Reportable(kind, lists[kind]) : kind \in Kubernetes!Kinds}
<1> DEFINE Some(kind) == Kubernetes!Included(kind, lists[kind])
<1>1. \A o : /\ Object(Kubernetes!PodNode(o)) = <<"Pod", o.namespace, o.name>>
             /\ Object(Kubernetes!ServiceNode(o)) = <<"Service", o.namespace, o.name>>
             /\ Object(Kubernetes!IngressNode(o)) = <<"Ingress", o.namespace, o.name>>
  BY DEF Object, Kubernetes!PodNode, Kubernetes!ServiceNode, Kubernetes!IngressNode
<1>2. \A kind \in Kubernetes!Kinds :
        Kubernetes!Reportable(kind, lists[kind]) = {<<kind, o.namespace, o.name>> : o \in Some(kind)}
  BY DEF Kubernetes!Kinds, Kubernetes!Reportable, Kubernetes!Identity, Kubernetes!Included,
         Kubernetes!IsIncluded, Kubernetes!IsActivePod, Kubernetes!PodPhases
<1>3. {Object(r) : r \in Kubernetes!Nodes(lists)}
        = {<<"Pod", o.namespace, o.name>> : o \in Some("Pod")}
          \cup {<<"Service", o.namespace, o.name>> : o \in Some("Service")}
          \cup {<<"Ingress", o.namespace, o.name>> : o \in Some("Ingress")}
  <2> DEFINE Pods == {Kubernetes!PodNode(o) : o \in Some("Pod")}
             Services == {Kubernetes!ServiceNode(o) : o \in Some("Service")}
             Ingresses == {Kubernetes!IngressNode(o) : o \in Some("Ingress")}
  <2>1. /\ {Object(r) : r \in Pods} = {<<"Pod", o.namespace, o.name>> : o \in Some("Pod")}
        /\ {Object(r) : r \in Services}
             = {<<"Service", o.namespace, o.name>> : o \in Some("Service")}
        /\ {Object(r) : r \in Ingresses}
             = {<<"Ingress", o.namespace, o.name>> : o \in Some("Ingress")}
    <3> HIDE DEF Some
    <3>1. QED
      BY <1>1
  <2>2. Kubernetes!Nodes(lists) = Pods \cup Services \cup Ingresses
    BY DEF Kubernetes!Nodes
  <2> HIDE DEF Pods, Services, Ingresses, Some
  <2>3. QED
    BY <2>1, <2>2
<1>4. QED
  BY <1>2, <1>3 DEF Kubernetes!Kinds

LEMMA KubernetesItems ==
    ASSUME NEW some \in Clusters
    PROVE  [kind \in Kubernetes!Kinds |-> Kubernetes!Reportable(kind, some[kind])]
             \in [Kubernetes!Kinds ->
                    SUBSET UNION {Kubernetes!Reportable(kind, any[kind]) :
                                    kind \in Kubernetes!Kinds, any \in Clusters}]
OBVIOUS

LEMMA KubernetesAbstractInit == Kubernetes!Init => Kubernetes!Extraction!Init
BY KubernetesItems DEF Kubernetes!Init, Kubernetes!Extraction!Init

LEMMA KubernetesAbstractStep ==
    ListsInv /\ [Kubernetes!Next]_(Kubernetes!vars)
        => [Kubernetes!Extraction!Next]_(Kubernetes!Extraction!vars)
<1> SUFFICES ASSUME ListsInv, [Kubernetes!Next]_(Kubernetes!vars)
             PROVE  [Kubernetes!Extraction!Next]_(Kubernetes!Extraction!vars)
  OBVIOUS
<1>1. CASE Kubernetes!List
  <2>1. kPc \notin DOMAIN kListed /\ kPc \in Kubernetes!Kinds
    BY <1>1 DEF Kubernetes!List, ListsInv, Kubernetes!Kinds
  <2>2. kPc' \notin {"done", "failed"}
    BY <1>1 DEF Kubernetes!List, Kubernetes!Kinds, Kubernetes!After
  <2>3. Kubernetes!Extraction!See(kPc)
    BY <1>1, <2>1, <2>2 DEF Kubernetes!List, Kubernetes!Extraction!See, Kubernetes!cluster, Kubernetes!Kinds
  <2>4. QED
    BY <2>1, <2>3 DEF Kubernetes!Extraction!Next, Kubernetes!Extraction!Extract
<1>2. CASE Kubernetes!ListFails
  <2>1. Kubernetes!Extraction!Fail
    BY <1>2 DEF Kubernetes!ListFails, Kubernetes!Extraction!Fail, Kubernetes!cluster, ListsInv,
       Kubernetes!Kinds
  <2>2. QED
    BY <2>1 DEF Kubernetes!Extraction!Next, Kubernetes!Extraction!Extract
<1>3. CASE Kubernetes!Map
  <2>1. \A pod \in kListed["Pod"] : pod.phase \in Kubernetes!PodPhases
    BY <1>3, KubernetesConstantsHold
       DEF Kubernetes!Map, ListsInv, Kubernetes!Kinds, Kubernetes!KubernetesConstants,
           Kubernetes!PodOk
  <2>2. {Object(r) : r \in kResources'}
           = UNION {Kubernetes!Reportable(kind, kListed[kind]) : kind \in Kubernetes!Kinds}
    BY <1>3, <2>1, NodesOfLists DEF Kubernetes!Map
  <2>3. Kubernetes!Extraction!Succeed
    BY <1>3, <2>2
       DEF Object, Kubernetes!Map, Kubernetes!Extraction!Succeed, Kubernetes!cluster, ListsInv
  <2>4. QED
    BY <2>3 DEF Kubernetes!Extraction!Next, Kubernetes!Extraction!Extract
<1>4. CASE Kubernetes!Change
  <2>1. Kubernetes!Extraction!Change
    BY <1>4, KubernetesItems DEF Kubernetes!Change, Kubernetes!Extraction!Change
  <2>2. QED
    BY <2>1 DEF Kubernetes!Extraction!Next
<1>5. CASE Kubernetes!Ended \/ UNCHANGED Kubernetes!vars
  BY <1>5 DEF Kubernetes!Ended, Kubernetes!vars, Kubernetes!cluster, Kubernetes!Extraction!vars
<1>6. QED
  BY <1>1, <1>2, <1>3, <1>4, <1>5 DEF Kubernetes!Next, Kubernetes!Collect

LEMMA KubernetesInvariant == Spec => []ListsInv
<1>1. Init => ListsInv
  BY ListsInit DEF Init
<1>2. ListsInv /\ [Next]_vars => ListsInv'
  BY KubernetesSteps, ListsStep
<1>3. QED
  BY <1>1, <1>2, PTL DEF Spec

(* The Kubernetes extractor keeps the promise of a TopologyExtractor. *)
THEOREM KubernetesAnswers == Spec => Kubernetes!AnswersAsListed
<1>1. Init => Kubernetes!Extraction!Init
  BY KubernetesAbstractInit DEF Init
<1>2. ListsInv /\ [Next]_vars => [Kubernetes!Extraction!Next]_(Kubernetes!Extraction!vars)
  BY KubernetesSteps, KubernetesAbstractStep
<1>3. QED
  BY <1>1, <1>2, KubernetesInvariant, PTL
     DEF Spec, Kubernetes!AnswersAsListed, Kubernetes!Extraction!Spec

(* What is reported of a container is about one container of one pod of the list. *)
ReportsInv ==
    /\ kPc = "done" => kResources = Kubernetes!Nodes(kListed)
    /\ ListsInv

LEMMA ReportsStep == ReportsInv /\ [Kubernetes!Next]_(Kubernetes!vars) => ReportsInv'
<1> SUFFICES ASSUME ReportsInv, [Kubernetes!Next]_(Kubernetes!vars) PROVE ReportsInv'
  OBVIOUS
<1>1. ListsInv'
  BY ListsStep DEF ReportsInv
<1>2. kPc' = "done" => kResources' = Kubernetes!Nodes(kListed')
  BY DEF ReportsInv, ListsInv, Kubernetes!Next, Kubernetes!Collect, Kubernetes!List, Kubernetes!ListFails,
     Kubernetes!Map, Kubernetes!Change, Kubernetes!Ended, Kubernetes!vars, Kubernetes!After,
     Kubernetes!Kinds
<1>3. QED
  BY <1>1, <1>2 DEF ReportsInv

LEMMA PodOfList ==
    ASSUME ReportsInv, NEW r \in kResources, r.kind = "Pod"
    PROVE  \E some \in Clusters : \E q \in some["Pod"] :
               kListed["Pod"] = some["Pod"] /\ r = Kubernetes!PodNode(q)
<1>1. PICK q \in kListed["Pod"] : r = Kubernetes!PodNode(q)
  <2>1. kResources = Kubernetes!Nodes(kListed)
    BY DEF ReportsInv, ListsInv
  <2>2. r \notin {Kubernetes!ServiceNode(o) : o \in Kubernetes!Included("Service", kListed["Service"])}
    BY DEF Kubernetes!ServiceNode
  <2>3. r \notin {Kubernetes!IngressNode(o) : o \in Kubernetes!Included("Ingress", kListed["Ingress"])}
    <3>1. \A o : Kubernetes!IngressNode(o).kind = "Ingress"
      BY DEF Kubernetes!IngressNode
    <3>2. QED
      BY <3>1
  <2>4. QED
    BY <2>1, <2>2, <2>3 DEF Kubernetes!Nodes, Kubernetes!Included
<1>2. PICK some \in Clusters : kListed["Pod"] = some["Pod"]
  BY DEF ReportsInv, ListsInv, Kubernetes!Kinds
<1>3. QED
  BY <1>1, <1>2

LEMMA ReportedOne ==
    ASSUME ReportsInv, NEW r \in kResources, r.kind = "Pod", NEW i \in DOMAIN r.containers,
           NEW p \in Kubernetes!Reported(r, i)
    PROVE  /\ r.containers[i] = Kubernetes!ContainerNode(p.pod, i)
           /\ p.container = p.pod.containers[i] /\ i \in DOMAIN p.pod.containers
           /\ Kubernetes!AtMostOne(p.container.user) /\ Kubernetes!AtMostOne(p.pod.user)
           /\ Kubernetes!Named(p.pod.statuses)
<1>1. PICK some \in Clusters : \E pod \in some["Pod"] :
               kListed["Pod"] = some["Pod"] /\ r = Kubernetes!PodNode(pod)
  BY PodOfList
<1>2. PICK q \in some["Pod"] : kListed["Pod"] = some["Pod"] /\ r = Kubernetes!PodNode(q)
  BY <1>1
<1>3. /\ DOMAIN r.containers = DOMAIN q.containers
      /\ r.containers[i] = Kubernetes!ContainerNode(q, i)
      /\ r.namespace = q.namespace /\ r.name = q.name
  BY <1>2 DEF Kubernetes!PodNode
<1>4. r.containers[i].name = q.containers[i].name
  BY <1>3 DEF Kubernetes!ContainerNode
<1>5. /\ p.pod \in kListed["Pod"] /\ p.pod.namespace = r.namespace /\ p.pod.name = r.name
      /\ p.container \in {p.pod.containers[j] : j \in DOMAIN p.pod.containers}
      /\ p.container.name = r.containers[i].name
  BY DEF Kubernetes!Reported
<1>6. p.pod = q
  BY <1>2, <1>3, <1>5, KubernetesConstantsHold DEF Kubernetes!KubernetesConstants
<1>7. /\ Kubernetes!Named(q.containers) /\ Kubernetes!Named(q.statuses)
      /\ Kubernetes!AtMostOne(q.user)
      /\ \A j \in DOMAIN q.containers : Kubernetes!AtMostOne(q.containers[j].user)
  BY <1>2, KubernetesConstantsHold
     DEF Kubernetes!KubernetesConstants, Kubernetes!PodOk, Kubernetes!ContainerOk
<1>8. PICK j \in DOMAIN q.containers : p.container = q.containers[j]
  BY <1>5, <1>6
<1>9. j = i
  BY <1>3, <1>4, <1>5, <1>7, <1>8 DEF Kubernetes!Named
<1>10. QED
  BY <1>3, <1>6, <1>7, <1>8, <1>9

LEMMA StatusFollows == ReportsInv => StatusOfOwnContainer
<1> SUFFICES ASSUME ReportsInv, NEW r \in kResources, r.kind = "Pod",
                    NEW i \in DOMAIN r.containers, NEW p \in Kubernetes!Reported(r, i)
             PROVE  LET n == r.containers[i]
                        name == p.container.name
                    IN  IF \E s \in Kubernetes!Statuses(p.pod) : s.name = name
                        THEN <<name, n.id, n.hash, n.state>>
                                 \in {<<s.name, s.id, s.hash, {s.state}>> :
                                         s \in Kubernetes!Statuses(p.pod)}
                        ELSE n.id = {} /\ n.hash = {} /\ n.state = {}
  BY DEF StatusOfOwnContainer, Kubernetes!StatusOfOwnContainer
<1> DEFINE name == p.container.name
           own == Kubernetes!OwnStatus(p.pod, i)
           n == r.containers[i]
<1>1. /\ n.id = UNION {s.id : s \in own} /\ n.hash = UNION {s.hash : s \in own}
      /\ n.state = {s.state : s \in own}
  <2>1. n = Kubernetes!ContainerNode(p.pod, i)
    BY ReportedOne
  <2> HIDE DEF n
  <2>2. QED
    BY <2>1 DEF Kubernetes!ContainerNode
<1>2. own = {s \in Kubernetes!Statuses(p.pod) : s.name = name}
  BY ReportedOne DEF Kubernetes!OwnStatus, Kubernetes!Statuses
<1>3. \A s, t \in own : s = t
  BY <1>2, ReportedOne DEF Kubernetes!Named, Kubernetes!Statuses
<1> HIDE DEF own, n, name
<1>4. CASE \E s \in Kubernetes!Statuses(p.pod) : s.name = name
  <2>1. PICK s \in Kubernetes!Statuses(p.pod) : s.name = name
    BY <1>4
  <2>2. own = {s}
    BY <1>2, <1>3, <2>1
  <2>3. n.id = s.id /\ n.hash = s.hash /\ n.state = {s.state}
    BY <1>1, <2>2
  <2>4. QED
    BY <1>4, <2>1, <2>3 DEF n, name
<1>5. CASE ~\E s \in Kubernetes!Statuses(p.pod) : s.name = name
  <2>1. own = {}
    BY <1>2, <1>5
  <2>2. QED
    BY <1>1, <1>5, <2>1 DEF n, name
<1>6. QED
  BY <1>4, <1>5

LEMMA RootFollows == ReportsInv => RootAsRun
<1> SUFFICES ASSUME ReportsInv, NEW r \in kResources, r.kind = "Pod",
                    NEW i \in DOMAIN r.containers, NEW p \in Kubernetes!Reported(r, i)
             PROVE  LET user == Kubernetes!OrElse(p.container.user, p.pod.user)
                        nonRoot == Kubernetes!OrElse(p.container.nonRoot, p.pod.nonRoot)
                        root == r.containers[i].root
                    IN  /\ user # {} => root = {0 \in user}
                        /\ user = {} /\ nonRoot = {TRUE} => root = {FALSE}
                        /\ user = {} /\ nonRoot = {} => root = {}
  BY DEF RootAsRun, Kubernetes!RootAsRun
<1> DEFINE n == r.containers[i]
<1>1. n.root = Kubernetes!RunAsRoot(p.pod, p.container)
  <2>1. n = Kubernetes!ContainerNode(p.pod, i) /\ p.container = p.pod.containers[i]
    BY ReportedOne
  <2> HIDE DEF n
  <2>2. QED
    BY <2>1 DEF Kubernetes!ContainerNode
<1>2. ASSUME NEW users, Kubernetes!AtMostOne(users), users # {}
      PROVE  Kubernetes!IsZero(users) = {0 \in users}
  <2>0. PICK user \in users : TRUE
    BY <1>2
  <2>1. users = {user}
    BY <1>2 DEF Kubernetes!AtMostOne
  <2>2. Kubernetes!IsZero(users) = {user = 0}
    BY <2>1 DEF Kubernetes!IsZero
  <2>3. (user = 0) = (0 \in users)
    BY <2>1
  <2>4. QED
    BY <2>2, <2>3
<1>3. Kubernetes!IsZero({}) = {} /\ Kubernetes!Not({}) = {}
  BY DEF Kubernetes!IsZero, Kubernetes!Not
<1>4. Kubernetes!Not({TRUE}) = {FALSE}
  BY Zenon DEF Kubernetes!Not
<1>5. Kubernetes!AtMostOne(p.container.user) /\ Kubernetes!AtMostOne(p.pod.user)
  BY ReportedOne
<1> DEFINE user == Kubernetes!OrElse(p.container.user, p.pod.user)
           nonRoot == Kubernetes!OrElse(p.container.nonRoot, p.pod.nonRoot)
<1>6. ASSUME user # {} PROVE n.root = {0 \in user}
  <2>1. Kubernetes!AtMostOne(user) /\ Kubernetes!IsZero(user) = {0 \in user}
    BY <1>2, <1>5, <1>6 DEF Kubernetes!OrElse
  <2>2. n.root = Kubernetes!IsZero(user)
    <3>1. CASE p.container.user # {}
      <4>1. Kubernetes!IsZero(p.container.user) # {}
        BY <1>2, <1>5, <3>1
      <4>2. QED
        BY <1>1, <3>1, <4>1 DEF Kubernetes!RunAsRoot, Kubernetes!OrElse
    <3>2. CASE p.container.user = {}
      <4>1. Kubernetes!IsZero(p.pod.user) # {} /\ user = p.pod.user
        BY <1>2, <1>5, <1>6, <3>2 DEF Kubernetes!OrElse
      <4>2. QED
        BY <1>1, <1>3, <3>2, <4>1 DEF Kubernetes!RunAsRoot, Kubernetes!OrElse
    <3>3. QED
      BY <3>1, <3>2
  <2>3. QED
    BY <2>1, <2>2
<1>7. ASSUME user = {}, nonRoot = {TRUE} PROVE n.root = {FALSE}
  <2>1. p.container.user = {} /\ p.pod.user = {}
    BY <1>7 DEF Kubernetes!OrElse
  <2>2. n.root = Kubernetes!Not(nonRoot)
    BY <1>1, <1>3, <1>4, <1>7, <2>1 DEF Kubernetes!RunAsRoot, Kubernetes!OrElse
  <2>3. QED
    BY <1>4, <1>7, <2>2
<1>8. ASSUME user = {}, nonRoot = {} PROVE n.root = {}
  <2>1. p.container.user = {} /\ p.pod.user = {}
    BY <1>8 DEF Kubernetes!OrElse
  <2>2. n.root = Kubernetes!Not(nonRoot)
    BY <1>1, <1>3, <1>8, <2>1 DEF Kubernetes!RunAsRoot, Kubernetes!OrElse
  <2>3. QED
    BY <1>3, <1>8, <2>2
<1>9. QED
  BY <1>6, <1>7, <1>8

(***************************************************************************)
(* Nothing of Kubernetes is reported twice.                                *)
(***************************************************************************)

Made(kind, o) ==
    IF kind = "Pod" THEN Kubernetes!PodNode(o)
    ELSE IF kind = "Service" THEN Kubernetes!ServiceNode(o) ELSE Kubernetes!IngressNode(o)

LEMMA MadeOf ==
    \A kind \in Kubernetes!Kinds : \A o : Object(Made(kind, o)) = <<kind, o.namespace, o.name>>
BY DEF Object, Made, Kubernetes!Kinds, Kubernetes!PodNode, Kubernetes!ServiceNode,
       Kubernetes!IngressNode

LEMMA ObjectOnce ==
    ASSUME ReportsInv, NEW r \in kResources, NEW s \in kResources, Object(r) = Object(s)
    PROVE  r = s
<1>1. kResources = Kubernetes!Nodes(kListed)
  BY DEF ReportsInv, ListsInv
<1>2. \A t \in kResources : \E kind \in Kubernetes!Kinds : \E o \in kListed[kind] : t = Made(kind, o)
  BY <1>1 DEF Kubernetes!Nodes, Kubernetes!Included, Made, Kubernetes!Kinds
<1>3. PICK kind \in Kubernetes!Kinds : \E o \in kListed[kind] : r = Made(kind, o)
  BY <1>2
<1>4. PICK o \in kListed[kind] : r = Made(kind, o)
  BY <1>3
<1>5. PICK other \in Kubernetes!Kinds : \E q \in kListed[other] : s = Made(other, q)
  BY <1>2
<1>6. PICK q \in kListed[other] : s = Made(other, q)
  BY <1>5
<1>7. kind = other /\ o.namespace = q.namespace /\ o.name = q.name
  <2>1. <<kind, o.namespace, o.name>> = <<other, q.namespace, q.name>>
    BY <1>4, <1>6, MadeOf
  <2>2. QED
    BY <2>1
<1>8. kind \in DOMAIN kListed
  BY <1>3 DEF ReportsInv, ListsInv
<1>9. PICK some \in Clusters : kListed[kind] = some[kind]
  BY <1>8 DEF ReportsInv, ListsInv
<1>10. o = q
  BY <1>4, <1>6, <1>7, <1>9, KubernetesConstantsHold
     DEF Kubernetes!KubernetesConstants, Kubernetes!Kinds
<1>11. QED
  BY <1>4, <1>6, <1>7, <1>10

(***************************************************************************)
(* What a container is reported with.                                      *)
(***************************************************************************)

LEMMA FlagsTyped ==
    /\ \A users : Kubernetes!AtMostOne(users) => Kubernetes!IsFlag(Kubernetes!IsZero(users))
    /\ \A flags : Kubernetes!IsFlag(flags) => Kubernetes!IsFlag(Kubernetes!Not(flags))
    /\ \A one, other : Kubernetes!IsFlag(one) /\ Kubernetes!IsFlag(other)
                          => Kubernetes!IsFlag(Kubernetes!OrElse(one, other))
<1>1. ASSUME NEW users, Kubernetes!AtMostOne(users) PROVE Kubernetes!IsFlag(Kubernetes!IsZero(users))
  BY <1>1, Zenon DEF Kubernetes!AtMostOne, Kubernetes!IsFlag, Kubernetes!IsZero
<1>2. ASSUME NEW flags, Kubernetes!IsFlag(flags) PROVE Kubernetes!IsFlag(Kubernetes!Not(flags))
  BY <1>2, Zenon DEF Kubernetes!AtMostOne, Kubernetes!IsFlag, Kubernetes!Not
<1>3. QED
  BY <1>1, <1>2 DEF Kubernetes!OrElse

(* The privileges of a container. *)
LEMMA PrivilegesTyped ==
    ASSUME NEW pod, Kubernetes!PodOk(pod), NEW i \in DOMAIN pod.containers
    PROVE  /\ Kubernetes!IsFlag(Kubernetes!Privileged(pod, pod.containers[i]))
           /\ Kubernetes!IsFlag(Kubernetes!RunAsRoot(pod, pod.containers[i]))
<1>1. /\ Kubernetes!AtMostOne(pod.user) /\ Kubernetes!IsFlag(pod.nonRoot)
      /\ Kubernetes!ContainerOk(pod.containers[i])
  BY DEF Kubernetes!PodOk
<1>2. QED
  BY <1>1, FlagsTyped DEF Kubernetes!ContainerOk, Kubernetes!Privileged, Kubernetes!RunAsRoot

(* A container has at most one status, and two of them never the same one. *)
LEMMA StatusesTyped ==
    ASSUME NEW pod, Kubernetes!PodOk(pod), NEW i \in DOMAIN pod.containers,
           NEW j \in DOMAIN pod.containers
    PROVE  LET c == Kubernetes!ContainerNode(pod, i)
               d == Kubernetes!ContainerNode(pod, j)
           IN  /\ c.id \cap d.id # {} => i = j
               /\ Kubernetes!AtMostOne(c.id) /\ Kubernetes!AtMostOne(c.hash)
               /\ Kubernetes!AtMostOne(c.state)
<1> DEFINE own == Kubernetes!OwnStatus(pod, i)
           others == Kubernetes!OwnStatus(pod, j)
           c == Kubernetes!ContainerNode(pod, i)
           d == Kubernetes!ContainerNode(pod, j)
<1>1. \A x, y \in own : x = y
  BY DEF Kubernetes!OwnStatus, Kubernetes!PodOk, Kubernetes!Named
<1>2. \A x \in own : Kubernetes!StatusOk(x)
  BY DEF Kubernetes!OwnStatus, Kubernetes!PodOk
<1>3. ASSUME NEW x \in own, NEW y \in others, NEW id, id \in x.id, id \in y.id PROVE i = j
  <2>1. PICK n \in DOMAIN pod.statuses :
            x = pod.statuses[n] /\ pod.statuses[n].name = pod.containers[i].name
    BY <1>3 DEF Kubernetes!OwnStatus
  <2>2. PICK m \in DOMAIN pod.statuses :
            y = pod.statuses[m] /\ pod.statuses[m].name = pod.containers[j].name
    BY <1>3 DEF Kubernetes!OwnStatus
  <2>3. n = m
    BY <1>3, <2>1, <2>2 DEF Kubernetes!PodOk
  <2>4. QED
    BY <2>1, <2>2, <2>3 DEF Kubernetes!PodOk, Kubernetes!Named
<1>4. /\ c.id = UNION {x.id : x \in own} /\ c.hash = UNION {x.hash : x \in own}
      /\ c.state = {x.state : x \in own} /\ d.id = UNION {x.id : x \in others}
  BY DEF Kubernetes!ContainerNode
<1> HIDE DEF own, others, c, d
<1>5. c.id \cap d.id # {} => i = j
  BY <1>3, <1>4
<1>6. Kubernetes!AtMostOne(c.id)
  <2> SUFFICES ASSUME NEW p \in c.id, NEW q \in c.id PROVE p = q
    BY DEF Kubernetes!AtMostOne
  <2>1. PICK x \in own : p \in x.id
    BY <1>4
  <2>2. PICK y \in own : q \in y.id
    BY <1>4
  <2>3. QED
    BY <1>1, <1>2, <2>1, <2>2 DEF Kubernetes!AtMostOne, Kubernetes!StatusOk
<1>7. Kubernetes!AtMostOne(c.hash)
  <2> SUFFICES ASSUME NEW p \in c.hash, NEW q \in c.hash PROVE p = q
    BY DEF Kubernetes!AtMostOne
  <2>1. PICK x \in own : p \in x.hash
    BY <1>4
  <2>2. PICK y \in own : q \in y.hash
    BY <1>4
  <2>3. QED
    BY <1>1, <1>2, <2>1, <2>2 DEF Kubernetes!AtMostOne, Kubernetes!StatusOk
<1>8. Kubernetes!AtMostOne(c.state)
  BY <1>1, <1>4, Zenon DEF Kubernetes!AtMostOne
<1>9. QED
  BY <1>5, <1>6, <1>7, <1>8 DEF c, d

LEMMA ContainersTyped ==
    ASSUME ReportsInv, NEW r \in kResources, r.kind = "Pod",
           NEW i \in DOMAIN r.containers, NEW j \in DOMAIN r.containers
    PROVE  LET c == r.containers[i]
               d == r.containers[j]
           IN  /\ c.id \cap d.id # {} => i = j
               /\ Kubernetes!AtMostOne(c.id) /\ Kubernetes!AtMostOne(c.hash)
               /\ Kubernetes!AtMostOne(c.state)
               /\ Kubernetes!IsFlag(c.privileged) /\ Kubernetes!IsFlag(c.root)
<1>1. PICK some \in Clusters : \E pod \in some["Pod"] : r = Kubernetes!PodNode(pod)
  BY PodOfList
<1>2. PICK pod \in some["Pod"] : r = Kubernetes!PodNode(pod)
  BY <1>1
<1>3. Kubernetes!PodOk(pod)
  BY <1>2, KubernetesConstantsHold DEF Kubernetes!KubernetesConstants
<1>4. /\ i \in DOMAIN pod.containers /\ j \in DOMAIN pod.containers
      /\ r.containers[i] = Kubernetes!ContainerNode(pod, i)
      /\ r.containers[j] = Kubernetes!ContainerNode(pod, j)
  BY <1>2 DEF Kubernetes!PodNode
<1>5. /\ r.containers[i].privileged = Kubernetes!Privileged(pod, pod.containers[i])
      /\ r.containers[i].root = Kubernetes!RunAsRoot(pod, pod.containers[i])
  BY <1>4 DEF Kubernetes!ContainerNode
<1>6. QED
  BY <1>3, <1>4, <1>5, PrivilegesTyped, StatusesTyped

LEMMA KubernetesTypeFollows ==
    ReportsInv /\ kChanges \in 0..MaxChanges => Kubernetes!TypeOK
<1> SUFFICES ASSUME ReportsInv, kChanges \in 0..MaxChanges PROVE Kubernetes!TypeOK
  OBVIOUS
<1>1. \A r, s \in kResources :
         <<r.kind, r.namespace, r.name>> = <<s.kind, s.namespace, s.name>> => r = s
  BY ObjectOnce DEF Object
<1>2. \A r \in kResources : r.kind = "Pod" => \A i, j \in DOMAIN r.containers :
           LET c == r.containers[i]
               d == r.containers[j]
           IN  /\ c.id \cap d.id # {} => i = j
               /\ Kubernetes!AtMostOne(c.id) /\ Kubernetes!AtMostOne(c.hash)
               /\ Kubernetes!AtMostOne(c.state)
               /\ c.privileged \subseteq BOOLEAN /\ Kubernetes!AtMostOne(c.privileged)
               /\ c.root \subseteq BOOLEAN /\ Kubernetes!AtMostOne(c.root)
  BY ContainersTyped DEF Kubernetes!IsFlag
<1>3. QED
  BY <1>1, <1>2 DEF Kubernetes!TypeOK, ReportsInv, ListsInv

LEMMA ReportsInvariant == Spec => []ReportsInv
<1>1. Init => ReportsInv
  BY ListsInit DEF Init, ReportsInv, Kubernetes!Init
<1>2. ReportsInv /\ [Next]_vars => ReportsInv'
  BY KubernetesSteps, ReportsStep
<1>3. QED
  BY <1>1, <1>2, PTL DEF Spec

(* What is reported of a container's state is from its own status. *)
THEOREM StatusIsOwn == Spec => []StatusOfOwnContainer
BY ReportsInvariant, StatusFollows, PTL

(* Whether a container runs as root is reported as its and its pod's settings decide it,
   wherever they do. *)
THEOREM RootIsResolved == Spec => []RootAsRun
BY ReportsInvariant, RootFollows, PTL

(***************************************************************************)
(* The collection.                                                         *)
(***************************************************************************)

(* Both extractors keep the promise of a TopologyExtractor in a collection that asks
   both. *)
THEOREM BothAnswer == Spec => AnswersAsListed
BY DockerAnswers, KubernetesAnswers, PTL DEF AnswersAsListed

DockerPart ==
    IF dPc = "done" THEN Append(<<>>, [source |-> "Docker", found |-> dNodes]) ELSE <<>>
BothParts ==
    IF kPc = "done" THEN Append(DockerPart, [source |-> "Kubernetes", found |-> kResources])
    ELSE DockerPart

(* What the vector holds at each point. *)
VectorInv ==
    /\ pc = "docker" => dPc = "list" /\ kPc = "Pod" /\ resources = <<>>
    /\ pc = "askDocker" => kPc = "Pod" /\ resources = <<>>
    /\ pc = "kubernetes" => kPc = "Pod" /\ resources = DockerPart
    /\ pc = "askKubernetes" => resources = DockerPart
    /\ pc = "collected" => resources = BothParts

LEMMA VectorStep == VectorInv /\ [Next]_vars => VectorInv'
<1> SUFFICES ASSUME VectorInv, [Next]_vars PROVE VectorInv'
  OBVIOUS
<1> USE DEF VectorInv
<1>1. CASE ConnectDocker \/ DockerSkipped
  BY <1>1 DEF ConnectDocker, DockerSkipped, docker, kubernetes, DockerPart
<1>2. CASE AskDocker
  BY <1>2 DEF AskDocker, agent, kubernetes
<1>3. CASE DockerFound \/ DockerFailed
  <2>1. pc' = "kubernetes" /\ kPc' = "Pod" /\ DockerPart' = DockerPart
    BY <1>3 DEF DockerFound, DockerFailed, docker, kubernetes, DockerPart
  <2>2. resources' = DockerPart
    BY <1>3 DEF DockerFound, DockerFailed, Extended, DockerPart
  <2>3. QED
    BY <2>1, <2>2
<1>4. CASE ConnectKubernetes
  BY <1>4 DEF ConnectKubernetes, docker, kubernetes, DockerPart, BothParts
<1>5. CASE AskKubernetes
  BY <1>5 DEF AskKubernetes, agent, docker, DockerPart
<1>6. CASE KubernetesFound \/ KubernetesFailed
  <2>1. pc' = "collected" /\ DockerPart' = DockerPart /\ BothParts' = BothParts
    BY <1>6 DEF KubernetesFound, KubernetesFailed, docker, kubernetes, DockerPart, BothParts
  <2>2. resources' = BothParts
    BY <1>6 DEF KubernetesFound, KubernetesFailed, Extended, BothParts
  <2>3. QED
    BY <2>1, <2>2
<1>7. CASE ContainersChange
  BY <1>7 DEF ContainersChange, agent, kubernetes
<1>8. CASE ClusterChanges
  BY <1>8 DEF ClusterChanges, agent, docker, DockerPart
<1>9. CASE Collected \/ UNCHANGED vars
  BY <1>9 DEF Collected, vars, agent, docker, kubernetes, DockerPart, BothParts
<1>10. QED
  BY <1>1, <1>2, <1>3, <1>4, <1>5, <1>6, <1>7, <1>8, <1>9 DEF Next, Collect

(***************************************************************************)
(* The daemon that is asked, and the types of the whole.                   *)
(***************************************************************************)

(* The parts of the list of candidates. *)
Own(s) == IF s.home THEN ContextSocket(s.context) ELSE <<>>
Usual(s) == IF s.home THEN <<"orbstack", "desktop">> ELSE <<>>
Chosen(s) == s.host \o Own(s)

LEMMA PartsTyped ==
    ASSUME NEW s \in Settings
    PROVE  /\ s.host \in Seq(Sockets) /\ Own(s) \in Seq(Sockets) /\ Chosen(s) \in Seq(Sockets)
           /\ Usual(s) \in Seq(Sockets) /\ s.runtime \in Seq(Sockets)
           /\ <<"system">> \in Seq(Sockets)
<1>1. \A S : \A x, y \in S : <<>> \in Seq(S) /\ <<x>> \in Seq(S) /\ <<x, y>> \in Seq(S)
  OBVIOUS
<1>2. /\ "custom" \in Sockets /\ "orbstack" \in Sockets /\ "desktop" \in Sockets
      /\ "runtime" \in Sockets /\ "system" \in Sockets
  BY DEF Sockets
<1>3. /\ <<>> \in Seq(Sockets) /\ <<"custom">> \in Seq(Sockets) /\ <<"orbstack">> \in Seq(Sockets)
      /\ <<"desktop">> \in Seq(Sockets) /\ <<"runtime">> \in Seq(Sockets)
      /\ <<"system">> \in Seq(Sockets) /\ <<"orbstack", "desktop">> \in Seq(Sockets)
  BY <1>1, <1>2
<1>4. s.host \in {<<>>, <<"custom">>} /\ s.runtime \in {<<>>, <<"runtime">>}
  BY DEF Settings
<1>5. s.host \in Seq(Sockets) /\ s.runtime \in Seq(Sockets)
  BY <1>3, <1>4
<1>6. Own(s) \in Seq(Sockets) /\ Usual(s) \in Seq(Sockets)
  BY <1>3, Zenon DEF Own, Usual, ContextSocket
<1>7. QED
  BY <1>3, <1>5, <1>6 DEF Chosen

IsPrefixOf(first, list) ==
    \A i \in DOMAIN first : /\ i \in DOMAIN list /\ i \in Nat
                            /\ \A j \in DOMAIN list :
                                   j <= i => j \in DOMAIN first /\ list[j] = first[j]

LEMMA Extending ==
    ASSUME NEW S, NEW first \in Seq(S), NEW others \in Seq(S)
    PROVE  first \o others \in Seq(S) /\ IsPrefixOf(first, first \o others)
BY DEF IsPrefixOf

LEMMA PrefixOfPrefix ==
    ASSUME NEW one, NEW two, NEW three, IsPrefixOf(one, two), IsPrefixOf(two, three)
    PROVE  IsPrefixOf(one, three)
BY DEF IsPrefixOf

(* What the user chose comes first. *)
LEMMA ChosenFirst ==
    ASSUME NEW s \in Settings
    PROVE  Candidates(s) \in Seq(Sockets) /\ IsPrefixOf(Chosen(s), Candidates(s))
<1>1. PICK one : one = Chosen(s) \o Usual(s)
  OBVIOUS
<1>2. PICK two : two = one \o s.runtime
  OBVIOUS
<1>3. PICK three : three = two \o <<"system">>
  OBVIOUS
<1>4. one \in Seq(Sockets) /\ IsPrefixOf(Chosen(s), one)
  BY <1>1, PartsTyped, Extending
<1>5. two \in Seq(Sockets) /\ IsPrefixOf(one, two)
  BY <1>2, <1>4, PartsTyped, Extending
<1>6. three \in Seq(Sockets) /\ IsPrefixOf(two, three)
  BY <1>3, <1>5, PartsTyped, Extending
<1>7. IsPrefixOf(Chosen(s), three)
  BY <1>4, <1>5, <1>6, PrefixOfPrefix
<1>8. Candidates(s) = three
  BY <1>1, <1>2, <1>3, Zenon DEF Candidates, Chosen, Own, Usual
<1>9. QED
  BY <1>6, <1>7, <1>8

LEMMA ChosenReachable ==
    ASSUME NEW s \in Settings, NEW existing, NEW i \in DOMAIN Chosen(s), Chosen(s)[i] \in existing,
           \A j \in DOMAIN Chosen(s) : j < i => Chosen(s)[j] \notin existing,
           NEW first \in Reachable(s, existing), \A j \in Reachable(s, existing) : first <= j
    PROVE  Candidates(s)[first] = Chosen(s)[i]
<1>1. Candidates(s) \in Seq(Sockets) /\ IsPrefixOf(Chosen(s), Candidates(s))
  BY ChosenFirst
<1>2. first \in DOMAIN Candidates(s) /\ first \in Nat /\ Candidates(s)[first] \in existing
  BY <1>1 DEF Reachable, Deduped
<1>3. i \in Reachable(s, existing)
  BY <1>1 DEF Reachable, Deduped, IsPrefixOf
<1>4. i \in Nat /\ first <= i
  BY <1>1, <1>3 DEF IsPrefixOf
<1>5. first \in DOMAIN Chosen(s) /\ Candidates(s)[first] = Chosen(s)[first]
  BY <1>1, <1>2, <1>4 DEF IsPrefixOf
<1>6. first = i
  BY <1>2, <1>4, <1>5
<1>7. QED
  BY <1>5, <1>6

(* What is known of the settings, and of the endpoint and the bounds, at each point. *)
CollectionInv ==
    /\ pc \in {"docker", "askDocker", "kubernetes", "askKubernetes", "collected"}
    /\ settings \in Settings /\ sockets \subseteq Sockets
    /\ endpoint \in Sockets \cup {"none"}
    /\ dPc # "list" \/ pc = "askDocker" => endpoint # "none"
    /\ pc = "docker" => endpoint = "none"
    /\ pc = "askDocker" \/ dPc \in {"list", "done", "failed"}
    /\ kPc # "Pod" \/ pc = "askKubernetes" => settings.kube
    /\ kPc # "Pod" => pc \in {"askKubernetes", "collected"}
    /\ toCome \in 0..MaxChanges /\ kChanges \in 0..MaxChanges
    /\ VectorInv

LEMMA CollectionInit == Init => CollectionInv
<1> SUFFICES ASSUME Init PROVE CollectionInv
  OBVIOUS
<1>1. settings \in Settings /\ sockets \subseteq Sockets /\ toCome \in 0..MaxChanges
  BY ConstantsAssumption DEF Init
<1>2. MaxChanges \in Nat
  BY KubernetesConstantsHold DEF Kubernetes!KubernetesConstants
<1>3. QED
  BY <1>1, <1>2 DEF Init, Docker!Init, Kubernetes!Init, VectorInv, CollectionInv

LEMMA CollectionStep == CollectionInv /\ [Next]_vars => CollectionInv'
<1> SUFFICES ASSUME CollectionInv, [Next]_vars PROVE CollectionInv'
  OBVIOUS
<1> USE DEF CollectionInv
<1>0. VectorInv'
  BY VectorStep
<1>1. CASE ConnectDocker
  <2>1. PICK first \in Reachable(settings, sockets) : endpoint' = Candidates(settings)[first]
    BY <1>1 DEF ConnectDocker
  <2>2. endpoint' \in Sockets
    BY <2>1, ChosenFirst DEF Reachable, Deduped
  <2>3. QED
    BY <1>0, <1>1, <2>2 DEF ConnectDocker, docker, kubernetes, Sockets
<1>2. CASE DockerSkipped
  BY <1>0, <1>2 DEF DockerSkipped, docker, kubernetes, VectorInv
<1>3. CASE AskDocker
  BY <1>0, <1>3 DEF AskDocker, agent, kubernetes
<1>4. CASE DockerFound \/ DockerFailed
  BY <1>0, <1>4 DEF DockerFound, DockerFailed, docker, kubernetes
<1>5. CASE ConnectKubernetes
  BY <1>0, <1>5 DEF ConnectKubernetes, docker, kubernetes
<1>6. CASE AskKubernetes
  <2>1. kChanges' = kChanges
    BY <1>6 DEF AskKubernetes, Kubernetes!Collect, Kubernetes!List, Kubernetes!ListFails,
       Kubernetes!Map, Kubernetes!cluster
  <2>2. QED
    BY <1>0, <1>6, <2>1 DEF AskKubernetes, agent, docker
<1>7. CASE KubernetesFound \/ KubernetesFailed
  BY <1>0, <1>7 DEF KubernetesFound, KubernetesFailed, docker, kubernetes
<1>8. CASE ContainersChange
  <2>1. dPc' = dPc
    BY <1>8 DEF ContainersChange, Docker!DaemonChanges, Docker!Stop, Docker!Remove, Docker!Retag,
       Docker!collection
  <2>2. toCome' \in 0..MaxChanges
    BY <1>8, DockerConstantsHold DEF ContainersChange, Docker!DockerConstants
  <2>3. QED
    BY <1>0, <1>8, <2>1, <2>2 DEF ContainersChange, agent, kubernetes
<1>9. CASE ClusterChanges
  <2>1. kPc' = kPc /\ toCome' \in 0..MaxChanges /\ kChanges' \in 0..MaxChanges
    BY <1>9, KubernetesConstantsHold
       DEF ClusterChanges, Kubernetes!Change, Kubernetes!KubernetesConstants
  <2>2. QED
    BY <1>0, <1>9, <2>1 DEF ClusterChanges, agent, docker
<1>10. CASE Collected \/ UNCHANGED vars
  BY <1>0, <1>10 DEF Collected, vars, agent, docker, kubernetes
<1>11. QED
  BY <1>1, <1>2, <1>3, <1>4, <1>5, <1>6, <1>7, <1>8, <1>9, <1>10 DEF Next, Collect

LEMMA CollectionInvariant == Spec => []CollectionInv
<1>1. Init => CollectionInv
  BY CollectionInit
<1>2. CollectionInv /\ [Next]_vars => CollectionInv'
  BY CollectionStep
<1>3. QED
  BY <1>1, <1>2, PTL DEF Spec

(* An extractor is only asked after a client was made for it, the second when the first
   has ended, and no object is reported twice (collect_runtime_resources). *)
THEOREM TypeCorrect == Spec => []TypeOK
<1>1. CollectionInv => Len(resources) <= 2
  <2>1. \A x, y : /\ Len(<<>>) <= 2 /\ Len(Append(<<>>, x)) <= 2
                 /\ Len(Append(Append(<<>>, x), y)) <= 2
    OBVIOUS
  <2>2. Len(DockerPart) <= 2 /\ Len(BothParts) <= 2
    BY <2>1, Zenon DEF DockerPart, BothParts
  <2>3. CollectionInv => resources \in {<<>>, DockerPart, BothParts}
    BY DEF CollectionInv, VectorInv
  <2>4. QED
    BY <2>1, <2>2, <2>3
<1>2. CollectionInv /\ DockerInv /\ ReportsInv => TypeOK
  BY <1>1, KubernetesTypeFollows DEF CollectionInv, DockerInv, TypeOK
<1>3. QED
  BY <1>2, CollectionInvariant, DockerInvariant, ReportsInvariant, PTL

(* The daemon that is asked is the one the user chose, whenever its socket exists
   (unix_docker_socket_candidates, connect_to_docker_socket). *)
THEOREM ChosenIsAsked == Spec => ChosenDaemonAsked
<1>1. ASSUME CollectionInv, [Next]_vars, endpoint' # endpoint,
             NEW i \in DOMAIN Chosen(settings), Chosen(settings)[i] \in sockets,
             \A j \in DOMAIN Chosen(settings) : j < i => Chosen(settings)[j] \notin sockets
      PROVE  endpoint' = Chosen(settings)[i]
  <2>1. ConnectDocker
    BY <1>1 DEF Next, Collect, ContainersChange, ClusterChanges, Collected, DockerSkipped,
       AskDocker, DockerFound, DockerFailed, ConnectKubernetes, AskKubernetes, KubernetesFound,
       KubernetesFailed, vars, agent
  <2>2. PICK first \in Reachable(settings, sockets) :
            /\ \A j \in Reachable(settings, sockets) : first <= j
            /\ endpoint' = Candidates(settings)[first]
    BY <2>1 DEF ConnectDocker
  <2>3. QED
    BY <1>1, <2>2, ChosenReachable DEF CollectionInv
<1>2. CollectionInv /\ [Next]_vars =>
        [endpoint' # endpoint =>
            LET chosen == settings.host \o (IF settings.home THEN ContextSocket(settings.context)
                                            ELSE <<>>)
                IsFirst(i) == /\ chosen[i] \in sockets
                              /\ \A j \in DOMAIN chosen : j < i => chosen[j] \notin sockets
            IN  \A i \in DOMAIN chosen : IsFirst(i) => endpoint' = chosen[i]]_vars
  BY <1>1 DEF Chosen, Own
<1>3. QED
  BY <1>2, CollectionInvariant, PTL DEF Spec, ChosenDaemonAsked

(* Neither source costs the other its report, whatever becomes of it. *)
THEOREM NeitherCosts == Spec => []SourcesIndependent
<1>1. Init => VectorInv
  BY DEF Init, Docker!Init, Kubernetes!Init, VectorInv
<1>2. VectorInv => SourcesIndependent
  BY DEF VectorInv, SourcesIndependent, FoundBy, DockerPart, BothParts
<1>3. QED
  BY <1>1, <1>2, VectorStep, PTL DEF Spec

(***************************************************************************)
(* How far a collection is from its end.  No container is asked about      *)
(* twice and no list is asked for again, so with finitely many containers  *)
(* a collection has finitely many steps, whatever is answered.             *)
(***************************************************************************)

DockerLeft ==
    IF dPc = "list" THEN 3 * Cardinality(Ids) + 2
    ELSE IF dPc = "next" THEN 3 * Cardinality(dTodo) + 1
    ELSE IF dPc = "inspect" THEN 3 * Cardinality(dTodo) + 3
    ELSE IF dPc = "image" THEN 3 * Cardinality(dTodo) + 2
    ELSE 0

KubernetesLeft ==
    IF kPc = "Pod" THEN 4
    ELSE IF kPc = "Service" THEN 3
    ELSE IF kPc = "Ingress" THEN 2
    ELSE IF kPc = "map" THEN 1
    ELSE 0

(* The extractors that have not been left yet, with their connection *)
PhasesLeft ==
    IF pc = "docker" THEN 4
    ELSE IF pc = "askDocker" THEN 3
    ELSE IF pc = "kubernetes" THEN 2
    ELSE IF pc = "askKubernetes" THEN 1
    ELSE 0

Left == PhasesLeft + DockerLeft + KubernetesLeft

(* Only what was listed is asked about. *)
TodoInv == dTodo \subseteq Ids

LEMMA TodoStep == Docker!TypeOK /\ TodoInv /\ [Next]_vars => TodoInv'
<1> SUFFICES ASSUME Docker!TypeOK, TodoInv, [Docker!Next]_(Docker!vars) PROVE TodoInv'
  BY DockerSteps
<1>1. CASE Docker!List
  <2>1. /\ dTodo' = DOMAIN dNodes'
        /\ dListed' = [i \in {j \in DOMAIN dContainers : dContainers[j].running} |-> dContainers[i]]
        /\ DOMAIN dNodes' \subseteq DOMAIN dListed'
    BY <1>1 DEF Docker!List
  <2>2. DOMAIN dContainers \subseteq Ids
    BY DEF Docker!TypeOK
  <2>3. QED
    BY <2>1, <2>2 DEF TodoInv
<1>2. CASE dTodo' \subseteq dTodo
  BY <1>2 DEF TodoInv
<1>3. QED
  BY <1>1, <1>2
     DEF Docker!Next, Docker!Collect, Docker!DaemonChanges, Docker!ListFails, Docker!TakeNode,
         Docker!ListDone, Docker!Inspect, Docker!InspectFails, Docker!InspectImage,
         Docker!InspectImageFails, Docker!Ended, Docker!Stop, Docker!Remove, Docker!Retag,
         Docker!vars, Docker!collection

LEMMA LeftCounts ==
    ASSUME IsFiniteSet(Ids), TodoInv
    PROVE  /\ IsFiniteSet(dTodo) /\ Cardinality(dTodo) \in Nat /\ Cardinality(Ids) \in Nat
           /\ PhasesLeft \in Nat /\ DockerLeft \in Nat /\ KubernetesLeft \in Nat /\ Left \in Nat
<1>1. dTodo \subseteq Ids
  BY DEF TodoInv
<1>2. IsFiniteSet(dTodo) /\ Cardinality(dTodo) \in Nat /\ Cardinality(Ids) \in Nat
  BY <1>1, FS_Subset, FS_CardinalityType
<1>3. PhasesLeft \in Nat
  BY DEF PhasesLeft
<1>4. KubernetesLeft \in Nat
  BY DEF KubernetesLeft
<1>5. DockerLeft \in Nat
  BY <1>2 DEF DockerLeft
<1>6. QED
  BY <1>2, <1>3, <1>4, <1>5 DEF Left

(* A step of the Docker extractor: fewer containers are left, or less to ask about one. *)
LEMMA DockerAdvances ==
    ASSUME IsFiniteSet(Ids), TodoInv, TodoInv', Docker!Collect
    PROVE  DockerLeft' < DockerLeft
<1>1. /\ IsFiniteSet(dTodo) /\ Cardinality(dTodo) \in Nat /\ Cardinality(Ids) \in Nat
  BY LeftCounts
<1>2. CASE Docker!List
  <2>1. dTodo' \subseteq Ids
    BY DEF TodoInv
  <2>2. Cardinality(dTodo') <= Cardinality(Ids) /\ Cardinality(dTodo') \in Nat
    BY <2>1, FS_Subset, FS_CardinalityType
  <2>3. dPc = "list" /\ dPc' = "next"
    BY <1>2 DEF Docker!List
  <2>4. DockerLeft = 3 * Cardinality(Ids) + 2 /\ DockerLeft' = 3 * Cardinality(dTodo') + 1
    BY <2>3 DEF DockerLeft
  <2>5. QED
    BY <1>1, <2>2, <2>4
<1>3. CASE Docker!TakeNode
  <2>1. dPc = "next" /\ dPc' = "inspect" /\ dCurrent' \in dTodo /\ dTodo' = dTodo \ {dCurrent'}
    BY <1>3 DEF Docker!TakeNode
  <2>2. \A x \in dTodo : Cardinality(dTodo \ {x}) = Cardinality(dTodo) - 1
    BY <1>1, FS_RemoveElement
  <2>3. Cardinality(dTodo') = Cardinality(dTodo) - 1
    BY <2>1, <2>2
  <2>4. DockerLeft = 3 * Cardinality(dTodo) + 1 /\ DockerLeft' = 3 * Cardinality(dTodo') + 3
    BY <2>1 DEF DockerLeft
  <2>5. QED
    BY <1>1, <2>3, <2>4
<1>4. CASE Docker!Inspect \/ Docker!InspectFails
  <2>1. dPc = "inspect" /\ dPc' = "image" /\ dTodo' = dTodo
    BY <1>4 DEF Docker!Inspect, Docker!InspectFails
  <2>2. DockerLeft = 3 * Cardinality(dTodo) + 3 /\ DockerLeft' = 3 * Cardinality(dTodo) + 2
    BY <2>1 DEF DockerLeft
  <2>3. QED
    BY <1>1, <2>2
<1>5. CASE Docker!InspectImage \/ Docker!InspectImageFails
  <2>1. dPc = "image" /\ dPc' = "next" /\ dTodo' = dTodo
    BY <1>5 DEF Docker!InspectImage, Docker!InspectImageFails
  <2>2. DockerLeft = 3 * Cardinality(dTodo) + 2 /\ DockerLeft' = 3 * Cardinality(dTodo) + 1
    BY <2>1 DEF DockerLeft
  <2>3. QED
    BY <1>1, <2>2
<1>6. CASE Docker!ListFails \/ Docker!ListDone
  <2>1. dPc \in {"list", "next"} /\ dPc' \in {"failed", "done"}
    BY <1>6 DEF Docker!ListFails, Docker!ListDone
  <2>2. DockerLeft' = 0
    BY <2>1 DEF DockerLeft
  <2>3. DockerLeft \in Nat /\ DockerLeft >= 1
    BY <1>1, <2>1 DEF DockerLeft
  <2>4. QED
    BY <1>1, <2>2, <2>3
<1>7. QED
  BY <1>2, <1>3, <1>4, <1>5, <1>6 DEF Docker!Collect

(* A step of the Kubernetes extractor: fewer lists are left. *)
LEMMA KubernetesAdvances == Kubernetes!Collect => KubernetesLeft' < KubernetesLeft
BY DEF Kubernetes!Collect, Kubernetes!List, Kubernetes!ListFails, Kubernetes!Map, Kubernetes!Kinds,
   Kubernetes!After, KubernetesLeft

LEMMA LeftFalls ==
    ASSUME PhasesLeft \in Nat, DockerLeft \in Nat, KubernetesLeft \in Nat,
           PhasesLeft' \in Nat, DockerLeft' \in Nat, KubernetesLeft' \in Nat,
           PhasesLeft' <= PhasesLeft, DockerLeft' <= DockerLeft, KubernetesLeft' <= KubernetesLeft,
           PhasesLeft' < PhasesLeft \/ DockerLeft' < DockerLeft \/ KubernetesLeft' < KubernetesLeft
    PROVE  Left' < Left
<1>1. PICK a \in Nat, b \in Nat, c \in Nat : a = PhasesLeft /\ b = DockerLeft /\ c = KubernetesLeft
  OBVIOUS
<1>2. PICK d \in Nat, e \in Nat, f \in Nat :
          d = PhasesLeft' /\ e = DockerLeft' /\ f = KubernetesLeft'
  OBVIOUS
<1>3. Left = a + b + c /\ Left' = d + e + f
  BY <1>1, <1>2, Zenon DEF Left
<1>4. d <= a /\ e <= b /\ f <= c /\ (d < a \/ e < b \/ f < c)
  BY <1>1, <1>2
<1>5. d + e + f < a + b + c
  BY <1>4
<1>6. QED
  BY <1>3, <1>5, Zenon

(* Every step of the agent brings a collection closer to its end, and nothing the daemon
   or the cluster does puts it off (collect_runtime_resources, list_active_resources). *)
LEMMA CollectionCloser ==
    ASSUME IsFiniteSet(Ids), TodoInv, TodoInv', [Next]_vars
    PROVE  IF Collect THEN Left' < Left ELSE Left' = Left
<1>1. /\ PhasesLeft \in Nat /\ DockerLeft \in Nat /\ KubernetesLeft \in Nat
      /\ PhasesLeft' \in Nat /\ DockerLeft' \in Nat /\ KubernetesLeft' \in Nat
  <2>1. DockerLeft \in Nat /\ DockerLeft' \in Nat
    <3>1. /\ Cardinality(dTodo) \in Nat /\ Cardinality(Ids) \in Nat
      BY LeftCounts
    <3>2. dTodo' \subseteq Ids
      BY DEF TodoInv
    <3>3. Cardinality(dTodo') \in Nat
      BY <3>2, FS_Subset, FS_CardinalityType
    <3>4. QED
      BY <3>1, <3>3 DEF DockerLeft
  <2>2. QED
    BY <2>1 DEF PhasesLeft, KubernetesLeft
<1>2. CASE AskDocker
  <2>1. UNCHANGED <<pc, kPc>> /\ Docker!Collect
    BY <1>2 DEF AskDocker, agent, kubernetes
  <2>2. PhasesLeft' = PhasesLeft /\ KubernetesLeft' = KubernetesLeft
    BY <2>1 DEF PhasesLeft, KubernetesLeft
  <2>3. DockerLeft' < DockerLeft
    BY <2>1, DockerAdvances
  <2>4. Left' < Left
    BY <1>1, <2>2, <2>3, LeftFalls
  <2>5. Collect
    BY <1>2 DEF Collect
  <2>6. QED
    BY <2>4, <2>5
<1>3. CASE AskKubernetes
  <2>1. UNCHANGED <<pc, dPc, dTodo>> /\ Kubernetes!Collect
    BY <1>3 DEF AskKubernetes, agent, docker
  <2>2. PhasesLeft' = PhasesLeft /\ DockerLeft' = DockerLeft
    BY <2>1 DEF PhasesLeft, DockerLeft
  <2>3. KubernetesLeft' < KubernetesLeft
    BY <2>1, KubernetesAdvances
  <2>4. Left' < Left
    BY <1>1, <2>2, <2>3, LeftFalls
  <2>5. Collect
    BY <1>3 DEF Collect
  <2>6. QED
    BY <2>4, <2>5
<1>4. CASE \/ ConnectDocker \/ DockerSkipped \/ DockerFound \/ DockerFailed
           \/ ConnectKubernetes \/ KubernetesFound \/ KubernetesFailed
  <2>1. UNCHANGED <<dPc, dTodo, kPc>>
    BY <1>4 DEF ConnectDocker, DockerSkipped, DockerFound, DockerFailed, ConnectKubernetes,
       KubernetesFound, KubernetesFailed, docker, kubernetes
  <2>2. DockerLeft' = DockerLeft /\ KubernetesLeft' = KubernetesLeft
    BY <2>1 DEF DockerLeft, KubernetesLeft
  <2>3. PhasesLeft' < PhasesLeft
    BY <1>4 DEF ConnectDocker, DockerSkipped, DockerFound, DockerFailed, ConnectKubernetes,
       KubernetesFound, KubernetesFailed, PhasesLeft
  <2>4. Left' < Left
    BY <1>1, <2>2, <2>3, LeftFalls
  <2>5. Collect
    BY <1>4 DEF Collect
  <2>6. QED
    BY <2>4, <2>5
<1>5. CASE ContainersChange \/ ClusterChanges \/ Collected \/ UNCHANGED vars
  <2>1. UNCHANGED <<pc, dPc, dTodo, kPc>>
    BY <1>5 DEF ContainersChange, ClusterChanges, Collected, Docker!DaemonChanges, Docker!Stop,
       Docker!Remove, Docker!Retag, Docker!collection, Kubernetes!Change, vars, agent, docker,
       kubernetes
  <2>2. Left' = Left
    BY <2>1 DEF Left, PhasesLeft, DockerLeft, KubernetesLeft
  <2>3. ~Collect
    <3> SUFFICES ASSUME Collect PROVE FALSE
      OBVIOUS
    <3>1. CASE AskDocker
      <4>1. DockerLeft' < DockerLeft
        BY <3>1, DockerAdvances DEF AskDocker
      <4>2. DockerLeft' = DockerLeft
        BY <2>1 DEF DockerLeft
      <4>3. QED
        BY <1>1, <4>1, <4>2
    <3>2. CASE AskKubernetes
      <4>1. KubernetesLeft' < KubernetesLeft
        BY <3>2, KubernetesAdvances DEF AskKubernetes
      <4>2. KubernetesLeft' = KubernetesLeft
        BY <2>1 DEF KubernetesLeft
      <4>3. QED
        BY <1>1, <4>1, <4>2
    <3>3. CASE ~AskDocker /\ ~AskKubernetes
      BY <2>1, <3>3 DEF Collect, ConnectDocker, DockerSkipped, DockerFound, DockerFailed,
         ConnectKubernetes, KubernetesFound, KubernetesFailed
    <3>4. QED
      BY <3>1, <3>2, <3>3
  <2>4. QED
    BY <2>2, <2>3
<1>6. QED
  BY <1>2, <1>3, <1>4, <1>5 DEF Next, Collect

CloserToEnd == Left \in Nat /\ IF Collect THEN Left' < Left ELSE Left' = Left

(* Hence a collection that lists finitely many containers takes no more than Left steps. *)
THEOREM CollectionAdvances == IsFiniteSet(Ids) => (Spec => [][CloserToEnd]_vars)
<1>1. ASSUME IsFiniteSet(Ids), TodoInv, TodoInv', [Next]_vars PROVE CloserToEnd
  BY <1>1, LeftCounts, CollectionCloser DEF CloserToEnd
<1>2. Init => TodoInv
  BY DEF Init, Docker!Init, TodoInv
<1>3. DockerInv => Docker!TypeOK
  BY DEF DockerInv
<1>4. IsFiniteSet(Ids) => IsFiniteSet(Ids)'
  OBVIOUS
<1>5. IsFiniteSet(Ids) /\ TodoInv /\ TodoInv' /\ [Next]_vars => CloserToEnd
  BY <1>1
<1>6. Docker!TypeOK /\ TodoInv /\ [Next]_vars => TodoInv'
  BY TodoStep
<1>7. QED
  BY <1>2, <1>3, <1>4, <1>5, <1>6, DockerInvariant, PTL DEF Spec
=============================================================================
