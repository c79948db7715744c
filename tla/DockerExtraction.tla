-------------------------- MODULE DockerExtraction --------------------------
(***************************************************************************)
(* The Docker part of a collection: list_active_resources of the           *)
(* DockerExtractor (src/extractor/docker.rs), which lists the running      *)
(* containers and then asks about each of them, and about its image, while *)
(* containers and tags come and go.                                        *)
(*                                                                         *)
(* An image is known by a reference (a name and a tag) or by its hash.     *)
(* Environment, ports, labels, networks and volumes are copied from the    *)
(* answers (TopologyMerge and DatabaseSchema have what becomes of them).   *)
(***************************************************************************)
EXTENDS Naturals, FiniteSets

CONSTANTS
    Ids,          \* containers
    Names,        \* container names
    References,   \* image references, the tag included
    Images,       \* images, by hash
    Users,        \* the values of Config.User
    None,
    Versioned,    \* the references image_version_from_reference accepts
    RootUsers,    \* those is_root_user accepts: "0", "root" and "0:..."
    ExcludedContainers, \* the pairs of a name and an image should_include_runtime_container refuses
    MaxChanges    \* bound: changes at the daemon during a collection

(* What the constants are taken to be. *)
DockerConstants ==
    /\ None \notin Ids \cup Images \cup References /\ Images \cap References = {}
    /\ Versioned \subseteq References /\ RootUsers \subseteq Users
    /\ MaxChanges \in Nat

VARIABLES
    \* the daemon
    containers,   \* by id
    tags,         \* the image each reference stands for
    withHash,     \* whether listings tell the hash of the image
    changes,
    \* the collection
    pc,
    nodes,        \* by id
    todo,         \* the nodes still to be asked about
    current,      \* the node being asked about
    \* history
    listed,       \* the containers as they were listed
    inspected     \* the nodes whose inspection was answered

daemon == <<containers, tags, withHash, changes>>
collection == <<pc, nodes, todo, current>>
history == <<listed, inspected>>
vars == <<daemon, collection, history>>

Containers == [name : Names, reference : References, image : Images, user : Users,
               running : BOOLEAN]
NodeType == [name : Names, image : References \cup Images,
             version : Versioned \cup Images \cup {None}, hash : Images \cup {None}, root : BOOLEAN \cup {None}]

(* There is a node for each container that was listed and not refused, and nothing is
   asked about another one (list_active_resources). *)
TypeOK ==
    /\ DOMAIN containers \subseteq Ids /\ \A i \in DOMAIN containers : containers[i] \in Containers
    /\ tags \in [References -> Images \cup {None}]
    /\ withHash \in BOOLEAN /\ changes \in 0..MaxChanges
    /\ pc \in {"list", "next", "inspect", "image", "done", "failed"}
    /\ DOMAIN nodes \subseteq DOMAIN listed /\ \A i \in DOMAIN nodes : nodes[i] \in NodeType
    /\ todo \subseteq DOMAIN nodes
    /\ current \in DOMAIN nodes \cup {None}
    /\ \A i \in DOMAIN listed : listed[i] \in Containers
    /\ inspected \subseteq DOMAIN nodes

Init ==
    /\ \E there \in SUBSET Ids : containers \in [there -> Containers]
    /\ \A i \in DOMAIN containers : containers[i].running
    /\ tags \in [References -> Images \cup {None}]
    /\ withHash \in BOOLEAN /\ changes = 0
    /\ pc = "list" /\ nodes = <<>> /\ todo = {} /\ current = None
    /\ listed = <<>> /\ inspected = {}

OrElse(value, other) == IF value = None THEN other ELSE value

(* image_version_from_reference: of a hash, "sha256" is taken for the name and the digest
   for the tag. *)
Version(text) == IF text \in Versioned \cup Images THEN text ELSE None

(***************************************************************************)
(* Mutated forms of definitions below: the plausible bugs the properties   *)
(* are there to catch.  Nothing in the specification uses them.            *)
(***************************************************************************)

(* InspectFails: a container that is gone is dropped. *)
InspectFailsDropped ==
    /\ pc = "inspect" /\ pc' = "next"
    /\ nodes' = [i \in DOMAIN nodes \ {current} |-> nodes[i]]
    /\ current' = None
    /\ UNCHANGED <<daemon, todo, history>>

(* WithImage: the newest answer wins. *)
WithImageOverwriting(n, tagged, hash) == [n EXCEPT !.hash = hash]

(* RepoVersions: any reference with a version will do. *)
RepoVersionsAny(image) == Versioned

(* InspectFails: a container that is gone is asked about again. *)
InspectAgain ==
    /\ pc = "inspect" /\ pc' = "next" /\ todo' = todo \cup {current} /\ current' = None
    /\ UNCHANGED <<daemon, nodes, history>>

(***************************************************************************)
(* The collection.                                                         *)
(***************************************************************************)

(* A listing has the reference of the configuration as long as it stands for the image,
   and the hash of the image afterwards. *)
ListedImage(c) == IF tags[c.reference] = c.image THEN c.reference ELSE c.image

(* map_container_to_node; the inspection is missing here. *)
FromSummary(c) ==
    [name |-> c.name, image |-> ListedImage(c), version |-> Version(ListedImage(c)),
     hash |-> IF withHash THEN c.image ELSE None, root |-> None]

Include(n) == <<n.name, n.image>> \notin ExcludedContainers

List ==
    /\ pc = "list" /\ pc' = "next"
    /\ listed' = [i \in {j \in DOMAIN containers : containers[j].running} |-> containers[i]]
    /\ nodes' = [i \in {j \in DOMAIN listed' : Include(FromSummary(listed'[j]))} |->
                   FromSummary(listed'[i])]
    /\ todo' = DOMAIN nodes'
    /\ UNCHANGED <<daemon, current, inspected>>

ListFails ==
    pc = "list" /\ pc' = "failed" /\ UNCHANGED <<daemon, nodes, todo, current, history>>

TakeNode ==
    /\ pc = "next" /\ pc' = "inspect"
    /\ current' \in todo /\ todo' = todo \ {current'}
    /\ UNCHANGED <<daemon, nodes, history>>

ListDone ==
    pc = "next" /\ todo = {} /\ pc' = "done" /\ UNCHANGED <<daemon, nodes, todo, current, history>>

IsRootUser(user) == user \in RootUsers

(* enrich_node_with_inspect *)
WithInspect(n, c) ==
    [n EXCEPT !.image = c.reference, !.version = OrElse(@, Version(c.reference)),
              !.hash = OrElse(@, c.image), !.root = IsRootUser(c.user)]

(* A container that has stopped can still be inspected. *)
Inspect ==
    /\ pc = "inspect" /\ pc' = "image"
    /\ current \in DOMAIN containers
    /\ nodes' = [nodes EXCEPT ![current] = WithInspect(@, containers[current])]
    /\ inspected' = inspected \cup {current}
    /\ UNCHANGED <<daemon, todo, current, listed>>

InspectFails == pc = "inspect" /\ pc' = "image" /\ UNCHANGED <<daemon, nodes, todo, current, history>>

(* The tags in RepoTags that image_version_from_reference accepts. *)
RepoVersions(image) == {t \in Versioned : tags[t] = image}

(* enrich_node_with_image_inspect, with the first accepted tag in RepoTags *)
WithImage(n, tagged, hash) ==
    [n EXCEPT !.version = IF @ = None /\ tagged # {} THEN CHOOSE t \in tagged : TRUE ELSE @,
              !.hash = OrElse(@, hash)]

Denoted(image) == IF image \in Images THEN image ELSE tags[image]

(* The image is asked for by what the node has for its name. *)
InspectImage ==
    /\ pc = "image" /\ pc' = "next"
    /\ LET image == Denoted(nodes[current].image)
       IN  /\ image # None
           /\ nodes' = [nodes EXCEPT ![current] = WithImage(@, RepoVersions(image), image)]
    /\ current' = None
    /\ UNCHANGED <<daemon, todo, history>>

InspectImageFails ==
    /\ pc = "image" /\ pc' = "next" /\ current' = None
    /\ UNCHANGED <<daemon, nodes, todo, history>>

Collect ==
    \/ List \/ ListFails \/ TakeNode \/ ListDone
    \/ Inspect \/ InspectFails \/ InspectImage \/ InspectImageFails

(***************************************************************************)
(* The daemon.                                                             *)
(***************************************************************************)

Change == pc \notin {"done", "failed"} /\ changes < MaxChanges /\ changes' = changes + 1

Stop(i) ==
    /\ Change /\ i \in DOMAIN containers
    /\ containers' = [containers EXCEPT ![i].running = FALSE]
    /\ UNCHANGED <<tags, withHash, collection, history>>

Remove(i) ==
    /\ Change /\ i \in DOMAIN containers
    /\ containers' = [j \in DOMAIN containers \ {i} |-> containers[j]]
    /\ UNCHANGED <<tags, withHash, collection, history>>

(* docker build, pull, tag and rmi move or take away a tag. *)
Retag(r) ==
    /\ Change /\ tags' \in {[tags EXCEPT ![r] = image] : image \in Images \cup {None}}
    /\ UNCHANGED <<containers, withHash, collection, history>>

Ended == pc \in {"done", "failed"} /\ UNCHANGED vars

DaemonChanges ==
    \/ \E i \in Ids : Stop(i) \/ Remove(i)
    \/ \E r \in References : Retag(r)

Next == Collect \/ DaemonChanges \/ Ended

Spec == Init /\ [][Next]_vars
-----------------------------------------------------------------------------

(* The hash of a node is that of the image its container was made from, even if its
   tag has been moved since; only if neither the listing nor the inspection told it can
   it be that of the image that has the tag now (enrich_node_with_inspect,
   enrich_node_with_image_inspect). *)
HashOfOwnImage ==
    \A i \in DOMAIN nodes : nodes[i].hash # None =>
        \/ nodes[i].hash = listed[i].image
        \/ ~withHash /\ i \notin inspected

Known(i) == IF i \in DOMAIN nodes THEN nodes[i].version ELSE None

VersionFromOwnImage(i) ==
    LET version == nodes'[i].version IN
    \/ version \in {listed'[i].reference, listed'[i].image}
    \/ version \in References /\ tags[version] = listed'[i].image
    \/ version \in References /\ nodes[i].image = listed[i].reference
       /\ tags[nodes[i].image] = tags[version]

(* The version a node gets is its reference, or a tag of its own image, or the hash of
   it if it was listed by that.  Only if its reference was moved to another image
   meanwhile it is a tag of that one, when version and hash are of two images
   (enrich_node_with_inspect, enrich_node_with_image_inspect). *)
VersionOfOwnImage ==
    [][\A i \in DOMAIN nodes' : nodes'[i].version # Known(i) => VersionFromOwnImage(i)]_vars

Reportable ==
    {i \in DOMAIN containers : containers[i].running /\ Include(FromSummary(containers[i]))}

(* The extractor keeps the promise of a TopologyExtractor: exactly the containers that
   were running and not refused when they were listed are reported, although they may be
   gone when they are asked about, and no request about one of them costs another one
   its report (list_active_resources). *)
Extraction ==
    INSTANCE Extraction WITH
        Kinds <- {"Container"}, Items <- Ids,
        there <- [kind \in {"Container"} |-> Reportable],
        seen <- [kind \in IF pc \in {"list", "failed"} THEN {} ELSE {"Container"} |-> DOMAIN nodes],
        outcome <- IF pc = "done" THEN "found" ELSE IF pc = "failed" THEN "failed" ELSE "running",
        answer <- IF pc = "done" THEN DOMAIN nodes ELSE {}

AnswersAsListed == Extraction!Spec
=============================================================================
