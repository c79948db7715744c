---------------------------- MODULE ImageArchives ----------------------------
(***************************************************************************)
(* The export of local Docker images: the "attach" step of a topology pass *)
(* (attach_local_image_archives, docker_save_image, should_export_local_   *)
(* image and sanitize_archive_name in src/discovery.rs, with get_upload_   *)
(* url and upload_payload in src/client.rs).                               *)
(*                                                                         *)
(* One pass visits the containers of the payload once.  An image name is a *)
(* sequence of words and separators; an object of the storage is named by  *)
(* the file name the agent asked for.  Every request may fail: a rejection *)
(* of the credentials is not told apart, nothing recovers from it here.    *)
(***************************************************************************)
EXTENDS Naturals, Sequences, FiniteSetsExt

CONSTANTS
    ContainerLists,   \* the payloads: sequences of image names
    PublicImages,     \* the repositories listed in should_export_local_image
    NoObject,         \* None
    Hosts,            \* the host:port the Gateway may put in an upload URL
    InternalHosts,    \* those of them that contain "minio" and a port
    LocalHost,        \* "localhost:9000"
    DefaultHost,      \* "minio:9000"
    NoHost,           \* None
    AllowHttp,        \* AGENT_ALLOW_HTTP = "true"
    MaxAttempts,      \* upload_payload: max_attempts = 5
    MaxNow            \* bound: seconds a pass takes

ASSUME ListsAssumption ==
    \A list \in ContainerLists : list \in Seq({list[i] : i \in DOMAIN list})
ASSUME HostsAssumption ==
    /\ InternalHosts \subseteq Hosts \ {LocalHost} /\ DefaultHost \in Hosts
    /\ NoHost \notin Hosts /\ AllowHttp \in BOOLEAN
ASSUME BoundsAssumption == MaxAttempts \in Nat \ {0} /\ MaxNow \in Nat

VARIABLES
    pc,           \* where the pass is
    containers,   \* the images of the containers, in order
    k,            \* the container being visited
    refs,         \* container.image_archive_ref and _object
    exported,     \* the map of the images exported by this pass
    object,       \* filename of the archive in hand
    url,          \* its upload URL: the host dialled and the host it was signed for
    attempts,     \* of the PUT in hand
    minioHost,    \* original_minio_host
    storage,      \* whose archive each object of the storage holds
    now           \* chrono::Utc::now().timestamp()

pass == <<containers, k, refs, exported>>
upload == <<object, url, attempts>>
vars == <<pc, pass, upload, minioHost, storage, now>>

(***************************************************************************)
(* Names.                                                                  *)
(***************************************************************************)

Separators == {":", "/", "@", "-", ".", "_"}

Repository(image) ==
    LET colons == {i \in DOMAIN image : image[i] = ":"}
    IN  IF colons = {} THEN image ELSE SubSeq(image, 1, Min(colons) - 1)

Mentions(words, word) == \E i \in DOMAIN words : words[i] = word

(* A digest is the only use of "@" in an image name. *)
ShouldExport(image) ==
    /\ image # <<>> /\ ~Mentions(image, "@")
    /\ ~Mentions(Repository(image), "/")
    /\ Repository(image) \notin PublicImages

Sanitize(image) ==
    LET words == {i \in DOMAIN image : image[i] \notin Separators}
        first == Min(words)
    IN  [i \in 1..(Max(words) - first + 1) |->
            LET word == image[first + i - 1] IN IF word \in Separators THEN "-" ELSE word]

(* A mutated form of Filename: the name of the image is left out. *)
FilenameUnnamed(image, time) == [name |-> <<>>, time |-> time]

Filename(image, time) == [name |-> Sanitize(image), time |-> time]

Image == containers[k]
Local == {i \in DOMAIN containers : ShouldExport(containers[i])}
Objects == {Filename(containers[i], t) : i \in Local, t \in 0..now}
NoUrl == [dialled |-> NoHost, signed |-> NoHost]

(* Only images that are exported have a reference or an object, and a PUT never
   exceeds its attempts (upload_payload). *)
TypeOK ==
    /\ pc \in {"start", "next", "url", "save", "saveUsrBin", "put", "done"}
    /\ containers \in ContainerLists
    /\ k \in 1..(Len(containers) + 1)
    /\ refs \in [DOMAIN containers -> Objects \cup {NoObject}]
    /\ DOMAIN exported \subseteq {containers[i] : i \in Local}
    /\ \A image \in DOMAIN exported : exported[image] \in Objects
    /\ object \in Objects \cup {NoObject}
    /\ url \in [dialled : Hosts \cup {NoHost, LocalHost}, signed : Hosts \cup {NoHost}]
    /\ attempts \in 0..(MaxAttempts - 1)
    /\ minioHost \in InternalHosts \cup {NoHost}
    /\ DOMAIN storage \subseteq Objects
    /\ \A o \in DOMAIN storage : storage[o] \in {containers[i] : i \in Local}
    /\ now \in 0..MaxNow

(* Earlier uploads by the same client may have set original_minio_host. *)
Init ==
    /\ pc = "start"
    /\ containers \in ContainerLists /\ k = 1
    /\ refs = [i \in DOMAIN containers |-> NoObject]
    /\ exported = <<>>
    /\ object = NoObject /\ url = NoUrl /\ attempts = 0
    /\ minioHost \in (IF AllowHttp THEN InternalHosts ELSE {}) \cup {NoHost}
    /\ storage = <<>> /\ now = 0

Step(from, to) == pc = from /\ pc' = to

(***************************************************************************)
(* Mutated forms of definitions below: the plausible bugs the properties   *)
(* are there to catch.  Nothing in the specification uses them.            *)
(***************************************************************************)

(* Remembered: the first host is kept for good. *)
RememberedOnce(host) == IF minioHost = NoHost THEN host ELSE minioHost

(* ReuseArchive: a later container of an exported image is skipped. *)
ReuseArchiveDropped ==
    /\ pc = "next" /\ k <= Len(containers)
    /\ Image \in DOMAIN exported
    /\ pc' = "next" /\ k' = k + 1
    /\ UNCHANGED <<containers, refs, exported, upload, minioHost, storage>>

(***************************************************************************)
(* The loop over the containers.                                           *)
(***************************************************************************)

NextContainer == pc' = "next" /\ k' = k + 1
Visiting == pc = "next" /\ k <= Len(containers)
Attach(o) == refs' = [refs EXCEPT ![k] = o]
Insert(map, key, value) ==
    [x \in DOMAIN map \cup {key} |-> IF x = key THEN value ELSE map[x]]

(* AEGIS_EXPORT_LOCAL_IMAGES = "false" ends the step before the loop. *)
Begin == \/ Step("start", "next")
         \/ Step("start", "done")
BeginPass == Begin /\ UNCHANGED <<pass, upload, minioHost, storage>>

SkipContainer ==
    /\ Visiting /\ ~ShouldExport(Image)
    /\ NextContainer
    /\ UNCHANGED <<containers, refs, exported, upload, minioHost, storage>>

ReuseArchive ==
    /\ Visiting /\ Image \in DOMAIN exported
    /\ Attach(exported[Image]) /\ NextContainer
    /\ UNCHANGED <<containers, exported, upload, minioHost, storage>>

NameArchive ==
    /\ Visiting /\ ShouldExport(Image) /\ Image \notin DOMAIN exported
    /\ pc' = "url"
    /\ object' = Filename(Image, now)
    /\ UNCHANGED <<pass, url, attempts, minioHost, storage>>

EndPass ==
    Step("next", "done") /\ k > Len(containers) /\ UNCHANGED <<pass, upload, minioHost, storage>>

(* The error is logged and the container left without a reference; the next container
   of the same image tries again. *)
GiveUp ==
    NextContainer /\ UNCHANGED <<containers, refs, exported, upload, minioHost>>

(***************************************************************************)
(* The upload URL.                                                         *)
(***************************************************************************)

Remembered(host) == host

(* For local development an internal host is replaced and remembered. *)
UrlGranted(host) ==
    /\ Step("url", "save")
    /\ IF AllowHttp /\ host \in InternalHosts
       THEN /\ url' = [dialled |-> LocalHost, signed |-> host]
            /\ minioHost' = Remembered(host)
       ELSE /\ url' = [dialled |-> host, signed |-> host]
            /\ UNCHANGED minioHost
    /\ UNCHANGED <<pass, object, attempts, storage>>

UrlFails == pc = "url" /\ GiveUp /\ UNCHANGED storage

(***************************************************************************)
(* docker save.                                                            *)
(***************************************************************************)

(* No `docker` on the PATH: /usr/bin/docker is tried. *)
SpawnFails == Step("save", "saveUsrBin") /\ UNCHANGED <<pass, upload, minioHost, storage>>

Saved ==
    /\ Step("save", "put") \/ Step("saveUsrBin", "put")
    /\ attempts' = 0
    /\ UNCHANGED <<pass, object, url, minioHost, storage>>

(* A failed status of either, or /usr/bin/docker cannot be run either. *)
SaveFails == pc \in {"save", "saveUsrBin"} /\ GiveUp /\ UNCHANGED storage

(***************************************************************************)
(* The PUT.                                                                *)
(***************************************************************************)

HostHeader ==
    IF url.dialled # LocalHost THEN url.dialled
    ELSE IF minioHost # NoHost THEN minioHost ELSE DefaultHost

(* The storage refuses a PUT whose Host is not the one the URL was signed for. *)
Store == HostHeader = url.signed /\ storage' = Insert(storage, object, Image)

PutStored ==
    /\ pc = "put" /\ Store
    /\ exported' = Insert(exported, Image, object)
    /\ Attach(object) /\ NextContainer
    /\ UNCHANGED <<containers, upload, minioHost>>

(* 429, 5xx or a network error, which may have lost the reply only. *)
PutRetried ==
    /\ Step("put", "put") /\ attempts + 1 < MaxAttempts
    /\ attempts' = attempts + 1
    /\ Store \/ UNCHANGED storage
    /\ UNCHANGED <<pass, object, url, minioHost>>

(* Any other status, or the last attempt. *)
PutGivenUp == pc = "put" /\ GiveUp /\ (UNCHANGED storage \/ (attempts + 1 = MaxAttempts /\ Store))

PassStep ==
    /\ \/ BeginPass \/ SkipContainer \/ ReuseArchive \/ NameArchive \/ EndPass
       \/ UrlFails \/ (\E host \in Hosts : UrlGranted(host))
       \/ SpawnFails \/ Saved \/ SaveFails
       \/ PutStored \/ PutRetried \/ PutGivenUp
    /\ UNCHANGED now

Second == pc # "done" /\ now < MaxNow /\ now' = now + 1
          /\ UNCHANGED <<pc, pass, upload, minioHost, storage>>

(* The pass goes on with the comparison of the payloads. *)
Attached == pc = "done" /\ UNCHANGED vars

Next == PassStep \/ Second \/ Attached

Spec == Init /\ [][Next]_vars
-----------------------------------------------------------------------------

(* Another container, visited after one with this image got the object, has had the
   archive of its own image stored there. *)
Overwritten(image, o) ==
    \E first, later \in DOMAIN containers :
        /\ first < later /\ later <= k
        /\ containers[first] = image /\ refs[first] = o
        /\ Sanitize(containers[later]) = Sanitize(image) /\ containers[later] = storage[o]

(* A reference in the payload leads to an object that is in storage and holds the
   archive of the container's own image, but for one way to lose it: an image of the
   same sanitized name, visited after the archive was there, is stored under the same
   object, whose name tells nothing else apart within a second.  No image visited
   before, none of another name and no failure does that (attach_local_image_archives,
   sanitize_archive_name). *)
ReferencesResolve ==
    \A i \in DOMAIN containers : refs[i] # NoObject =>
        /\ refs[i] \in DOMAIN storage
        /\ storage[refs[i]] = containers[i] \/ Overwritten(containers[i], refs[i])

(* Once an image is exported, every later container of that image gets the same
   archive: the map of exported images never loses one, and no image is uploaded twice
   for two containers of a pass (attach_local_image_archives). *)
ArchiveShared ==
    \A i, j \in 1..(k - 1) :
        i < j /\ containers[i] = containers[j] /\ refs[i] # NoObject => refs[j] = refs[i]

(* The PUT to a URL whose internal host was replaced carries the host that URL was
   signed for, and no host remembered from an earlier upload (get_upload_url,
   upload_payload and the original_minio_host they share). *)
ReplacedHostRestored ==
    pc = "put" /\ url.dialled # url.signed => HostHeader = url.signed
=============================================================================
