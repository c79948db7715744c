---------------------------- MODULE TopologySync ----------------------------
(***************************************************************************)
(* The discovery loop: what starts a pass, what a pass collects, when it   *)
(* uploads, what it remembers and what it tells the Gateway                *)
(* (start_discovery_loop, upload_topology and trigger_topology_scan in     *)
(* src/discovery.rs, upload_payload in src/client.rs, scan_handler in      *)
(* src/server.rs).                                                         *)
(*                                                                         *)
(* The credentials are those of AgentIdentity, which AgentCredentials      *)
(* implements: here the identity may be revoked, replaced (by either loop) *)
(* or dropped with the process between any two steps of a pass.  A         *)
(* topology is an opaque value; a payload is a topology and the reference  *)
(* of the image archive exported for it, 0 when there is none.             *)
(***************************************************************************)
EXTENDS Naturals

CONSTANTS
    Topologies,        \* what the host may look like, after redaction
    NoTopology,        \* the topology of the payload there is not
    WithLocalImages,   \* the topologies with a container of a local image
    ChannelCapacity,   \* mpsc::channel(10)
    MaxAttempts,       \* upload_payload: max_attempts = 5
    MaxIssued,         \* bound: identities; the last one is not revoked
    MaxScans,          \* bound: accepted scan requests
    MaxChanges,        \* bound: changes of the topology
    MaxExports,        \* bound: exported image archives
    MaxFaults          \* bound: failed requests, failed collections and crashes

ASSUME TopologiesAssumption ==
    NoTopology \notin Topologies /\ WithLocalImages \subseteq Topologies
ASSUME NumbersAssumption ==
    /\ ChannelCapacity \in Nat \ {0} /\ MaxAttempts \in Nat \ {0} /\ MaxIssued \in Nat
    /\ MaxScans \in Nat /\ MaxChanges \in Nat /\ MaxExports \in Nat /\ MaxFaults \in Nat

VARIABLES
    \* the discovery task
    pc, pass,       \* where the loop is, and the local variables of its current pass
    lastPayload,    \* last_payload
    queue,          \* how many () are in the scan channel
    \* the host
    world,          \* its present topology
    \* object storage and Gateway
    objects,        \* the payloads in storage
    notified,       \* the last UPLOAD_COMPLETE the Gateway accepted
    issued, revoked, held, lastHeld,   \* see AgentIdentity
    \* bounds
    scans, changes, exports, faults

Identity == INSTANCE AgentIdentity

loop == <<pc, pass, lastPayload, queue>>
storage == <<objects, notified>>
identity == <<issued, revoked, held, lastHeld>>
bounds == <<scans, changes, exports, faults>>
vars == <<loop, world, storage, identity, bounds>>

Payloads == [topology : Topologies, archive : 0..MaxExports]
NoPayload == [topology |-> NoTopology, archive |-> 0]

(* config: the AgentConfig of the next request; owner: whose upload URL was used. *)
Passes == [force : BOOLEAN, config : Nat, payload : Payloads \cup {NoPayload},
           owner : Nat, attempts : 0..MaxAttempts]
NoPass == [force |-> FALSE, config |-> 0, payload |-> NoPayload, owner |-> 0, attempts |-> 0]

Notices == [payload : Payloads \cup {NoPayload}, owner : Nat, by : Nat]
NoNotice == [payload |-> NoPayload, owner |-> 0, by |-> 0]

States == {"off", "select", "collect", "attach", "compare",
           "url", "recoverUrl", "retryUrl", "put",
           "current", "status", "recoverStatus", "retryStatus"}

(* The channel never exceeds its capacity (trigger_topology_scan), an upload its attempts
   (upload_payload), and what is stored and announced is the payload of some pass. *)
TypeOK ==
    /\ pc \in States
    /\ pass \in Passes
    /\ lastPayload \in Payloads \cup {NoPayload}
    /\ queue \in 0..ChannelCapacity
    /\ world \in Topologies
    /\ objects \in SUBSET Payloads
    /\ notified \in Notices
    /\ issued \in 0..MaxIssued
    /\ revoked \in SUBSET (1..issued)
    /\ held \in 0..issued
    /\ lastHeld \in 0..issued
    /\ scans \in 0..MaxScans /\ changes \in 0..MaxChanges
    /\ exports \in 0..MaxExports /\ faults \in 0..MaxFaults

Init ==
    /\ pc = "off" /\ pass = NoPass
    /\ lastPayload = NoPayload
    /\ queue = 0
    /\ world \in Topologies
    /\ objects = {} /\ notified = NoNotice
    /\ Identity!Init
    /\ scans = 0 /\ changes = 0 /\ exports = 0 /\ faults = 0

Step(from, to) == pc = from /\ pc' = to
Fault == faults < MaxFaults /\ faults' = faults + 1
Rejected == pass.config \in revoked

(***************************************************************************)
(* Mutated forms of actions below: the plausible bugs the properties are   *)
(* there to catch.  Nothing in the specification uses them.                *)
(***************************************************************************)

(* SkipUnchanged: a requested scan is skipped too. *)
SkipEvenForced == Step("compare", "select") /\ lastPayload = pass.payload /\ UNCHANGED pass

(* SyncFails: the loop goes on to remember the payload. *)
SyncFailureRemembered ==
    /\ pc' = "select" /\ lastPayload' = pass.payload
    /\ UNCHANGED <<pass, queue, notified>>

(* PutGivenUp: the error of upload_payload is not propagated. *)
PutFailureIgnored ==
    /\ Step("put", "current")
    /\ Fault /\ UNCHANGED <<pass, lastPayload, queue, storage>>

(* Scan: the channel is not bounded. *)
ScanUnbounded ==
    /\ pc # "off" /\ queue' = queue + 1
    /\ scans < MaxScans /\ scans' = scans + 1
    /\ UNCHANGED <<pc, pass, lastPayload, world, storage, identity, changes, exports, faults>>

(***************************************************************************)
(* The loop up to the decision to upload.                                  *)
(***************************************************************************)

(* The spawned task creates the channel, fills SCAN_TRIGGER and enters the loop. *)
OpenChannel ==
    /\ Step("off", "select") /\ held # 0
    /\ queue' = 0 /\ lastPayload' = NoPayload
    /\ UNCHANGED <<pass, storage, exports, faults>>

(* select!: the 15-minute tick, or one queued scan request. *)
StartPass(forced) ==
    /\ Step("select", "collect")
    /\ pass' = [NoPass EXCEPT !.force = forced, !.config = held]
    /\ UNCHANGED <<lastPayload, storage, exports, faults>>

Tick == StartPass(FALSE) /\ UNCHANGED queue
TakeTrigger == StartPass(TRUE) /\ queue > 0 /\ queue' = queue - 1

Collect ==
    /\ Step("collect", "attach")
    /\ pass' = [pass EXCEPT !.payload = [topology |-> world, archive |-> 0]]

(* The error is logged, and with it goes the scan request of a forced pass. *)
CollectFails ==
    Step("collect", "select") /\ Fault /\ UNCHANGED <<pass, lastPayload, queue, storage, exports>>

(* attach_local_image_archives: each export gets a new object of its own. *)
AttachArchive ==
    /\ Step("attach", "compare")
    /\ pass.payload.topology \in WithLocalImages /\ ~Rejected
    /\ exports < MaxExports /\ exports' = exports + 1
    /\ pass' = [pass EXCEPT !.payload.archive = exports']
    /\ UNCHANGED <<lastPayload, queue, storage, faults>>

(* No local image, or the export fails, rejected credentials included: the pass
   goes on without the archive and without a recovery. *)
AttachNothing == Step("attach", "compare") /\ UNCHANGED pass

SkipUnchanged ==
    Step("compare", "select") /\ ~pass.force /\ lastPayload = pass.payload /\ UNCHANGED pass

DecideUpload ==
    Step("compare", "url") /\ (pass.force \/ lastPayload # pass.payload) /\ UNCHANGED pass

(***************************************************************************)
(* upload_topology.                                                        *)
(***************************************************************************)

(* It returns an error: last_payload stays as it was. *)
SyncFails == pc' = "select" /\ UNCHANGED <<pass, lastPayload, queue, notified>>

(* It returns Ok: the loop sets last_payload. *)
SyncDone == pc' = "select" /\ lastPayload' = pass.payload /\ UNCHANGED <<pass, queue, objects>>

UrlGranted ==
    /\ Step("url", "put") \/ Step("retryUrl", "put")
    /\ ~Rejected
    /\ pass' = [pass EXCEPT !.owner = pass.config]

(* The first rejection is recovered from, and so is one of the status update. *)
UrlRejected == Step("url", "recoverUrl") /\ Rejected /\ UNCHANGED pass
StatusRejected == Step("status", "recoverStatus") /\ Rejected /\ UNCHANGED pass

(* recover_from_stale_credentials returns the replacement, made by either loop. *)
Recovered ==
    /\ Step("recoverUrl", "retryUrl") \/ Step("recoverStatus", "retryStatus")
    /\ held # pass.config
    /\ pass' = [pass EXCEPT !.config = held]

(* A second rejection is not, and fails the upload. *)
RetryRejected ==
    pc \in {"retryUrl", "retryStatus"} /\ Rejected /\ SyncFails /\ UNCHANGED <<objects, faults>>

(* So do any other error of the URL request, a failed re-registration before the
   upload, and any error of the status update after a resync. *)
RequestFails ==
    /\ \/ pc \in {"url", "retryUrl", "retryStatus"}
       \/ pc = "recoverUrl" /\ held = pass.config
    /\ SyncFails /\ Fault /\ UNCHANGED objects

(* Every attempt is a PUT of the whole payload to the same URL. *)
PutStored ==
    /\ Step("put", "current")
    /\ objects' = objects \cup {pass.payload}
    /\ UNCHANGED <<pass, lastPayload, queue, notified, faults>>

(* The PUT fails: the object may be there all the same when the reply was lost. *)
PutLost == pc = "put" /\ Fault /\ objects' \in {objects, objects \cup {pass.payload}}

(* 429, 5xx or a network error, but for the last attempt. *)
PutRetried ==
    /\ PutLost /\ pass.attempts + 1 < MaxAttempts
    /\ pass' = [pass EXCEPT !.attempts = @ + 1]
    /\ UNCHANGED <<pc, lastPayload, queue, notified>>

(* Any other status, or the last attempt. *)
PutGivenUp == PutLost /\ SyncFails

(* let current = shared.lock().await.clone() *)
ReadCurrent == Step("current", "status") /\ pass' = [pass EXCEPT !.config = held]

Notice == [payload |-> pass.payload, owner |-> pass.owner, by |-> pass.config]

StatusAccepted ==
    pc \in {"status", "retryStatus"} /\ ~Rejected /\ notified' = Notice /\ SyncDone /\ UNCHANGED faults

(* Another error, with or without the update at the Gateway, or a failed
   re-registration: only logged, so that the upload counts as done. *)
StatusErrorLogged ==
    /\ \/ pc = "status" /\ (notified' = notified \/ (~Rejected /\ notified' = Notice))
       \/ pc = "recoverStatus" /\ held = pass.config /\ UNCHANGED notified
    /\ SyncDone /\ Fault

PassStep ==
    /\ \/ Collect \/ AttachNothing \/ SkipUnchanged \/ DecideUpload
       \/ UrlGranted \/ UrlRejected \/ StatusRejected \/ Recovered \/ ReadCurrent
    /\ UNCHANGED <<lastPayload, queue, storage, exports, faults>>

UploadStep ==
    /\ \/ RetryRejected \/ RequestFails
       \/ PutStored \/ PutRetried \/ PutGivenUp
       \/ StatusAccepted \/ StatusErrorLogged
    /\ UNCHANGED exports

DiscoveryStep ==
    /\ \/ OpenChannel \/ Tick \/ TakeTrigger \/ CollectFails \/ AttachArchive
       \/ PassStep \/ UploadStep
    /\ UNCHANGED <<world, identity, scans, changes>>

(***************************************************************************)
(* The others.                                                             *)
(***************************************************************************)

(* POST /admin/system/scan answered 202: try_send into the channel.  A request that
   finds no channel or a full one is answered 503 and changes nothing. *)
Scan ==
    /\ pc # "off"
    /\ queue < ChannelCapacity
    /\ queue' = queue + 1
    /\ scans < MaxScans /\ scans' = scans + 1
    /\ UNCHANGED <<pc, pass, lastPayload, world, storage, identity, changes, exports, faults>>

TopologyChanges ==
    /\ changes < MaxChanges /\ changes' = changes + 1
    /\ world' \in Topologies \ {world}
    /\ UNCHANGED <<loop, storage, identity, scans, exports, faults>>

(* Startup, the heartbeat loop and the recoveries, as AgentIdentity has them. *)
RegisterAgent == issued < MaxIssued /\ Identity!Issue /\ UNCHANGED <<loop, world, storage, bounds>>
AgentStarts == pc = "off" /\ Identity!Start /\ UNCHANGED <<loop, world, storage, bounds>>
ReplaceIdentity == Identity!Replace /\ UNCHANGED <<loop, world, storage, bounds>>
RevokeIdentity ==
    /\ issued < MaxIssued
    /\ Identity!Revoke
    /\ UNCHANGED <<loop, world, storage, bounds>>

(* The process ends: queued scans and last_payload are lost. *)
Crash ==
    /\ Identity!Stop
    /\ pc' = "off" /\ pass' = NoPass
    /\ lastPayload' = NoPayload /\ queue' = 0
    /\ Fault
    /\ UNCHANGED <<world, storage, scans, changes, exports>>

Next ==
    \/ DiscoveryStep
    \/ Scan \/ TopologyChanges
    \/ RegisterAgent \/ AgentStarts \/ ReplaceIdentity \/ RevokeIdentity \/ Crash

Spec == Init /\ [][Next]_vars

(* The loop is always scheduled, timers fire, a request ends, select! is fair to
   both branches, and startup and recovery get the agent an identity. *)
FairSpec ==
    /\ Spec
    /\ WF_vars(DiscoveryStep)
    /\ SF_vars(TakeTrigger /\ UNCHANGED <<world, identity, scans, changes>>)
    /\ WF_vars(RegisterAgent) /\ WF_vars(AgentStarts) /\ WF_vars(ReplaceIdentity)
-----------------------------------------------------------------------------

(* What the loop remembers as uploaded, and what the Gateway was told is uploaded,
   is in storage: the skip of an unchanged topology never hides a failed upload. *)
UploadedIsStored == {lastPayload, notified.payload} \ {NoPayload} \subseteq objects

(* The Gateway is told of an object by the agent whose upload URL it was put to, though
   the identity is read anew after the PUT: only by a successor if the Gateway turned
   that agent down meanwhile (upload_topology). *)
NoticeOfOwner ==
    notified # NoNotice => notified.by = notified.owner \/ notified.owner \in revoked

(* Once the topology stops changing, and whatever fails before, the loop ends up
   having stored a payload with that topology, and remembers it for good. *)
Converges ==
    \A w \in Topologies :
        <>[](world = w) => <>[](lastPayload.topology = w /\ lastPayload \in objects)

(* A scan request that was answered 202 leads to an upload attempt even if nothing
   changed, unless a collection fails or the process ends in between. *)
ScanForcesUpload ==
    queue > 0 /\ faults = MaxFaults ~> pass.force /\ pc = "url"

(***************************************************************************)
(* A statement of the source's comments that the code does not keep.       *)
(***************************************************************************)

(* src/discovery.rs:102-105: a rejection is resynced from at once, where the next
   tick would have done it otherwise.  But when the status update fails, the loop
   remembers the payload as uploaded, and no later tick tells the Gateway of it. *)
GatewayIsTold ==
    \A w \in Topologies :
        <>[](world = w) => <>[](notified.payload.topology = w)
=============================================================================
