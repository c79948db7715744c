------------------------- MODULE TopologySyncProofs -------------------------
(***************************************************************************)
(* TopologySync: its type invariant, that nothing is remembered or         *)
(* announced as uploaded that is not in storage, and who announces it, for *)
(* every value of the constants.                                           *)
(***************************************************************************)
EXTENDS TopologySync, TLAPS

(***************************************************************************)
(* Type correctness.                                                       *)
(***************************************************************************)

LEMMA TypeInit == Init => TypeOK
BY TopologiesAssumption, NumbersAssumption
DEF Init, TypeOK, States, Passes, NoPass, Payloads, NoPayload, Notices, NoNotice, Identity!Init

LEMMA PassStepType ==
    ASSUME TypeOK, PassStep, UNCHANGED <<world, identity, scans, changes>>
    PROVE  TypeOK'
<1> USE NumbersAssumption DEF TypeOK, States, Passes, Payloads, NoPayload, storage, identity, Step
<1>1. UNCHANGED <<lastPayload, queue, objects, notified, exports, faults>>
  BY DEF PassStep
<1>2. CASE Collect
  BY <1>1, <1>2 DEF Collect
<1>3. CASE AttachNothing \/ SkipUnchanged \/ DecideUpload \/ UrlRejected \/ StatusRejected
  BY <1>1, <1>3 DEF AttachNothing, SkipUnchanged, DecideUpload, UrlRejected, StatusRejected
<1>4. CASE UrlGranted
  BY <1>1, <1>4 DEF UrlGranted
<1>5. CASE Recovered \/ ReadCurrent
  BY <1>1, <1>5 DEF Recovered, ReadCurrent
<1>6. QED
  BY <1>2, <1>3, <1>4, <1>5 DEF PassStep

LEMMA UploadStepType ==
    ASSUME TypeOK, UploadStep, pass.payload \in Payloads,
           UNCHANGED <<world, identity, scans, changes>>
    PROVE  TypeOK'
<1> USE NumbersAssumption
    DEF TypeOK, States, Passes, Notices, storage, identity, SyncFails, SyncDone, Fault
<1>1. UNCHANGED exports
  BY DEF UploadStep
<1>2. CASE RetryRejected \/ RequestFails
  BY <1>1, <1>2 DEF RetryRejected, RequestFails
<1>3. CASE PutStored
  BY <1>1, <1>3 DEF PutStored, Step
<1>4. CASE PutRetried
  BY <1>1, <1>4 DEF PutRetried, PutLost
<1>5. CASE PutGivenUp
  BY <1>1, <1>5 DEF PutGivenUp, PutLost
<1>6. CASE StatusAccepted
  BY <1>1, <1>6 DEF StatusAccepted, Notice
<1>7. CASE StatusErrorLogged
  BY <1>1, <1>7 DEF StatusErrorLogged, Notice
<1>8. QED
  BY <1>2, <1>3, <1>4, <1>5, <1>6, <1>7 DEF UploadStep

(* A pass beyond its collection has a payload to upload. *)
PayloadInv ==
    pc \notin {"off", "select", "collect"} => pass.payload \in Payloads

LEMMA TypeStep == TypeOK /\ PayloadInv /\ [Next]_vars => TypeOK' /\ PayloadInv'
<1> SUFFICES ASSUME TypeOK, PayloadInv, [Next]_vars PROVE TypeOK' /\ PayloadInv'
  OBVIOUS
<1>1. CASE DiscoveryStep
  <2>1. UNCHANGED <<world, identity, scans, changes>>
    BY <1>1 DEF DiscoveryStep
  <2> USE <2>1 DEF storage, identity, Step, PayloadInv
  <2>2. CASE OpenChannel \/ CollectFails
    BY <2>2, NumbersAssumption DEF OpenChannel, CollectFails, Fault, TypeOK, States, NoPayload
  <2>3. CASE Tick \/ TakeTrigger
    <3>1. PICK forced \in BOOLEAN : StartPass(forced)
      BY <2>3 DEF Tick, TakeTrigger
    <3>2. pass' = [force |-> forced, config |-> held, payload |-> NoPayload, owner |-> 0, attempts |-> 0]
      BY <3>1 DEF StartPass, NoPass
    <3>3. pass' \in Passes
      BY <3>2, NumbersAssumption DEF TypeOK, Passes
    <3>4. queue' \in 0..ChannelCapacity
      <4>1. CASE Tick
        BY <4>1 DEF Tick, TypeOK
      <4>2. CASE TakeTrigger
        BY <4>2, NumbersAssumption DEF TakeTrigger, TypeOK
      <4>3. QED
        BY <2>3, <4>1, <4>2
    <3>5. QED
      BY <3>1, <3>3, <3>4 DEF StartPass, TypeOK, States
  <2>4. CASE AttachArchive
    <3>1. exports' \in 0..MaxExports
      BY <2>4, NumbersAssumption DEF AttachArchive, TypeOK
    <3>2. pass.payload \in Payloads
      BY <2>4 DEF AttachArchive
    <3>3. pass' \in Passes /\ pass'.payload \in Payloads
      BY <2>4, <3>1, <3>2 DEF AttachArchive, TypeOK, Passes, Payloads
    <3>4. QED
      BY <2>4, <3>1, <3>3 DEF AttachArchive, TypeOK, States
  <2>5. CASE PassStep
    <3>1. PayloadInv'
      <4>1. CASE Collect
        <5>1. pass'.payload = [topology |-> world, archive |-> 0]
          BY <4>1 DEF Collect, TypeOK, Passes
        <5>2. QED
          BY <5>1, NumbersAssumption DEF TypeOK, Payloads
      <4>2. CASE AttachNothing \/ SkipUnchanged \/ DecideUpload \/ UrlRejected \/ StatusRejected
        BY <4>2 DEF AttachNothing, SkipUnchanged, DecideUpload, UrlRejected, StatusRejected
      <4>3. CASE UrlGranted \/ Recovered \/ ReadCurrent
        <5>1. pass'.payload = pass.payload
          BY <4>3 DEF UrlGranted, Recovered, ReadCurrent, TypeOK, Passes
        <5>2. QED
          BY <4>3, <5>1 DEF UrlGranted, Recovered, ReadCurrent
      <4>4. QED
        BY <2>5, <4>1, <4>2, <4>3 DEF PassStep
    <3>2. QED
      BY <2>5, <3>1, PassStepType
  <2>6. CASE UploadStep
    <3>1. pass.payload \in Payloads
      BY <2>6
      DEF UploadStep, RetryRejected, RequestFails, PutStored, PutRetried, PutGivenUp, PutLost,
          StatusAccepted, StatusErrorLogged
    <3>2. PayloadInv'
      BY <2>6, <3>1
      DEF UploadStep, RetryRejected, RequestFails, PutStored, PutRetried, PutGivenUp, PutLost,
          StatusAccepted, StatusErrorLogged, SyncFails, SyncDone, TypeOK, Passes
    <3>3. QED
      BY <2>6, <3>1, <3>2, UploadStepType
  <2>7. QED
    BY <1>1, <2>2, <2>3, <2>4, <2>5, <2>6 DEF DiscoveryStep
<1>2. CASE Scan
  BY <1>2, NumbersAssumption DEF Scan, TypeOK, PayloadInv, storage, identity
<1>3. CASE TopologyChanges
  BY <1>3, NumbersAssumption DEF TopologyChanges, TypeOK, PayloadInv, loop, storage, identity
<1>4. CASE RegisterAgent
  BY <1>4, NumbersAssumption
  DEF RegisterAgent, Identity!Issue, TypeOK, PayloadInv, loop, storage, bounds
<1>5. CASE AgentStarts
  BY <1>5 DEF AgentStarts, Identity!Start, TypeOK, PayloadInv, loop, storage, bounds
<1>6. CASE ReplaceIdentity
  BY <1>6 DEF ReplaceIdentity, Identity!Replace, TypeOK, PayloadInv, loop, storage, bounds
<1>7. CASE RevokeIdentity
  BY <1>7 DEF RevokeIdentity, Identity!Revoke, TypeOK, PayloadInv, loop, storage, bounds
<1>8. CASE Crash
  BY <1>8, NumbersAssumption
  DEF Crash, Fault, Identity!Stop, TypeOK, PayloadInv, States, Passes, NoPass, NoPayload, storage
<1>9. CASE UNCHANGED vars
  BY <1>9 DEF vars, TypeOK, PayloadInv, loop, storage, identity, bounds
<1>10. QED
  BY <1>1, <1>2, <1>3, <1>4, <1>5, <1>6, <1>7, <1>8, <1>9 DEF Next

(* Every variable keeps its type: the queue never exceeds the channel, a pass never
   makes more than MaxAttempts PUTs, only collected payloads are stored. *)
THEOREM TypeCorrect == Spec => []TypeOK
<1>1. Init => TypeOK /\ PayloadInv
  BY TypeInit DEF Init, PayloadInv
<1>2. QED
  BY <1>1, TypeStep, PTL DEF Spec

(***************************************************************************)
(* What is uploaded is stored.                                             *)
(***************************************************************************)

(* Between the PUT that succeeded and the end of the pass the payload is in
   storage, whatever happens to the identity and the status update meanwhile. *)
StoredInv ==
    /\ lastPayload \in objects \cup {NoPayload}
    /\ notified.payload \in objects \cup {NoPayload}
    /\ pc \in {"current", "status", "recoverStatus", "retryStatus"} => pass.payload \in objects

(* A pass that has not reached the PUT forgets nothing that is stored. *)
LEMMA UploadStepStored ==
    ASSUME StoredInv, UploadStep
    PROVE  StoredInv'
<1> USE DEF StoredInv, SyncFails, SyncDone, storage
<1>1. CASE RetryRejected \/ RequestFails
  BY <1>1 DEF RetryRejected, RequestFails
<1>2. CASE PutStored
  BY <1>2 DEF PutStored, Step
<1>3. CASE PutRetried \/ PutGivenUp
  BY <1>3 DEF PutRetried, PutGivenUp, PutLost
<1>4. CASE StatusAccepted
  <2>1. notified'.payload = pass.payload
    BY <1>4 DEF StatusAccepted, Notice
  <2>2. QED
    BY <1>4, <2>1 DEF StatusAccepted
<1>5. CASE StatusErrorLogged
  <2>1. notified' = notified \/ notified'.payload = pass.payload
    BY <1>5 DEF StatusErrorLogged, Notice
  <2>2. QED
    BY <1>5, <2>1 DEF StatusErrorLogged
<1>6. QED
  BY <1>1, <1>2, <1>3, <1>4, <1>5 DEF UploadStep

LEMMA PassStepStored ==
    ASSUME TypeOK, StoredInv, PassStep
    PROVE  StoredInv'
<1> USE DEF StoredInv, storage, Step
<1>1. UNCHANGED <<lastPayload, objects, notified>>
  BY DEF PassStep
<1>2. CASE Collect \/ AttachNothing \/ SkipUnchanged \/ DecideUpload \/ UrlGranted \/ UrlRejected
  BY <1>1, <1>2 DEF Collect, AttachNothing, SkipUnchanged, DecideUpload, UrlGranted, UrlRejected
<1>3. CASE StatusRejected
  BY <1>1, <1>3 DEF StatusRejected
<1>4. CASE Recovered \/ ReadCurrent
  <2>1. pass'.payload = pass.payload
    BY <1>4 DEF Recovered, ReadCurrent, TypeOK, Passes
  <2>2. QED
    BY <1>1, <1>4, <2>1 DEF Recovered, ReadCurrent
<1>5. QED
  BY <1>2, <1>3, <1>4 DEF PassStep

LEMMA StoredStep == TypeOK /\ StoredInv /\ [Next]_vars => StoredInv'
<1> SUFFICES ASSUME TypeOK, StoredInv, [Next]_vars PROVE StoredInv'
  OBVIOUS
<1> USE DEF StoredInv, loop, storage
<1>1. CASE DiscoveryStep
  <2>1. CASE OpenChannel \/ Tick \/ TakeTrigger \/ CollectFails \/ AttachArchive
    BY <2>1 DEF OpenChannel, Tick, TakeTrigger, StartPass, CollectFails, AttachArchive, Step
  <2>2. QED
    BY <1>1, <2>1, PassStepStored, UploadStepStored DEF DiscoveryStep
<1>2. CASE Scan \/ TopologyChanges
  BY <1>2 DEF Scan, TopologyChanges
<1>3. CASE RegisterAgent \/ AgentStarts \/ ReplaceIdentity \/ RevokeIdentity
  BY <1>3 DEF RegisterAgent, AgentStarts, ReplaceIdentity, RevokeIdentity
<1>4. CASE Crash
  BY <1>4 DEF Crash
<1>5. CASE UNCHANGED vars
  BY <1>5 DEF vars
<1>6. QED
  BY <1>1, <1>2, <1>3, <1>4, <1>5 DEF Next

(* For any topologies, channel capacity, number of attempts and faults: what the loop
   remembers as uploaded and what the Gateway was told of is in storage. *)
THEOREM UploadsAreStored == Spec => []UploadedIsStored
<1>1. Init => StoredInv
  BY DEF Init, StoredInv, NoNotice
<1>2. StoredInv => UploadedIsStored
  BY DEF StoredInv, UploadedIsStored
<1>3. QED
  BY <1>1, <1>2, StoredStep, TypeCorrect, PTL DEF Spec

(***************************************************************************)
(* Who announces an object.                                                *)
(***************************************************************************)

(* While a pass goes on, the identity it works under and the one its upload URL was
   granted to are the agent's present one, or they have been revoked: an identity is
   only replaced when it is, and a crash ends the pass. *)
Current(identityOf) == identityOf = held \/ identityOf \in revoked

OwnerInv ==
    /\ pc \notin {"off", "select"} => Current(pass.config)
    /\ pc \in {"put", "current", "status", "recoverStatus", "retryStatus"} => Current(pass.owner)
    /\ NoticeOfOwner

LEMMA UploadStepOwner ==
    ASSUME TypeOK, OwnerInv, UploadStep, UNCHANGED identity
    PROVE  OwnerInv'
<1> USE DEF OwnerInv, Current, NoticeOfOwner, NoNotice, identity, storage, SyncFails, SyncDone
<1>1. CASE RetryRejected \/ RequestFails
  BY <1>1 DEF RetryRejected, RequestFails
<1>2. CASE PutStored
  BY <1>2 DEF PutStored, Step
<1>3. CASE PutRetried
  <2>1. pass'.config = pass.config /\ pass'.owner = pass.owner
    BY <1>3 DEF PutRetried, TypeOK, Passes
  <2>2. QED
    BY <1>3, <2>1 DEF PutRetried, PutLost
<1>4. CASE PutGivenUp
  BY <1>4 DEF PutGivenUp, PutLost
<1>5. CASE StatusAccepted
  <2>1. pass.config = held /\ notified'.by = pass.config /\ notified'.owner = pass.owner
    BY <1>5 DEF StatusAccepted, Rejected, Notice
  <2>2. QED
    BY <1>5, <2>1 DEF StatusAccepted
<1>6. CASE StatusErrorLogged
  <2>1. \/ notified' = notified
        \/ pass.config = held /\ notified'.by = pass.config /\ notified'.owner = pass.owner
    BY <1>6 DEF StatusErrorLogged, Rejected, Notice
  <2>2. QED
    BY <1>6, <2>1 DEF StatusErrorLogged
<1>7. QED
  BY <1>1, <1>2, <1>3, <1>4, <1>5, <1>6 DEF UploadStep

LEMMA PassStepOwner ==
    ASSUME TypeOK, OwnerInv, PassStep, UNCHANGED identity
    PROVE  OwnerInv'
<1> USE DEF OwnerInv, Current, NoticeOfOwner, NoNotice, identity, storage, Step
<1>1. UNCHANGED notified
  BY DEF PassStep
<1>2. CASE Collect
  <2>1. pass'.config = pass.config
    BY <1>2 DEF Collect, TypeOK, Passes
  <2>2. QED
    BY <1>1, <1>2, <2>1 DEF Collect
<1>3. CASE AttachNothing \/ SkipUnchanged \/ DecideUpload \/ UrlRejected \/ StatusRejected
  BY <1>1, <1>3 DEF AttachNothing, SkipUnchanged, DecideUpload, UrlRejected, StatusRejected
<1>4. CASE UrlGranted
  <2>1. pass'.config = pass.config /\ pass'.owner = pass.config
    BY <1>4 DEF UrlGranted, TypeOK, Passes
  <2>2. QED
    BY <1>1, <1>4, <2>1 DEF UrlGranted
<1>5. CASE Recovered \/ ReadCurrent
  <2>1. pass'.config = held /\ pass'.owner = pass.owner
    BY <1>5 DEF Recovered, ReadCurrent, TypeOK, Passes
  <2>2. QED
    BY <1>1, <1>5, <2>1 DEF Recovered, ReadCurrent
<1>6. QED
  BY <1>2, <1>3, <1>4, <1>5 DEF PassStep

LEMMA OwnerStep == TypeOK /\ OwnerInv /\ [Next]_vars => OwnerInv'
<1> SUFFICES ASSUME TypeOK, OwnerInv, [Next]_vars PROVE OwnerInv'
  OBVIOUS
<1> USE DEF OwnerInv, NoticeOfOwner, NoNotice, loop, storage, identity
<1>1. CASE DiscoveryStep
  <2>1. UNCHANGED identity
    BY <1>1 DEF DiscoveryStep
  <2>2. CASE OpenChannel \/ CollectFails
    BY <2>1, <2>2 DEF OpenChannel, CollectFails, Step, Current
  <2>3. CASE Tick \/ TakeTrigger
    <3>1. PICK forced \in BOOLEAN : StartPass(forced)
      BY <2>3 DEF Tick, TakeTrigger
    <3>2. pass'.config = held
      BY <3>1 DEF StartPass, NoPass
    <3>3. QED
      BY <2>1, <3>1, <3>2 DEF StartPass, Step, Current
  <2>4. CASE AttachArchive
    <3>1. pass'.config = pass.config
      BY <2>4 DEF AttachArchive, TypeOK, Passes
    <3>2. QED
      BY <2>1, <2>4, <3>1 DEF AttachArchive, Step, Current
  <2>5. QED
    BY <1>1, <2>1, <2>2, <2>3, <2>4, PassStepOwner, UploadStepOwner DEF DiscoveryStep
<1>2. CASE Scan \/ TopologyChanges
  BY <1>2 DEF Scan, TopologyChanges, Current
<1>3. CASE RegisterAgent \/ ReplaceIdentity \/ RevokeIdentity
  <2>1. UNCHANGED <<pc, pass, notified>>
    BY <1>3 DEF RegisterAgent, ReplaceIdentity, RevokeIdentity
  <2>2. Identity!Issue \/ Identity!Replace \/ Identity!Revoke
    BY <1>3 DEF RegisterAgent, ReplaceIdentity, RevokeIdentity
  <2>3. revoked \subseteq revoked'
    BY <2>2 DEF Identity!Issue, Identity!Replace, Identity!Revoke
  <2>4. \A n : Current(n) => Current(n)'
    BY <2>2 DEF Current, Identity!Issue, Identity!Replace, Identity!Revoke
  <2>5. QED
    BY <2>1, <2>3, <2>4 DEF Current
<1>4. CASE AgentStarts
  BY <1>4 DEF AgentStarts, Identity!Start
<1>5. CASE Crash
  BY <1>5 DEF Crash, Identity!Stop
<1>6. CASE UNCHANGED vars
  BY <1>6 DEF vars, Current
<1>7. QED
  BY <1>1, <1>2, <1>3, <1>4, <1>5, <1>6 DEF Next

(* However the identity is revoked, replaced or lost meanwhile: an object is announced by
   the agent that was granted its upload URL, or by one that came after its revocation. *)
THEOREM OwnersAnnounce == Spec => []NoticeOfOwner
<1>1. Init => OwnerInv
  BY DEF Init, OwnerInv, NoticeOfOwner
<1>2. OwnerInv => NoticeOfOwner
  BY DEF OwnerInv
<1>3. QED
  BY <1>1, <1>2, OwnerStep, TypeCorrect, PTL DEF Spec
=============================================================================
