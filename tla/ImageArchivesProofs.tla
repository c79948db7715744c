------------------------- MODULE ImageArchivesProofs -------------------------
(***************************************************************************)
(* ImageArchives: type correctness, and that references lead to archives,  *)
(* are shared and are uploaded under the right host, for every payload,    *)
(* every set of hosts and every number of attempts and seconds.            *)
(***************************************************************************)
EXTENDS ImageArchives, TLAPS

Exporting == {"url", "save", "saveUsrBin", "put"}

(* The archive in hand is that of the container being visited, and there was none of
   its image before. *)
InHand ==
    pc \in Exporting =>
        /\ k \in Local /\ Image \notin DOMAIN exported
        /\ \E t \in 0..now : object = Filename(Image, t)

(***************************************************************************)
(* Type correctness.                                                       *)
(***************************************************************************)

LEMMA ListsAreSequences ==
    ASSUME NEW list \in ContainerLists
    PROVE  Len(list) \in Nat /\ DOMAIN list = 1..Len(list)
BY ListsAssumption

(* File names get no fewer as time passes. *)
LEMMA ObjectsGrow ==
    ASSUME now \in Nat, now' \in Nat, now <= now', UNCHANGED containers
    PROVE  Local' = Local /\ Objects \subseteq Objects'
BY DEF Local, Objects

LEMMA TypeInit == Init => TypeOK /\ InHand
<1> SUFFICES ASSUME Init PROVE TypeOK /\ InHand
  OBVIOUS
<1>1. Len(containers) \in Nat /\ DOMAIN containers = 1..Len(containers)
  BY ListsAreSequences DEF Init
<1>2. QED
  BY <1>1, HostsAssumption, BoundsAssumption DEF Init, TypeOK, InHand, Exporting, NoUrl

LEMMA TypeStep == TypeOK /\ InHand /\ [Next]_vars => TypeOK' /\ InHand'
<1> SUFFICES ASSUME TypeOK, InHand, [Next]_vars PROVE TypeOK' /\ InHand'
  OBVIOUS
<1>1. Len(containers) \in Nat /\ DOMAIN containers = 1..Len(containers)
  BY ListsAreSequences DEF TypeOK
<1>2. now \in Nat /\ k \in Nat /\ attempts \in Nat
  BY <1>1, BoundsAssumption DEF TypeOK
<1>3. CASE PassStep
  <2>1. UNCHANGED <<containers, now>>
    BY <1>3 DEF PassStep, BeginPass, SkipContainer, ReuseArchive, NameArchive, EndPass, UrlFails,
                UrlGranted, SpawnFails, Saved, SaveFails, PutStored, PutRetried, PutGivenUp,
                GiveUp, pass
  <2>2. Local' = Local /\ Objects' = Objects
    BY <2>1 DEF Local, Objects
  <2>3. Visiting => k \in DOMAIN containers /\ k + 1 \in 1..(Len(containers) + 1)
    BY <1>1, <1>2 DEF Visiting, TypeOK
  <2>4. pc \in Exporting => k + 1 \in 1..(Len(containers) + 1) /\ k \in DOMAIN containers
    BY <1>1, <1>2 DEF InHand, Local
  <2>5. ASSUME BeginPass \/ EndPass PROVE TypeOK' /\ InHand'
    BY <2>1, <2>2, <2>5 DEF BeginPass, EndPass, Begin, Step, pass, upload, TypeOK, InHand, Exporting
  <2>6. ASSUME SkipContainer PROVE TypeOK' /\ InHand'
    BY <2>1, <2>2, <2>3, <2>6 DEF SkipContainer, NextContainer, upload, TypeOK, InHand, Exporting
  <2>7. ASSUME ReuseArchive PROVE TypeOK' /\ InHand'
    BY <2>1, <2>2, <2>3, <2>7
    DEF ReuseArchive, NextContainer, Attach, upload, TypeOK, InHand, Exporting
  <2>8. ASSUME NameArchive PROVE TypeOK' /\ InHand'
    <3>1. k \in Local /\ now \in 0..now
      BY <1>2, <2>3, <2>8 DEF NameArchive, Local, Image
    <3>2. object' \in Objects
      BY <3>1, <2>8 DEF NameArchive, Objects, Image
    <3>3. InHand'
      BY <2>1, <2>2, <3>1, <2>8 DEF NameArchive, InHand, Image, pass
    <3>4. QED
      BY <2>1, <2>2, <3>2, <3>3, <2>8 DEF NameArchive, TypeOK, pass
  <2>9. ASSUME UrlFails \/ SaveFails PROVE TypeOK' /\ InHand'
    BY <2>1, <2>2, <2>4, <2>9
    DEF UrlFails, SaveFails, GiveUp, NextContainer, upload, TypeOK, InHand, Exporting
  <2>10. ASSUME NEW host \in Hosts, UrlGranted(host) PROVE TypeOK' /\ InHand'
    <3>1. url' \in [dialled : Hosts \cup {NoHost, LocalHost}, signed : Hosts \cup {NoHost}]
      BY <2>10 DEF UrlGranted
    <3>2. minioHost' \in InternalHosts \cup {NoHost}
      BY <2>10 DEF UrlGranted, Remembered, TypeOK
    <3>3. QED
      BY <2>1, <2>2, <3>1, <3>2, <2>10 DEF UrlGranted, Step, pass, TypeOK, InHand, Image, Exporting
  <2>11. ASSUME SpawnFails \/ Saved PROVE TypeOK' /\ InHand'
    BY <2>1, <2>2, <2>11, BoundsAssumption
    DEF SpawnFails, Saved, Step, pass, upload, TypeOK, InHand, Image, Exporting
  <2>12. ASSUME pc = "put" PROVE Image \in {containers[i] : i \in Local} /\ object \in Objects
    BY <2>12 DEF InHand, Exporting, Image, Objects
  <2>13. ASSUME pc = "put", Store \/ UNCHANGED storage
         PROVE  /\ DOMAIN storage' \subseteq Objects
                /\ \A o \in DOMAIN storage' : storage'[o] \in {containers[i] : i \in Local}
    BY <2>12, <2>13 DEF Store, Insert, TypeOK
  <2>14. ASSUME PutStored PROVE TypeOK' /\ InHand'
    <3>1. /\ DOMAIN exported' \subseteq {containers[i] : i \in Local}
          /\ \A image \in DOMAIN exported' : exported'[image] \in Objects
      BY <2>12, <2>14 DEF PutStored, Insert, TypeOK
    <3>2. refs' \in [DOMAIN containers -> Objects \cup {NoObject}]
      BY <2>12, <2>14 DEF PutStored, Attach, TypeOK
    <3>3. pc = "put" /\ pc' = "next" /\ k' = k + 1 /\ UNCHANGED <<upload, minioHost>> /\ Store
      BY <2>14 DEF PutStored, NextContainer
    <3>4. QED
      BY <2>1, <2>2, <2>4, <2>13, <3>1, <3>2, <3>3 DEF upload, TypeOK, InHand, Exporting
  <2>15. ASSUME PutRetried PROVE TypeOK' /\ InHand'
    <3>1. attempts' \in 0..(MaxAttempts - 1)
      BY <1>2, <2>15, BoundsAssumption DEF PutRetried
    <3>2. /\ pc = "put" /\ pc' = "put" /\ UNCHANGED <<pass, object, url, minioHost>>
          /\ Store \/ UNCHANGED storage
      BY <2>15 DEF PutRetried, Step
    <3>3. QED
      BY <2>1, <2>2, <2>13, <3>1, <3>2 DEF pass, TypeOK, InHand, Image, Exporting
  <2>16. ASSUME PutGivenUp PROVE TypeOK' /\ InHand'
    <3>1. /\ pc = "put" /\ pc' = "next" /\ k' = k + 1
          /\ UNCHANGED <<refs, exported, upload, minioHost>>
          /\ Store \/ UNCHANGED storage
      BY <2>16 DEF PutGivenUp, GiveUp, NextContainer
    <3>2. QED
      BY <2>1, <2>2, <2>4, <2>13, <3>1 DEF upload, TypeOK, InHand, Exporting
  <2>17. QED
    BY <1>3, <2>5, <2>6, <2>7, <2>8, <2>9, <2>10, <2>11, <2>14, <2>15, <2>16 DEF PassStep
<1>4. CASE Second
  <2>1. now' \in Nat /\ now <= now' /\ now' \in 0..MaxNow /\ 0..now \subseteq 0..now'
    BY <1>2, <1>4, BoundsAssumption DEF Second
  <2>2. UNCHANGED <<pc, containers, k, refs, exported, object, url, attempts, minioHost, storage>>
    BY <1>4 DEF Second, pass, upload
  <2>3. Local' = Local /\ Objects \subseteq Objects'
    BY <1>2, <2>1, <2>2, ObjectsGrow
  <2>4. QED
    BY <2>1, <2>2, <2>3 DEF TypeOK, InHand, Image
<1>5. CASE UNCHANGED vars
  BY <1>5 DEF vars, pass, upload, TypeOK, InHand, Image, Local, Objects
<1>6. QED
  BY <1>3, <1>4, <1>5 DEF Next, Attached

(* Only images that are exported get an object, and no PUT exceeds its attempts, for any
   payload. *)
THEOREM TypeCorrect == Spec => [](TypeOK /\ InHand)
BY TypeInit, TypeStep, PTL DEF Spec

(***************************************************************************)
(* The archives.                                                           *)
(***************************************************************************)

(* What the pass has exported so far is what the containers visited so far refer to. *)
AttachedInv ==
    \A i \in DOMAIN containers :
        IF i < k
        THEN refs[i] # NoObject => /\ containers[i] \in DOMAIN exported
                                  /\ refs[i] = exported[containers[i]]
        ELSE refs[i] = NoObject

(* An exported archive is referred to and in storage under the name of its image, where
   only a later image of the same sanitized name can have taken its place. *)
StoredInv ==
    \A image \in DOMAIN exported :
        /\ \E t \in 0..now : exported[image] = Filename(image, t)
        /\ \E g \in DOMAIN containers :
              g < k /\ containers[g] = image /\ refs[g] = exported[image]
        /\ exported[image] \in DOMAIN storage
        /\ storage[exported[image]] = image \/ Overwritten(image, exported[image])

ArchivesInv == AttachedInv /\ StoredInv /\ ArchiveShared

LEMMA ReferencesFollow == TypeOK /\ AttachedInv /\ StoredInv => ReferencesResolve
<1> SUFFICES ASSUME TypeOK, AttachedInv, StoredInv,
                    NEW i \in DOMAIN containers, refs[i] # NoObject
             PROVE  /\ refs[i] \in DOMAIN storage
                    /\ storage[refs[i]] = containers[i] \/ Overwritten(containers[i], refs[i])
  BY DEF ReferencesResolve
<1>1. containers[i] \in DOMAIN exported /\ refs[i] = exported[containers[i]]
  BY DEF AttachedInv
<1>2. QED
  BY <1>1 DEF StoredInv

(* While nothing is stored, what was exported stays. *)
LEMMA StoredKept ==
    ASSUME StoredInv, DOMAIN containers \subseteq Nat, k \in Nat, k' \in Nat, k <= k',
           now \in Nat, now' \in Nat, now <= now', UNCHANGED <<containers, exported, storage>>,
           \A g \in DOMAIN containers : g < k => refs'[g] = refs[g]
    PROVE  StoredInv'
<1>1. 0..now \subseteq 0..now'
  OBVIOUS
<1>2. SUFFICES ASSUME NEW image \in DOMAIN exported
               PROVE  /\ \E g \in DOMAIN containers :
                            g < k' /\ containers[g] = image /\ refs'[g] = exported[image]
                      /\ \/ storage[exported[image]] = image
                         \/ Overwritten(image, exported[image])'
  BY <1>1 DEF StoredInv
<1>3. PICK g \in DOMAIN containers : g < k /\ containers[g] = image /\ refs[g] = exported[image]
  BY DEF StoredInv
<1>4. g < k' /\ refs'[g] = exported[image]
  BY <1>3
<1>5. CASE storage[exported[image]] = image
  BY <1>3, <1>4, <1>5
<1>6. CASE Overwritten(image, exported[image])
  <2>1. PICK first \in DOMAIN containers, later \in DOMAIN containers :
            /\ first < later /\ later <= k
            /\ containers[first] = image /\ refs[first] = exported[image]
            /\ Sanitize(containers[later]) = Sanitize(image)
            /\ containers[later] = storage[exported[image]]
    BY <1>6 DEF Overwritten
  <2>2. first < k /\ later <= k'
    BY <2>1
  <2>3. refs'[first] = exported[image]
    BY <2>1, <2>2
  <2>4. Overwritten(image, exported[image])'
    BY <2>1, <2>2, <2>3 DEF Overwritten
  <2>5. QED
    BY <1>3, <1>4, <2>4
<1>7. QED
  BY <1>5, <1>6 DEF StoredInv

(* A PUT of the archive in hand leaves every exported archive in storage: what takes the
   place of one is the image of the container being visited. *)
LEMMA PutKeeps ==
    ASSUME TypeOK, InHand, StoredInv, DOMAIN containers \subseteq Nat, k \in Nat, k' \in {k, k + 1},
           pc = "put", Store, UNCHANGED <<containers, now>>,
           \A g \in DOMAIN containers : g < k => refs'[g] = refs[g],
           NEW image \in DOMAIN exported, exported'[image] = exported[image]
    PROVE  /\ \E g \in DOMAIN containers :
                 g < k' /\ containers[g] = image /\ refs'[g] = exported[image]
           /\ exported[image] \in DOMAIN storage'
           /\ storage'[exported[image]] = image \/ Overwritten(image, exported[image])'
<1>1. PICK g \in DOMAIN containers : g < k /\ containers[g] = image /\ refs[g] = exported[image]
  BY DEF StoredInv
<1>2. /\ exported[image] \in DOMAIN storage
      /\ storage[exported[image]] = image \/ Overwritten(image, exported[image])
  BY DEF StoredInv
<1>3. /\ DOMAIN storage' = DOMAIN storage \cup {object} /\ storage'[object] = Image
      /\ \A o \in DOMAIN storage : o # object => storage'[o] = storage[o]
  BY DEF Store, Insert
<1>4. g < k' /\ refs'[g] = exported[image] /\ exported[image] \in DOMAIN storage'
  BY <1>1, <1>2, <1>3
<1>5. CASE exported[image] = object
  <2>1. k \in DOMAIN containers /\ Sanitize(Image) = Sanitize(image)
    BY <1>5 DEF InHand, Exporting, StoredInv, Filename, Local
  <2>2. k <= k' /\ containers[k] = Image
    BY DEF Image
  <2>3. Overwritten(image, exported[image])'
    BY <1>1, <1>3, <1>4, <1>5, <2>1, <2>2 DEF Overwritten
  <2>4. QED
    BY <1>1, <1>4, <2>3
<1>6. CASE exported[image] # object /\ storage[exported[image]] = image
  BY <1>1, <1>2, <1>3, <1>4, <1>6
<1>7. CASE exported[image] # object /\ Overwritten(image, exported[image])
  <2>1. PICK first \in DOMAIN containers, later \in DOMAIN containers :
            /\ first < later /\ later <= k
            /\ containers[first] = image /\ refs[first] = exported[image]
            /\ Sanitize(containers[later]) = Sanitize(image)
            /\ containers[later] = storage[exported[image]]
    BY <1>7 DEF Overwritten
  <2>2. first < k /\ later <= k'
    BY <2>1
  <2>3. refs'[first] = exported[image] /\ storage'[exported[image]] = storage[exported[image]]
    BY <1>2, <1>3, <1>7, <2>1, <2>2
  <2>4. Overwritten(image, exported[image])'
    BY <2>1, <2>2, <2>3 DEF Overwritten
  <2>5. QED
    BY <1>1, <1>4, <2>4
<1>8. QED
  BY <1>2, <1>5, <1>6, <1>7

LEMMA StoreKeeps ==
    ASSUME TypeOK, InHand, StoredInv, DOMAIN containers \subseteq Nat, k \in Nat, k' \in {k, k + 1},
           now \in Nat, pc = "put", Store \/ UNCHANGED storage,
           UNCHANGED <<containers, exported, refs, now>>
    PROVE  StoredInv'
<1>1. CASE UNCHANGED storage
  BY <1>1, StoredKept
<1>2. CASE Store
  <2>1. \A image \in DOMAIN exported :
            /\ \E g \in DOMAIN containers :
                  g < k' /\ containers[g] = image /\ refs'[g] = exported[image]
            /\ exported[image] \in DOMAIN storage'
            /\ storage'[exported[image]] = image \/ Overwritten(image, exported[image])'
    BY <1>2, PutKeeps
  <2>2. QED
    BY <2>1 DEF StoredInv
<1>3. QED
  BY <1>1, <1>2

LEMMA ArchivesStep ==
    TypeOK /\ InHand /\ ArchivesInv /\ [Next]_vars => ArchivesInv'
<1> SUFFICES ASSUME TypeOK, InHand, ArchivesInv, [Next]_vars PROVE ArchivesInv'
  OBVIOUS
<1>1. Len(containers) \in Nat /\ DOMAIN containers = 1..Len(containers)
  BY ListsAreSequences DEF TypeOK
<1>2. now \in Nat /\ k \in 1..(Len(containers) + 1) /\ k \in Nat
  BY <1>1, BoundsAssumption DEF TypeOK
<1>3. refs \in [DOMAIN containers -> Objects \cup {NoObject}]
  BY DEF TypeOK
<1>4. ASSUME UNCHANGED <<containers, now, k, refs, exported, storage>> PROVE ArchivesInv'
  BY <1>4 DEF ArchivesInv, AttachedInv, StoredInv, Overwritten, ArchiveShared
<1>5. ASSUME NextContainer, k \in DOMAIN containers, Image \notin DOMAIN exported,
             UNCHANGED <<containers, refs, exported>>
      PROVE  AttachedInv' /\ ArchiveShared'
  <2>1. \A i \in DOMAIN containers : i < k + 1 <=> i < k \/ i = k
    BY <1>1, <1>2
  <2>2. refs[k] = NoObject
    BY <1>2, <1>5 DEF ArchivesInv, AttachedInv
  <2>3. \A i \in 1..(k - 1) : containers[i] = containers[k] => refs[i] = NoObject
    BY <1>1, <1>2, <1>5 DEF ArchivesInv, AttachedInv, Image
  <2>4. AttachedInv'
    BY <1>5, <2>1, <2>2 DEF ArchivesInv, AttachedInv, NextContainer
  <2>5. ArchiveShared'
    BY <1>1, <1>2, <1>5, <2>2, <2>3 DEF ArchivesInv, ArchiveShared, NextContainer
  <2>6. QED
    BY <2>4, <2>5
<1>6. ASSUME NEW o, NextContainer, k \in DOMAIN containers, Attach(o),
             Image \in DOMAIN exported', exported'[Image] = o,
             \A image \in DOMAIN exported :
                 image \in DOMAIN exported' /\ exported'[image] = exported[image],
             UNCHANGED containers
      PROVE  AttachedInv' /\ ArchiveShared'
  <2>1. \A i \in DOMAIN containers : i < k + 1 <=> i < k \/ i = k
    BY <1>1, <1>2
  <2>2. refs'[k] = o /\ \A i \in DOMAIN containers : i # k => refs'[i] = refs[i]
    BY <1>3, <1>6 DEF Attach
  <2>3. \A i \in 1..(k - 1) : containers[i] = containers[k] /\ refs[i] # NoObject => refs[i] = o
    BY <1>1, <1>2, <1>6 DEF ArchivesInv, AttachedInv, Image
  <2>4. AttachedInv'
    BY <1>2, <1>6, <2>1, <2>2 DEF ArchivesInv, AttachedInv, NextContainer, Image
  <2>5. ArchiveShared'
    BY <1>1, <1>2, <1>6, <2>2, <2>3 DEF ArchivesInv, ArchiveShared, NextContainer
  <2>6. QED
    BY <2>4, <2>5
<1>7. CASE PassStep
  <2>1. UNCHANGED <<containers, now>>
    BY <1>7 DEF PassStep, BeginPass, SkipContainer, ReuseArchive, NameArchive, EndPass, UrlFails,
                UrlGranted, SpawnFails, Saved, SaveFails, PutStored, PutRetried, PutGivenUp,
                GiveUp, pass
  <2>2. ASSUME UNCHANGED <<exported, storage>>, k' \in {k, k + 1},
               \A g \in DOMAIN containers : g < k => refs'[g] = refs[g]
        PROVE  StoredInv'
    <3>1. DOMAIN containers \subseteq Nat /\ k' \in Nat /\ k <= k'
      BY <1>1, <1>2, <2>2
    <3>2. QED
      BY <1>2, <2>1, <2>2, <3>1, StoredKept DEF ArchivesInv
  <2>3. Visiting => k \in DOMAIN containers
    BY <1>1, <1>2 DEF Visiting
  <2>4. pc \in Exporting => k \in DOMAIN containers /\ Image \notin DOMAIN exported
    BY DEF InHand, Local
  <2>5. CASE BeginPass \/ EndPass \/ NameArchive \/ SpawnFails \/ Saved
             \/ \E host \in Hosts : UrlGranted(host)
    BY <1>4, <2>1, <2>5 DEF BeginPass, EndPass, NameArchive, SpawnFails, Saved, UrlGranted, pass
  <2>6. CASE SkipContainer
    <3>1. Image \notin DOMAIN exported
      BY <2>6 DEF SkipContainer, TypeOK, Local
    <3>2. QED
      BY <1>5, <2>2, <2>3, <2>6, <3>1 DEF SkipContainer, NextContainer, ArchivesInv
  <2>7. CASE ReuseArchive
    <3>1. AttachedInv' /\ ArchiveShared'
      BY <1>6, <2>3, <2>7 DEF ReuseArchive
    <3>2. \A g \in DOMAIN containers : g < k => refs'[g] = refs[g]
      BY <1>2, <1>3, <2>7 DEF ReuseArchive, Attach
    <3>3. QED
      BY <2>2, <2>7, <3>1, <3>2 DEF ReuseArchive, NextContainer, ArchivesInv
  <2>8. CASE UrlFails \/ SaveFails
    BY <1>5, <2>2, <2>4, <2>8 DEF UrlFails, SaveFails, GiveUp, NextContainer, Exporting, ArchivesInv
  <2>9. CASE PutStored
    <3>1. /\ Image \in DOMAIN exported' /\ exported'[Image] = object
          /\ DOMAIN exported' = DOMAIN exported \cup {Image}
          /\ \A image \in DOMAIN exported : exported'[image] = exported[image]
      BY <2>4, <2>9 DEF PutStored, Insert, Exporting
    <3>2. AttachedInv' /\ ArchiveShared'
      BY <1>6, <2>4, <2>9, <3>1 DEF PutStored, Exporting
    <3>3. \E t \in 0..now : object = Filename(Image, t)
      BY <2>9 DEF PutStored, InHand, Exporting
    <3>4. object \in DOMAIN storage' /\ storage'[object] = Image
      BY <2>9 DEF PutStored, Store, Insert
    <3>5. /\ refs'[k] = object /\ k' = k + 1 /\ DOMAIN containers \subseteq Nat
          /\ \A g \in DOMAIN containers : g < k => refs'[g] = refs[g]
      BY <1>1, <1>2, <1>3, <2>4, <2>9 DEF PutStored, Attach, NextContainer, Exporting
    <3>6. \A image \in DOMAIN exported :
              /\ \E g \in DOMAIN containers :
                    g < k' /\ containers[g] = image /\ refs'[g] = exported[image]
              /\ exported[image] \in DOMAIN storage'
              /\ storage'[exported[image]] = image \/ Overwritten(image, exported[image])'
      BY <1>2, <2>1, <2>9, <3>1, <3>5, PutKeeps DEF PutStored, ArchivesInv
    <3>7. k < k' /\ containers[k] = Image /\ k \in DOMAIN containers
      BY <1>2, <2>4, <2>9, <3>5 DEF PutStored, Exporting, Image
    <3>8. StoredInv'
      <4>1. \A image \in DOMAIN exported : \E t \in 0..now : exported[image] = Filename(image, t)
        BY DEF ArchivesInv, StoredInv
      <4>2. QED
        BY <2>1, <3>1, <3>3, <3>4, <3>5, <3>6, <3>7, <4>1 DEF StoredInv
    <3>9. QED
      BY <3>2, <3>8 DEF ArchivesInv
  <2>10. CASE PutRetried
    <3>1. pc = "put" /\ (Store \/ UNCHANGED storage) /\ UNCHANGED <<k, refs, exported>>
      BY <2>10 DEF PutRetried, Step, pass
    <3>2. StoredInv'
      <4>1. DOMAIN containers \subseteq Nat
        BY <1>1
      <4>2. QED
        BY <1>2, <2>1, <3>1, <4>1, StoreKeeps DEF ArchivesInv
    <3>3. QED
      BY <2>1, <3>1, <3>2 DEF ArchivesInv, AttachedInv, ArchiveShared
  <2>11. CASE PutGivenUp
    <3>1. /\ pc = "put" /\ (Store \/ UNCHANGED storage) /\ NextContainer
          /\ UNCHANGED <<refs, exported>>
      BY <2>11 DEF PutGivenUp, GiveUp
    <3>2. StoredInv'
      <4>1. DOMAIN containers \subseteq Nat /\ k' = k + 1
        BY <1>1, <3>1 DEF NextContainer
      <4>2. QED
        BY <1>2, <2>1, <3>1, <4>1, StoreKeeps DEF ArchivesInv
    <3>3. QED
      BY <1>5, <2>1, <2>4, <3>1, <3>2 DEF Exporting, ArchivesInv
  <2>12. QED
    BY <1>7, <2>5, <2>6, <2>7, <2>8, <2>9, <2>10, <2>11 DEF PassStep
<1>8. CASE Second
  <2>1. now' \in Nat /\ now <= now'
    BY <1>2, <1>8 DEF Second
  <2>2. UNCHANGED <<containers, k, refs, exported, storage>>
    BY <1>8 DEF Second, pass
  <2>3. StoredInv'
    <3>1. DOMAIN containers \subseteq Nat
      BY <1>1
    <3>2. QED
      BY <1>2, <2>1, <2>2, <3>1, StoredKept DEF ArchivesInv
  <2>4. QED
    BY <2>2, <2>3 DEF ArchivesInv, AttachedInv, ArchiveShared
<1>9. CASE UNCHANGED vars
  BY <1>4, <1>9 DEF vars, pass
<1>10. QED
  BY <1>7, <1>8, <1>9 DEF Next, Attached

LEMMA ArchivesInit == Init => ArchivesInv
<1> SUFFICES ASSUME Init PROVE ArchivesInv
  OBVIOUS
<1>1. Len(containers) \in Nat /\ DOMAIN containers = 1..Len(containers)
  BY ListsAreSequences DEF Init
<1>2. QED
  BY <1>1 DEF Init, ArchivesInv, AttachedInv, StoredInv, ArchiveShared

(* Whatever fails on the way, a reference that is attached to a container leads to an
   archive in storage: of its own image, or of one visited after that was exported, with
   the same sanitized name. *)
THEOREM ReferencesLead == Spec => []ReferencesResolve
<1>1. TypeOK /\ InHand /\ ArchivesInv => ReferencesResolve
  BY ReferencesFollow DEF ArchivesInv
<1>2. QED
  BY <1>1, ArchivesInit, ArchivesStep, TypeCorrect, PTL DEF Spec

(* Containers of one image share the archive of the first that got one. *)
THEOREM ArchivesAreShared == Spec => []ArchiveShared
<1>1. ArchivesInv => ArchiveShared
  BY DEF ArchivesInv
<1>2. QED
  BY <1>1, ArchivesInit, ArchivesStep, TypeCorrect, PTL DEF Spec

(***************************************************************************)
(* The Host header.                                                        *)
(***************************************************************************)

(* From the URL to the last PUT to it the client remembers the host of that URL. *)
HostInv ==
    pc \in {"save", "saveUsrBin", "put"} /\ url.dialled # url.signed =>
        url.dialled = LocalHost /\ minioHost = url.signed /\ minioHost # NoHost

LEMMA HostStep == HostInv /\ [Next]_vars => HostInv'
<1> SUFFICES ASSUME HostInv, [Next]_vars PROVE HostInv'
  OBVIOUS
<1>1. ASSUME NEW host \in Hosts, UrlGranted(host) PROVE HostInv'
  BY <1>1, HostsAssumption DEF UrlGranted, Remembered, HostInv
<1>2. CASE SpawnFails \/ Saved \/ PutRetried
  BY <1>2 DEF SpawnFails, Saved, PutRetried, Step, upload, HostInv
<1>3. CASE \/ BeginPass \/ SkipContainer \/ ReuseArchive \/ NameArchive \/ EndPass \/ UrlFails
           \/ SaveFails \/ PutStored \/ PutGivenUp
  BY <1>3 DEF BeginPass, Begin, SkipContainer, ReuseArchive, NameArchive, EndPass, UrlFails, SaveFails,
              PutStored, PutGivenUp, GiveUp, NextContainer, Step, HostInv
<1>4. CASE Second \/ UNCHANGED vars
  BY <1>4 DEF Second, vars, upload, HostInv
<1>5. QED
  BY <1>1, <1>2, <1>3, <1>4 DEF Next, PassStep, Attached

(* A PUT to a replaced host carries the host its URL was signed for, whatever uploads the
   client has made before. *)
THEOREM HostRestored == Spec => []ReplacedHostRestored
<1>1. Init => HostInv
  BY DEF Init, HostInv
<1>2. HostInv => ReplacedHostRestored
  BY DEF HostInv, ReplacedHostRestored, HostHeader
<1>3. QED
  BY <1>1, <1>2, HostStep, PTL DEF Spec

(***************************************************************************)
(* How far a pass is from its end: a container is visited once, with four  *)
(* steps and its attempts at most.                                         *)
(***************************************************************************)

VisitsLeft == (MaxAttempts + 4) * (Len(containers) + 1 - k)

StepsLeft ==
    IF pc = "start" THEN VisitsLeft + 2
    ELSE IF pc = "next" THEN VisitsLeft + 1
    ELSE IF pc = "url" THEN VisitsLeft
    ELSE IF pc = "save" THEN VisitsLeft - 1
    ELSE IF pc = "saveUsrBin" THEN VisitsLeft - 2
    ELSE IF pc = "put" THEN VisitsLeft - 3 - attempts
    ELSE 0

StepsFall ==
    StepsLeft \in Nat /\ IF PassStep THEN StepsLeft' < StepsLeft ELSE StepsLeft' = StepsLeft

LEMMA Product == \A w \in Nat, n \in Nat : w * n \in Nat /\ w * (n + 1) = w * n + w
OBVIOUS

LEMMA VisitsCount ==
    ASSUME TypeOK, InHand
    PROVE  /\ VisitsLeft \in Nat /\ attempts \in Nat /\ attempts < MaxAttempts
           /\ k <= Len(containers) => VisitsLeft >= MaxAttempts + 4
           /\ pc \in Exporting => k <= Len(containers)
           /\ \A m : m = k + 1 /\ k <= Len(containers) =>
                 (MaxAttempts + 4) * (Len(containers) + 1 - m) = VisitsLeft - (MaxAttempts + 4)
<1>1. PICK len \in Nat : len = Len(containers) /\ DOMAIN containers = 1..len
  BY ListsAreSequences DEF TypeOK
<1>2. k \in Nat /\ k <= len + 1
  BY <1>1 DEF TypeOK
<1>3. PICK w \in Nat : w = MaxAttempts + 4
  BY BoundsAssumption
<1>4. PICK n \in Nat : n = len + 1 - k
  BY <1>1, <1>2
<1>5. VisitsLeft = w * n
  BY <1>1, <1>3, <1>4 DEF VisitsLeft
<1>6. VisitsLeft \in Nat
  BY <1>5, Product
<1>7. attempts \in Nat /\ attempts < MaxAttempts
  BY BoundsAssumption DEF TypeOK
<1>8. pc \in Exporting => k <= Len(containers)
  BY <1>1 DEF InHand, Local
<1>9. ASSUME k <= len
      PROVE  /\ VisitsLeft >= w
             /\ \A m : m = k + 1 => w * (len + 1 - m) = VisitsLeft - w
  <2>1. PICK less \in Nat : n = less + 1
    BY <1>2, <1>4, <1>9
  <2>2. w * n = w * less + w /\ w * less \in Nat
    BY <2>1, Product
  <2>3. \A m : m = k + 1 => len + 1 - m = less
    BY <1>2, <1>4, <2>1
  <2>4. VisitsLeft >= w
    BY <1>3, <1>5, <2>2
  <2>5. w * less = VisitsLeft - w
    BY <1>3, <1>5, <2>2
  <2>6. QED
    BY <2>3, <2>4, <2>5
<1>10. QED
  BY <1>1, <1>3, <1>6, <1>7, <1>8, <1>9

(* Whatever the gateway, docker and the storage answer, the pass comes closer to its end
   (attach_local_image_archives, upload_payload). *)
LEMMA StepsAdvance ==
    ASSUME TypeOK, InHand, PassStep
    PROVE  StepsLeft' < StepsLeft
<1>1. UNCHANGED containers
  BY DEF PassStep, BeginPass, SkipContainer, ReuseArchive, NameArchive, EndPass, UrlFails,
         UrlGranted, SpawnFails, Saved, SaveFails, PutStored, PutRetried, PutGivenUp, GiveUp, pass
<1>2. /\ VisitsLeft \in Nat /\ attempts \in Nat /\ attempts < MaxAttempts
      /\ k <= Len(containers) => VisitsLeft >= MaxAttempts + 4
      /\ pc \in Exporting => k <= Len(containers)
  BY VisitsCount
<1>3. MaxAttempts \in Nat /\ MaxAttempts >= 1
  BY BoundsAssumption
<1>4. ASSUME k' = k + 1, k <= Len(containers) PROVE VisitsLeft' = VisitsLeft - (MaxAttempts + 4)
  <2>1. \A m : m = k + 1 => (MaxAttempts + 4) * (Len(containers) + 1 - m)
                               = VisitsLeft - (MaxAttempts + 4)
    BY <1>4, VisitsCount
  <2>2. VisitsLeft' = (MaxAttempts + 4) * (Len(containers) + 1 - k')
    BY <1>1 DEF VisitsLeft
  <2>3. QED
    BY <1>4, <2>1, <2>2
<1>5. UNCHANGED k => VisitsLeft' = VisitsLeft
  BY <1>1 DEF VisitsLeft
<1>6. CASE SkipContainer \/ ReuseArchive
  <2>1. pc = "next" /\ pc' = "next" /\ k' = k + 1 /\ k <= Len(containers)
    BY <1>6 DEF SkipContainer, ReuseArchive, Visiting, NextContainer
  <2>2. StepsLeft = VisitsLeft + 1 /\ StepsLeft' = VisitsLeft' + 1
    BY <2>1 DEF StepsLeft
  <2>3. QED
    BY <1>2, <1>3, <1>4, <2>1, <2>2
<1>7. CASE UrlFails \/ SaveFails \/ PutStored \/ PutGivenUp
  <2>1. pc \in Exporting /\ pc' = "next" /\ k' = k + 1
    BY <1>7 DEF UrlFails, SaveFails, PutStored, PutGivenUp, GiveUp, NextContainer, Exporting
  <2>2. StepsLeft' = VisitsLeft' + 1 /\ VisitsLeft' = VisitsLeft - (MaxAttempts + 4)
    BY <1>2, <1>4, <2>1 DEF StepsLeft
  <2>3. StepsLeft \in Int /\ StepsLeft >= VisitsLeft - 3 - attempts
    BY <1>2, <2>1 DEF StepsLeft, Exporting
  <2>4. QED
    BY <1>2, <1>3, <2>2, <2>3
<1>8. CASE EndPass \/ BeginPass
  <2>1. /\ UNCHANGED k
        /\ <<pc, pc'>> \in {<<"next", "done">>, <<"start", "next">>, <<"start", "done">>}
    BY <1>8 DEF EndPass, BeginPass, Begin, Step, pass
  <2>2. QED
    BY <1>2, <1>5, <2>1 DEF StepsLeft
<1>9. CASE NameArchive \/ (\E host \in Hosts : UrlGranted(host)) \/ SpawnFails
  <2>1. /\ UNCHANGED k
        /\ <<pc, pc'>> \in {<<"next", "url">>, <<"url", "save">>, <<"save", "saveUsrBin">>}
    BY <1>9 DEF NameArchive, Visiting, UrlGranted, SpawnFails, Step, pass
  <2>2. QED
    BY <1>2, <1>5, <2>1 DEF StepsLeft
<1>10. CASE Saved
  <2>1. UNCHANGED k /\ pc \in {"save", "saveUsrBin"} /\ pc' = "put" /\ attempts' = 0
    BY <1>10 DEF Saved, Step, pass
  <2>2. StepsLeft' = VisitsLeft - 3
    BY <1>2, <1>5, <2>1 DEF StepsLeft
  <2>3. StepsLeft \in {VisitsLeft - 1, VisitsLeft - 2}
    BY <2>1 DEF StepsLeft
  <2>4. QED
    BY <1>2, <2>2, <2>3
<1>11. CASE PutRetried
  <2>1. UNCHANGED k /\ pc = "put" /\ pc' = "put" /\ attempts' = attempts + 1
    BY <1>11 DEF PutRetried, Step, pass
  <2>2. StepsLeft = VisitsLeft - 3 - attempts /\ StepsLeft' = VisitsLeft - 3 - (attempts + 1)
    BY <1>5, <2>1 DEF StepsLeft
  <2>3. QED
    BY <1>2, <2>2
<1>12. QED
  BY <1>6, <1>7, <1>8, <1>9, <1>10, <1>11 DEF PassStep

(* Hence the exports of a pass take no more than StepsLeft steps, for any payload, however
   many of the URLs, exports and PUTs fail. *)
THEOREM PassAdvances == Spec => [][StepsFall]_vars
<1>1. ASSUME TypeOK, InHand, [Next]_vars PROVE StepsFall
  <2>1. StepsLeft \in Nat
    BY <1>1, VisitsCount, BoundsAssumption DEF StepsLeft, Exporting
  <2>2. CASE PassStep
    BY <1>1, <2>1, <2>2, StepsAdvance DEF StepsFall
  <2>3. CASE ~PassStep
    <3>1. UNCHANGED <<pc, containers, k, attempts>>
      BY <1>1, <2>3 DEF Next, Second, Attached, vars, pass, upload
    <3>2. StepsLeft' = StepsLeft
      BY <3>1 DEF StepsLeft, VisitsLeft
    <3>3. QED
      BY <2>1, <2>3, <3>2 DEF StepsFall
  <2>4. QED
    BY <2>2, <2>3
<1>2. QED
  BY <1>1, TypeCorrect, PTL DEF Spec
=============================================================================
