----------------------- MODULE AgentCredentialsProofs -----------------------
EXTENDS AgentCredentials, TLAPS

Saving == {"truncate", "write", "publish"}
Registering == {"request"} \cup Saving

(* The loops exist exactly while the process is up, and only then is there a
   shared config, which is the last credential used. *)
PhaseInv ==
    /\ Up => /\ \A l \in Loops : pc[l] # "off"
             /\ shared = lastUsed
             /\ shared # 0
    /\ ~Up => /\ \A l \in Loops : pc[l] = "off"
              /\ shared = 0
              /\ lock = NoTask

(* A loop holds the mutex across awaits exactly while it registers. *)
LockInv == \A l \in Loops : lock = l <=> pc[l] \in Registering

(* What a loop knows about the credentials in its hands. *)
LoopInv ==
    \A l \in Loops :
        /\ pc[l] = "call" => cfg[l] <= shared
        /\ pc[l] = "lock" => cfg[l] <= shared /\ cfg[l] \in revoked
        /\ pc[l] \in Registering => cfg[l] = shared /\ shared \in revoked
        /\ pc[l] \in Saving => fresh[l] = issued /\ shared < issued
        /\ pc[l] = "retry" => cfg[l] < fresh[l]

(* What startup knows about the file. *)
StartupInv ==
    /\ pc[Startup] = "validate" => cfg[Startup] = file /\ file > 0
    /\ pc[Startup] \in {"request", "truncate"} => file <= 0 \/ file \in revoked
    /\ pc[Startup] \in {"truncate", "write"} => fresh[Startup] = issued /\ issued > 0
    /\ pc[Startup] = "publish" => fresh[Startup] = file /\ file > 0

(* The file never falls behind the credential in use, unless it is corrupt; it is
   corrupt or ahead only while the credential in use is a rejected one. *)
DiskInv ==
    /\ ~Up => file = Corrupt \/ lastUsed <= file
    /\ Up => \/ file = shared
             \/ file = Corrupt /\ shared \in revoked
             \/ /\ file = issued /\ shared \in revoked
                /\ \E l \in Loops : pc[l] = "publish" /\ file = fresh[l]
    /\ \A t \in Tasks : pc[t] = "write" => file = Corrupt
    /\ \A t \in Tasks : pc[t] = "publish" => file = fresh[t]

(* The newest credential is still accepted, and is on disk or about to be. *)
NewestUsable ==
    /\ issued # 0 /\ issued \notin revoked
    /\ file = issued \/ \E t \in Tasks : pc[t] \in Saving /\ fresh[t] = issued

(* Every credential but a usable newest one is paid for by a fault. *)
CountInv ==
    /\ issued <= 1 + faults
    /\ ~NewestUsable => issued <= faults

IInv == TypeOK /\ PhaseInv /\ LockInv /\ LoopInv /\ StartupInv /\ DiskInv /\ CountInv


-----------------------------------------------------------------------------
(***************************************************************************)
(* Type correctness.                                                       *)
(***************************************************************************)

(* What register_agent's failure does to the control state of its caller. *)
LEMMA FailureType ==
    ASSUME TypeOK, NEW t \in Tasks, NEW from \in LoopStates, RegistrationFails(t, from)
    PROVE  /\ pc' \in [Tasks -> StartupStates \cup LoopStates]
           /\ pc'[Startup] \in StartupStates
           /\ \A l \in Loops : pc'[l] \in LoopStates
           /\ lock' \in Loops \cup {NoTask}
           /\ fallback' \in BOOLEAN
           /\ UNCHANGED <<fresh, shared, file, lastUsed>>
<1> USE LoopsAssumption DEF Tasks, StartupStates, LoopStates, Startup, NoTask, Step
<1>1. /\ pc \in [Tasks -> StartupStates \cup LoopStates]
      /\ pc[Startup] \in StartupStates
      /\ \A l \in Loops : pc[l] \in LoopStates
      /\ lock \in Loops \cup {NoTask}
      /\ fallback \in BOOLEAN
  BY DEF TypeOK
<1>2. UNCHANGED <<fresh, shared, file, lastUsed>>
  BY DEF RegistrationFails
<1>3. CASE t \in Loops /\ Step(t, from, "idle") /\ lock' = NoTask /\ UNCHANGED fallback
  BY <1>1, <1>2, <1>3
<1>4. CASE t = Startup /\ fallback /\ Step(t, from, "request") /\ fallback' = FALSE /\ UNCHANGED lock
  BY <1>1, <1>2, <1>4
<1>5. CASE t = Startup /\ ~fallback /\ Step(t, from, "down") /\ UNCHANGED <<lock, fallback>>
  BY <1>1, <1>2, <1>5
<1>6. QED
  BY <1>3, <1>4, <1>5 DEF RegistrationFails

LEMMA RegisterAgentType ==
    ASSUME TypeOK, NEW t \in Tasks, RegisterAgent(t)
    PROVE  TypeOK'
<1> USE LoopsAssumption, BoundsAssumption
    DEF TypeOK, Tasks, StartupStates, LoopStates, Startup, NoTask, Corrupt, Step, NoFault
<1>1. UNCHANGED <<cfg, revoked, reachable, outages>>
  BY DEF RegisterAgent
<1>2. CASE Register(t)
  BY <1>1, <1>2 DEF Register
<1>3. CASE RegisterReplyLost(t)
  <2>1. issued' = issued + 1 /\ faults' \in 0..MaxFaults
    BY <1>3 DEF RegisterReplyLost, Fault
  <2>2. QED
    BY <1>1, <1>3, <2>1, FailureType DEF RegisterReplyLost
<1>4. CASE RegisterUnreachable(t)
  BY <1>1, <1>4, FailureType DEF RegisterUnreachable
<1>5. CASE Truncate(t)
  BY <1>1, <1>5 DEF Truncate
<1>6. CASE Write(t)
  BY <1>1, <1>6 DEF Write
<1>7. CASE SaveFails(t)
  <2>1. issued' = issued /\ faults' \in 0..MaxFaults
    BY <1>7 DEF SaveFails, Fault
  <2>2. QED
    BY <1>1, <1>7, <2>1, FailureType DEF SaveFails
<1>8. CASE Publish(t)
  BY <1>1, <1>8 DEF Publish
<1>9. QED
  BY <1>2, <1>3, <1>4, <1>5, <1>6, <1>7, <1>8 DEF RegisterAgent

LEMMA TypeStep == TypeOK /\ [Next]_vars => TypeOK'
<1> SUFFICES ASSUME TypeOK, [Next]_vars PROVE TypeOK'
  OBVIOUS
<1> USE LoopsAssumption, BoundsAssumption
    DEF TypeOK, Tasks, StartupStates, LoopStates, Startup, NoTask, Step
<1>1. CASE LoadAgent
  <2>1. UNCHANGED <<shared, lock, file, issued, revoked, reachable, lastUsed, faults, outages>>
    BY <1>1 DEF LoadAgent, gateway, history
  <2>2. CASE Launch
    BY <2>1, <2>2 DEF Launch
  <2>3. CASE Load
    <3>1. /\ pc' \in [Tasks -> StartupStates \cup LoopStates]
          /\ pc'[Startup] \in StartupStates
          /\ \A l \in Loops : pc'[l] \in LoopStates
      BY <2>3 DEF Load
    <3>2. cfg' \in [Tasks -> 0..issued] /\ fresh' = fresh
      BY <2>3 DEF Load, Missing, Corrupt
    <3>3. fallback' \in BOOLEAN
      BY <2>3 DEF Load
    <3>4. QED
      BY <2>1, <3>1, <3>2, <3>3
  <2>4. CASE ValidateKeeps
    BY <2>1, <2>4 DEF ValidateKeeps
  <2>5. CASE ValidateRejected
    BY <2>1, <2>5 DEF ValidateRejected
  <2>6. QED
    BY <1>1, <2>2, <2>3, <2>4, <2>5 DEF LoadAgent
<1>2. ASSUME NEW l \in Loops, LoopCall(l) PROVE TypeOK'
  <2>1. UNCHANGED <<fallback, shared, file, issued, revoked, reachable, lastUsed, faults, outages>>
    BY <1>2 DEF LoopCall, gateway, history
  <2>2. CASE Snapshot(l)
    BY <2>1, <2>2 DEF Snapshot
  <2>3. CASE CallAccepted(l) \/ CallFails(l) \/ CallRejected(l) \/ Retry(l)
    BY <2>1, <2>3 DEF CallAccepted, CallFails, CallRejected, Retry
  <2>4. CASE Reuse(l)
    BY <2>1, <2>4 DEF Reuse
  <2>5. CASE Recover(l)
    BY <2>1, <2>5 DEF Recover
  <2>6. QED
    BY <1>2, <2>2, <2>3, <2>4, <2>5 DEF LoopCall
<1>3. CASE Revoke
  BY <1>3 DEF Revoke, Fault, process
<1>4. CASE Outage
  <2>1. outages' \in 0..MaxOutages
    BY <1>4 DEF Outage
  <2>2. reachable' \in BOOLEAN
    BY <1>4 DEF Outage
  <2>3. QED
    BY <1>4, <2>1, <2>2 DEF Outage, NoFault, process
<1>5. CASE OutageEnds
  BY <1>5 DEF OutageEnds, process, history
<1>6. CASE Crash
  <2>1. /\ pc' \in [Tasks -> StartupStates \cup LoopStates]
        /\ pc'[Startup] \in StartupStates
        /\ \A l \in Loops : pc'[l] \in LoopStates
    BY <1>6 DEF Crash
  <2>2. faults' \in 0..MaxFaults
    BY <1>6 DEF Crash, Fault
  <2>3. UNCHANGED <<file, issued, revoked, reachable, lastUsed, outages>>
    BY <1>6 DEF Crash, gateway
  <2>4. cfg' \in [Tasks -> 0..issued'] /\ fresh' \in [Tasks -> 0..issued']
    BY <1>6, <2>3 DEF Crash
  <2>5. QED
    BY <1>6, <2>1, <2>2, <2>3, <2>4 DEF Crash
<1>7. CASE UNCHANGED vars
  BY <1>7 DEF vars, process, gateway, history
<1>8. QED
  BY <1>1, <1>2, <1>3, <1>4, <1>5, <1>6, <1>7, RegisterAgentType
  DEF Next, StartupStep, LoopStep, Environment, Tasks

LEMMA TypeInit == Init => TypeOK
<1> SUFFICES ASSUME Init PROVE TypeOK
  OBVIOUS
<1>1. /\ pc \in [Tasks -> StartupStates \cup LoopStates]
      /\ pc[Startup] \in StartupStates
      /\ \A l \in Loops : pc[l] \in LoopStates
  BY LoopsAssumption DEF Init, Tasks, StartupStates, LoopStates, Startup
<1>2. faults \in 0..MaxFaults /\ outages \in 0..MaxOutages
  BY BoundsAssumption DEF Init
<1>3. /\ cfg \in [Tasks -> 0..issued] /\ fresh \in [Tasks -> 0..issued]
      /\ revoked \in SUBSET (1..issued)
      /\ shared \in 0..issued /\ lastUsed \in 0..issued /\ file \in -1..issued /\ issued \in Nat
  BY DEF Init, Missing
<1>4. fallback \in BOOLEAN /\ reachable \in BOOLEAN /\ lock \in Loops \cup {NoTask}
  BY DEF Init
<1>5. QED
  BY <1>1, <1>2, <1>3, <1>4 DEF TypeOK

(* Every variable keeps its type: no credential is used, stored or rejected that
   the Gateway has not issued, and a file that does not parse never becomes one. *)
THEOREM TypeCorrect == Spec => []TypeOK
<1>1. Init => TypeOK
  BY TypeInit
<1>2. TypeOK /\ [Next]_vars => TypeOK'
  BY TypeStep
<1>3. QED
  BY <1>1, <1>2, PTL DEF Spec

-----------------------------------------------------------------------------
(***************************************************************************)
(* The inductive invariant.                                                *)
(***************************************************************************)

Parts == PhaseInv /\ LockInv /\ LoopInv /\ StartupInv /\ DiskInv /\ CountInv

LEMMA InvInit == Init => IInv
<1> SUFFICES ASSUME Init PROVE IInv
  OBVIOUS
<1>1. TypeOK
  BY TypeInit
<1>2. /\ pc[Startup] = "down" /\ \A l \in Loops : pc[l] = "off"
      /\ \A t \in Tasks : pc[t] \in {"down", "off"}
  BY LoopsAssumption DEF Init, Tasks, Startup
<1>3. PhaseInv /\ LockInv /\ LoopInv /\ StartupInv
  BY <1>2, LoopsAssumption
  DEF Init, Up, Saving, Registering, NoTask, PhaseInv, LockInv, LoopInv, StartupInv
<1>4. DiskInv
  BY <1>2 DEF Init, Up, Missing, Corrupt, DiskInv
<1>5. CountInv
  BY DEF Init, CountInv, NewestUsable
<1>6. QED
  BY <1>1, <1>3, <1>4, <1>5 DEF IInv

(* register_agent: the mutex, or being alone before the loops exist, makes the
   registering task the only one that issues, saves and publishes. *)
LEMMA RegisterAgentInv ==
    ASSUME IInv, TypeOK', NEW t \in Tasks, RegisterAgent(t)
    PROVE  Parts'
<1> USE LoopsAssumption
    DEF IInv, TypeOK, Parts, Tasks, Startup, NoTask, Missing, Corrupt, Up, Saving, Registering,
        PhaseInv, LockInv, LoopInv, StartupInv, DiskInv, CountInv, NewestUsable, Step, NoFault
<1>1. UNCHANGED <<cfg, revoked, reachable, outages>>
  BY DEF RegisterAgent
<1>2. CASE Register(t)
  BY <1>1, <1>2 DEF Register
<1>3. CASE RegisterReplyLost(t)
  BY <1>1, <1>3 DEF RegisterReplyLost, RegistrationFails, Fault
<1>4. CASE RegisterUnreachable(t)
  BY <1>1, <1>4 DEF RegisterUnreachable, RegistrationFails
<1>5. CASE Truncate(t)
  BY <1>1, <1>5 DEF Truncate
<1>6. CASE Write(t)
  BY <1>1, <1>6 DEF Write
<1>7. CASE SaveFails(t)
  BY <1>1, <1>7 DEF SaveFails, RegistrationFails, Fault
<1>8. CASE Publish(t)
  BY <1>1, <1>8 DEF Publish
<1>9. QED
  BY <1>2, <1>3, <1>4, <1>5, <1>6, <1>7, <1>8 DEF RegisterAgent

LEMMA InvStep == IInv /\ [Next]_vars => IInv'
<1> SUFFICES ASSUME IInv, [Next]_vars PROVE Parts'
  BY TypeStep DEF IInv, Parts
<1> TypeOK'
  BY TypeStep DEF IInv
<1> USE LoopsAssumption
    DEF IInv, TypeOK, Parts, Tasks, Startup, NoTask, Missing, Corrupt, Up, Saving, Registering,
        PhaseInv, LockInv, LoopInv, StartupInv, DiskInv, CountInv, NewestUsable, Step, NoFault
<1>1. CASE LoadAgent
  <2>1. UNCHANGED <<shared, lock, file, issued, revoked, reachable, lastUsed, faults, outages>>
    BY <1>1 DEF LoadAgent, gateway, history
  <2>2. CASE Launch
    BY <2>1, <2>2 DEF Launch
  <2>3. CASE Load
    BY <2>1, <2>3 DEF Load
  <2>4. CASE ValidateKeeps
    BY <2>1, <2>4 DEF ValidateKeeps
  <2>5. CASE ValidateRejected
    BY <2>1, <2>5 DEF ValidateRejected
  <2>6. QED
    BY <1>1, <2>2, <2>3, <2>4, <2>5 DEF LoadAgent
<1>2. ASSUME NEW l \in Loops, LoopCall(l) PROVE Parts'
  <2>1. UNCHANGED <<fallback, shared, file, issued, revoked, reachable, lastUsed, faults, outages>>
    BY <1>2 DEF LoopCall, gateway, history
  <2>2. CASE Snapshot(l)
    BY <2>1, <2>2 DEF Snapshot
  <2>3. CASE CallAccepted(l)
    BY <2>1, <2>3 DEF CallAccepted
  <2>4. CASE CallFails(l)
    BY <2>1, <2>4 DEF CallFails
  <2>5. CASE CallRejected(l)
    BY <2>1, <2>5 DEF CallRejected
  <2>6. CASE Reuse(l)
    BY <2>1, <2>6 DEF Reuse
  <2>7. CASE Recover(l)
    BY <2>1, <2>7 DEF Recover
  <2>8. CASE Retry(l)
    BY <2>1, <2>8 DEF Retry
  <2>9. QED
    BY <1>2, <2>2, <2>3, <2>4, <2>5, <2>6, <2>7, <2>8 DEF LoopCall
<1>3. CASE Revoke
  BY <1>3 DEF Revoke, Fault, process
<1>4. CASE Outage
  BY <1>4 DEF Outage, process
<1>5. CASE OutageEnds
  BY <1>5 DEF OutageEnds, process, history
<1>6. CASE Crash
  BY <1>6 DEF Crash, Fault, gateway
<1>7. CASE UNCHANGED vars
  BY <1>7 DEF vars, process, gateway, history
<1>8. QED
  BY <1>1, <1>2, <1>3, <1>4, <1>5, <1>6, <1>7, RegisterAgentInv
  DEF Next, StartupStep, LoopStep, Environment

(* The strengthening that makes the properties inductive holds in every state. *)
THEOREM Invariant == Spec => []IInv
<1>1. QED
  BY InvInit, InvStep, PTL DEF Spec

-----------------------------------------------------------------------------
(***************************************************************************)
(* What follows from it.                                                   *)
(***************************************************************************)

(* For any number of loops and of faults: one registration for the first start and
   at most one per rejected credential, lost reply, failed save or crash. *)
THEOREM RegistrationsBounded == Spec => []NoSpuriousRegistration
<1>1. IInv => NoSpuriousRegistration
  BY DEF IInv, CountInv, NoSpuriousRegistration
<1>2. QED
  BY <1>1, Invariant, PTL

(* A running agent's accepted credential is on disk, so a restart resumes it. *)
THEOREM RestartIsSafe == Spec => []RestartSafe
<1>1. IInv => RestartSafe
  BY DEF IInv, DiskInv, RestartSafe
<1>2. QED
  BY <1>1, Invariant, PTL

(* The retry after a recovery uses a credential newer than the rejected one. *)
THEOREM RetriesAreNewer == Spec => []RetryIsNewer
<1>1. IInv => RetryIsNewer
  BY DEF IInv, LoopInv, RetryIsNewer
<1>2. QED
  BY <1>1, Invariant, PTL

(* Startup, the mutex protocol and the secret file together implement the
   abstract identity: replaced only after a rejection, only by the newest
   registration, and never older after a restart. *)
THEOREM Refinement == Spec => ImplementsIdentity
<1>1. Init => Identity!Init
  BY DEF Init, Identity!Init
<1>2. IInv /\ IInv' /\ [Next]_vars => [Identity!Next]_<<issued, revoked, shared, lastUsed>>
  <2> SUFFICES ASSUME IInv, IInv', [Next]_vars
               PROVE  \/ Identity!Next
                      \/ UNCHANGED <<issued, revoked, shared, lastUsed>>
    OBVIOUS
  <2> USE LoopsAssumption DEF IInv, TypeOK, Tasks, Startup, PhaseInv, Up, Step
  <2>1. ASSUME NEW t \in Tasks, RegisterAgent(t)
        PROVE  Identity!Next \/ UNCHANGED <<issued, revoked, shared, lastUsed>>
    <3>1. UNCHANGED revoked
      BY <2>1 DEF RegisterAgent
    <3>2. CASE Register(t) \/ RegisterReplyLost(t)
      <4>1. pc[t] = "request" /\ issued' = issued + 1 /\ UNCHANGED <<shared, lastUsed>>
        BY <3>2 DEF Register, RegisterReplyLost, RegistrationFails
      <4>2. shared \in revoked \cup {0}
        BY <4>1 DEF LoopInv, Registering
      <4>3. QED
        BY <3>1, <4>1, <4>2 DEF Identity!Next, Identity!Issue
    <3>3. CASE RegisterUnreachable(t) \/ Truncate(t) \/ Write(t) \/ SaveFails(t)
      BY <3>1, <3>3 DEF RegisterUnreachable, Truncate, Write, SaveFails, RegistrationFails
    <3>4. CASE Publish(t) /\ t = Startup
      BY <3>1, <3>4 DEF Publish, StartupInv, DiskInv, Corrupt, Identity!Next, Identity!Start
    <3>5. CASE Publish(t) /\ t \in Loops
      BY <3>1, <3>5 DEF Publish, LoopInv, Registering, Saving, Identity!Next, Identity!Replace
    <3>6. QED
      BY <2>1, <3>2, <3>3, <3>4, <3>5 DEF RegisterAgent
  <2>2. CASE LoadAgent
    BY <2>2 DEF LoadAgent, gateway, history
  <2>3. ASSUME NEW l \in Loops, LoopCall(l)
        PROVE  UNCHANGED <<issued, revoked, shared, lastUsed>>
    BY <2>3 DEF LoopCall, gateway, history
  <2>4. CASE Environment
    <3>1. CASE Revoke
      BY <3>1 DEF Revoke, process, Identity!Next, Identity!Revoke
    <3>2. CASE Outage \/ OutageEnds
      BY <3>2 DEF Outage, OutageEnds, process, history
    <3>3. CASE Crash
      BY <3>3 DEF Crash, gateway, Identity!Next, Identity!Stop
    <3>4. QED
      BY <2>4, <3>1, <3>2, <3>3 DEF Environment
  <2>5. CASE UNCHANGED vars
    BY <2>5 DEF vars, process, gateway, history
  <2>6. QED
    BY <2>1, <2>2, <2>3, <2>4, <2>5 DEF Next, StartupStep, LoopStep
<1>3. QED
  BY <1>1, <1>2, Invariant, PTL DEF Spec, ImplementsIdentity, Identity!Spec, Identity!identityVars
=============================================================================
