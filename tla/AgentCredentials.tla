-------------------------- MODULE AgentCredentials --------------------------
(***************************************************************************)
(* How the agent obtains, persists, shares and renews its Gateway          *)
(* credentials: load_or_register_agent and init_agent at startup, and the  *)
(* two background loops (heartbeat, discovery) that recover from rejected  *)
(* credentials through one shared Mutex<AgentConfig> (src/agent.rs,        *)
(* src/config.rs, src/client.rs).                                          *)
(*                                                                         *)
(* A credential is the (agent_id, agent_secret) pair of one registration:  *)
(* the n-th registration the Gateway accepts is the number n.  The file    *)
(* .agent_secret holds a credential, is Missing, or is Corrupt (truncated  *)
(* and not rewritten: load_local_config cannot parse it).                  *)
(*                                                                         *)
(* A loop is seen here as the authenticated calls it makes, one after      *)
(* another: each takes a snapshot of the shared config, calls, and on a    *)
(* rejection recovers and retries once.  The heartbeat loop makes one such *)
(* call per tick; a discovery pass makes two (upload URL, status update).  *)
(***************************************************************************)
EXTENDS Integers

CONSTANTS
    Loops,       \* the tasks spawned by init_agent: heartbeat and discovery
    MaxFaults,   \* bound: revocations, lost replies, failed saves and crashes
    MaxOutages   \* bound: how often the Gateway becomes unreachable

Startup == "startup"   \* the main task, until init_agent returns
Tasks == Loops \cup {Startup}
NoTask == "free"       \* the value of lock when nobody holds the mutex

Missing == 0
Corrupt == -1

ASSUME LoopsAssumption == Startup \notin Loops /\ NoTask \notin Loops
ASSUME BoundsAssumption == MaxFaults \in Nat /\ MaxOutages \in Nat

VARIABLES
    \* the agent process
    pc,        \* where each task is
    cfg,       \* the config each task took its current call with
    fresh,     \* the config each task got from a registration or recovery
    fallback,  \* startup: a failed registration is tried a second time
    shared,    \* the AgentConfig behind the mutex; 0 before init_agent is done
    lock,      \* the task that holds the mutex across an await
    \* the disk
    file,
    \* the Gateway
    issued, revoked, reachable,
    \* history and bounds
    lastUsed,  \* the last credential a running agent worked under
    faults, outages

process == <<pc, cfg, fresh, fallback, shared, lock>>
gateway == <<issued, revoked, reachable>>
history == <<lastUsed, faults, outages>>
vars == <<process, file, gateway, history>>

StartupStates == {"down", "load", "validate", "request", "truncate", "write", "publish", "up"}
LoopStates == {"off", "idle", "call", "lock", "request", "truncate", "write", "publish", "retry"}

(* Every task is in one of its states (init_agent, start_heartbeat_loop), and what it
   holds, shares and saves is the credential of a registration the Gateway answered. *)
TypeOK ==
    /\ pc \in [Tasks -> StartupStates \cup LoopStates]
    /\ pc[Startup] \in StartupStates
    /\ \A l \in Loops : pc[l] \in LoopStates
    /\ cfg \in [Tasks -> 0..issued]
    /\ fresh \in [Tasks -> 0..issued]
    /\ fallback \in BOOLEAN
    /\ shared \in 0..issued
    /\ lock \in Loops \cup {NoTask}
    /\ file \in -1..issued
    /\ issued \in Nat
    /\ revoked \in SUBSET (1..issued)
    /\ reachable \in BOOLEAN
    /\ lastUsed \in 0..issued
    /\ faults \in 0..MaxFaults
    /\ outages \in 0..MaxOutages

Init ==
    /\ pc = [t \in Tasks |-> IF t = Startup THEN "down" ELSE "off"]
    /\ cfg = [t \in Tasks |-> 0] /\ fresh = [t \in Tasks |-> 0]
    /\ fallback = FALSE /\ shared = 0 /\ lock = NoTask
    /\ file = Missing
    /\ issued = 0 /\ revoked = {} /\ reachable = TRUE
    /\ lastUsed = 0 /\ faults = 0 /\ outages = 0

Step(t, from, to) == pc[t] = from /\ pc' = [pc EXCEPT ![t] = to]
Fault == faults < MaxFaults /\ faults' = faults + 1
NoFault == UNCHANGED faults

(***************************************************************************)
(* Mutated forms of actions below: the plausible bugs the properties are   *)
(* there to catch.  Nothing in the specification uses them.                *)
(***************************************************************************)

(* Load: a file that does not parse is not told from a credential. *)
LoadUnchecked ==
    /\ \/ /\ file = Missing /\ Step(Startup, "load", "request")
          /\ fallback' = FALSE /\ UNCHANGED cfg
       \/ /\ file # Missing /\ Step(Startup, "load", "validate")
          /\ cfg' = [cfg EXCEPT ![Startup] = file] /\ UNCHANGED fallback
    /\ UNCHANGED fresh

(* Register: the fresh config is published without being saved. *)
RegisterUnsaved(t) ==
    /\ Step(t, "request", "publish") /\ reachable
    /\ issued' = issued + 1
    /\ fresh' = [fresh EXCEPT ![t] = issued']
    /\ NoFault /\ UNCHANGED <<fallback, shared, lock, file, lastUsed>>

(* SaveFails: register_agent returns the config nevertheless. *)
SaveFailureIgnored(t) ==
    /\ Step(t, "truncate", "publish") \/ Step(t, "write", "publish")
    /\ Fault /\ UNCHANGED <<fresh, fallback, shared, lock, file, issued, lastUsed>>

(* CallFails: every failure is taken for rejected credentials. *)
CallFailsRecovers(l) == Step(l, "call", "lock") /\ ~reachable /\ UNCHANGED <<cfg, fresh, lock>>

(* CallRejected: the rejection is not recognised in the error text. *)
CallRejectedUnnoticed(l) ==
    /\ Step(l, "call", "idle") /\ reachable /\ cfg[l] \in revoked
    /\ UNCHANGED <<cfg, fresh, lock>>

(* Reuse, Recover: the compare with the failed secret is dropped. *)
ReuseUnchecked(l) ==
    /\ Step(l, "lock", "retry") /\ lock = NoTask
    /\ fresh' = [fresh EXCEPT ![l] = shared]
    /\ UNCHANGED <<cfg, lock>>
RecoverUnchecked(l) ==
    /\ Step(l, "lock", "request") /\ lock = NoTask
    /\ lock' = l
    /\ UNCHANGED <<cfg, fresh>>

(***************************************************************************)
(* Startup: load_or_register_agent.                                        *)
(***************************************************************************)

(* The service manager starts the process (install.sh: Restart=always). *)
Launch == Step(Startup, "down", "load") /\ UNCHANGED <<cfg, fresh, fallback>>

(* load_local_config: no file means a first registration, a file that does not
   parse is an error that ends the process. *)
Load ==
    /\ \/ /\ file = Missing /\ Step(Startup, "load", "request")
          /\ fallback' = FALSE /\ UNCHANGED cfg
       \/ /\ file = Corrupt /\ Step(Startup, "load", "down")
          /\ UNCHANGED <<cfg, fallback>>
       \/ /\ file \notin {Missing, Corrupt} /\ Step(Startup, "load", "validate")
          /\ cfg' = [cfg EXCEPT ![Startup] = file] /\ UNCHANGED fallback
    /\ UNCHANGED fresh

(* validate_loaded_agent: the local config is kept when the heartbeat is accepted
   and also when it fails for another reason than the credentials. *)
ValidateKeeps ==
    /\ Step(Startup, "validate", "publish")
    /\ reachable => cfg[Startup] \notin revoked
    /\ fresh' = [fresh EXCEPT ![Startup] = cfg[Startup]]
    /\ UNCHANGED <<cfg, fallback>>

(* The Gateway rejects the stored credentials: register, and if that fails
   load_or_register_agent registers once more. *)
ValidateRejected ==
    /\ Step(Startup, "validate", "request")
    /\ reachable /\ cfg[Startup] \in revoked
    /\ fallback' = TRUE
    /\ UNCHANGED <<cfg, fresh>>

(***************************************************************************)
(* register_agent, called by startup and, holding the mutex, by a loop.    *)
(***************************************************************************)

(* The callers' reaction to an error of register_agent. *)
RegistrationFails(t, from) ==
    /\ \/ t \in Loops /\ Step(t, from, "idle") /\ lock' = NoTask /\ UNCHANGED fallback
       \/ t = Startup /\ fallback /\ Step(t, from, "request") /\ fallback' = FALSE /\ UNCHANGED lock
       \/ t = Startup /\ ~fallback /\ Step(t, from, "down") /\ UNCHANGED <<lock, fallback>>
    /\ UNCHANGED <<fresh, shared, file, lastUsed>>

(* AegisClient::register succeeds: the Gateway has created one more agent. *)
Register(t) ==
    /\ Step(t, "request", "truncate") /\ reachable
    /\ issued' = issued + 1
    /\ fresh' = [fresh EXCEPT ![t] = issued']
    /\ NoFault /\ UNCHANGED <<fallback, shared, lock, file, lastUsed>>

(* The Gateway created the agent but its reply is lost or cannot be parsed. *)
RegisterReplyLost(t) ==
    /\ RegistrationFails(t, "request") /\ reachable
    /\ issued' = issued + 1
    /\ Fault

(* The request does not reach the Gateway, or it refuses it. *)
RegisterUnreachable(t) ==
    RegistrationFails(t, "request") /\ ~reachable /\ NoFault /\ UNCHANGED issued

(* save_config opens the file with truncate(true) ... *)
Truncate(t) ==
    /\ Step(t, "truncate", "write")
    /\ file' = Corrupt
    /\ NoFault /\ UNCHANGED <<fresh, fallback, shared, lock, issued, lastUsed>>

(* ... and then writes it; either call may fail. *)
Write(t) ==
    /\ Step(t, "write", "publish")
    /\ file' = fresh[t]
    /\ NoFault /\ UNCHANGED <<fresh, fallback, shared, lock, issued, lastUsed>>

SaveFails(t) ==
    /\ RegistrationFails(t, "truncate") \/ RegistrationFails(t, "write")
    /\ Fault /\ UNCHANGED issued

(* A loop stores the fresh config behind the mutex and drops the guard;
   init_agent creates the shared config and spawns the loops. *)
Publish(t) ==
    /\ \/ t \in Loops /\ Step(t, "publish", "retry") /\ lock' = NoTask
       \/ /\ t = Startup /\ pc[t] = "publish"
          /\ pc' = [u \in Tasks |-> IF u = Startup THEN "up" ELSE "idle"]
          /\ UNCHANGED lock
    /\ shared' = fresh[t] /\ lastUsed' = fresh[t]
    /\ NoFault /\ UNCHANGED <<fresh, fallback, file, issued>>

(***************************************************************************)
(* A background loop, and recover_from_stale_credentials.                  *)
(***************************************************************************)

(* shared.lock().await.clone(), before each authenticated call. *)
Snapshot(l) ==
    /\ Step(l, "idle", "call") /\ lock = NoTask
    /\ cfg' = [cfg EXCEPT ![l] = shared]
    /\ UNCHANGED <<fresh, lock>>

CallAccepted(l) ==
    Step(l, "call", "idle") /\ reachable /\ cfg[l] \notin revoked /\ UNCHANGED <<cfg, fresh, lock>>

(* A failure that is no credentials problem: no recovery. *)
CallFails(l) == Step(l, "call", "idle") /\ ~reachable /\ UNCHANGED <<cfg, fresh, lock>>

(* 401, 403 or 404: is_stale_agent_secret_error. *)
CallRejected(l) ==
    Step(l, "call", "lock") /\ reachable /\ cfg[l] \in revoked /\ UNCHANGED <<cfg, fresh, lock>>

(* The other loop has re-registered while this one waited for the mutex. *)
Reuse(l) ==
    /\ Step(l, "lock", "retry") /\ lock = NoTask
    /\ shared # cfg[l]
    /\ fresh' = [fresh EXCEPT ![l] = shared]
    /\ UNCHANGED <<cfg, lock>>

(* Re-register, holding the mutex. *)
Recover(l) ==
    /\ Step(l, "lock", "request") /\ lock = NoTask
    /\ shared = cfg[l]
    /\ lock' = l
    /\ UNCHANGED <<cfg, fresh>>

(* The one retry, with the fresh config; nothing here depends on its outcome. *)
Retry(l) == Step(l, "retry", "idle") /\ UNCHANGED <<cfg, fresh, lock>>

(***************************************************************************)
(* The environment.                                                        *)
(***************************************************************************)

(* The Gateway stops accepting a credential, for good. *)
Revoke ==
    /\ \E n \in (1..issued) \ revoked : revoked' = revoked \cup {n}
    /\ Fault /\ UNCHANGED <<process, file, issued, reachable, lastUsed, outages>>

(* The Gateway cannot be reached, or answers with other errors (5xx, 429). *)
Outage ==
    /\ reachable /\ reachable' = FALSE
    /\ outages < MaxOutages /\ outages' = outages + 1
    /\ NoFault /\ UNCHANGED <<process, file, issued, revoked, lastUsed>>

OutageEnds ==
    ~reachable /\ reachable' = TRUE /\ UNCHANGED <<process, file, issued, revoked, history>>

(* The process dies: only the file survives. *)
Crash ==
    /\ pc[Startup] # "down"
    /\ pc' = [t \in Tasks |-> IF t = Startup THEN "down" ELSE "off"]
    /\ cfg' = [t \in Tasks |-> 0] /\ fresh' = [t \in Tasks |-> 0]
    /\ fallback' = FALSE /\ shared' = 0 /\ lock' = NoTask
    /\ Fault /\ UNCHANGED <<file, gateway, lastUsed, outages>>

-----------------------------------------------------------------------------

RegisterAgent(t) ==
    /\ \/ Register(t) \/ RegisterReplyLost(t) \/ RegisterUnreachable(t)
       \/ Truncate(t) \/ Write(t) \/ SaveFails(t) \/ Publish(t)
    /\ UNCHANGED <<cfg, revoked, reachable, outages>>

LoadAgent ==
    /\ Launch \/ Load \/ ValidateKeeps \/ ValidateRejected
    /\ UNCHANGED <<shared, lock, file, gateway, history>>

LoopCall(l) ==
    /\ \/ Snapshot(l) \/ CallAccepted(l) \/ CallFails(l) \/ CallRejected(l)
       \/ Reuse(l) \/ Recover(l) \/ Retry(l)
    /\ UNCHANGED <<fallback, shared, file, gateway, history>>

StartupStep == LoadAgent \/ RegisterAgent(Startup)
LoopStep(l) == LoopCall(l) \/ RegisterAgent(l)
Environment == Revoke \/ Outage \/ OutageEnds \/ Crash

Next == StartupStep \/ (\E l \in Loops : LoopStep(l)) \/ Environment

Spec == Init /\ [][Next]_vars

(* The runtime runs every ready task, timers keep firing, a request ends with a
   reply or an error, and an outage does not last for ever. *)
FairSpec ==
    /\ Spec
    /\ WF_vars(StartupStep)
    /\ \A l \in Loops : WF_vars(LoopStep(l))
    /\ WF_vars(OutageEnds)
-----------------------------------------------------------------------------

Up == pc[Startup] = "up"

(* The Gateway creates one agent for the first registration and at most one more
   for each fault (rejected credential, lost reply, failed save, crash): the two
   loops never answer the same rejection with two registrations, and an outage
   never causes one (the compare under the mutex in recover_from_stale_credentials). *)
NoSpuriousRegistration == issued <= 1 + faults

(* A running agent's credential that the Gateway still accepts is the one on disk,
   in one piece, so that a restart resumes it (register_agent saves before the
   shared config is replaced, and fails when it cannot save). *)
RestartSafe == Up /\ shared \notin revoked => file = shared

(* The retry after a recovery never repeats the call with the rejected credential
   or an older one, whichever loop registered the fresh one. *)
RetryIsNewer == \A l \in Loops : pc[l] = "retry" => fresh[l] > cfg[l]

(* Seen from outside, the agent changes its identity only as AgentIdentity says:
   only after a rejection, only forward, and across restarts never back. *)
Identity == INSTANCE AgentIdentity WITH held <- shared, lastHeld <- lastUsed
ImplementsIdentity == Identity!Spec

(* A truncated .agent_secret makes every later start fail. *)
Bricked == pc[Startup] \in {"down", "load"} /\ file = Corrupt

(* Once faults and outages stop, the agent ends up running under a credential the
   Gateway accepts and that is on disk, unless its secret file is corrupt. *)
EventuallyInSync == <>[](Bricked \/ (Up /\ shared \notin revoked /\ file = shared))

(* Every loop's calls are accepted again and again: no recovery keeps the mutex,
   or a rejected credential, for good (the heartbeat refreshes "Last seen"). *)
CallsKeepBeingAccepted ==
    <>[]Bricked \/ \A l \in Loops : []<><<CallAccepted(l)>>_vars

(***************************************************************************)
(* A statement of the repository that the code does not keep.              *)
(***************************************************************************)

(* install.sh:74 restarts the service always: an agent that went down comes up
   again.  It does not when a save was cut short. *)
RestartRecovers == pc[Startup] = "down" ~> Up
=============================================================================
