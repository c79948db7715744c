---------------------------- MODULE AgentIdentity ----------------------------
(***************************************************************************)
(* What the agent promises about its Gateway identity, whatever the tasks, *)
(* locks and files behind it (src/agent.rs, src/config.rs).                *)
(*                                                                         *)
(* An identity is the pair (agent_id, agent_secret) of one successful      *)
(* registration; the n-th registration the Gateway accepts is the number   *)
(* n, and 0 is no identity.                                                *)
(***************************************************************************)
EXTENDS Naturals

VARIABLES
    issued,    \* how many identities the Gateway has created for this host
    revoked,   \* the identities the Gateway no longer accepts
    held,      \* the identity the running agent works under; 0 when it is not running
    lastHeld   \* the last identity a running agent worked under

identityVars == <<issued, revoked, held, lastHeld>>

Init ==
    /\ issued = 0
    /\ revoked = {}
    /\ held = 0
    /\ lastHeld = 0

(* A new agent is registered only by an agent that has no identity, or whose
   identity the Gateway has turned down. *)
Issue ==
    /\ held \in revoked \cup {0}
    /\ issued' = issued + 1
    /\ UNCHANGED <<revoked, held, lastHeld>>

(* The Gateway stops accepting an identity: deleted agent, rotated secret. *)
Revoke ==
    /\ \E n \in (1..issued) \ revoked : revoked' = revoked \cup {n}
    /\ UNCHANGED <<issued, held, lastHeld>>

(* A starting agent works under the identity it last worked under or a newer one. *)
Start ==
    /\ held = 0
    /\ \E n \in 1..issued :
          /\ lastHeld <= n
          /\ held' = n
          /\ lastHeld' = n
    /\ UNCHANGED <<issued, revoked>>

(* A mutated form of Replace: a newer identity is taken at any time. *)
ReplaceAccepted ==
    /\ held # 0 /\ held < issued
    /\ held' = issued
    /\ lastHeld' = issued
    /\ UNCHANGED <<issued, revoked>>

(* A running agent changes its identity only when the Gateway has turned it
   down, and only for the newest one. *)
Replace ==
    /\ held \in revoked
    /\ held < issued
    /\ held' = issued
    /\ lastHeld' = issued
    /\ UNCHANGED <<issued, revoked>>

(* The process ends, by a crash or by an error. *)
Stop ==
    /\ held # 0
    /\ held' = 0
    /\ UNCHANGED <<issued, revoked, lastHeld>>

Next == Issue \/ Revoke \/ Start \/ Replace \/ Stop

Spec == Init /\ [][Next]_identityVars
=============================================================================
