------------------------- MODULE MCAgentCredentials -------------------------
(* AgentCredentials with its two loops, for TLC. *)
EXTENDS AgentCredentials

CONSTANTS heartbeat, discovery

MCLoops == {heartbeat, discovery}
=============================================================================
