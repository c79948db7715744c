--------------------------- MODULE MCProcessFilter ---------------------------
(* ProcessFilter on a host with up to three processes besides the agent, one of them
   with a lower id: worth reporting, without a user, or named like another agent. *)
EXTENDS ProcessFilter

MCPids == 1..4
MCNames == {"", "aegis-ai-agent", "nginx", "gateway-agent"}
MCEmptyNames == {""}
MCIgnoredNames == {"aegis-ai-agent", "gateway-agent"}
MCExemptNames == {"aegis-ai-agent"}
MCRelevantNames == {"aegis-ai-agent", "nginx", "gateway-agent"}
MCLimits == {0, 1, 2, 3, 100}

MCProcesses ==
    [pid : {1, 3, 4}, name : {"nginx", "gateway-agent"}, user : {TRUE}]
    \cup [pid : {3}, name : {""}, user : {TRUE}] \cup [pid : {4}, name : {"nginx"}, user : {FALSE}]
MCAgentProcess == [pid |-> 2, name |-> "aegis-ai-agent", user |-> FALSE]
=============================================================================
