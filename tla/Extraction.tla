----------------------------- MODULE Extraction -----------------------------
(***************************************************************************)
(* What an extractor of runtime resources promises its caller (the trait   *)
(* TopologyExtractor of src/domain/mod.rs, as collect_resources_from_      *)
(* extractor in src/discovery.rs relies on it): every kind of resource is  *)
(* listed once, at some instant, and the answer holds exactly what was     *)
(* listed, or there is no answer at all.  Nothing that happens between two *)
(* of its requests adds a resource or costs one.                           *)
(***************************************************************************)
CONSTANTS
    Kinds,   \* of resources
    Items    \* the resources there may be

VARIABLES
    there,     \* the resources of each kind that are there to be reported
    seen,      \* those of the kinds that have been listed
    outcome,   \* of list_active_resources
    answer     \* the resources in its Ok

vars == <<there, seen, outcome, answer>>

Init ==
    /\ there \in [Kinds -> SUBSET Items]
    /\ seen = <<>> /\ outcome = "running" /\ answer = {}

Change ==
    /\ outcome = "running"
    /\ there' \in [Kinds -> SUBSET Items]
    /\ UNCHANGED <<seen, outcome, answer>>

See(kind) ==
    /\ outcome = "running" /\ kind \notin DOMAIN seen
    /\ seen' = [x \in DOMAIN seen \cup {kind} |-> IF x = kind THEN there[kind] ELSE seen[x]]
    /\ UNCHANGED <<there, outcome, answer>>

Succeed ==
    /\ outcome = "running" /\ DOMAIN seen = Kinds
    /\ outcome' = "found"
    /\ answer' = UNION {seen[kind] : kind \in Kinds}
    /\ UNCHANGED <<there, seen>>

(* Any request for a list fails. *)
Fail ==
    /\ outcome = "running" /\ DOMAIN seen # Kinds
    /\ outcome' = "failed"
    /\ UNCHANGED <<there, seen, answer>>

Extract == (\E kind \in Kinds : See(kind)) \/ Succeed \/ Fail

Next == Extract \/ Change

Spec == Init /\ [][Next]_vars
=============================================================================
