---------------------------- MODULE ProcessFilter ----------------------------
(***************************************************************************)
(* Which processes of the host a topology lists: get_host_info,            *)
(* get_processes and filter_host_processes (src/extractor/mod.rs), as      *)
(* collect_topology calls them pass after pass, while processes of the     *)
(* host come and go.                                                       *)
(*                                                                         *)
(* The names of processes are given by the classes the name tests put them *)
(* in.  filter_host_processes runs with the lock of the process table      *)
(* held, so that a panic in it poisons the lock.                           *)
(***************************************************************************)
EXTENDS Integers, SequencesExt

CONSTANTS
    Pids, Own,           \* process ids; that of the agent
    Names,
    EmptyNames,          \* names that are empty
    IgnoredNames,        \* ... contain one of IGNORED_PATTERNS
    ExemptNames,         \* ... are excepted from that
    RelevantNames,       \* ... are in the RELEVANT lists
    Processes,           \* the processes that may run besides the agent
    AgentProcess,        \* the agent's own
    Limits               \* the values AEGIS_MAX_HOST_PROCESSES may have, the default 100 among them

ASSUME PidsAssumption == Pids \subseteq Nat /\ Own \in Pids
ASSUME NamesAssumption ==
    EmptyNames \cup IgnoredNames \cup ExemptNames \cup RelevantNames \subseteq Names
ASSUME LimitsAssumption == Limits \subseteq Nat

(* user: whether sysinfo knows it. *)
ProcessType == [pid : Pids, name : Names, user : BOOLEAN]

ASSUME ProcessesAssumption ==
    /\ Processes \subseteq ProcessType /\ \A p \in Processes : p.pid # Own
    /\ AgentProcess \in ProcessType /\ AgentProcess.pid = Own

VARIABLES
    host,          \* the processes of the host
    max_processes, \* the environment of the agent, read at every call
    include_all,
    poisoned,      \* the lock of the process table
    found,         \* history: the processes worth reporting at the last call
    reported       \* what the last successful call returned

vars == <<host, max_processes, include_all, poisoned, found, reported>>

(* sort_by_key by pid: no two processes have the same. *)
SortedByPid(processes) ==
    CHOOSE list \in [1..Cardinality(processes) -> processes] :
        \A i, j \in DOMAIN list : i < j => list[i].pid < list[j].pid

(***************************************************************************)
(* Mutated forms of definitions below: the plausible bugs the properties   *)
(* are there to catch.  Nothing in the specification uses them.            *)
(***************************************************************************)

(* WithOwn: the agent's process is appended and the list not sorted again. *)
WithOwnUnsorted(tail, own) == Append(Tail(tail), own)

(* WithOwn: the agent's process is added and the first not removed. *)
WithOwnAdded(tail, own) == SortedByPid(Range(tail) \cup {own})

(***************************************************************************)
(* filter_host_processes.                                                  *)
(***************************************************************************)

IsIgnored(name) == name \in IgnoredNames \ ExemptNames

IsRelevant(p) == p.name \notin EmptyNames /\ ~IsIgnored(p.name) /\ p.name \in RelevantNames

(* The processes that are retained. *)
Retained(processes, all) ==
    {p \in processes :
        \/ p.pid = Own
        \/ p.name \notin EmptyNames /\ p.user /\ (all \/ IsRelevant(p))}

(* split_off: the last n are the tail, and the others stay where they were. *)
Newest(processes, n) == SubSeq(processes, Len(processes) - n + 1, Len(processes))
Oldest(processes, n) == SubSeq(processes, 1, Len(processes) - n)

HasOwn(processes) == \E i \in DOMAIN processes : processes[i].pid = Own

(* The agent's own process was cut off, and is to be taken back. *)
OwnCutOff(processes, n) ==
    /\ Len(processes) > n
    /\ ~HasOwn(Newest(processes, n)) /\ HasOwn(Oldest(processes, n))

(* It takes the place of the first of the tail: remove(0), push, sort_by_key. *)
WithOwn(tail, own) == SortedByPid(Range(Tail(tail)) \cup {own})

(* A mutated form of Panics: the second of the tail is removed. *)
PanicsWithoutSecond(processes, n) == OwnCutOff(processes, n) /\ Len(Newest(processes, n)) < 2

(* remove(0) of a list that has no first. *)
Panics(processes, n) == OwnCutOff(processes, n) /\ Newest(processes, n) = <<>>

Limited(processes, n) ==
    IF Len(processes) <= n THEN processes
    ELSE IF ~OwnCutOff(processes, n) THEN Newest(processes, n)
    ELSE WithOwn(Newest(processes, n), CHOOSE p \in Range(Oldest(processes, n)) : p.pid = Own)

(***************************************************************************)
(* The passes, and the host.                                               *)
(***************************************************************************)

Init ==
    /\ host = {AgentProcess}
    /\ max_processes \in Limits /\ include_all \in BOOLEAN
    /\ poisoned = FALSE
    /\ found = {} /\ reported = <<>>

(* get_processes returns a list: the table has the processes in any order. *)
GetProcesses ==
    /\ ~poisoned
    /\ LET processes == SortedByPid(Retained(host, include_all))
       IN /\ ~Panics(processes, max_processes)
          /\ found' = Range(processes)
          /\ reported' = Limited(processes, max_processes)
    /\ UNCHANGED <<host, max_processes, include_all, poisoned>>

(* filter_host_processes panics: this pass fails, and so does every later one, in
   get_host_info. *)
GetProcessesPanics ==
    /\ ~poisoned
    /\ Panics(SortedByPid(Retained(host, include_all)), max_processes)
    /\ poisoned' = TRUE
    /\ UNCHANGED <<host, max_processes, include_all, found, reported>>

(* Processes start, under an id that is free, and exit. *)
ProcessStarts(p) ==
    /\ \A q \in host : q.pid # p.pid
    /\ host' = host \cup {p}
    /\ UNCHANGED <<max_processes, include_all, poisoned, found, reported>>

ProcessExits(p) ==
    /\ p.pid # Own
    /\ host' = host \ {p}
    /\ UNCHANGED <<max_processes, include_all, poisoned, found, reported>>

Next ==
    \/ GetProcesses \/ GetProcessesPanics
    \/ \E p \in Processes : ProcessStarts(p)
    \/ \E p \in host : ProcessExits(p)

Spec == Init /\ [][Next]_vars
-----------------------------------------------------------------------------

(* get_processes returns processes of the host, no more than the limit. *)
TypeOK ==
    /\ host \subseteq ProcessType /\ found \subseteq ProcessType
    /\ max_processes \in Limits /\ include_all \in BOOLEAN /\ poisoned \in BOOLEAN
    /\ Len(reported) <= max_processes
    /\ \A i \in DOMAIN reported : reported[i] \in ProcessType

(* A topology lists as many of the processes worth reporting as the limit allows, in the
   order of their ids: the agent's own process whatever its id, and of the others those
   with the highest (filter_host_processes). *)
ReportedByDefinition ==
    found # {} =>
        LET listed == Range(reported) IN
        /\ listed \subseteq found
        /\ Len(reported) = IF Cardinality(found) < max_processes THEN Cardinality(found) ELSE max_processes
        /\ \A i, j \in DOMAIN reported : i < j => reported[i].pid < reported[j].pid
        /\ HasOwn(reported)
        /\ \A p \in listed, q \in found \ listed : p.pid = Own \/ q.pid < p.pid

(* Whatever runs on the host, and whatever comes and goes between the passes: a limit of
   0 breaks the collection of topologies at the very first pass, since the agent is
   always among the processes worth reporting and always cut off, and no other limit ever
   does (the tail of split_off, its remove(0), and the lock it poisons). *)
BreaksExactlyAtZero ==
    /\ poisoned => max_processes = 0
    /\ max_processes = 0 => reported = <<>> /\ found = {}
=============================================================================
