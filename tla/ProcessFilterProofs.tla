------------------------- MODULE ProcessFilterProofs -------------------------
(***************************************************************************)
(* ProcessFilter: that a topology lists the processes it should, whatever  *)
(* runs on the host and whatever the limit, and when its collection breaks *)
(* down.                                                                   *)
(***************************************************************************)
EXTENDS ProcessFilter, FiniteSetTheorems, TLAPS

(* A set of processes of a host: an id is that of one process. *)
Distinct(processes) ==
    /\ IsFiniteSet(processes) /\ processes \subseteq ProcessType
    /\ \A p, q \in processes : p.pid = q.pid => p = q

InPidOrder(list) == \A i, j \in DOMAIN list : i < j => list[i].pid < list[j].pid

(***************************************************************************)
(* The processes of a host can be put in the order of their ids: the rank  *)
(* of a process is how many have no higher id than it.                     *)
(***************************************************************************)

LEMMA Ranks ==
    ASSUME NEW processes, Distinct(processes)
    PROVE  LET n == Cardinality(processes)
               rank == [p \in processes |-> Cardinality({q \in processes : q.pid <= p.pid})]
           IN  /\ n \in Nat
               /\ rank \in [processes -> 1..n]
               /\ \A p, q \in processes : p.pid < q.pid => rank[p] < rank[q]
               /\ \A i \in 1..n : \E p \in processes : rank[p] = i
<1> DEFINE n == Cardinality(processes)
           Below(p) == {q \in processes : q.pid <= p.pid}
           rank == [p \in processes |-> Cardinality(Below(p))]
<1>1. n \in Nat
  BY FS_CardinalityType DEF Distinct
<1>2. \A p \in processes : p.pid \in Nat
  BY PidsAssumption DEF Distinct, ProcessType
<1>3. ASSUME NEW p \in processes
      PROVE  /\ IsFiniteSet(Below(p)) /\ Cardinality(Below(p)) \in 1..n
  <2>1. Below(p) \in SUBSET processes /\ p \in Below(p)
    BY <1>2
  <2>2. IsFiniteSet(Below(p)) /\ Cardinality(Below(p)) <= n
    BY <2>1, FS_Subset DEF Distinct
  <2>3. Cardinality(Below(p)) \in Nat /\ Cardinality(Below(p)) # 0
    BY <2>1, <2>2, FS_CardinalityType, FS_EmptySet
  <2>4. QED
    BY <1>1, <2>2, <2>3
<1>4. ASSUME NEW p \in processes, NEW q \in processes, p.pid < q.pid
      PROVE  Cardinality(Below(p)) < Cardinality(Below(q))
  <2>1. Below(p) \in SUBSET Below(q)
    BY <1>2, <1>4
  <2>2. q \in Below(q) /\ q \notin Below(p)
    BY <1>2, <1>4
  <2>3. /\ Cardinality(Below(p)) <= Cardinality(Below(q))
        /\ Cardinality(Below(q)) = Cardinality(Below(p)) => Below(q) = Below(p)
    BY <1>3, <2>1, FS_Subset
  <2>4. Cardinality(Below(p)) \in 1..n /\ Cardinality(Below(q)) \in 1..n
    BY <1>3
  <2>5. QED
    BY <1>1, <2>2, <2>3, <2>4
<1> HIDE DEF n, Below
<1>5. rank \in [processes -> 1..n]
  BY <1>3
<1>6. \A p, q \in processes : p.pid < q.pid => rank[p] < rank[q]
  BY <1>4
<1> HIDE DEF rank
<1>7. \A p, q \in processes : rank[p] = rank[q] => p = q
  <2>1. \A p, q \in processes : rank[p] = rank[q] => ~(p.pid < q.pid) /\ ~(q.pid < p.pid)
    BY <1>1, <1>5, <1>6
  <2>2. QED
    BY <1>2, <2>1 DEF Distinct
<1>8. \A i \in 1..n : \E p \in processes : rank[p] = i
  <2>1. rank \in Injection(processes, 1..n)
    BY <1>5, <1>7 DEF Injection, IsInjective
  <2>2. IsFiniteSet(1..n) /\ Cardinality(1..n) = n
    BY <1>1, FS_Interval
  <2>3. rank \in Surjection(processes, 1..n)
    BY <2>1, <2>2, FS_Injection DEF n
  <2>4. QED
    BY <2>3 DEF Surjection
<1>9. QED
  BY <1>1, <1>5, <1>6, <1>8 DEF n, rank, Below

LEMMA SortedExists ==
    ASSUME NEW processes, Distinct(processes)
    PROVE  LET list == SortedByPid(processes)
           IN  /\ Cardinality(processes) \in Nat
               /\ list \in [1..Cardinality(processes) -> processes]
               /\ InPidOrder(list)
               /\ Range(list) = processes
<1> DEFINE n == Cardinality(processes)
           rank == [p \in processes |-> Cardinality({q \in processes : q.pid <= p.pid})]
           byRank == [i \in 1..n |-> CHOOSE p \in processes : rank[p] = i]
           list == SortedByPid(processes)
<1>1. /\ n \in Nat
      /\ rank \in [processes -> 1..n]
      /\ \A p, q \in processes : p.pid < q.pid => rank[p] < rank[q]
      /\ \A i \in 1..n : \E p \in processes : rank[p] = i
  BY Ranks
<1>2. \A p \in processes : p.pid \in Nat
  BY PidsAssumption DEF Distinct, ProcessType
<1> HIDE DEF rank
<1>3. byRank \in [1..n -> processes] /\ \A i \in 1..n : rank[byRank[i]] = i
  BY <1>1
<1> HIDE DEF byRank
<1>4. ASSUME NEW i \in 1..n, NEW j \in 1..n, i < j
      PROVE  byRank[i].pid < byRank[j].pid
  <2>1. byRank[i].pid \in Nat /\ byRank[j].pid \in Nat
    BY <1>2, <1>3
  <2>2. ~(byRank[j].pid < byRank[i].pid)
    BY <1>1, <1>3, <1>4
  <2>3. byRank[i].pid # byRank[j].pid
    BY <1>1, <1>3, <1>4 DEF Distinct
  <2>4. QED
    BY <2>1, <2>2, <2>3
<1>5. \E l \in [1..n -> processes] : \A i, j \in DOMAIN l : i < j => l[i].pid < l[j].pid
  BY <1>3, <1>4
<1>6. list \in [1..n -> processes] /\ \A i, j \in DOMAIN list : i < j => list[i].pid < list[j].pid
  BY <1>5 DEF SortedByPid
<1> HIDE DEF list
<1>7. \A i, j \in 1..n : list[i] = list[j] => i = j
  <2>1. \A i \in 1..n : list[i].pid \in Nat
    BY <1>2, <1>6
  <2>2. \A i, j \in 1..n : i < j => list[i].pid # list[j].pid
    BY <1>6, <2>1
  <2>3. QED
    BY <1>1, <2>2
<1>8. list \in Surjection(1..n, processes)
  <2>1. list \in Injection(1..n, processes)
    BY <1>6, <1>7 DEF Injection, IsInjective
  <2>2. Cardinality(1..n) = n
    BY <1>1, FS_Interval
  <2>3. IsFiniteSet(processes)
    BY DEF Distinct
  <2>4. QED
    BY <2>1, <2>2, <2>3, FS_Injection DEF n
<1>9. Range(list) = processes
  BY <1>6, <1>8 DEF Surjection, Range
<1>10. QED
  BY <1>1, <1>6, <1>9 DEF InPidOrder, list

(***************************************************************************)
(* The limit.                                                              *)
(***************************************************************************)

(* What a list of no more than n of the processes has to be. *)
IsReport(list, processes, n) ==
    /\ list \in Seq(processes) /\ InPidOrder(list) /\ HasOwn(list)
    /\ Len(list) = IF Cardinality(processes) < n THEN Cardinality(processes) ELSE n
    /\ \A p \in Range(list), q \in processes \ Range(list) : p.pid = Own \/ q.pid < p.pid

LEMMA LimitedIsReport ==
    ASSUME NEW processes, Distinct(processes), \E p \in processes : p.pid = Own, NEW n \in Nat \ {0}
    PROVE  IsReport(Limited(SortedByPid(processes), n), processes, n)
<1> DEFINE all == SortedByPid(processes)
           size == Cardinality(processes)
           tail == Newest(all, n)
           head == Oldest(all, n)
<1>1. /\ size \in Nat /\ all \in [1..size -> processes] /\ InPidOrder(all) /\ Range(all) = processes
  BY SortedExists
<1>2. \A p \in processes : p.pid \in Nat
  BY PidsAssumption DEF Distinct, ProcessType
<1>3. HasOwn(all)
  <2>1. PICK p \in Range(all) : p.pid = Own
    BY <1>1
  <2>2. QED
    BY <2>1 DEF Range, HasOwn
<1> HIDE DEF all, size
<1>4. all \in Seq(processes) /\ Len(all) = size /\ DOMAIN all = 1..size
  BY <1>1
<1>5. CASE size <= n
  <2>1. Limited(all, n) = all
    BY <1>4, <1>5 DEF Limited
  <2>2. Len(all) = IF size < n THEN size ELSE n
    BY <1>1, <1>4, <1>5
  <2>3. \A q \in processes \ Range(all) : FALSE
    BY <1>1
  <2>4. QED
    BY <1>1, <1>3, <1>4, <2>1, <2>2, <2>3 DEF IsReport, all, size
<1>6. CASE ~(size <= n)
  <2>1. /\ tail \in Seq(processes) /\ Len(tail) = n /\ DOMAIN tail = 1..n
        /\ \A i \in 1..n : tail[i] = all[size - n + i]
    BY <1>1, <1>4, <1>6 DEF Newest
  <2> HIDE DEF tail
  <2>2. \A i, j \in 1..size : i < j => all[i].pid < all[j].pid
    BY <1>4, <1>1 DEF InPidOrder
  <2>3. Range(tail) = {all[i] : i \in (size - n + 1)..size}
    <3>1. \A i \in (size - n + 1)..size : i - (size - n) \in 1..n /\ tail[i - (size - n)] = all[i]
      BY <1>1, <1>6, <2>1
    <3>2. \A i \in 1..n : size - n + i \in (size - n + 1)..size
      BY <1>1, <1>6
    <3>3. QED
      BY <2>1, <3>1, <3>2 DEF Range
  <2>4. n = IF size < n THEN size ELSE n
    BY <1>1, <1>6
  <2>5. CASE HasOwn(tail)
    <3>1. Limited(all, n) = tail
      BY <1>4, <1>6, <2>5 DEF Limited, OwnCutOff, tail
    <3>2. InPidOrder(tail)
      BY <1>1, <1>6, <2>1, <2>2 DEF InPidOrder
    <3>3. ASSUME NEW p \in Range(tail), NEW q \in processes \ Range(tail) PROVE q.pid < p.pid
      <4>1. PICK i \in (size - n + 1)..size : p = all[i]
        BY <2>3
      <4>2. PICK j \in 1..size : q = all[j]
        BY <1>1, <1>4 DEF Range
      <4>3. j \notin (size - n + 1)..size
        BY <2>3, <3>3, <4>2
      <4>4. i \in 1..size /\ j < i
        BY <1>1, <1>6, <4>1, <4>2, <4>3
      <4>5. QED
        BY <2>2, <4>1, <4>2, <4>4
    <3>4. QED
      BY <2>1, <2>4, <2>5, <3>1, <3>2, <3>3 DEF IsReport, all, size
  <2>6. CASE ~HasOwn(tail)
    <3> DEFINE own == CHOOSE p \in Range(head) : p.pid = Own
               kept == Range(Tail(tail)) \cup {own}
    <3>0. HasOwn(head) /\ Range(head) \subseteq processes
      <4>1. /\ DOMAIN head = 1..(size - n)
            /\ \A i \in 1..(size - n) : head[i] = all[i] /\ i \in 1..size
        BY <1>1, <1>4, <1>6 DEF Oldest
      <4>2. PICK i \in 1..size : all[i].pid = Own
        BY <1>3, <1>4 DEF HasOwn
      <4>3. i \in 1..(size - n)
        <5>1. ~(i \in (size - n + 1)..size)
          <6>1. i \in (size - n + 1)..size => i - (size - n) \in 1..n /\ tail[i - (size - n)] = all[i]
            BY <1>1, <1>6, <2>1
          <6>2. QED
            BY <2>1, <2>6, <4>2, <6>1 DEF HasOwn
        <5>2. QED
          BY <1>1, <1>6, <5>1
      <4> HIDE DEF head
      <4>4. QED
        BY <1>1, <4>1, <4>2, <4>3 DEF HasOwn, Range
    <3>1. own \in processes /\ own.pid = Own
      BY <3>0 DEF HasOwn, Range
    <3> HIDE DEF own
    <3>2. Limited(all, n) = SortedByPid(kept)
      <4>1. OwnCutOff(all, n)
        BY <1>1, <1>4, <1>6, <2>6, <3>0 DEF OwnCutOff, tail, head
      <4>2. QED
        BY <1>1, <1>4, <1>6, <4>1 DEF Limited, WithOwn, tail, head, own
    <3>3. Range(Tail(tail)) = {all[i] : i \in (size - n + 2)..size}
      <4>1. /\ Tail(tail) \in Seq(processes) /\ DOMAIN Tail(tail) = 1..(n - 1)
            /\ \A i \in 1..(n - 1) : Tail(tail)[i] = all[size - n + 1 + i]
        BY <1>1, <1>6, <2>1
      <4>2. \A i \in (size - n + 2)..size :
                i - (size - n + 1) \in 1..(n - 1) /\ Tail(tail)[i - (size - n + 1)] = all[i]
        <5>1. \A i \in (size - n + 2)..size : /\ i - (size - n + 1) \in 1..(n - 1)
                                             /\ size - n + 1 + (i - (size - n + 1)) = i
          BY <1>1, <1>6
        <5>2. QED
          BY <4>1, <5>1
      <4>3. \A i \in 1..(n - 1) : size - n + 1 + i \in (size - n + 2)..size
        BY <1>1, <1>6
      <4>4. Range(Tail(tail)) = {Tail(tail)[i] : i \in 1..(n - 1)}
        BY <4>1 DEF Range
      <4>5. \A i \in 1..(n - 1) : Tail(tail)[i] \in {all[j] : j \in (size - n + 2)..size}
        BY <4>1, <4>3
      <4>6. \A j \in (size - n + 2)..size : all[j] \in {Tail(tail)[i] : i \in 1..(n - 1)}
        BY <4>2
      <4>7. QED
        BY <4>4, <4>5, <4>6
    <3>4. own \notin Range(Tail(tail))
      <4>1. ASSUME NEW i \in (size - n + 2)..size, all[i] = own PROVE FALSE
        <5>1. i - (size - n) \in 1..n /\ tail[i - (size - n)] = own
          BY <1>1, <1>6, <2>1, <4>1
        <5>2. QED
          BY <2>1, <2>6, <3>1, <5>1 DEF HasOwn
      <4>2. QED
        BY <3>3, <4>1
    <3>5. IsFiniteSet(Range(Tail(tail))) /\ Cardinality(Range(Tail(tail))) = n - 1
      <4> DEFINE last == [i \in (size - n + 2)..size |-> all[i]]
      <4>1. IsFiniteSet((size - n + 2)..size) /\ Cardinality((size - n + 2)..size) = n - 1
        <5>1. size - n + 2 \in Int /\ size \in Int
          BY <1>1
        <5>2. /\ (size - n + 2 > size) => n - 1 = 0
              /\ size - (size - n + 2) + 1 = n - 1
          BY <1>1
        <5>3. QED
          BY <5>1, <5>2, FS_Interval
      <4>2. \A i, j \in (size - n + 2)..size : all[i] = all[j] => i = j
        <5>1. \A i \in (size - n + 2)..size : i \in 1..size /\ all[i].pid \in Nat
          BY <1>1, <1>2, <1>6
        <5>2. \A i, j \in (size - n + 2)..size : i < j => all[i].pid < all[j].pid
          BY <2>2, <5>1
        <5>3. \A i, j \in (size - n + 2)..size : i < j => all[i] # all[j]
          BY <5>1, <5>2
        <5>4. QED
          BY <1>1, <5>3
      <4>3. last \in Surjection((size - n + 2)..size, Range(Tail(tail)))
        BY <3>3 DEF Surjection
      <4>4. last \in Injection((size - n + 2)..size, Range(Tail(tail)))
        BY <3>3, <4>2 DEF Injection, IsInjective
      <4>5. QED
        BY <4>1, <4>3, <4>4, FS_Surjection
    <3>6. Cardinality(kept) = n
      <4>1. \A S : IsFiniteSet(S) /\ own \notin S => Cardinality(S \cup {own}) = Cardinality(S) + 1
        BY FS_AddElement
      <4>2. Cardinality(kept) = (n - 1) + 1
        BY <3>4, <3>5, <4>1
      <4>3. QED
        BY <4>2
    <3>7. kept \subseteq processes
      <4>1. \A i \in (size - n + 2)..size : all[i] \in processes
        BY <1>1, <1>6
      <4>2. QED
        BY <3>1, <3>3, <4>1
    <3>8. Distinct(kept)
      BY <3>7, FS_Subset DEF Distinct
    <3> DEFINE list == SortedByPid(kept)
    <3> HIDE DEF kept
    <3>9. /\ list \in [1..n -> kept] /\ InPidOrder(list) /\ Range(list) = kept
      BY <3>6, <3>8, SortedExists
    <3> HIDE DEF list
    <3>10. HasOwn(list)
      BY <3>1, <3>9 DEF HasOwn, kept, Range
    <3>11. ASSUME NEW p \in kept, NEW q \in processes \ kept PROVE p.pid = Own \/ q.pid < p.pid
      <4>1. CASE p = own
        BY <3>1, <4>1
      <4>2. CASE p # own
        <5>1. PICK i \in (size - n + 2)..size : p = all[i]
          BY <3>3, <4>2, <3>11 DEF kept
        <5>2. PICK j \in 1..size : q = all[j]
          BY <1>1, <1>4 DEF Range
        <5>3. j \notin (size - n + 2)..size
          BY <3>3, <3>11, <5>2 DEF kept
        <5>4. i \in 1..size /\ j < i
          BY <1>1, <1>6, <5>1, <5>2, <5>3
        <5>5. QED
          BY <2>2, <5>1, <5>2, <5>4
      <4>3. QED
        BY <4>1, <4>2
    <3>12. list \in Seq(processes) /\ Len(list) = n
      BY <3>7, <3>9
    <3>13. QED
      BY <2>4, <3>2, <3>9, <3>10, <3>11, <3>12 DEF IsReport, all, size, list
  <2>7. QED
    BY <2>5, <2>6
<1>7. QED
  BY <1>5, <1>6

(***************************************************************************)
(* The passes.                                                             *)
(***************************************************************************)

(* The agent is one of the processes of the host, and what was reported last is a
   report of what was found. *)
FilterInv ==
    /\ Distinct(host) /\ AgentProcess \in host
    /\ max_processes \in Limits /\ include_all \in BOOLEAN /\ poisoned \in BOOLEAN
    /\ \/ found = {} /\ reported = <<>>
       \/ found \subseteq ProcessType /\ IsReport(reported, found, max_processes)
    /\ poisoned => max_processes = 0
    /\ max_processes = 0 => reported = <<>> /\ found = {}

LEMMA InitOk == Init => FilterInv
BY ProcessesAssumption, FS_Singleton DEF Init, FilterInv, Distinct

(* The agent's own process is always worth reporting. *)
LEMMA RetainedOk ==
    ASSUME FilterInv
    PROVE  LET processes == Retained(host, include_all)
           IN  Distinct(processes) /\ AgentProcess \in processes /\ AgentProcess.pid = Own
<1> DEFINE processes == Retained(host, include_all)
<1>1. processes \in SUBSET host /\ AgentProcess \in processes /\ AgentProcess.pid = Own
  BY ProcessesAssumption DEF FilterInv, Retained
<1>2. IsFiniteSet(processes)
  BY <1>1, FS_Subset DEF FilterInv, Distinct
<1> HIDE DEF processes
<1>3. Distinct(processes)
  BY <1>1, <1>2 DEF FilterInv, Distinct
<1>4. QED
  BY <1>1, <1>3 DEF processes

(* A tail has as many elements as the limit: only at 0 it has no first. *)
LEMMA PanicsWithoutTail ==
    ASSUME NEW S, NEW list \in Seq(S), NEW n \in Nat, Panics(list, n)
    PROVE  n = 0
<1>1. Len(list) \in Nat /\ Len(list) > n /\ Newest(list, n) = <<>>
  BY DEF Panics, OwnCutOff
<1>2. Len(Newest(list, n)) = n
  BY <1>1 DEF Newest
<1>3. QED
  BY <1>1, <1>2

(* At 0 the whole list is cut off. *)
LEMMA NothingLeftAtZero ==
    ASSUME NEW S, NEW list \in Seq(S), HasOwn(list)
    PROVE  Panics(list, 0)
<1>1. Len(list) \in Nat /\ Len(list) > 0
  BY DEF HasOwn
<1>2. Newest(list, 0) = <<>> /\ ~HasOwn(Newest(list, 0))
  BY <1>1 DEF Newest, HasOwn
<1>3. Oldest(list, 0) = list
  BY <1>1 DEF Oldest
<1>4. QED
  BY <1>1, <1>2, <1>3 DEF Panics, OwnCutOff

LEMMA GetProcessesStep ==
    ASSUME FilterInv, GetProcesses
    PROVE  /\ found' \subseteq ProcessType /\ IsReport(reported', found', max_processes)
           /\ max_processes # 0
<1> DEFINE processes == Retained(host, include_all)
           all == SortedByPid(processes)
<1>1. Distinct(processes) /\ AgentProcess \in processes /\ AgentProcess.pid = Own
  BY RetainedOk
<1>2. /\ ~Panics(all, max_processes)
      /\ found' = Range(all) /\ reported' = Limited(all, max_processes)
  BY DEF GetProcesses
<1> HIDE DEF processes
<1>3. /\ Cardinality(processes) \in Nat /\ all \in [1..Cardinality(processes) -> processes]
      /\ Range(all) = processes
  BY <1>1, SortedExists
<1> HIDE DEF all
<1>4. max_processes \in Nat /\ max_processes # 0
  <2>1. PICK i \in 1..Cardinality(processes) : all[i] = AgentProcess
    BY <1>1, <1>3 DEF Range
  <2>2. HasOwn(all) /\ all \in Seq(processes)
    BY <1>1, <1>3, <2>1 DEF HasOwn
  <2>3. QED
    BY <1>2, <2>2, NothingLeftAtZero, LimitsAssumption DEF FilterInv
<1>5. IsReport(Limited(all, max_processes), processes, max_processes)
  BY <1>1, <1>4, LimitedIsReport DEF all
<1>6. QED
  BY <1>1, <1>2, <1>3, <1>4, <1>5 DEF Distinct

LEMMA FilterStep == FilterInv /\ [Next]_vars => FilterInv'
<1> SUFFICES ASSUME FilterInv, [Next]_vars PROVE FilterInv'
  OBVIOUS
<1>1. CASE GetProcesses
  <2>1. /\ found' \subseteq ProcessType /\ IsReport(reported', found', max_processes)
        /\ max_processes # 0
    BY <1>1, GetProcessesStep
  <2>2. UNCHANGED <<host, max_processes, include_all, poisoned>>
    BY <1>1 DEF GetProcesses
  <2>3. QED
    BY <2>1, <2>2 DEF FilterInv
<1>2. CASE GetProcessesPanics
  <2>1. max_processes = 0 /\ poisoned' = TRUE
    <3> DEFINE processes == Retained(host, include_all)
               all == SortedByPid(processes)
    <3>1. Panics(all, max_processes) /\ poisoned' = TRUE
      BY <1>2 DEF GetProcessesPanics
    <3>2. all \in Seq(processes)
      <4>1. Distinct(processes)
        BY RetainedOk
      <4> HIDE DEF processes
      <4>2. Cardinality(processes) \in Nat /\ all \in [1..Cardinality(processes) -> processes]
        BY <4>1, SortedExists
      <4>3. QED
        BY <4>2
    <3>3. max_processes \in Nat
      BY LimitsAssumption DEF FilterInv
    <3> HIDE DEF all
    <3>4. QED
      BY <3>1, <3>2, <3>3, PanicsWithoutTail
  <2>2. UNCHANGED <<host, max_processes, include_all, found, reported>>
    BY <1>2 DEF GetProcessesPanics
  <2>3. QED
    BY <2>1, <2>2 DEF FilterInv
<1>3. ASSUME NEW p \in Processes, ProcessStarts(p) PROVE FilterInv'
  <2>1. UNCHANGED <<max_processes, include_all, poisoned, found, reported>> /\ host' = host \cup {p}
    BY <1>3 DEF ProcessStarts
  <2>2. IsFiniteSet(host') /\ AgentProcess \in host'
    BY <2>1, FS_AddElement DEF FilterInv, Distinct
  <2>3. host' \subseteq ProcessType /\ \A x, y \in host' : x.pid = y.pid => x = y
    BY <1>3, <2>1, ProcessesAssumption DEF ProcessStarts, FilterInv, Distinct
  <2>4. QED
    BY <2>1, <2>2, <2>3 DEF FilterInv, Distinct
<1>4. ASSUME NEW p \in host, ProcessExits(p) PROVE FilterInv'
  <2>1. UNCHANGED <<max_processes, include_all, poisoned, found, reported>> /\ host' = host \ {p}
    BY <1>4 DEF ProcessExits
  <2>2. IsFiniteSet(host')
    BY <2>1, FS_RemoveElement DEF FilterInv, Distinct
  <2>3. AgentProcess \in host'
    BY <1>4, <2>1, ProcessesAssumption DEF ProcessExits, FilterInv
  <2>4. host' \subseteq ProcessType /\ \A x, y \in host' : x.pid = y.pid => x = y
    BY <2>1 DEF FilterInv, Distinct
  <2>5. QED
    BY <2>1, <2>2, <2>3, <2>4 DEF FilterInv, Distinct
<1>5. CASE UNCHANGED vars
  BY <1>5 DEF vars, FilterInv
<1>6. QED
  BY <1>1, <1>2, <1>3, <1>4, <1>5 DEF Next

LEMMA FilterInvariant == Spec => []FilterInv
BY InitOk, FilterStep, PTL DEF Spec

(* get_processes returns processes of the host, no more than the limit. *)
THEOREM TypeCorrect == Spec => []TypeOK
<1>1. FilterInv => TypeOK
  <2> SUFFICES ASSUME FilterInv PROVE TypeOK
    OBVIOUS
  <2>1. max_processes \in Nat
    BY LimitsAssumption DEF FilterInv
  <2>2. CASE found = {} /\ reported = <<>>
    BY <2>1, <2>2 DEF FilterInv, Distinct, TypeOK
  <2>3. CASE found \subseteq ProcessType /\ IsReport(reported, found, max_processes)
    <3>1. /\ reported \in Seq(found)
          /\ Len(reported) = IF Cardinality(found) < max_processes THEN Cardinality(found)
                             ELSE max_processes
      BY <2>3 DEF IsReport
    <3>2. Len(reported) <= max_processes
      <4>1. Len(reported) \in Nat
        BY <3>1
      <4>2. QED
        BY <2>1, <3>1, <4>1
    <3>3. \A i \in DOMAIN reported : reported[i] \in ProcessType
      BY <2>3, <3>1
    <3>4. QED
      BY <2>3, <3>2, <3>3 DEF FilterInv, Distinct, TypeOK
  <2>4. QED
    BY <2>2, <2>3 DEF FilterInv
<1>2. QED
  BY <1>1, FilterInvariant, PTL

(* A topology lists as many of the processes worth reporting as the limit allows: the
   agent's own and those with the highest ids, in their order. *)
THEOREM ReportedAsDefined == Spec => []ReportedByDefinition
<1>1. FilterInv => ReportedByDefinition
  <2> SUFFICES ASSUME FilterInv, found # {}
               PROVE  LET listed == Range(reported) IN
                      /\ listed \subseteq found
                      /\ Len(reported) = IF Cardinality(found) < max_processes THEN Cardinality(found)
                                         ELSE max_processes
                      /\ \A i, j \in DOMAIN reported : i < j => reported[i].pid < reported[j].pid
                      /\ HasOwn(reported)
                      /\ \A p \in listed, q \in found \ listed : p.pid = Own \/ q.pid < p.pid
    BY DEF ReportedByDefinition
  <2>1. IsReport(reported, found, max_processes)
    BY DEF FilterInv
  <2>2. Range(reported) \subseteq found
    BY <2>1 DEF IsReport, Range
  <2>3. QED
    BY <2>1, <2>2 DEF IsReport, InPidOrder
<1>2. QED
  BY <1>1, FilterInvariant, PTL

(* The collection of topologies breaks down at the first pass where the limit is 0, and
   never elsewhere: both follow from how long the tail is that split_off leaves. *)
THEOREM BreaksAtZero == Spec => []BreaksExactlyAtZero
<1>1. FilterInv => BreaksExactlyAtZero
  BY DEF FilterInv, BreaksExactlyAtZero
<1>2. QED
  BY <1>1, FilterInvariant, PTL
=============================================================================
