---------------------------- MODULE DatabasePass ----------------------------
(***************************************************************************)
(* The databases of a pass and what is read from them, together: a step of *)
(* enrich_database_schemas (DatabaseSchema) and of the introspection it is *)
(* waiting for (IntrospectedTables).                                       *)
(***************************************************************************)
EXTENDS DatabaseSchema, IntrospectedTables

(* Introspections are those of the databases some node of a pass describes. *)
ASSUME ConnectionsAssumption ==
    \A list \in Reports : \A i \in DOMAIN list : InfoOf(list[i]) \subseteq Connections

passVars == <<vars, tableVars>>

PassInit == Init /\ TablesInit

(* The agent's steps outside of an introspection. *)
Outside ==
    (ReadNode \/ Built \/ NoSchema \/ NotConnected \/ AllEnriched \/ Apply) /\ UNCHANGED tableVars

(* introspect_schema is called with the connection. *)
Introspect == Connect /\ \E info \in connection' : Open(info)

(* The connection is there; the transaction has begun. *)
Ready == pc \in {"connect", "begin"} /\ Answered /\ UNCHANGED tableVars

ColumnsAnswered == pc = "columns" /\ Answered /\ ReadColumns

(* What is done with the answers is the agent's own. *)
Tabulate == (FillRow \/ Filled) /\ UNCHANGED vars

(* The answer of introspect_schema: no table is as good as an error to its caller. *)
TablesAnswered ==
    /\ stage = "done" /\ Close
    /\ TablesRead
    /\ \E info \in connection :
           Enriched(IF DOMAIN tables = {} THEN {}
                    ELSE {[from |-> info, keys |-> primary_keys # {}]})

Failed == Refused /\ Close

(* The timeout is over the queries: nothing is awaited after them. *)
Late == stage \in {"columns", "keys"} /\ TimedOut /\ Close

PassAgent == Outside \/ Introspect \/ Tabulate \/ TablesAnswered \/ Late

PassDatabase ==
    \/ Ready \/ ColumnsAnswered \/ Failed
    \/ (Migrate \/ ReadKeys) /\ UNCHANGED vars

PassNext == PassAgent \/ PassDatabase \/ (Collected /\ UNCHANGED tableVars)

PassSpec == PassInit /\ [][PassNext]_passVars

(* As in FairSpec: a database need not answer. *)
FairPassSpec == PassSpec /\ WF_passVars(PassAgent)
=============================================================================
