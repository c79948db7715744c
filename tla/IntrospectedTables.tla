------------------------- MODULE IntrospectedTables -------------------------
(***************************************************************************)
(* From information_schema to the tables of a payload: the two queries of  *)
(* introspect_postgres and introspect_mysql and tables_from_columns        *)
(* (src/database.rs).                                                      *)
(*                                                                         *)
(* A database is the sequence of its tables in the order of ORDER BY, each *)
(* with the columns its user may read; it may be migrated between the two  *)
(* queries.  Of the constraints of a table the user may be shown none.     *)
(***************************************************************************)
EXTENDS Naturals, Sequences

CONSTANTS
    Connections,    \* DatabaseConnectionInfo: an engine and a database at least
    Databases(_),   \* what may be found there: sequences of [schema, name, columns, keys, shared]
    SystemSchemas   \* pg_catalog and information_schema

AllDatabases == UNION {Databases(info) : info \in Connections}

(* The columns of a table are in an order, as tables are.  Its keys are those of its
   primary key, the shared ones those of its constraints whose name is that of another
   table's primary key in the same schema. *)
DatabasesOk ==
    \A db \in AllDatabases :
        /\ db \in Seq({db[i] : i \in DOMAIN db})
        /\ \A i \in DOMAIN db :
              /\ db[i].columns \in Seq({db[i].columns[j] : j \in DOMAIN db[i].columns})
              /\ db[i].keys \cup db[i].shared \subseteq {db[i].columns[j] : j \in DOMAIN db[i].columns}

ASSUME DatabasesAssumption == DatabasesOk

VARIABLES
    stage,         \* where the introspection is
    server,        \* the connection
    contents,      \* the server's present tables
    seen,          \* history: its tables when the columns were queried
    columns,       \* the rows of the first query not filled in yet: table and position
    primary_keys,  \* names of tables, each with that of a column of its key
    tables         \* the tables filled so far, by name

tableVars == <<stage, server, contents, seen, columns, primary_keys, tables>>

(* A mutated form of Push: the row replaces the columns before it. *)
PushOnly(list, column) == <<column>>

(* A mutated form of IsKey: any table's key of that name will do. *)
IsKeyAnywhere(row) == \E key \in primary_keys : key[2] = row.column

(* WHERE table_schema ... *)
Selected(table) ==
    IF server.engine = "mysql" THEN table.schema = server.database
    ELSE table.schema \notin SystemSchemas

(* The constraints whose columns the second query takes for a primary key: with
   PostgreSQL it finds a constraint by name and schema, and by no table. *)
KeyConstraints(table) ==
    {table.keys} \cup (IF server.engine = "mysql" THEN {} ELSE {table.shared})

(* The rows of the first query, and their order: ORDER BY. *)
Rows(db) == UNION {{i} \X DOMAIN db[i].columns : i \in {j \in DOMAIN db : Selected(db[j])}}
Before(p, q) == p[1] < q[1] \/ (p[1] = q[1] /\ p[2] < q[2])
Row(p) == [table |-> seen[p[1]].name, column |-> seen[p[1]].columns[p[2]]]

Push(list, column) == Append(list, column)

ColumnsSeen == UNION {{seen[i].columns[j] : j \in DOMAIN seen[i].columns} : i \in DOMAIN seen}

(* Only tables that were selected and have columns are filled, each under its name, and
   a key is one of some database (tables_from_columns). *)
TablesTypeOK ==
    /\ stage \in {"closed", "columns", "keys", "fill", "done"}
    /\ stage # "closed" => server \in Connections
    /\ stage \in {"keys", "fill", "done"} => contents \in AllDatabases /\ seen \in AllDatabases
    /\ \A key \in primary_keys : \E db \in AllDatabases : \E i \in DOMAIN db :
           key[1] = db[i].name /\ key[2] \in UNION KeyConstraints(db[i])
    /\ \A name \in DOMAIN tables :
           /\ tables[name] \in Seq([name : ColumnsSeen, primary_key : BOOLEAN]) \ {<<>>}
           /\ \E i \in DOMAIN seen : Selected(seen[i]) /\ seen[i].name = name

TablesInit ==
    /\ stage = "closed" /\ server = <<>> /\ contents = <<>> /\ seen = <<>>
    /\ columns = {} /\ primary_keys = {} /\ tables = <<>>

(* The arguments of introspect_schema. *)
Open(info) ==
    /\ stage = "closed" /\ stage' = "columns" /\ server' = info
    /\ UNCHANGED <<contents, seen, columns, primary_keys, tables>>

ReadColumns ==
    /\ stage = "columns" /\ stage' = "keys"
    /\ contents' \in Databases(server) /\ seen' = contents'
    /\ columns' = Rows(contents')
    /\ UNCHANGED <<server, primary_keys, tables>>

(* The database is changed between the queries. *)
Migrate ==
    /\ stage = "keys" /\ contents' \in Databases(server)
    /\ UNCHANGED <<stage, server, seen, columns, primary_keys, tables>>

(* Of the constraints there are, those the user is shown; unwrap_or_default: a failure
   is none at all. *)
Constrained ==
    UNION {{i} \X KeyConstraints(contents[i]) : i \in {j \in DOMAIN contents : Selected(contents[j])}}

ReadKeys ==
    /\ stage = "keys" /\ stage' = "fill"
    /\ \E shown \in SUBSET Constrained :
           primary_keys' = UNION {{contents[p[1]].name} \X p[2] : p \in shown}
    /\ UNCHANGED <<server, contents, seen, columns, tables>>

IsKey(row) == <<row.table, row.column>> \in primary_keys

(* The next row goes to the table of its name. *)
Fill(row) ==
    LET column == [name |-> row.column, primary_key |-> IsKey(row)]
        filled == IF row.table \in DOMAIN tables THEN tables[row.table] ELSE <<>>
    IN  tables' = [name \in DOMAIN tables \cup {row.table} |->
                      IF name = row.table THEN Push(filled, column) ELSE tables[name]]

FillRow ==
    /\ stage = "fill"
    /\ \E p \in columns :
          /\ \A q \in columns : q = p \/ Before(p, q)
          /\ Fill(Row(p))
          /\ columns' = columns \ {p}
    /\ UNCHANGED <<stage, server, contents, seen, primary_keys>>

Filled ==
    /\ stage = "fill" /\ columns = {} /\ stage' = "done"
    /\ UNCHANGED <<server, contents, seen, columns, primary_keys, tables>>

(* The introspection ends, with its tables, a failure or the timeout. *)
Close ==
    /\ stage # "closed" /\ stage' = "closed"
    /\ server' = <<>> /\ contents' = <<>> /\ seen' = <<>>
    /\ columns' = {} /\ primary_keys' = {} /\ tables' = <<>>

TablesNext ==
    \/ \E info \in Connections : Open(info)
    \/ ReadColumns \/ Migrate \/ ReadKeys \/ FillRow \/ Filled \/ Close

(* One introspection after another. *)
TablesSpec == TablesInit /\ [][TablesNext]_tableVars
-----------------------------------------------------------------------------

Names(name) == {i \in DOMAIN seen : Selected(seen[i]) /\ seen[i].name = name}
ColumnNames(name) == [i \in DOMAIN tables[name] |-> tables[name][i].name]

(* A table whose name is not in two schemas is reported with exactly its own columns,
   in their order, as they were when they were queried; tables of one name are reported
   as a single one (tables_from_columns). *)
TablesApart ==
    stage = "done" => \A i \in DOMAIN seen :
        Names(seen[i].name) = {i} /\ seen[i].columns # <<>>
        => seen[i].name \in DOMAIN tables /\ ColumnNames(seen[i].name) = seen[i].columns

Marked(name) ==
    {c.name : c \in {tables[name][j] : j \in {j \in DOMAIN tables[name] : tables[name][j].primary_key}}}

(* In a table whose name was in one schema when the columns were queried, the columns
   marked as part of the primary key are exactly those of some constraints that tables
   of this name had when the keys were queried, as far as the columns were there before:
   no constraint of another table and no part of one, whether the database was migrated
   in between or not (introspect_postgres, introspect_mysql). *)
KeysOfOwnTable ==
    stage = "done" => \A i \in DOMAIN seen :
        Names(seen[i].name) = {i} /\ seen[i].columns # <<>> =>
            \E shown \in SUBSET {p[2] : p \in {p \in Constrained : contents[p[1]].name = seen[i].name}} :
                Marked(seen[i].name) =
                    (UNION shown) \cap {seen[i].columns[j] : j \in DOMAIN seen[i].columns}

=============================================================================
