--------------------------- MODULE MCDatabasePass ---------------------------
(* DatabasePass over the container nodes of MCDatabaseSchema.  One PostgreSQL and one
   MySQL database have any of several contents: tables of one name in two schemas,
   columns of one name in two tables, a constraint named as the key of another table,
   and tables of a system schema. *)
EXTENDS DatabasePass, MCDatabaseSchema

Table(schema, name, cs, ks) ==
    [schema |-> schema, name |-> name, columns |-> cs, keys |-> ks, shared |-> {}]

Users == Table("app", "users", <<"id", "email">>, {"id"})
Migrated == Table("app", "users", <<"uid", "id", "email">>, {"uid"})
Orders == [Table("app", "orders", <<"id", "user", "email">>, {"id", "user"}) EXCEPT !.shared = {"email"}]
OldUsers == Table("archive", "users", <<"email", "id">>, {"email"})
Class == Table("pg_catalog", "pg_class", <<"oid">>, {"oid"})
NoColumns == Table("app", "empty", <<>>, {})

(* In the order of schema and name. *)
MCDatabases(info) ==
    IF info.host = "203.0.113.10"
    THEN {<<>>, <<Orders, Users>>, <<Orders, Migrated>>, <<Users, OldUsers>>, <<NoColumns, Users, Class>>}
    ELSE IF info.port = 3307 THEN {<<Users>>, <<Orders, Migrated, OldUsers>>}
    ELSE {<<>>, <<Users>>}

MCConnections == UNION {InfoOf(c) : c \in Nodes}
MCSystemSchemas == {"pg_catalog", "information_schema"}
=============================================================================
