--------------------------- MODULE DatabaseSchema ---------------------------
(***************************************************************************)
(* Databases: how a container's environment is read as the description of  *)
(* a database (database_schema_from_container in src/discovery.rs), how    *)
(* the schemas of a pass are collected and enriched with tables            *)
(* (build_network_topology_from_resources, enrich_database_schemas), and   *)
(* how a database is connected to and introspected (src/database.rs).      *)
(*                                                                         *)
(* An optional value is a set of at most one element.  A value of an       *)
(* environment is what its readers make of it: the text, the integer it    *)
(* spells if any, the parts of the URL it is if any.  Redaction searches   *)
(* the whole text for secrets, addresses and entities, so that it may turn *)
(* a value into any other: one with other parts, or no URL any more.  The  *)
(* tables of a database are represented by where they were read.           *)
(***************************************************************************)
EXTENDS Integers, Sequences, FiniteSetsExt

CONSTANTS
    Reports,        \* the container nodes a pass may get, in order: the payloads
    Redacted(_),    \* what Redactor::redact and materialize_... leave of a value
    Masked,         \* "aegis-mock-value", the redacted form of a value that is not known
    RedactedText    \* "[REDACTED]": REDACTED_ENV_VALUE

AtMostOne(option) == \A x, y \in option : x = y

(* What a reader makes of a value: a port is an integer. *)
IsUrl(u) ==
    /\ u = [scheme |-> u.scheme, host |-> u.host, port |-> u.port, database |-> u.database,
            user |-> u.user, password |-> u.password]
    /\ AtMostOne(u.host) /\ AtMostOne(u.port) /\ AtMostOne(u.database) /\ AtMostOne(u.user)
    /\ u.port \subseteq Int

IsValue(v) ==
    /\ v = [text |-> v.text, number |-> v.number, url |-> v.url]
    /\ v.number \subseteq Int /\ AtMostOne(v.number)
    /\ AtMostOne(v.url) /\ \A u \in v.url : IsUrl(u)

ASSUME ReportsAssumption ==
    \A list \in Reports :
        /\ list \in Seq({list[i] : i \in DOMAIN list})
        /\ \A i \in DOMAIN list : \A key \in DOMAIN list[i].declared :
               \A v \in list[i].declared[key] : IsValue(v) /\ IsValue(Redacted(v))

VARIABLES
    pc,          \* where the pass is
    reports, k,  \* the container nodes, and the one being read
    schemas,     \* database_schemas, by database_schema_key
    enriched,    \* enriched_schemas: the tables by key
    connection,  \* DatabaseConnectionInfo in use
    found        \* history: the reports whose introspection got tables

vars == <<pc, reports, k, schemas, enriched, connection, found>>

MaxI32 == 2147483647
MaxU16 == 65535

OrElse(option, other) == IF option # {} THEN option ELSE other

(***************************************************************************)
(* Mutated forms of definitions below: the plausible bugs the properties   *)
(* are there to catch.  Nothing in the specification uses them.            *)
(***************************************************************************)

(* U16: the port is truncated, as a cast does. *)
U16Wrapped(numbers) == {n % (MaxU16 + 1) : n \in numbers}

(* ListSchema: the first schema of a key is kept. *)
ListSchemaOnce(key, schema) ==
    schemas' = [i \in DOMAIN schemas \cup {key} |->
                   IF i \in DOMAIN schemas THEN schemas[i] ELSE [schema |-> schema, tables |-> {}]]

(* NotConnected: a container without a connection ends the enrichment. *)
NotConnectedEndsPass ==
    /\ pc = "enrich" /\ k <= Len(reports)
    /\ pc' = "done"
    /\ UNCHANGED <<reports, k, schemas, enriched, connection, found>>

(* TimedOut: the timeout is only noticed once a step has ended. *)
TimedOutLate == FALSE /\ UNCHANGED vars

(***************************************************************************)
(* Environments.                                                           *)
(***************************************************************************)

Engines == {"mysql", "postgresql"}
Fields == {"host", "port", "database", "user", "password"}

(* The variables read for each field of an engine, first match first. *)
Keys(engine) ==
    IF engine = "mysql"
    THEN [host |-> <<"MYSQL_HOST", "DB_HOST">>, port |-> <<"MYSQL_PORT", "DB_PORT">>,
          database |-> <<"MYSQL_DATABASE", "DB_NAME">>,
          user |-> <<"MYSQL_USER", "MYSQL_ROOT_USER", "DB_USER">>,
          password |-> <<"MYSQL_PASSWORD", "MYSQL_ROOT_PASSWORD", "DB_PASSWORD">>]
    ELSE [host |-> <<"POSTGRES_HOST", "PGHOST", "DB_HOST">>,
          port |-> <<"POSTGRES_PORT", "PGPORT", "DB_PORT">>,
          database |-> <<"POSTGRES_DB", "PGDATABASE", "DB_NAME">>,
          user |-> <<"POSTGRES_USER", "PGUSER", "DB_USER">>,
          password |-> <<"POSTGRES_PASSWORD", "PGPASSWORD", "DB_PASSWORD">>]

UrlKeys(engine) ==
    IF engine = "mysql" THEN <<"MYSQL_URL", "MARIADB_URL">>
    ELSE <<"DATABASE_URL", "POSTGRES_URL", "POSTGRESQL_URL">>

UrlVariables == UNION {{UrlKeys(e)[i] : i \in DOMAIN UrlKeys(e)} : e \in Engines}

Variables(engine) ==
    UNION {{Keys(engine)[f][i] : i \in DOMAIN Keys(engine)[f]} : f \in Fields}

(* The variables that start with MYSQL_ or MARIADB_, POSTGRES_ or PG. *)
Prefixed(engine) ==
    (Variables(engine) \ {"DB_HOST", "DB_PORT", "DB_NAME", "DB_USER", "DB_PASSWORD"})
        \cup (IF engine = "mysql" THEN {"MYSQL_URL", "MARIADB_URL"} ELSE {"POSTGRES_URL"})

(* is_sensitive_environment_key, of the variables above *)
Sensitive ==
    UNION {{Keys(e).password[i] : i \in DOMAIN Keys(e).password} : e \in Engines}

(* What parse_postgres_url, parse_mysql_url and parse_database_url give for no URL; a
   port is read as i32 or u16 where it is used. *)
NoUrl == [host |-> {}, port |-> {}, database |-> {}, user |-> {}, password |-> {}]

Word(text) == [text |-> text, number |-> {}, url |-> {}]

(* redact_environment_entry: a variable whose value comes from elsewhere is masked. *)
Redact(key, value) ==
    IF key \in Sensitive THEN Word(RedactedText)
    ELSE IF value = {} THEN Word(Masked)
    ELSE Redacted(CHOOSE v \in value : TRUE)

(* The env and the raw_env of a container node. *)
Env(c) == [key \in DOMAIN c.declared |-> Redact(key, c.declared[key])]
RawEnv(c) == [key \in {i \in DOMAIN c.declared : c.declared[i] # {}} |->
                 CHOOSE v \in c.declared[key] : TRUE]

(* env_value *)
EnvValue(env, keys) ==
    LET present == {i \in DOMAIN keys : keys[i] \in DOMAIN env}
    IN  IF present = {} THEN {} ELSE {env[keys[Min(present)]]}

Text(values) == {v.text : v \in values}
Numbers(values) == UNION {v.number : v \in values}
Urls(values) == UNION {v.url : v \in values}
I32(numbers) == {n \in numbers : n <= MaxI32}
U16(numbers) == {n \in numbers : 0 <= n /\ n <= MaxU16}

TheUrl(urls) == IF urls = {} THEN NoUrl ELSE CHOOSE u \in urls : TRUE

(***************************************************************************)
(* database_schema_from_container and database_schema_key.                 *)
(***************************************************************************)

Mentions(c, engine) ==
    \/ DOMAIN c.declared \cap Prefixed(engine) # {}
    \/ c.image \in (IF engine = "mysql" THEN {"mysql", "mariadb"} ELSE {"postgres"})

ParsedUrls(c, engine) ==
    {u \in Urls(EnvValue(Env(c), UrlKeys(engine))) : u.scheme = engine}

(* MySQL is looked for first; a container is a PostgreSQL client by its URL too. *)
Detected(c) ==
    IF Mentions(c, "mysql") THEN {"mysql"}
    ELSE IF Mentions(c, "postgresql") \/ ParsedUrls(c, "postgresql") # {} THEN {"postgresql"}
    ELSE {}

Schema(c, engine) ==
    LET url == TheUrl(ParsedUrls(c, engine))
        Value(field) == EnvValue(Env(c), Keys(engine)[field])
    IN  [engine |-> IF engine = "mysql" /\ c.image = "mariadb" THEN "mariadb" ELSE engine,
         host |-> OrElse(Text(Value("host")), url.host),
         port |-> OrElse(I32(Numbers(Value("port"))), I32(url.port)),
         database |-> OrElse(Text(Value("database")), url.database),
         user |-> OrElse(Text(Value("user")), url.user),
         id |-> c.id, name |-> c.name]

(* In a key nothing and an empty text are the same. *)
DatabaseKey(s) == <<s.engine, s.id, s.host \ {""}, s.port, s.database \ {""}>>

(***************************************************************************)
(* connection_info_from_schema                                             *)
(***************************************************************************)

Normalized(engine) == IF engine = "mariadb" THEN "mysql" ELSE engine
DefaultPort(engine) == IF engine = "mysql" THEN 3306 ELSE 5432

(* The first URL there is, whatever its engine. *)
RawUrl(raw) == TheUrl(Urls(EnvValue(raw, UrlKeys("postgresql") \o UrlKeys("mysql"))))

ConnectionInfo(s, raw) ==
    LET engine == Normalized(s.engine)
        url == RawUrl(raw)
        Value(field) == EnvValue(raw, Keys(engine)[field])
        Setting(field, declared) == OrElse(OrElse(Text(Value(field)), declared), url[field])
        Port == OrElse(U16(Numbers(Value("port"))), OrElse(U16(s.port), U16(url.port)))
        Password == Text(Value("password")) \ {RedactedText}
    IN  {[engine |-> engine, host |-> host, port |-> port, database |-> database, user |-> user,
          password |-> OrElse(Password, url.password)] :
            host \in Setting("host", s.host), port \in OrElse(Port, {DefaultPort(engine)}),
            database \in Setting("database", s.database), user \in Setting("user", s.user)}

(***************************************************************************)
(* The pass.  build_network_topology_from_resources first, then            *)
(* enrich_database_schemas over the same container nodes.                  *)
(***************************************************************************)

Introspecting == {"connect", "begin", "columns", "keys"}

(* The schema of a container, if it is one of a database. *)
SchemaOf(c) == {Schema(c, engine) : engine \in Detected(c)}
InfoOf(c) == UNION {ConnectionInfo(s, RawEnv(c)) : s \in SchemaOf(c)}

(* A schema is listed under its key, and tables were read from the database some node
   of the pass describes (database_schema_key, connection_info_from_schema). *)
TypeOK ==
    /\ pc \in {"build", "enrich", "apply", "done"} \cup Introspecting
    /\ reports \in Reports /\ k \in 1..(Len(reports) + 1)
    /\ \A key \in DOMAIN schemas : DatabaseKey(schemas[key].schema) = key
    /\ \A key \in DOMAIN enriched :
           enriched[key] \subseteq [from : UNION {InfoOf(reports[i]) : i \in DOMAIN reports},
                                   keys : BOOLEAN]
    /\ connection \in SUBSET UNION {InfoOf(reports[i]) : i \in DOMAIN reports}
    /\ pc \in Introspecting => \E c \in connection : c.port \in 0..MaxU16
    /\ found \subseteq DOMAIN reports

Init ==
    /\ pc = "build"
    /\ reports \in Reports /\ k = 1
    /\ schemas = <<>> /\ enriched = <<>>
    /\ connection = {} /\ found = {}

ListSchema(key, schema) ==
    schemas' = [i \in DOMAIN schemas \cup {key} |->
                   IF i = key THEN [schema |-> schema, tables |-> {}] ELSE schemas[i]]

(* One container node of the payload that is being built. *)
ReadNode ==
    /\ pc = "build" /\ k <= Len(reports)
    /\ k' = k + 1
    /\ IF SchemaOf(reports[k]) = {} THEN UNCHANGED schemas
       ELSE \E s \in SchemaOf(reports[k]) : ListSchema(DatabaseKey(s), s)
    /\ UNCHANGED <<pc, reports, enriched, connection, found>>

Built ==
    /\ pc = "build" /\ k > Len(reports)
    /\ pc' = "enrich" /\ k' = 1
    /\ UNCHANGED <<reports, schemas, enriched, connection, found>>

(* enriched_schemas.insert: whatever an earlier node with this key had got is replaced. *)
Enriched(tables) ==
    /\ \E s \in SchemaOf(reports[k]) :
           enriched' = [i \in DOMAIN enriched \cup {DatabaseKey(s)} |->
                           IF i = DatabaseKey(s) THEN tables ELSE enriched[i]]
    /\ pc' = "enrich" /\ k' = k + 1
    /\ connection' = {}
    /\ found' = IF tables = {} THEN found ELSE found \cup {k}
    /\ UNCHANGED <<reports, schemas>>

Enriching == pc = "enrich" /\ k <= Len(reports)

NoSchema ==
    /\ Enriching /\ SchemaOf(reports[k]) = {}
    /\ k' = k + 1
    /\ UNCHANGED <<pc, reports, schemas, enriched, connection, found>>

(* Host, database or user is missing. *)
NotConnected == Enriching /\ SchemaOf(reports[k]) # {} /\ InfoOf(reports[k]) = {} /\ Enriched({})

Connect ==
    /\ Enriching /\ pc' = "connect"
    /\ \E info \in InfoOf(reports[k]) : connection' = {info}
    /\ UNCHANGED <<reports, k, schemas, enriched, found>>

(* introspect_postgres, introspect_mysql: a connection, a read-only transaction, the
   columns and the primary keys. *)
Answered ==
    /\ \/ pc = "connect" /\ pc' = "begin"
       \/ pc = "begin" /\ pc' = "columns"
       \/ pc = "columns" /\ pc' = "keys"
    /\ UNCHANGED <<reports, k, schemas, enriched, connection, found>>

(* Any step but the last may fail the introspection. *)
Refused == pc \in {"connect", "begin", "columns"} /\ Enriched({})

(* Without the primary keys the tables are reported without them.  A database may have
   no table. *)
TablesRead ==
    /\ pc = "keys"
    /\ \/ Enriched({})
       \/ \E info \in connection, keys \in BOOLEAN : Enriched({[from |-> info, keys |-> keys]})

(* introspect_schema: five seconds after the first step. *)
TimedOut == pc \in Introspecting /\ Enriched({})

AllEnriched ==
    /\ pc = "enrich" /\ k > Len(reports) /\ pc' = "apply"
    /\ UNCHANGED <<reports, k, schemas, enriched, connection, found>>

Apply ==
    /\ pc = "apply" /\ pc' = "done"
    /\ schemas' = [key \in DOMAIN schemas |->
                      IF key \in DOMAIN enriched /\ enriched[key] # {}
                      THEN [schemas[key] EXCEPT !.tables = enriched[key]] ELSE schemas[key]]
    /\ UNCHANGED <<reports, k, enriched, connection, found>>

(* The pass goes on with the payload. *)
Collected == pc = "done" /\ UNCHANGED vars

Agent == ReadNode \/ Built \/ NoSchema \/ NotConnected \/ Connect \/ TimedOut \/ AllEnriched \/ Apply
Database == Answered \/ Refused \/ TablesRead

Next == Agent \/ Database \/ Collected

Spec == Init /\ [][Next]_vars

(* The loop is scheduled and timers fire; a database need not answer. *)
FairSpec == Spec /\ WF_vars(Agent)
-----------------------------------------------------------------------------

(* The tables listed with a schema were read through the connection of the very node
   the schema describes, though two maps, filled one after the other, bring the two
   together (enrich_database_schemas). *)
TablesOfOwnDatabase ==
    \A key \in DOMAIN schemas : \A t \in schemas[key].tables :
        \E i \in DOMAIN reports :
            schemas[key].schema \in SchemaOf(reports[i]) /\ t.from \in InfoOf(reports[i])

SameKey(i, j) ==
    \E s \in SchemaOf(reports[i]), t \in SchemaOf(reports[j]) : DatabaseKey(s) = DatabaseKey(t)

(* A database that was introspected is reported with its tables, whatever happens with
   the others.  Only another node with the same key, read later, takes them away: the
   Kubernetes report of a container whose password is a secret after the Docker one,
   for instance (enrich_database_schemas). *)
FailuresIsolated ==
    pc = "done" => \A i \in found :
        \/ \E j \in (i + 1)..Len(reports) : SameKey(i, j)
        \/ \E s \in SchemaOf(reports[i]) : schemas[DatabaseKey(s)].tables # {}

(* What redaction leaves of a value leads nowhere else: no other integer, no URL with
   another scheme, host, port, database or user.  Its text and the password of its URL
   may be replaced, and it may be no integer or no URL any more. *)
LeadsNowhereElse(v) ==
    /\ Redacted(v).number \subseteq v.number
    /\ \A u \in Redacted(v).url : \E w \in v.url :
           u.scheme = w.scheme /\ \A field \in Fields \ {"password"} : u[field] = w[field]

(* A container is plain when it has no more than one of the variables for a URL, no
   variable whose value is not known, and none that redaction makes lead elsewhere. *)
Plain(c) ==
    /\ \A v \in DOMAIN c.declared : c.declared[v] # {}
    /\ \A v, w \in DOMAIN c.declared \cap UrlVariables : v = w
    /\ \A v \in DOMAIN c.declared \ Sensitive : \A value \in c.declared[v] : LeadsNowhereElse(value)

Declared(c, field) ==
    LET raw == RawEnv(c)
        engine == CHOOSE e \in Detected(c) : TRUE
    IN  <<EnvValue(raw, Keys(engine)[field]), RawUrl(raw)[field]>>

(* A plain container is connected to as its own environment says: each setting from
   its own variable, else from the URL, a port only if it is one, else the default of
   the engine, although the schema in between comes from an environment in which
   redaction has replaced texts, passwords or whole URLs, and holds ports as i32.  Where
   redaction puts another host, port, database or user into a URL, or another integer
   into a variable, nothing is said here: ConnectsToRawHost is about that
   (connection_info_from_schema, database_schema_from_container). *)
ConnectsAsDeclared ==
    \A info \in connection : Plain(reports[k]) =>
        /\ \A field \in {"host", "database", "user"} :
              LET d == Declared(reports[k], field) IN {info[field]} = OrElse(Text(d[1]), d[2])
        /\ LET d == Declared(reports[k], "port")
               ports == OrElse(Numbers(d[1]) \cap 0..MaxU16, d[2] \cap 0..MaxU16)
           IN  {info.port} = OrElse(ports, {DefaultPort(info.engine)})

(* Whatever the databases answer, or if they never do, the pass gets its payload
   (introspect_schema: DEFAULT_SCHEMA_TIMEOUT). *)
EnrichmentEnds == <>(pc = "done")

(***************************************************************************)
(* A statement of the source's tests that the code does not keep.          *)
(***************************************************************************)

(* src/database.rs:398, builds_postgres_connection_info_from_raw_env, asserts that the
   host is the one of the raw DATABASE_URL.  But the schema has the host of the
   redacted URL, and that comes first: an address in it is replaced by 203.0.113.10. *)
ConnectsToRawHost ==
    \A info \in connection :
        LET d == Declared(reports[k], "host") IN d[1] = {} /\ d[2] # {} => info.host \in d[2]
=============================================================================
