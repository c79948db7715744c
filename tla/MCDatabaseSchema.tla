-------------------------- MODULE MCDatabaseSchema --------------------------
(* DatabaseSchema over every list of two of the container nodes below, and some of
   three. *)
EXTENDS DatabaseSchema, SequencesExt, TLC

Number(n) == [text |-> "number", number |-> {n}, url |-> {}]
UrlOf(user, scheme, host, port, database, password) ==
    [text |-> "url", number |-> {},
     url |-> {[scheme |-> scheme, host |-> {host}, port |-> port, database |-> {database},
               user |-> {user}, password |-> password]}]
Url(scheme, host, port, password) == UrlOf("app", scheme, host, port, "app", password)

(* What the patterns and the entity model make of some texts; of forty letters and
   digits in a row nothing is left, and with the user of a URL, whose "//" is of the
   same pattern, the URL is lost. *)
Long == "a3f1c9d2e8b7460512af93dc7be04811aa55ee90c1"
Replaced == "10.0.0.5" :> "203.0.113.10" @@ "ip-10.0.0.5.internal" :> "ip-203.0.113.10.internal"
    @@ "Paris" :> "VILLE_1" @@ Long :> "aegis-mock-secret"
ReplacedText(text) == IF text \in DOMAIN Replaced THEN Replaced[text] ELSE text

MCRedacted(v) ==
    [v EXCEPT !.text = ReplacedText(@),
              !.url = {[u EXCEPT !.host = {ReplacedText(h) : h \in @},
                                 !.database = {ReplacedText(d) : d \in @},
                                 !.user = {ReplacedText(n) : n \in @},
                                 !.password = {ReplacedText(p) : p \in @}] :
                          u \in {u \in @ : u.user # {Long}}}]

Known(v) == {v}
NotKnown == {}

Node(name, id, image, declared) ==
    [name |-> name, id |-> id, image |-> image, declared |-> declared]

(* The server itself: nothing says where it listens. *)
Server == Node("db", "db", "postgres",
    "POSTGRES_DB" :> Known(Word("app")) @@ "POSTGRES_USER" :> Known(Word("app"))
    @@ "POSTGRES_PASSWORD" :> Known(Word("pw")))

Settings == "POSTGRES_HOST" :> Known(Word("db")) @@ "PGPORT" :> Known(Number(5433))
    @@ "POSTGRES_DB" :> Known(Word("app")) @@ "PGUSER" :> Known(Word("app"))

(* One container as Docker and as Kubernetes report it. *)
ByDocker == Node("web", "web", "app", Settings @@ "PGPASSWORD" :> Known(Word("pw")))
ByKubernetes == Node("web-pod", "web", "app", Settings @@ "PGPASSWORD" :> NotKnown)
Replica == Node("web-2", "web-2", "app", Settings @@ "PGPASSWORD" :> Known(Word("pw")))

(* Pods that have not started have no id. *)
Pending == Node("job", "", "app", Settings @@ "DB_PASSWORD" :> Known(Word("pw")))
PendingToo == Node("job-2", "", "app", Settings @@ "DB_USER" :> Known(Word("other")))

ByName == Node("api", "api", "app", "DATABASE_URL" :> Known(Url("postgresql", "db", {}, {"pw"})))
ByAddress == Node("cron", "cron", "app",
    "DATABASE_URL" :> Known(Url("postgresql", "10.0.0.5", {5432}, {"pw"})))
InName == Node("hook", "hook", "app",
    "DATABASE_URL" :> Known(Url("postgresql", "ip-10.0.0.5.internal", {}, {})))
CityDatabase == Node("map", "map", "app",
    "POSTGRES_URL" :> Known(UrlOf("app", "postgresql", "db", {}, "Paris", {Long}))
    @@ "PGHOST" :> Known(Word("10.0.0.5")))
LongPassword == Node("mail", "mail", "app",
    "DATABASE_URL" :> Known(Url("postgresql", "db", {5432}, {Long})) @@ "PGUSER" :> Known(Word("Paris")))
LongUser == Node("bi", "bi", "app",
    "POSTGRES_URL" :> Known(UrlOf(Long, "postgresql", "db", {}, "app", {"pw"})))
UserFromSecret == Node("etl", "etl", "app",
    "DATABASE_URL" :> Known(Url("postgresql", "db", {5432}, {})) @@ "PGUSER" :> NotKnown)

(* 70000 is an i32 and no u16; 2147483648 would be no i32: not a number here. *)
LargePort == Node("shop", "shop", "mariadb",
    "MYSQL_HOST" :> Known(Word("sql")) @@ "MYSQL_PORT" :> Known(Number(70000))
    @@ "MYSQL_URL" :> Known(Url("mysql", "sql", {3307}, {})))
NoPort == Node("blog", "blog", "mysql",
    "DB_HOST" :> Known(Word("sql")) @@ "DB_PORT" :> Known(Number(70000))
    @@ "DB_NAME" :> Known(Word("")) @@ "DB_USER" :> Known(Word("root")))
TwoEngines == Node("sync", "sync", "app",
    "DATABASE_URL" :> Known(Url("postgresql", "db", {5432}, {"pw"}))
    @@ "MARIADB_URL" :> Known(Url("mysql", "sql", {}, {})))
NoDatabase == Node("cache", "cache", "redis", "DATABASE_URL" :> Known(Url("mysql", "sql", {}, {})))

Nodes == {Server, ByDocker, ByKubernetes, Replica, Pending, PendingToo, ByName, ByAddress,
          InName, CityDatabase, LongPassword, LongUser, UserFromSecret, LargePort, NoPort,
          TwoEngines, NoDatabase}

MCReports == BoundedSeq(Nodes, 2) \cup
    {<<ByDocker, Server, ByKubernetes>>, <<Pending, ByName, PendingToo>>, <<ByName, Server, LargePort>>}
=============================================================================
