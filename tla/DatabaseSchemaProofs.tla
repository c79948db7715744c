------------------------ MODULE DatabaseSchemaProofs ------------------------
(***************************************************************************)
(* DatabaseSchema and IntrospectedTables: that tables are listed with the  *)
(* database they were read from, that no failure costs another database    *)
(* its tables, that a database is connected to as its container declares,  *)
(* for every payload; and what its rows become, for every database.        *)
(* DatabasePass: that both hold of a pass and its introspections together. *)
(***************************************************************************)
EXTENDS DatabasePass, TLAPS

(* A node has a key if it describes a database. *)
HasKey(i, key) == \E s \in SchemaOf(reports[i]) : DatabaseKey(s) = key

(* The last of the nodes before m that has the key: the one both maps have it from. *)
LastWithKey(i, key, m) ==
    /\ i \in 1..(m - 1) /\ HasKey(i, key)
    /\ \A j \in (i + 1)..(m - 1) : ~HasKey(j, key)

(* The nodes either loop is through with. *)
Listed == IF pc = "build" THEN k ELSE Len(reports) + 1
Read == IF pc = "build" THEN 1
        ELSE IF pc \in {"apply", "done"} THEN Len(reports) + 1 ELSE k

Stages ==
    /\ pc \in {"build", "enrich", "apply", "done"} \cup Introspecting
    /\ reports \in Reports /\ k \in 1..(Len(reports) + 1)
    /\ IF pc \in Introspecting THEN k <= Len(reports) /\ connection \subseteq InfoOf(reports[k])
       ELSE connection = {}

ListedInv ==
    /\ \A key \in DOMAIN schemas : \E i \in 1..(Listed - 1) :
           LastWithKey(i, key, Listed) /\ schemas[key].schema \in SchemaOf(reports[i])
    /\ \A i \in 1..(Listed - 1) : \A s \in SchemaOf(reports[i]) : DatabaseKey(s) \in DOMAIN schemas

ReadInv ==
    /\ \A key \in DOMAIN enriched : \E i \in 1..(Read - 1) :
           /\ LastWithKey(i, key, Read)
           /\ \A t \in enriched[key] : t.from \in InfoOf(reports[i])
    /\ found \subseteq 1..(Read - 1)
    /\ \A i \in found : \E s \in SchemaOf(reports[i]) :
           \/ \E j \in (i + 1)..(Read - 1) : HasKey(j, DatabaseKey(s))
           \/ DatabaseKey(s) \in DOMAIN enriched /\ enriched[DatabaseKey(s)] # {}

AppliedInv ==
    \A key \in DOMAIN schemas :
        schemas[key] =
            [schema |-> schemas[key].schema,
             tables |-> IF pc = "done" /\ key \in DOMAIN enriched THEN enriched[key] ELSE {}]

DatabasesInv == Stages /\ ListedInv /\ ReadInv /\ AppliedInv

(* A node describes one database at most. *)
LEMMA OneSchema ==
    ASSUME NEW c, NEW s \in SchemaOf(c), NEW t \in SchemaOf(c)
    PROVE  s = t
BY DEF SchemaOf, Detected

LEMMA ReportsAreSequences ==
    ASSUME Stages
    PROVE  Len(reports) \in Nat /\ DOMAIN reports = 1..Len(reports) /\ k \in Nat /\ k >= 1
           /\ k <= Len(reports) + 1
BY ReportsAssumption DEF Stages

(***************************************************************************)
(* What the two maps have at the end.                                      *)
(***************************************************************************)

(* Both maps have a key from the same node, the last one with it. *)
LEMMA TablesFollow == DatabasesInv => TablesOfOwnDatabase
<1> SUFFICES ASSUME DatabasesInv, NEW key \in DOMAIN schemas, NEW t \in schemas[key].tables
             PROVE  \E i \in DOMAIN reports :
                        schemas[key].schema \in SchemaOf(reports[i]) /\ t.from \in InfoOf(reports[i])
  BY DEF TablesOfOwnDatabase
<1>1. pc = "done" /\ key \in DOMAIN enriched /\ t \in enriched[key]
  BY DEF DatabasesInv, AppliedInv
<1>2. /\ Len(reports) \in Nat /\ DOMAIN reports = 1..Len(reports)
      /\ Listed = Len(reports) + 1 /\ Read = Len(reports) + 1
  BY <1>1, ReportsAreSequences DEF DatabasesInv, Listed, Read
<1>3. PICK i \in 1..Len(reports) :
          LastWithKey(i, key, Len(reports) + 1) /\ schemas[key].schema \in SchemaOf(reports[i])
  BY <1>2 DEF DatabasesInv, ListedInv
<1>4. PICK j \in 1..Len(reports) :
          LastWithKey(j, key, Len(reports) + 1) /\ t.from \in InfoOf(reports[j])
  BY <1>1, <1>2 DEF DatabasesInv, ReadInv
<1>5. i = j
  BY <1>2, <1>3, <1>4 DEF LastWithKey
<1>6. QED
  BY <1>2, <1>3, <1>4, <1>5

LEMMA FailuresFollow == DatabasesInv => FailuresIsolated
<1> SUFFICES ASSUME DatabasesInv, pc = "done", NEW i \in found
             PROVE  \/ \E j \in (i + 1)..Len(reports) : SameKey(i, j)
                    \/ \E s \in SchemaOf(reports[i]) : schemas[DatabaseKey(s)].tables # {}
  BY DEF FailuresIsolated
<1>1. /\ Len(reports) \in Nat
      /\ Listed = Len(reports) + 1 /\ Read = Len(reports) + 1
  BY ReportsAreSequences DEF DatabasesInv, Listed, Read
<1>2. i \in 1..Len(reports)
  BY <1>1 DEF DatabasesInv, ReadInv
<1>3. PICK s \in SchemaOf(reports[i]) :
          \/ \E j \in (i + 1)..Len(reports) : HasKey(j, DatabaseKey(s))
          \/ DatabaseKey(s) \in DOMAIN enriched /\ enriched[DatabaseKey(s)] # {}
  BY <1>1 DEF DatabasesInv, ReadInv
<1>4. CASE \E j \in (i + 1)..Len(reports) : HasKey(j, DatabaseKey(s))
  BY <1>4 DEF HasKey, SameKey
<1>5. CASE DatabaseKey(s) \in DOMAIN enriched /\ enriched[DatabaseKey(s)] # {}
  <2>1. DatabaseKey(s) \in DOMAIN schemas
    BY <1>1, <1>2 DEF DatabasesInv, ListedInv
  <2>2. QED
    BY <1>5, <2>1 DEF DatabasesInv, AppliedInv
<1>6. QED
  BY <1>3, <1>4, <1>5

(***************************************************************************)
(* One node more.                                                          *)
(***************************************************************************)

LEMMA LastMoves ==
    ASSUME NEW m \in Nat \ {0}, NEW key
    PROVE  /\ HasKey(m, key) => LastWithKey(m, key, m + 1)
           /\ \A i : LastWithKey(i, key, m) /\ ~HasKey(m, key) => LastWithKey(i, key, m + 1)
BY DEF LastWithKey

LEMMA HasKeyKept ==
    ASSUME UNCHANGED reports
    PROVE  \A i, key, m : /\ HasKey(i, key)' = HasKey(i, key)
                          /\ LastWithKey(i, key, m)' = LastWithKey(i, key, m)
BY DEF HasKey, LastWithKey

LEMMA ListedStep ==
    ASSUME DatabasesInv, ReadNode
    PROVE  ListedInv' /\ AppliedInv'
<1>1. /\ Len(reports) \in Nat /\ DOMAIN reports = 1..Len(reports)
      /\ k \in Nat /\ k >= 1 /\ k <= Len(reports)
  BY ReportsAreSequences DEF DatabasesInv, ReadNode
<1>2. /\ pc = "build" /\ pc' = "build" /\ Listed = k /\ Listed' = k + 1 /\ reports' = reports
  BY DEF ReadNode, Listed
<1>3. CASE SchemaOf(reports[k]) = {}
  <2>1. schemas' = schemas /\ \A key : ~HasKey(k, key)
    BY <1>3 DEF ReadNode, HasKey
  <2>2. ListedInv'
    BY <1>1, <1>2, <1>3, <2>1, LastMoves, HasKeyKept DEF DatabasesInv, ListedInv
  <2>3. AppliedInv'
    BY <1>2, <2>1 DEF DatabasesInv, AppliedInv
  <2>4. QED
    BY <2>2, <2>3
<1>4. CASE SchemaOf(reports[k]) # {}
  <2>1. PICK s \in SchemaOf(reports[k]) : ListSchema(DatabaseKey(s), s)
    BY <1>4 DEF ReadNode
  <2> DEFINE own == DatabaseKey(s)
  <2>2. /\ HasKey(k, own) /\ \A key : key # own => ~HasKey(k, key)
        /\ \A t \in SchemaOf(reports[k]) : DatabaseKey(t) = own
    BY OneSchema DEF HasKey
  <2>3. /\ DOMAIN schemas' = DOMAIN schemas \cup {own}
        /\ schemas'[own] = [schema |-> s, tables |-> {}]
        /\ \A key \in DOMAIN schemas : key # own => schemas'[key] = schemas[key]
    BY <2>1 DEF ListSchema
  <2> HIDE DEF own
  <2>4. ASSUME NEW key \in DOMAIN schemas'
        PROVE  \E i \in 1..k :
                   LastWithKey(i, key, k + 1) /\ schemas'[key].schema \in SchemaOf(reports[i])
    <3>1. CASE key = own
      <4>1. LastWithKey(k, key, k + 1)
        BY <1>1, <2>2, <3>1, LastMoves
      <4>2. schemas'[key].schema \in SchemaOf(reports[k])
        BY <2>3, <3>1
      <4>3. QED
        BY <1>1, <4>1, <4>2
    <3>2. CASE key # own
      <4>1. PICK i \in 1..(k - 1) :
                LastWithKey(i, key, k) /\ schemas[key].schema \in SchemaOf(reports[i])
        BY <1>2, <2>3, <2>4, <3>2 DEF DatabasesInv, ListedInv
      <4>2. LastWithKey(i, key, k + 1)
        <5>1. k \in Nat \ {0} /\ ~HasKey(k, key)
          BY <1>1, <2>2, <3>2
        <5>2. QED
          BY <4>1, <5>1, LastMoves
      <4>3. QED
        BY <1>1, <2>3, <2>4, <3>2, <4>1, <4>2
    <3>3. QED
      BY <3>1, <3>2
  <2>5. \A i \in 1..k : \A t \in SchemaOf(reports[i]) : DatabaseKey(t) \in DOMAIN schemas'
    BY <1>1, <1>2, <2>2, <2>3 DEF DatabasesInv, ListedInv
  <2>6. ListedInv'
    BY <1>1, <1>2, <2>4, <2>5, HasKeyKept DEF ListedInv
  <2>7. AppliedInv'
    BY <1>2, <2>3 DEF DatabasesInv, AppliedInv
  <2>8. QED
    BY <2>6, <2>7
<1>5. QED
  BY <1>3, <1>4

(* The enrichment is through with a node, with these tables or with none. *)
LEMMA ReadStep ==
    ASSUME DatabasesInv, pc \in {"enrich"} \cup Introspecting, k <= Len(reports),
           NEW got, \A t \in got : t.from \in InfoOf(reports[k]), Enriched(got)
    PROVE  ReadInv'
<1>1. /\ Len(reports) \in Nat /\ DOMAIN reports = 1..Len(reports) /\ k \in Nat /\ k >= 1
  BY ReportsAreSequences DEF DatabasesInv
<1>2. Read = k /\ Read' = k + 1 /\ reports' = reports
  BY DEF Enriched, Read, Introspecting
<1>3. PICK s \in SchemaOf(reports[k]) :
          enriched' = [i \in DOMAIN enriched \cup {DatabaseKey(s)} |->
                         IF i = DatabaseKey(s) THEN got ELSE enriched[i]]
  BY DEF Enriched
<1> DEFINE own == DatabaseKey(s)
<1>4. HasKey(k, own) /\ \A key : key # own => ~HasKey(k, key)
  BY OneSchema DEF HasKey
<1>5. /\ DOMAIN enriched' = DOMAIN enriched \cup {own}
      /\ enriched'[own] = got
      /\ \A key \in DOMAIN enriched : key # own => enriched'[key] = enriched[key]
  BY <1>3
<1> HIDE DEF own
<1>6. ASSUME NEW key \in DOMAIN enriched'
      PROVE  \E i \in 1..k : /\ LastWithKey(i, key, k + 1)
                             /\ \A t \in enriched'[key] : t.from \in InfoOf(reports[i])
  <2>1. CASE key = own
    BY <1>1, <1>4, <1>5, <2>1, LastMoves
  <2>2. CASE key # own
    <3>1. PICK i \in 1..(k - 1) : /\ LastWithKey(i, key, k)
                                  /\ \A t \in enriched[key] : t.from \in InfoOf(reports[i])
      BY <1>2, <1>5, <1>6, <2>2 DEF DatabasesInv, ReadInv
    <3>2. LastWithKey(i, key, k + 1)
      <4>1. k \in Nat \ {0} /\ ~HasKey(k, key)
        BY <1>1, <1>4, <2>2
      <4>2. QED
        BY <3>1, <4>1, LastMoves
    <3>3. QED
      BY <1>1, <1>5, <1>6, <2>2, <3>1, <3>2
  <2>3. QED
    BY <2>1, <2>2
<1>7. found' \subseteq 1..k
  BY <1>1, <1>2 DEF Enriched, DatabasesInv, ReadInv
<1>8. ASSUME NEW i \in found'
      PROVE  \E t \in SchemaOf(reports[i]) :
                 \/ \E j \in (i + 1)..k : HasKey(j, DatabaseKey(t))
                 \/ DatabaseKey(t) \in DOMAIN enriched' /\ enriched'[DatabaseKey(t)] # {}
  <2>1. CASE i \in found
    <3>1. PICK t \in SchemaOf(reports[i]) :
              \/ \E j \in (i + 1)..(k - 1) : HasKey(j, DatabaseKey(t))
              \/ DatabaseKey(t) \in DOMAIN enriched /\ enriched[DatabaseKey(t)] # {}
      BY <1>2, <2>1 DEF DatabasesInv, ReadInv
    <3>2. i \in 1..(k - 1)
      BY <1>2, <2>1 DEF DatabasesInv, ReadInv
    <3>3. CASE DatabaseKey(t) = own
      BY <1>1, <1>4, <3>1, <3>2, <3>3
    <3>4. CASE DatabaseKey(t) # own
      BY <1>1, <1>5, <3>1, <3>2, <3>4
    <3>5. QED
      BY <3>3, <3>4
  <2>2. CASE i \notin found
    <3>1. i = k /\ got # {}
      BY <1>8, <2>2 DEF Enriched
    <3>2. QED
      BY <1>5, <3>1 DEF own
  <2>3. QED
    BY <2>1, <2>2
<1>9. QED
  <2>1. 1..(Read' - 1) = 1..k /\ \A i : (i + 1)..(Read' - 1) = (i + 1)..k
    BY <1>1, <1>2
  <2>2. \A key \in DOMAIN enriched' : \E i \in 1..k :
           LastWithKey(i, key, Read)' /\ \A t \in enriched'[key] : t.from \in InfoOf(reports'[i])
    BY <1>2, <1>6, HasKeyKept
  <2>3. \A i \in found' : \E t \in SchemaOf(reports'[i]) :
           \/ \E j \in (i + 1)..k : HasKey(j, DatabaseKey(t))'
           \/ DatabaseKey(t) \in DOMAIN enriched' /\ enriched'[DatabaseKey(t)] # {}
    BY <1>2, <1>8, HasKeyKept
  <2>4. QED
    BY <1>2, <1>7, <2>1, <2>2, <2>3 DEF ReadInv

(***************************************************************************)
(* What a container is connected with.                                     *)
(***************************************************************************)

LEMMA Least ==
    ASSUME NEW S \in SUBSET (1..5), S # {}
    PROVE  Min(S) \in S
<1>1. \E x \in S : \A y \in S : x =< y
  <2>1. CASE 1 \in S
    BY <2>1
  <2>2. CASE 1 \notin S /\ 2 \in S
    BY <2>2
  <2>3. CASE 1 \notin S /\ 2 \notin S /\ 3 \in S
    BY <2>3
  <2>4. CASE 1 \notin S /\ 2 \notin S /\ 3 \notin S /\ 4 \in S
    BY <2>4
  <2>5. CASE 1 \notin S /\ 2 \notin S /\ 3 \notin S /\ 4 \notin S
    <3>1. \A y \in S : y = 5
      BY <2>5
    <3>2. PICK y \in S : TRUE
      OBVIOUS
    <3>3. QED
      BY <3>1, <3>2
  <2>6. QED
    BY <2>1, <2>2, <2>3, <2>4, <2>5
<1>2. QED
  BY <1>1 DEF Min

(* The value of a variable that is read is the one of a key that is there. *)
LEMMA ValueOfKey ==
    ASSUME NEW env, NEW keys, DOMAIN keys \subseteq 1..5
    PROVE  \/ EnvValue(env, keys) = {} /\ \A i \in DOMAIN keys : keys[i] \notin DOMAIN env
           \/ \E i \in DOMAIN keys : keys[i] \in DOMAIN env /\ EnvValue(env, keys) = {env[keys[i]]}
<1> DEFINE present == {i \in DOMAIN keys : keys[i] \in DOMAIN env}
<1>1. present # {} => Min(present) \in present
  BY Least
<1>2. EnvValue(env, keys) = IF present = {} THEN {} ELSE {env[keys[Min(present)]]}
  BY DEF EnvValue
<1> HIDE DEF present
<1>3. QED
  BY <1>1, <1>2 DEF present

LEMMA FewKeys ==
    ASSUME NEW engine \in Engines
    PROVE  /\ \A field \in Fields : DOMAIN Keys(engine)[field] \subseteq 1..5
           /\ DOMAIN UrlKeys(engine) \subseteq 1..5
           /\ DOMAIN (UrlKeys("postgresql") \o UrlKeys("mysql")) \subseteq 1..5
BY DEF Engines, Fields, Keys, UrlKeys

(* The keys a connection looks for a URL under are the ones a schema does. *)
AllUrlKeys == UrlKeys("postgresql") \o UrlKeys("mysql")

LEMMA UrlKeysAreVariables ==
    /\ \A engine \in Engines : \A i \in DOMAIN UrlKeys(engine) : UrlKeys(engine)[i] \in UrlVariables
    /\ \A i \in DOMAIN AllUrlKeys : AllUrlKeys[i] \in UrlVariables
    /\ \A engine \in Engines : \A i \in DOMAIN UrlKeys(engine) :
           \E j \in DOMAIN AllUrlKeys : AllUrlKeys[j] = UrlKeys(engine)[i]
<1>1. \A engine \in Engines : \A i \in DOMAIN UrlKeys(engine) : UrlKeys(engine)[i] \in UrlVariables
  BY DEF UrlVariables
<1>2. \A i \in DOMAIN AllUrlKeys : \E engine \in Engines : \E j \in DOMAIN UrlKeys(engine) :
          AllUrlKeys[i] = UrlKeys(engine)[j]
  BY DEF AllUrlKeys, UrlKeys, Engines
<1>3. /\ AllUrlKeys[1] = "DATABASE_URL" /\ AllUrlKeys[2] = "POSTGRES_URL"
      /\ AllUrlKeys[3] = "POSTGRESQL_URL" /\ AllUrlKeys[4] = "MYSQL_URL"
      /\ AllUrlKeys[5] = "MARIADB_URL" /\ DOMAIN AllUrlKeys = 1..5
  BY DEF AllUrlKeys, UrlKeys
<1>4. \A i \in DOMAIN UrlKeys("postgresql") : \E j \in DOMAIN AllUrlKeys :
          AllUrlKeys[j] = UrlKeys("postgresql")[i]
  BY <1>3 DEF UrlKeys
<1>5. \A i \in DOMAIN UrlKeys("mysql") : \E j \in DOMAIN AllUrlKeys :
          AllUrlKeys[j] = UrlKeys("mysql")[i]
  BY <1>3 DEF UrlKeys
<1>6. QED
  BY <1>1, <1>2, <1>4, <1>5 DEF Engines

LEMMA NotSensitive ==
    /\ UrlVariables \cap Sensitive = {}
    /\ \A engine \in Engines : \A field \in Fields \ {"password"} :
           \A i \in DOMAIN Keys(engine)[field] : Keys(engine)[field][i] \notin Sensitive
<1>1. Sensitive \subseteq {"MYSQL_PASSWORD", "MYSQL_ROOT_PASSWORD", "DB_PASSWORD",
                         "POSTGRES_PASSWORD", "PGPASSWORD"}
  BY DEF Sensitive, Engines, Keys
<1>2. UrlVariables \cap Sensitive = {}
  BY <1>1 DEF UrlVariables, Engines, UrlKeys
<1>3. \A engine \in Engines : \A field \in Fields \ {"password"} :
          \A i \in DOMAIN Keys(engine)[field] : Keys(engine)[field][i] \notin Sensitive
  BY <1>1 DEF Fields, Engines, Keys
<1>4. QED
  BY <1>2, <1>3

Valued(c) == \A key \in DOMAIN c.declared : \A v \in c.declared[key] : IsValue(v)

(* The two environments of a plain container have the same variables. *)
LEMMA SameVariables ==
    ASSUME NEW c, Plain(c)
    PROVE  /\ DOMAIN RawEnv(c) = DOMAIN c.declared /\ DOMAIN Env(c) = DOMAIN c.declared
           /\ \A key \in DOMAIN c.declared : RawEnv(c)[key] \in c.declared[key]
           /\ \A keys : (EnvValue(RawEnv(c), keys) = {}) = (EnvValue(Env(c), keys) = {})
<1>1. /\ DOMAIN RawEnv(c) = DOMAIN c.declared /\ DOMAIN Env(c) = DOMAIN c.declared
      /\ \A key \in DOMAIN c.declared : RawEnv(c)[key] \in c.declared[key]
  BY DEF Plain, RawEnv, Env
<1>2. \A keys : (EnvValue(RawEnv(c), keys) = {}) = (EnvValue(Env(c), keys) = {})
  BY <1>1 DEF EnvValue
<1>3. QED
  BY <1>1, <1>2

LEMMA ValueOfSameKey ==
    ASSUME NEW c, Plain(c), NEW keys, DOMAIN keys \subseteq 1..5
    PROVE  \/ EnvValue(RawEnv(c), keys) = {} /\ EnvValue(Env(c), keys) = {}
           \/ \E i \in DOMAIN keys : /\ keys[i] \in DOMAIN c.declared
                                    /\ EnvValue(RawEnv(c), keys) = {RawEnv(c)[keys[i]]}
                                    /\ EnvValue(Env(c), keys) = {Env(c)[keys[i]]}
<1> DEFINE present == {i \in DOMAIN keys : keys[i] \in DOMAIN c.declared}
<1>1. present # {} => Min(present) \in present
  BY Least
<1>2. /\ DOMAIN RawEnv(c) = DOMAIN c.declared /\ DOMAIN Env(c) = DOMAIN c.declared
  BY SameVariables
<1>3. /\ EnvValue(RawEnv(c), keys) = IF present = {} THEN {} ELSE {RawEnv(c)[keys[Min(present)]]}
      /\ EnvValue(Env(c), keys) = IF present = {} THEN {} ELSE {Env(c)[keys[Min(present)]]}
  BY <1>2 DEF EnvValue
<1> HIDE DEF present
<1>4. QED
  BY <1>1, <1>3 DEF present

(* What redaction leaves of a variable that is no secret leads nowhere else. *)
SamePlace(u, w) == u.scheme = w.scheme /\ \A field \in Fields \ {"password"} : u[field] = w[field]

LEMMA RedactedEntry ==
    ASSUME NEW c, Plain(c), Valued(c), NEW key \in DOMAIN c.declared, key \notin Sensitive
    PROVE  /\ IsValue(RawEnv(c)[key])
           /\ Env(c)[key].number \subseteq RawEnv(c)[key].number
           /\ \A u \in Env(c)[key].url : \E w \in RawEnv(c)[key].url : SamePlace(u, w)
<1> DEFINE v == RawEnv(c)[key]
<1>1. v \in c.declared[key] /\ c.declared[key] # {}
  BY SameVariables DEF Plain
<1>2. v = CHOOSE x \in c.declared[key] : TRUE
  BY <1>1 DEF RawEnv
<1>3. Env(c)[key] = Redact(key, c.declared[key])
  BY DEF Env
<1> HIDE DEF v
<1>4. IsValue(v)
  BY <1>1 DEF Valued
<1>5. Env(c)[key] = Redacted(v)
  BY <1>1, <1>2, <1>3 DEF Redact
<1>6. LeadsNowhereElse(v)
  BY <1>1 DEF Plain
<1>7. /\ Env(c)[key].number \subseteq v.number
      /\ \A u \in Env(c)[key].url : \E w \in v.url : SamePlace(u, w)
  BY <1>5, <1>6 DEF LeadsNowhereElse, SamePlace
<1>8. QED
  BY <1>4, <1>7 DEF v

(* One URL, or none: the schema has what that one says, or nothing. *)
LEMMA UrlsAgree ==
    ASSUME NEW c, Plain(c), Valued(c), NEW engine \in Engines
    PROVE  /\ RawUrl(RawEnv(c)) = NoUrl \/ IsUrl(RawUrl(RawEnv(c)))
           /\ \A field \in Fields \ {"password"} :
                  TheUrl(ParsedUrls(c, engine))[field] \in {{}, RawUrl(RawEnv(c))[field]}
<1> DEFINE raw == RawEnv(c)
           first == EnvValue(raw, AllUrlKeys)
<1>1. RawUrl(raw) = TheUrl(Urls(first))
  BY DEF RawUrl, AllUrlKeys
<1>2. ASSUME NEW key \in DOMAIN raw \cap UrlVariables
      PROVE  /\ IsValue(raw[key])
             /\ \A u \in Env(c)[key].url : \E w \in raw[key].url : SamePlace(u, w)
             /\ Urls({raw[key]}) = raw[key].url /\ Urls({Env(c)[key]}) = Env(c)[key].url
             /\ \A u \in raw[key].url : TheUrl(raw[key].url) = u /\ IsUrl(u)
  <2>1. /\ IsValue(raw[key])
        /\ \A u \in Env(c)[key].url : \E w \in raw[key].url : SamePlace(u, w)
    BY <1>2, SameVariables, RedactedEntry, NotSensitive
  <2>2. Urls({raw[key]}) = raw[key].url /\ Urls({Env(c)[key]}) = Env(c)[key].url
    BY <2>1 DEF Urls
  <2>3. \A u \in raw[key].url : TheUrl(raw[key].url) = u /\ IsUrl(u)
    BY <2>1 DEF IsValue, AtMostOne, TheUrl
  <2>4. QED
    BY <2>1, <2>2, <2>3
<1>3. \/ first = {} /\ \A key \in UrlVariables : key \in DOMAIN raw =>
                          \A i \in DOMAIN AllUrlKeys : AllUrlKeys[i] # key
      \/ \E key \in DOMAIN raw \cap UrlVariables : first = {raw[key]}
  <2>1. DOMAIN AllUrlKeys \subseteq 1..5
    BY FewKeys DEF AllUrlKeys, Engines
  <2>2. CASE first = {} /\ \A i \in DOMAIN AllUrlKeys : AllUrlKeys[i] \notin DOMAIN raw
    BY <2>2
  <2>3. CASE \E i \in DOMAIN AllUrlKeys :
                AllUrlKeys[i] \in DOMAIN raw /\ first = {raw[AllUrlKeys[i]]}
    BY <2>3, UrlKeysAreVariables
  <2>4. QED
    BY <2>1, <2>2, <2>3, ValueOfKey
<1>4. RawUrl(raw) = NoUrl \/ IsUrl(RawUrl(raw))
  <2>1. CASE first = {}
    BY <1>1, <2>1 DEF Urls, TheUrl
  <2>2. ASSUME NEW key \in DOMAIN raw \cap UrlVariables, first = {raw[key]}
        PROVE  RawUrl(raw) = NoUrl \/ IsUrl(RawUrl(raw))
    <3>1. RawUrl(raw) = TheUrl(raw[key].url)
      BY <1>1, <1>2, <2>2
    <3>2. QED
      BY <1>2, <3>1 DEF TheUrl
  <2>3. QED
    BY <1>3, <2>1, <2>2
<1>5. ASSUME NEW field \in Fields \ {"password"}
      PROVE  TheUrl(ParsedUrls(c, engine))[field] \in {{}, RawUrl(raw)[field]}
  <2>1. CASE ParsedUrls(c, engine) = {}
    BY <2>1, <1>5 DEF TheUrl, NoUrl, Fields
  <2>2. CASE ParsedUrls(c, engine) # {}
    <3> DEFINE own == EnvValue(Env(c), UrlKeys(engine))
           u == TheUrl(ParsedUrls(c, engine))
    <3>1. u \in ParsedUrls(c, engine)
      BY <2>2 DEF TheUrl
    <3>2. u \in Urls(own) /\ ParsedUrls(c, engine) \subseteq Urls(own)
      BY <3>1 DEF ParsedUrls
    <3>3. own # {}
      BY <3>2 DEF Urls
    <3>4. DOMAIN UrlKeys(engine) \subseteq 1..5
      BY FewKeys
    <3>5. PICK i \in DOMAIN UrlKeys(engine) :
             UrlKeys(engine)[i] \in DOMAIN Env(c) /\ own = {Env(c)[UrlKeys(engine)[i]]}
      BY <3>3, <3>4, ValueOfKey
    <3> DEFINE key == UrlKeys(engine)[i]
    <3>6. key \in DOMAIN raw \cap UrlVariables
      BY <3>5, SameVariables, UrlKeysAreVariables
    <3>7. first = {raw[key]}
      <4>1. PICK j \in DOMAIN AllUrlKeys : AllUrlKeys[j] = key
        BY UrlKeysAreVariables
      <4>2. PICK other \in DOMAIN raw \cap UrlVariables : first = {raw[other]}
        BY <1>3, <3>6, <4>1
      <4>3. other = key
        BY <3>6, SameVariables DEF Plain
      <4>4. QED
        BY <4>2, <4>3
    <3> HIDE DEF key, own, first, raw
    <3>8. Urls(own) = Env(c)[key].url /\ Urls(first) = raw[key].url
      BY <1>2, <3>5, <3>6, <3>7 DEF key
    <3> HIDE DEF u
    <3>9. PICK w \in raw[key].url : SamePlace(u, w)
      BY <1>2, <3>2, <3>6, <3>8
    <3>10. RawUrl(raw) = w
      BY <1>1, <1>2, <3>6, <3>8, <3>9
    <3>11. u[field] = RawUrl(raw)[field]
      BY <3>9, <3>10, <1>5 DEF SamePlace
    <3>12. QED
      BY <3>11 DEF u
  <2>3. QED
    BY <2>1, <2>2
<1>6. QED
  BY <1>4, <1>5

(* A setting comes from its variable, or else from the URL, whether by the schema or not. *)
SettingAgrees(c, engine, field) ==
    \A x \in OrElse(OrElse(Text(EnvValue(RawEnv(c), Keys(engine)[field])),
                           Schema(c, engine)[field]), RawUrl(RawEnv(c))[field]) :
        {x} = OrElse(Text(EnvValue(RawEnv(c), Keys(engine)[field])), RawUrl(RawEnv(c))[field])

LEMMA SettingOf ==
    ASSUME NEW c, Plain(c), Valued(c), NEW engine \in Engines,
           NEW field \in {"host", "database", "user"}
    PROVE  SettingAgrees(c, engine, field)
<1> SUFFICES ASSUME NEW x \in OrElse(OrElse(Text(EnvValue(RawEnv(c), Keys(engine)[field])),
                                           Schema(c, engine)[field]), RawUrl(RawEnv(c))[field])
             PROVE  {x} = OrElse(Text(EnvValue(RawEnv(c), Keys(engine)[field])),
                                 RawUrl(RawEnv(c))[field])
  BY DEF SettingAgrees
<1> DEFINE keys == Keys(engine)[field]
           own == EnvValue(RawEnv(c), keys)
           url == RawUrl(RawEnv(c))
           schemaUrl == TheUrl(ParsedUrls(c, engine))
<1>1. Schema(c, engine)[field] = OrElse(Text(EnvValue(Env(c), keys)), schemaUrl[field])
  BY DEF Schema
<1>2. schemaUrl[field] \in {{}, url[field]} /\ AtMostOne(url[field])
  <2>1. NoUrl[field] = {} /\ field \in Fields \ {"password"}
    BY DEF NoUrl, Fields
  <2>2. IsUrl(url) => AtMostOne(url[field])
    BY DEF IsUrl
  <2>3. QED
    BY <2>1, <2>2, UrlsAgree DEF AtMostOne
<1>3. own = {} <=> EnvValue(Env(c), keys) = {}
  BY SameVariables
<1>4. own = {} \/ \E v : own = {v}
  <2>1. DOMAIN keys \subseteq 1..5
    BY FewKeys DEF Fields
  <2>2. QED
    BY <2>1, ValueOfKey
<1> HIDE DEF own, url, schemaUrl, keys
<1>5. CASE own = {}
  <2>1. Text(own) = {} /\ Text(EnvValue(Env(c), keys)) = {}
    BY <1>3, <1>5 DEF Text
  <2>2. OrElse(OrElse(Text(own), Schema(c, engine)[field]), url[field]) = url[field]
    BY <1>1, <1>2, <2>1 DEF OrElse
  <2>3. OrElse(Text(own), url[field]) = url[field] /\ x \in url[field]
    BY <2>1, <2>2 DEF OrElse, own, url, keys
  <2>4. {x} = url[field]
    BY <1>2, <2>3 DEF AtMostOne
  <2>5. QED
    BY <2>3, <2>4 DEF own, url, keys
<1>6. CASE own # {}
  <2>1. PICK v : own = {v}
    BY <1>4, <1>6
  <2>2. Text(own) = {v.text}
    BY <2>1 DEF Text
  <2>3. OrElse(Text(own), url[field]) = {v.text} /\ x \in {v.text}
    BY <2>2 DEF OrElse, own, url, keys
  <2>4. QED
    BY <2>3 DEF own, url, keys
<1>7. QED
  BY <1>5, <1>6

(* Of a port that is none nothing is left, as of one that is no i32. *)
LEMMA PortOf ==
    ASSUME NEW c, Plain(c), Valued(c), NEW engine \in Engines, NEW default,
           NEW x \in OrElse(OrElse(U16(Numbers(EnvValue(RawEnv(c), Keys(engine)["port"]))),
                                  OrElse(U16(Schema(c, engine).port), U16(RawUrl(RawEnv(c)).port))),
                           {default})
    PROVE  {x} = OrElse(OrElse(Numbers(EnvValue(RawEnv(c), Keys(engine)["port"])) \cap 0..MaxU16,
                               RawUrl(RawEnv(c)).port \cap 0..MaxU16), {default})
<1> DEFINE keys == Keys(engine)["port"]
           own == EnvValue(RawEnv(c), keys)
           url == RawUrl(RawEnv(c))
           schemaUrl == TheUrl(ParsedUrls(c, engine))
<1>1. Schema(c, engine).port =
          OrElse(I32(Numbers(EnvValue(Env(c), keys))), I32(schemaUrl.port))
  BY DEF Schema
<1>2. /\ schemaUrl.port \in {{}, url.port} /\ AtMostOne(url.port) /\ url.port \subseteq Int
  <2>1. NoUrl.port = {} /\ "port" \in Fields \ {"password"}
    BY DEF NoUrl, Fields
  <2>2. IsUrl(url) => AtMostOne(url.port) /\ url.port \subseteq Int
    BY DEF IsUrl
  <2>3. schemaUrl["port"] \in {{}, url["port"]}
    BY <2>1, UrlsAgree
  <2>4. QED
    BY <2>1, <2>2, <2>3, UrlsAgree DEF AtMostOne
<1>3. /\ Numbers(EnvValue(Env(c), keys)) \in {{}, Numbers(own)}
      /\ AtMostOne(Numbers(own)) /\ Numbers(own) \subseteq Int
  <2>1. DOMAIN keys \subseteq 1..5 /\ "port" \in Fields \ {"password"}
    BY FewKeys DEF Fields
  <2>2. CASE own = {}
    BY <2>2, SameVariables DEF Numbers, AtMostOne
  <2>3. CASE own # {}
    <3>1. PICK i \in DOMAIN keys : /\ keys[i] \in DOMAIN c.declared
                                   /\ own = {RawEnv(c)[keys[i]]}
                                   /\ EnvValue(Env(c), keys) = {Env(c)[keys[i]]}
      BY <2>1, <2>3, ValueOfSameKey
    <3>3. keys[i] \in DOMAIN c.declared /\ keys[i] \notin Sensitive
      BY <2>1, <3>1, NotSensitive
    <3>4. /\ IsValue(RawEnv(c)[keys[i]])
          /\ Env(c)[keys[i]].number \subseteq RawEnv(c)[keys[i]].number
      BY <3>3, RedactedEntry
    <3>5. /\ Numbers(own) = RawEnv(c)[keys[i]].number
          /\ Numbers(EnvValue(Env(c), keys)) = Env(c)[keys[i]].number
      BY <3>1 DEF Numbers
    <3>6. AtMostOne(Numbers(own)) /\ Numbers(own) \subseteq Int
      BY <3>4, <3>5 DEF IsValue
    <3>7. Numbers(EnvValue(Env(c), keys)) \subseteq Numbers(own)
      BY <3>4, <3>5
    <3>8. \A left, all : left \subseteq all /\ AtMostOne(all) => left \in {{}, all}
      BY DEF AtMostOne
    <3>9. QED
      BY <3>6, <3>7, <3>8
  <2>4. QED
    BY <2>2, <2>3
<1> HIDE DEF own, url, schemaUrl, keys
<1>4. \A numbers \in SUBSET Int : /\ U16(numbers) = numbers \cap 0..MaxU16
                                 /\ U16(I32(numbers)) = U16(numbers)
  <2>1. ASSUME NEW numbers \in SUBSET Int PROVE U16(numbers) = numbers \cap 0..MaxU16
    <3>1. MaxU16 \in Int
      BY DEF MaxU16
    <3>2. \A n \in Int : n \in 0..MaxU16 <=> 0 <= n /\ n <= MaxU16
      BY <3>1
    <3>3. \A n : n \in U16(numbers) <=> n \in numbers \cap 0..MaxU16
      BY <3>2 DEF U16
    <3>4. QED
      BY <3>3
  <2>2. ASSUME NEW numbers \in SUBSET Int PROVE U16(I32(numbers)) = U16(numbers)
    <3>1. \A n \in Int : n <= MaxU16 => n <= MaxI32
      BY DEF MaxU16, MaxI32
    <3>2. QED
      BY <3>1 DEF U16, I32
  <2>3. QED
    BY <2>1, <2>2
<1>5. U16(Schema(c, engine).port) \in {U16(Numbers(own)), {}, U16(url.port)}
  <2> DEFINE left == Numbers(EnvValue(Env(c), keys))
  <2>1. CASE I32(left) # {}
    <3>1. left # {}
      BY <2>1 DEF I32
    <3>2. left = Numbers(own)
      BY <1>3, <3>1
    <3>3. Schema(c, engine).port = I32(Numbers(own))
      BY <1>1, <2>1, <3>2 DEF OrElse
    <3>4. QED
      BY <1>3, <1>4, <3>3
  <2>2. CASE I32(left) = {}
    <3>1. Schema(c, engine).port = I32(schemaUrl.port)
      BY <1>1, <2>2 DEF OrElse
    <3>2. schemaUrl.port \subseteq Int
      BY <1>2
    <3>3. U16(Schema(c, engine).port) = U16(schemaUrl.port)
      BY <1>4, <3>1, <3>2
    <3>4. U16({}) = {}
      BY DEF U16
    <3>5. QED
      BY <1>2, <3>3, <3>4
  <2>3. QED
    BY <2>1, <2>2
<1>6. OrElse(U16(Numbers(own)), OrElse(U16(Schema(c, engine).port), U16(url.port)))
        = OrElse(U16(Numbers(own)), U16(url.port))
  BY <1>5 DEF OrElse
<1> DEFINE ports == OrElse(U16(Numbers(own)), U16(url.port))
<1>7. AtMostOne(ports)
  <2>1. \A numbers : AtMostOne(numbers) => AtMostOne(U16(numbers))
    BY DEF AtMostOne, U16
  <2>2. QED
    BY <1>2, <1>3, <2>1 DEF OrElse
<1>8. x \in OrElse(ports, {default})
  BY <1>6 DEF own, url, keys
<1>9. ports = OrElse(Numbers(own) \cap 0..MaxU16, url.port \cap 0..MaxU16)
  BY <1>2, <1>3, <1>4
<1> HIDE DEF ports
<1>10. {x} = OrElse(ports, {default})
  BY <1>7, <1>8 DEF OrElse, AtMostOne
<1>11. QED
  BY <1>9, <1>10 DEF own, url, keys

LEMMA ConnectsFollow == DatabasesInv => ConnectsAsDeclared
<1> SUFFICES ASSUME DatabasesInv, NEW info \in connection, Plain(reports[k])
             PROVE  /\ \A field \in {"host", "database", "user"} :
                          LET d == Declared(reports[k], field) IN {info[field]} = OrElse(Text(d[1]), d[2])
                    /\ LET d == Declared(reports[k], "port")
                           ports == OrElse(Numbers(d[1]) \cap 0..MaxU16, d[2] \cap 0..MaxU16)
                       IN  {info.port} = OrElse(ports, {DefaultPort(info.engine)})
  BY DEF ConnectsAsDeclared
<1> DEFINE c == reports[k]
<1>1. info \in InfoOf(c) /\ k \in DOMAIN reports
  BY ReportsAreSequences DEF DatabasesInv, Stages
<1>2. Valued(c)
  BY <1>1, ReportsAssumption DEF DatabasesInv, Stages, Valued
<1> HIDE DEF c
<1>3. PICK engine \in Detected(c) : info \in ConnectionInfo(Schema(c, engine), RawEnv(c))
  BY <1>1 DEF InfoOf, SchemaOf
<1>4. Detected(c) = {engine} /\ engine \in Engines
  BY DEF Detected, Engines
<1>5. Normalized(Schema(c, engine).engine) = engine
  BY <1>4 DEF Schema, Normalized, Engines
<1> DEFINE s == Schema(c, engine)
           raw == RawEnv(c)
           Own(field) == EnvValue(raw, Keys(engine)[field])
<1> HIDE DEF s, raw
<1>6. /\ \A field \in {"host", "database", "user"} :
             info[field] \in OrElse(OrElse(Text(Own(field)), s[field]), RawUrl(raw)[field])
      /\ info.port \in OrElse(OrElse(U16(Numbers(Own("port"))),
                                    OrElse(U16(s.port), U16(RawUrl(raw).port))),
                             {DefaultPort(engine)})
      /\ info.engine = engine
  BY <1>3, <1>5 DEF ConnectionInfo, s, raw
<1>7. \A field : Declared(c, field) = <<Own(field), RawUrl(raw)[field]>>
  BY <1>4 DEF Declared, raw
<1>8. ASSUME NEW field \in {"host", "database", "user"}
      PROVE  {info[field]} = OrElse(Text(Own(field)), RawUrl(raw)[field])
  <2>1. Plain(c)
    BY DEF c
  <2>2. SettingAgrees(c, engine, field)
    BY <1>2, <1>4, <2>1, SettingOf
  <2>3. info[field] \in OrElse(OrElse(Text(EnvValue(RawEnv(c), Keys(engine)[field])),
                                     Schema(c, engine)[field]), RawUrl(RawEnv(c))[field])
    <3>1. info[field] \in OrElse(OrElse(Text(Own(field)), s[field]), RawUrl(raw)[field])
      BY <1>6
    <3>2. QED
      BY <3>1, Zenon DEF s, raw
  <2>4. {info[field]} = OrElse(Text(EnvValue(RawEnv(c), Keys(engine)[field])),
                               RawUrl(RawEnv(c))[field])
    BY <2>2, <2>3, Zenon DEF SettingAgrees
  <2>5. QED
    BY <2>4 DEF raw
<1>9. {info.port} = OrElse(OrElse(Numbers(Own("port")) \cap 0..MaxU16, RawUrl(raw).port \cap 0..MaxU16),
                           {DefaultPort(engine)})
  <2>1. info.port \in OrElse(OrElse(U16(Numbers(EnvValue(RawEnv(c), Keys(engine)["port"]))),
                                    OrElse(U16(Schema(c, engine).port), U16(RawUrl(RawEnv(c)).port))),
                             {DefaultPort(engine)})
    BY <1>6 DEF s, raw
  <2>2. Plain(c)
    BY DEF c
  <2> DEFINE numbers == Numbers(EnvValue(RawEnv(c), Keys(engine)["port"]))
             declared == Schema(c, engine).port
             url == RawUrl(RawEnv(c)).port
  <2>3. \A default : \A x \in OrElse(OrElse(U16(numbers), OrElse(U16(declared), U16(url))), {default}) :
            {x} = OrElse(OrElse(numbers \cap 0..MaxU16, url \cap 0..MaxU16), {default})
    BY <1>2, <1>4, <2>2, PortOf
  <2> HIDE DEF numbers, declared, url
  <2>4. {info.port} = OrElse(OrElse(numbers \cap 0..MaxU16, url \cap 0..MaxU16), {DefaultPort(engine)})
    BY <2>1, <2>3 DEF numbers, declared, url
  <2>5. QED
    BY <2>4 DEF raw, numbers, url
<1>10. \A field \in {"host", "database", "user"} :
          LET d == Declared(c, field) IN {info[field]} = OrElse(Text(d[1]), d[2])
  BY <1>7, <1>8
<1>11. LET d == Declared(c, "port")
           ports == OrElse(Numbers(d[1]) \cap 0..MaxU16, d[2] \cap 0..MaxU16)
       IN  {info.port} = OrElse(ports, {DefaultPort(info.engine)})
  <2> DEFINE d == Declared(c, "port")
  <2>1. d[1] = Own("port") /\ d[2] = RawUrl(raw).port
    BY <1>7
  <2> HIDE DEF d, Own
  <2>2. {info.port} = OrElse(OrElse(Numbers(d[1]) \cap 0..MaxU16, d[2] \cap 0..MaxU16),
                             {DefaultPort(info.engine)})
    BY <1>6, <1>9, <2>1
  <2>3. QED
    BY <2>2 DEF d
<1>12. QED
  BY <1>10, <1>11 DEF c

(***************************************************************************)
(* The pass.                                                               *)
(***************************************************************************)

LEMMA InitOk == Init => DatabasesInv
<1> SUFFICES ASSUME Init PROVE DatabasesInv
  OBVIOUS
<1>1. Stages
  BY ReportsAssumption DEF Init, Stages, Introspecting
<1>2. ListedInv /\ ReadInv /\ AppliedInv
  BY DEF Init, ListedInv, ReadInv, AppliedInv, Listed, Read
<1>3. QED
  BY <1>1, <1>2 DEF DatabasesInv

(* What an introspection may leave are tables of the node being read. *)
LEMMA TablesOfNode ==
    ASSUME DatabasesInv, NotConnected \/ Refused \/ TablesRead \/ TimedOut
    PROVE  /\ pc \in {"enrich"} \cup Introspecting /\ k <= Len(reports)
           /\ \E got : Enriched(got) /\ \A t \in got : t.from \in InfoOf(reports[k])
<1>1. CASE NotConnected \/ Refused \/ TimedOut
  <2>1. Enriched({})
    BY <1>1 DEF NotConnected, Refused, TimedOut
  <2>2. pc \in {"enrich"} \cup Introspecting /\ k <= Len(reports)
    BY <1>1 DEF NotConnected, Enriching, Refused, TimedOut, DatabasesInv, Stages, Introspecting
  <2>3. QED
    BY <2>1, <2>2
<1>2. CASE TablesRead
  <2>1. connection \subseteq InfoOf(reports[k]) /\ k <= Len(reports) /\ pc = "keys"
    BY <1>2 DEF TablesRead, DatabasesInv, Stages, Introspecting
  <2>2. CASE Enriched({})
    BY <2>1, <2>2 DEF Introspecting
  <2>3. ASSUME NEW info \in connection, NEW keys \in BOOLEAN,
               Enriched({[from |-> info, keys |-> keys]})
        PROVE  \E got : Enriched(got) /\ \A t \in got : t.from \in InfoOf(reports[k])
    BY <2>1, <2>3
  <2>4. QED
    BY <1>2, <2>1, <2>2, <2>3 DEF TablesRead, Introspecting
<1>3. QED
  BY <1>1, <1>2

LEMMA StagesStep == Stages /\ [Next]_vars => Stages'
<1> SUFFICES ASSUME Stages, [Next]_vars PROVE Stages'
  OBVIOUS
<1>1. /\ Len(reports) \in Nat /\ DOMAIN reports = 1..Len(reports)
      /\ k \in Nat /\ k >= 1 /\ k <= Len(reports) + 1
  BY ReportsAreSequences
<1> USE DEF Stages, Introspecting
<1>2. CASE ReadNode \/ Built
  BY <1>1, <1>2 DEF ReadNode, Built
<1>3. ASSUME NEW got, Enriched(got), k <= Len(reports) PROVE Stages'
  BY <1>1, <1>3 DEF Enriched
<1>4. CASE NotConnected \/ Refused \/ TablesRead \/ TimedOut
  BY <1>1, <1>3, <1>4 DEF NotConnected, Refused, TablesRead, TimedOut, Enriching
<1>5. CASE NoSchema \/ Connect
  BY <1>1, <1>5 DEF NoSchema, Connect, Enriching
<1>6. CASE Answered \/ AllEnriched \/ Apply \/ Collected \/ UNCHANGED vars
  BY <1>1, <1>6 DEF Answered, AllEnriched, Apply, Collected, vars
<1>7. QED
  BY <1>2, <1>4, <1>5, <1>6 DEF Next, Agent, Database

(* The first loop has ended, and the maps are as they were. *)
LEMMA MapsKept ==
    ASSUME UNCHANGED <<reports, schemas, enriched, found>>, Listed' = Listed, Read' = Read
    PROVE  /\ ListedInv => ListedInv'
           /\ ReadInv => ReadInv'
           /\ AppliedInv /\ pc # "done" /\ pc' # "done" => AppliedInv'
<1>1. ListedInv => ListedInv'
  BY HasKeyKept DEF ListedInv
<1>2. ReadInv => ReadInv'
  BY HasKeyKept DEF ReadInv
<1>3. AppliedInv /\ pc # "done" /\ pc' # "done" => AppliedInv'
  BY DEF AppliedInv
<1>4. QED
  BY <1>1, <1>2, <1>3

LEMMA DatabasesStep == DatabasesInv /\ [Next]_vars => DatabasesInv'
<1> SUFFICES ASSUME DatabasesInv, [Next]_vars PROVE DatabasesInv'
  OBVIOUS
<1>1. /\ Len(reports) \in Nat /\ DOMAIN reports = 1..Len(reports)
      /\ k \in Nat /\ k >= 1 /\ k <= Len(reports) + 1
  BY ReportsAreSequences DEF DatabasesInv
<1>2. Stages'
  BY StagesStep DEF DatabasesInv
<1>3. CASE ReadNode
  <2>1. Read' = Read /\ UNCHANGED <<reports, enriched, found>>
    BY <1>3 DEF ReadNode, Read
  <2>2. ReadInv'
    BY <2>1, HasKeyKept DEF DatabasesInv, ReadInv
  <2>3. QED
    BY <1>2, <1>3, <2>2, ListedStep DEF DatabasesInv
<1>4. CASE NotConnected \/ Refused \/ TablesRead \/ TimedOut
  <2>1. PICK got : Enriched(got) /\ \A t \in got : t.from \in InfoOf(reports[k])
    BY <1>4, TablesOfNode
  <2>2. ReadInv'
    BY <1>4, <2>1, ReadStep, TablesOfNode
  <2>3. /\ UNCHANGED <<reports, schemas>> /\ Listed' = Listed
        /\ pc # "done" /\ pc' # "done"
    BY <1>4, <2>1, TablesOfNode DEF Enriched, Listed, Introspecting
  <2>4. ListedInv'
    BY <2>3, HasKeyKept DEF DatabasesInv, ListedInv
  <2>5. AppliedInv'
    BY <2>3, <2>1 DEF Enriched, DatabasesInv, AppliedInv
  <2>6. QED
    BY <1>2, <2>2, <2>4, <2>5 DEF DatabasesInv
<1>5. CASE NoSchema
  <2>1. /\ Read = k /\ Read' = k + 1 /\ Listed' = Listed /\ k <= Len(reports)
        /\ UNCHANGED <<pc, reports, schemas, enriched, found>>
    BY <1>5 DEF NoSchema, Enriching, Read, Listed
  <2>2. \A key : ~HasKey(k, key)
    BY <1>5 DEF NoSchema, HasKey
  <2>3. /\ 1..(Read' - 1) = 1..k /\ \A i : (i + 1)..(Read' - 1) = (i + 1)..k
        /\ k \in Nat \ {0}
    BY <1>1, <2>1
  <2>4. ASSUME NEW key \in DOMAIN enriched
        PROVE  \E i \in 1..k : /\ LastWithKey(i, key, k + 1)
                               /\ \A t \in enriched[key] : t.from \in InfoOf(reports[i])
    <3>1. PICK i \in 1..(k - 1) : /\ LastWithKey(i, key, k)
                                  /\ \A t \in enriched[key] : t.from \in InfoOf(reports[i])
      BY <2>1 DEF DatabasesInv, ReadInv
    <3>2. LastWithKey(i, key, k + 1)
      BY <2>2, <2>3, <3>1, LastMoves
    <3>3. QED
      BY <2>3, <3>1, <3>2
  <2>5. /\ found \subseteq 1..k
        /\ \A i \in found : \E s \in SchemaOf(reports[i]) :
               \/ \E j \in (i + 1)..k : HasKey(j, DatabaseKey(s))
               \/ DatabaseKey(s) \in DOMAIN enriched /\ enriched[DatabaseKey(s)] # {}
    <3>1. 1..(k - 1) \subseteq 1..k /\ \A i : (i + 1)..(k - 1) \subseteq (i + 1)..k
      BY <2>3
    <3>2. QED
      BY <2>1, <3>1 DEF DatabasesInv, ReadInv
  <2>6. ReadInv'
    BY <2>1, <2>3, <2>4, <2>5, HasKeyKept DEF ReadInv
  <2>7. ListedInv'
    BY <2>1, HasKeyKept DEF DatabasesInv, ListedInv
  <2>8. AppliedInv'
    BY <2>1 DEF DatabasesInv, AppliedInv
  <2>9. QED
    BY <1>2, <2>6, <2>7, <2>8 DEF DatabasesInv
<1>6. CASE Built \/ Connect \/ Answered \/ AllEnriched
  <2>1. /\ UNCHANGED <<reports, schemas, enriched, found>>
        /\ Listed' = Listed /\ Read' = Read /\ pc # "done" /\ pc' # "done"
    BY <1>1, <1>6 DEF Built, Connect, Answered, AllEnriched, Enriching, Listed, Read
  <2>2. QED
    BY <1>2, <2>1, MapsKept DEF DatabasesInv
<1>7. CASE Apply
  <2>1. /\ UNCHANGED <<reports, enriched, found>> /\ Listed' = Listed /\ Read' = Read
        /\ pc = "apply" /\ pc' = "done"
    BY <1>7 DEF Apply, Listed, Read
  <2>2. /\ DOMAIN schemas' = DOMAIN schemas
        /\ \A key \in DOMAIN schemas :
               /\ schemas'[key].schema = schemas[key].schema
               /\ schemas'[key] =
                     [schema |-> schemas[key].schema,
                      tables |-> IF key \in DOMAIN enriched THEN enriched[key] ELSE {}]
    BY <1>7, <2>1 DEF Apply, DatabasesInv, AppliedInv
  <2>3. ListedInv'
    BY <2>1, <2>2, HasKeyKept DEF DatabasesInv, ListedInv
  <2>4. ReadInv'
    BY <2>1, HasKeyKept DEF DatabasesInv, ReadInv
  <2>5. \A key \in DOMAIN schemas' :
            schemas'[key] =
               [schema |-> schemas'[key].schema,
                tables |-> IF key \in DOMAIN enriched' THEN enriched'[key] ELSE {}]
    BY <2>1, <2>2
  <2>6. AppliedInv'
    BY <2>1, <2>5 DEF AppliedInv
  <2>7. QED
    BY <1>2, <2>3, <2>4, <2>6 DEF DatabasesInv
<1>8. CASE Collected \/ UNCHANGED vars
  <2>1. UNCHANGED <<pc, reports, k, schemas, enriched, found>>
    BY <1>8 DEF Collected, vars
  <2>2. Listed' = Listed /\ Read' = Read
    BY <2>1 DEF Listed, Read
  <2>3. ListedInv'
    BY <2>1, <2>2, HasKeyKept DEF DatabasesInv, ListedInv
  <2>4. ReadInv'
    BY <2>1, <2>2, HasKeyKept DEF DatabasesInv, ReadInv
  <2>5. AppliedInv'
    BY <2>1 DEF DatabasesInv, AppliedInv
  <2>6. QED
    BY <1>2, <2>3, <2>4, <2>5 DEF DatabasesInv
<1>9. QED
  BY <1>3, <1>4, <1>5, <1>6, <1>7, <1>8 DEF Next, Agent, Database

LEMMA DatabasesInvariant == Spec => []DatabasesInv
BY InitOk, DatabasesStep, PTL DEF Spec

(* The tables listed with a schema were read from the database it describes. *)
THEOREM TablesAreOwn == Spec => []TablesOfOwnDatabase
BY DatabasesInvariant, TablesFollow, PTL

(* A plain container, one that redaction makes lead nowhere else, is connected to as its
   own environment says. *)
THEOREM ConnectsAsItSays == Spec => []ConnectsAsDeclared
BY DatabasesInvariant, ConnectsFollow, PTL

(* No failure costs another database its tables. *)
THEOREM FailuresAreIsolated == Spec => []FailuresIsolated
BY DatabasesInvariant, FailuresFollow, PTL

(***************************************************************************)
(* How far a pass is from its end: a node is read once, and introspected   *)
(* in at most five steps.                                                  *)
(***************************************************************************)

NodesLeft == Len(reports) + 1 - k

PassLeft ==
    IF pc = "build" THEN NodesLeft + 5 * Len(reports) + 3
    ELSE IF pc = "enrich" THEN 5 * NodesLeft + 2
    ELSE IF pc = "connect" THEN 5 * NodesLeft + 1
    ELSE IF pc = "begin" THEN 5 * NodesLeft
    ELSE IF pc = "columns" THEN 5 * NodesLeft - 1
    ELSE IF pc = "keys" THEN 5 * NodesLeft - 2
    ELSE IF pc = "apply" THEN 1
    ELSE 0

PassCloser ==
    PassLeft \in Nat /\ IF Agent \/ Database THEN PassLeft' < PassLeft ELSE PassLeft' = PassLeft

LEMMA PassCounts ==
    ASSUME Stages
    PROVE  PassLeft \in Nat
<1>1. Len(reports) \in Nat /\ k \in Nat /\ k <= Len(reports) + 1
  BY ReportsAreSequences
<1>2. pc \in Introspecting => k <= Len(reports)
  BY DEF Stages
<1>3. NodesLeft \in Nat /\ (pc \in Introspecting => NodesLeft >= 1)
  BY <1>1, <1>2 DEF NodesLeft
<1>4. QED
  BY <1>1, <1>3 DEF PassLeft, Introspecting

(* Whatever a database answers, refuses or does not answer, the pass comes closer to its
   end (enrich_database_schemas, introspect_schema). *)
LEMMA PassAdvances ==
    ASSUME Stages, Agent \/ Database
    PROVE  PassLeft' < PassLeft
<1>1. PICK len \in Nat, at \in Nat : len = Len(reports) /\ at = k /\ at <= len + 1
  BY ReportsAreSequences
<1>2. reports' = reports
  BY DEF Agent, Database, ReadNode, Built, NoSchema, NotConnected, Connect, TimedOut, AllEnriched,
     Apply, Answered, Refused, TablesRead, Enriched
<1>3. NodesLeft = len + 1 - at /\ NodesLeft' = len + 1 - k'
  BY <1>1, <1>2 DEF NodesLeft
<1>4. CASE ReadNode
  <2>1. pc = "build" /\ pc' = "build" /\ k' = at + 1
    BY <1>1, <1>4 DEF ReadNode
  <2>2. PassLeft = (len + 1 - at) + 5 * len + 3 /\ PassLeft' = (len + 1 - (at + 1)) + 5 * len + 3
    BY <1>1, <1>2, <1>3, <2>1 DEF PassLeft
  <2>3. QED
    BY <2>2
<1>5. CASE Built
  <2>1. pc = "build" /\ pc' = "enrich" /\ k' = 1
    BY <1>5 DEF Built
  <2>2. PassLeft = (len + 1 - at) + 5 * len + 3 /\ PassLeft' = 5 * (len + 1 - 1) + 2
    BY <1>1, <1>3, <2>1 DEF PassLeft
  <2>3. QED
    BY <1>1, <2>2
<1>6. CASE NoSchema
  <2>1. pc = "enrich" /\ pc' = "enrich" /\ k' = at + 1
    BY <1>1, <1>6 DEF NoSchema, Enriching
  <2>2. PassLeft = 5 * (len + 1 - at) + 2 /\ PassLeft' = 5 * (len + 1 - (at + 1)) + 2
    BY <1>3, <2>1 DEF PassLeft
  <2>3. QED
    BY <2>2
<1>7. CASE NotConnected \/ Refused \/ TablesRead \/ TimedOut
  <2>1. /\ pc \in {"enrich", "connect", "begin", "columns", "keys"}
        /\ pc' = "enrich" /\ k' = at + 1
    BY <1>1, <1>7 DEF NotConnected, Refused, TablesRead, TimedOut, Enriched, Enriching,
       Introspecting
  <2>2. PassLeft' = 5 * (len + 1 - (at + 1)) + 2
    BY <1>3, <2>1 DEF PassLeft
  <2>3. PassLeft \in Int /\ PassLeft >= 5 * (len + 1 - at) - 2
    BY <1>3, <2>1 DEF PassLeft
  <2>4. QED
    BY <2>2, <2>3
<1>8. CASE Connect \/ Answered
  <2>1. /\ <<pc, pc'>> \in {<<"enrich", "connect">>, <<"connect", "begin">>, <<"begin", "columns">>,
                           <<"columns", "keys">>}
        /\ k' = at
    BY <1>1, <1>8 DEF Connect, Answered, Enriching
  <2>2. NodesLeft' = NodesLeft /\ NodesLeft \in Int
    BY <1>1, <1>3, <2>1
  <2>3. QED
    BY <2>1, <2>2 DEF PassLeft
<1>9. CASE AllEnriched
  <2>1. pc = "enrich" /\ pc' = "apply"
    BY <1>9 DEF AllEnriched
  <2>2. PassLeft = 5 * (len + 1 - at) + 2 /\ PassLeft' = 1
    BY <1>3, <2>1 DEF PassLeft
  <2>3. QED
    BY <1>1, <2>2
<1>10. CASE Apply
  BY <1>10 DEF Apply, PassLeft
<1>11. QED
  BY <1>4, <1>5, <1>6, <1>7, <1>8, <1>9, <1>10 DEF Agent, Database

(* Hence a pass takes no more than PassLeft steps, for any payload and any answers. *)
THEOREM EnrichmentAdvances == Spec => [][PassCloser]_vars
<1>1. ASSUME Stages, [Next]_vars PROVE PassCloser
  <2>1. CASE Agent \/ Database
    BY <1>1, <2>1, PassCounts, PassAdvances DEF PassCloser
  <2>2. CASE ~(Agent \/ Database)
    <3>1. UNCHANGED vars
      BY <1>1, <2>2 DEF Next, Collected
    <3>2. PassLeft' = PassLeft
      BY <3>1 DEF vars, PassLeft, NodesLeft
    <3>3. QED
      BY <1>1, <2>2, <3>2, PassCounts DEF PassCloser
  <2>3. QED
    BY <2>1, <2>2
<1>2. DatabasesInv => Stages
  BY DEF DatabasesInv
<1>3. QED
  BY <1>1, <1>2, DatabasesInvariant, PTL DEF Spec

(***************************************************************************)
(* The tables of one database: IntrospectedTables, for any databases.      *)
(***************************************************************************)

Unique(i) == Names(seen[i].name) = {i}

(* The first m columns of a table are filled in, and the others are still to come. *)
FilledTo(i, m) ==
    /\ m \in 0..Len(seen[i].columns)
    /\ \A j \in 1..Len(seen[i].columns) : <<i, j>> \in columns <=> m < j
    /\ IF m = 0 THEN seen[i].name \notin DOMAIN tables
       ELSE /\ seen[i].name \in DOMAIN tables
            /\ tables[seen[i].name] =
                  [j \in 1..m |-> [name |-> seen[i].columns[j],
                                   primary_key |->
                                      <<seen[i].name, seen[i].columns[j]>> \in primary_keys]]

KeysInv ==
    \E shown \in SUBSET Constrained :
        primary_keys = UNION {{contents[p[1]].name} \X p[2] : p \in shown}

FillInv ==
    /\ stage # "closed" => server \in Connections
    /\ stage \in {"keys", "fill", "done"} => seen \in AllDatabases /\ contents \in AllDatabases
    /\ stage \in {"closed", "columns", "keys"} => tables = <<>> /\ primary_keys = {}
    /\ stage = "keys" => columns = Rows(seen)
    /\ stage \in {"fill", "done"} =>
          /\ KeysInv
          /\ columns \subseteq Rows(seen)
          /\ \A i \in DOMAIN seen : Unique(i) => \E m \in Nat : FilledTo(i, m)
    /\ stage = "done" => columns = {}

LEMMA DatabasesAreSequences ==
    ASSUME DatabasesOk, NEW db \in AllDatabases
    PROVE  /\ Len(db) \in Nat /\ DOMAIN db = 1..Len(db)
           /\ \A i \in DOMAIN db : /\ Len(db[i].columns) \in Nat
                                   /\ DOMAIN db[i].columns = 1..Len(db[i].columns)
BY DEF DatabasesOk

(* Until the first row is filled in, every column is still to come. *)
LEMMA NothingFilled ==
    ASSUME DatabasesOk, seen \in AllDatabases, tables = <<>>, columns = Rows(seen),
           NEW i \in DOMAIN seen, Unique(i)
    PROVE  FilledTo(i, 0)
<1>1. Selected(seen[i])
  BY DEF Unique, Names
<1>2. \A j \in 1..Len(seen[i].columns) : <<i, j>> \in columns
  BY <1>1, DatabasesAreSequences DEF Rows
<1>3. Len(seen[i].columns) \in Nat
  BY DatabasesAreSequences
<1>4. seen[i].name \notin DOMAIN tables
  OBVIOUS
<1>5. QED
  BY <1>2, <1>3, <1>4 DEF FilledTo

(* A row goes to the table it is of, if its name is that of no other. *)
LEMMA RowFilled ==
    ASSUME DatabasesOk, FillInv, stage = "fill", FillRow,
           NEW i \in DOMAIN seen, Unique(i)
    PROVE  \E m \in Nat : FilledTo(i, m)'
<1>1. PICK p \in columns : /\ \A q \in columns : q = p \/ Before(p, q)
                           /\ Fill(Row(p)) /\ columns' = columns \ {p}
  BY DEF FillRow
<1>2. UNCHANGED <<seen, primary_keys>>
  BY DEF FillRow
<1>3. PICK m \in Nat : FilledTo(i, m)
  BY DEF FillInv
<1>4. /\ Len(seen) \in Nat /\ DOMAIN seen = 1..Len(seen) /\ Len(seen[i].columns) \in Nat
      /\ DOMAIN seen[i].columns = 1..Len(seen[i].columns)
  BY DatabasesAreSequences DEF FillInv
<1>5. PICK o \in DOMAIN seen : Selected(seen[o]) /\ p \in {o} \X DOMAIN seen[o].columns
  BY <1>1 DEF FillInv, Rows
<1>6. PICK c \in DOMAIN seen[o].columns : p = <<o, c>>
  BY <1>5
<1> DEFINE name == seen[i].name
           row == Row(p)
           column == [name |-> row.column, primary_key |-> IsKey(row)]
           filled == IF row.table \in DOMAIN tables THEN tables[row.table] ELSE <<>>
<1>7. /\ DOMAIN tables' = DOMAIN tables \cup {row.table}
      /\ tables'[row.table] = Append(filled, column)
      /\ \A other \in DOMAIN tables : other # row.table => tables'[other] = tables[other]
  BY <1>1 DEF Fill, Push
<1>8. row.table = seen[o].name /\ row.column = seen[o].columns[c]
  BY <1>6 DEF Row
<1> HIDE DEF row, column, filled
<1>9. CASE o # i
  <2>1. row.table # name
    BY <1>5, <1>6, <1>8, <1>9 DEF Unique, Names
  <2>2. \A j \in 1..Len(seen[i].columns) : <<i, j>> \in columns' <=> <<i, j>> \in columns
    BY <1>1, <1>5, <1>6, <1>9
  <2>3. name \in DOMAIN tables' <=> name \in DOMAIN tables
    BY <1>7, <2>1
  <2>4. name \in DOMAIN tables => tables'[name] = tables[name]
    BY <1>7, <2>1
  <2>5. FilledTo(i, m)'
    BY <1>2, <1>3, <2>2, <2>3, <2>4 DEF FilledTo
  <2>6. QED
    BY <2>5
<1>10. CASE o = i
  <2>1. m < c /\ c \in 1..Len(seen[i].columns)
    BY <1>1, <1>3, <1>4, <1>5, <1>6, <1>10 DEF FilledTo
  <2>2. c = m + 1
    <3>1. <<i, m + 1>> \in columns
      BY <1>3, <1>4, <2>1 DEF FilledTo
    <3>2. <<i, m + 1>> = <<i, c>> \/ Before(<<i, c>>, <<i, m + 1>>)
      BY <1>1, <1>5, <1>6, <1>10, <3>1
    <3>3. m + 1 = c \/ c < m + 1
      BY <1>4, <3>2 DEF Before
    <3>4. QED
      BY <2>1, <3>3, <1>4
  <2>3. m + 1 \in 0..Len(seen[i].columns) /\ m + 1 # 0
    BY <1>4, <2>1, <2>2
  <2>4. \A j \in 1..Len(seen[i].columns) : <<i, j>> \in columns' <=> m + 1 < j
    BY <1>1, <1>3, <1>4, <1>5, <1>6, <1>10, <2>2 DEF FilledTo
  <2> DEFINE Column(j) == [name |-> seen[i].columns[j],
                           primary_key |-> <<seen[i].name, seen[i].columns[j]>> \in primary_keys]
  <2>5. filled = [j \in 1..m |-> Column(j)]
    <3>1. CASE m = 0
      BY <1>3, <1>8, <1>10, <3>1 DEF filled, FilledTo
    <3>2. CASE m # 0
      BY <1>3, <1>8, <1>10, <3>2 DEF filled, FilledTo
    <3>3. QED
      BY <3>1, <3>2
  <2>6. column = Column(m + 1)
    BY <1>8, <1>10, <2>2 DEF column, IsKey
  <2> HIDE DEF Column
  <2>7. Append([j \in 1..m |-> Column(j)], Column(m + 1)) = [j \in 1..(m + 1) |-> Column(j)]
    OBVIOUS
  <2>8. name \in DOMAIN tables' /\ tables'[name] = [j \in 1..(m + 1) |-> Column(j)]
    BY <1>7, <1>8, <1>10, <2>5, <2>6, <2>7
  <2>9. FilledTo(i, m + 1)'
    BY <1>2, <2>3, <2>4, <2>8 DEF FilledTo, Column
  <2>10. QED
    BY <2>9
<1>11. QED
  BY <1>9, <1>10

LEMMA FillStep == DatabasesOk /\ FillInv /\ [TablesNext]_tableVars => FillInv'
<1> SUFFICES ASSUME DatabasesOk, FillInv, [TablesNext]_tableVars PROVE FillInv'
  OBVIOUS
<1>0. stage \in {"columns", "keys"} => Databases(server) \subseteq AllDatabases
  BY DEF FillInv, AllDatabases
<1>1. CASE \/ \E info \in Connections : Open(info)
           \/ Close
  BY <1>1 DEF Open, Close, FillInv
<1>7. CASE ReadColumns
  BY <1>0, <1>7 DEF ReadColumns, FillInv, Rows, Selected
<1>2. CASE ReadKeys
  <2>1. KeysInv'
    BY <1>2 DEF ReadKeys, KeysInv, Constrained, KeyConstraints, Selected
  <2>2. /\ stage = "keys" /\ stage' = "fill"
        /\ UNCHANGED <<server, contents, seen, columns, tables>>
    BY <1>2 DEF ReadKeys
  <2>3. \A i \in DOMAIN seen : Unique(i) => FilledTo(i, 0)
    BY <2>2, NothingFilled DEF FillInv
  <2>4. \A i \in DOMAIN seen' : Unique(i)' => FilledTo(i, 0)'
    BY <2>2, <2>3 DEF Unique, FilledTo, Names, Selected
  <2>5. columns' \subseteq Rows(seen)'
    BY <2>2 DEF FillInv, Rows, Selected
  <2>6. QED
    BY <2>1, <2>2, <2>4, <2>5 DEF FillInv
<1>3. CASE Migrate
  BY <1>0, <1>3 DEF Migrate, FillInv, Rows, Selected
<1>4. CASE FillRow
  <2>1. /\ stage = "fill" /\ stage' = "fill" /\ UNCHANGED <<server, contents, seen, primary_keys>>
        /\ columns' \subseteq columns
    BY <1>4 DEF FillRow
  <2>2. KeysInv' /\ columns' \subseteq Rows(seen)'
    BY <2>1 DEF FillInv, KeysInv, Constrained, KeyConstraints, Rows, Selected
  <2>3. \A i \in DOMAIN seen' : Unique(i)' => Unique(i)
    BY <2>1 DEF Unique, Names, Selected
  <2>4. \A i \in DOMAIN seen' : Unique(i)' => \E m \in Nat : FilledTo(i, m)'
    BY <1>4, <2>1, <2>3, RowFilled
  <2>5. QED
    BY <2>1, <2>2, <2>4 DEF FillInv
<1>5. CASE Filled \/ UNCHANGED tableVars
  <2>1. /\ UNCHANGED <<server, contents, seen, columns, primary_keys, tables>>
        /\ \/ stage' = stage
           \/ stage = "fill" /\ columns = {} /\ stage' = "done"
    BY <1>5 DEF Filled, tableVars
  <2>2. /\ KeysInv => KeysInv'
        /\ Rows(seen)' = Rows(seen)
        /\ \A i \in DOMAIN seen : Unique(i)' = Unique(i) /\ \A m : FilledTo(i, m)' = FilledTo(i, m)
    BY <2>1 DEF KeysInv, Constrained, KeyConstraints, Unique, FilledTo, Rows, Names, Selected
  <2>3. QED
    BY <2>1, <2>2 DEF FillInv
<1>6. QED
  BY <1>1, <1>2, <1>3, <1>4, <1>5, <1>7 DEF TablesNext

LEMMA FillInvariant == TablesSpec => []FillInv
<1>1. TablesInit => FillInv
  BY DEF TablesInit, FillInv
<1>2. FillInv /\ [TablesNext]_tableVars => FillInv'
  BY DatabasesAssumption, FillStep
<1>3. QED
  BY <1>1, <1>2, PTL DEF TablesSpec

(* The table of a row was selected, and is not empty once the row is filled in. *)
LEMMA FilledTyped ==
    ASSUME FillInv, TablesTypeOK, stage = "fill", FillRow, NEW name \in DOMAIN tables'
    PROVE  /\ tables'[name] \in Seq([name : ColumnsSeen, primary_key : BOOLEAN]) \ {<<>>}
           /\ \E i \in DOMAIN seen : Selected(seen[i]) /\ seen[i].name = name
<1>1. PICK p \in columns : Fill(Row(p))
  BY DEF FillRow
<1>2. PICK o \in DOMAIN seen : Selected(seen[o]) /\ p \in {o} \X DOMAIN seen[o].columns
  BY <1>1 DEF FillInv, Rows
<1>3. PICK c \in DOMAIN seen[o].columns : p = <<o, c>>
  BY <1>2
<1> DEFINE Column == [name : ColumnsSeen, primary_key : BOOLEAN]
           row == Row(p)
           column == [name |-> row.column, primary_key |-> IsKey(row)]
           filled == IF row.table \in DOMAIN tables THEN tables[row.table] ELSE <<>>
<1>4. row.table = seen[o].name /\ row.column = seen[o].columns[c]
  BY <1>3 DEF Row
<1>5. /\ DOMAIN tables' = DOMAIN tables \cup {row.table}
      /\ tables'[row.table] = Append(filled, column)
      /\ \A other \in DOMAIN tables : other # row.table => tables'[other] = tables[other]
  BY <1>1 DEF Fill, Push
<1>6. column \in Column
  <2>1. row.column \in ColumnsSeen
    BY <1>4 DEF ColumnsSeen
  <2>2. IsKey(row) \in BOOLEAN
    BY DEF IsKey
  <2> HIDE DEF row
  <2>3. QED
    BY <2>1, <2>2, Zenon
<1>7. filled \in Seq(Column)
  <2>1. CASE row.table \in DOMAIN tables
    BY <2>1 DEF TablesTypeOK
  <2>2. CASE row.table \notin DOMAIN tables
    BY <2>2
  <2>3. QED
    BY <2>1, <2>2
<1> HIDE DEF Column, row, column, filled
<1>8. Append(filled, column) \in Seq(Column) \ {<<>>}
  BY <1>6, <1>7
<1>9. CASE name = row.table
  BY <1>2, <1>4, <1>5, <1>8, <1>9 DEF Column
<1>10. CASE name # row.table
  <2>1. name \in DOMAIN tables /\ tables'[name] = tables[name]
    BY <1>5, <1>10
  <2>2. QED
    BY <2>1 DEF TablesTypeOK
<1>11. QED
  BY <1>9, <1>10

(* Only tables that were selected are filled, with columns that were seen. *)
THEOREM TablesTypeCorrect == TablesSpec => []TablesTypeOK
<1>1. TablesInit => TablesTypeOK
  BY DEF TablesInit, TablesTypeOK
<1>2. ASSUME FillInv, TablesTypeOK, [TablesNext]_tableVars PROVE TablesTypeOK'
  <2>0. stage \in {"columns", "keys"} => Databases(server) \subseteq AllDatabases
    BY <1>2 DEF FillInv, AllDatabases
  <2>1. CASE ReadColumns
    BY <1>2, <2>0, <2>1 DEF ReadColumns, FillInv, TablesTypeOK
  <2>7. CASE \/ \E info \in Connections : Open(info)
             \/ Close
    BY <1>2, <2>7 DEF Open, Close, FillInv, TablesTypeOK
  <2>2. CASE ReadKeys
    <3>1. \A key \in primary_keys' : \E i \in DOMAIN contents :
              key[1] = contents[i].name /\ key[2] \in UNION KeyConstraints(contents[i])
      BY <2>2 DEF ReadKeys, Constrained
    <3>2. /\ stage = "keys" /\ stage' = "fill" /\ contents' \in AllDatabases /\ seen' \in AllDatabases
          /\ UNCHANGED <<server, tables, seen>>
      BY <1>2, <2>2 DEF ReadKeys, TablesTypeOK
    <3>3. tables = <<>>
      BY <1>2, <2>2 DEF ReadKeys, FillInv
    <3>4. \A key \in primary_keys' : \E db \in AllDatabases : \E i \in DOMAIN db :
              key[1] = db[i].name /\ key[2] \in UNION KeyConstraints(db[i])'
      BY <1>2, <3>1, <3>2 DEF TablesTypeOK, KeyConstraints
    <3>5. QED
      BY <1>2, <3>2, <3>3, <3>4 DEF TablesTypeOK, KeyConstraints
  <2>3. CASE Migrate
    BY <1>2, <2>0, <2>3 DEF Migrate, FillInv, TablesTypeOK
  <2>4. CASE FillRow
    <3>1. /\ stage = "fill" /\ UNCHANGED <<stage, server, contents, seen, primary_keys>>
      BY <2>4 DEF FillRow
    <3>2. \A name \in DOMAIN tables' :
              /\ tables'[name] \in Seq([name : ColumnsSeen, primary_key : BOOLEAN]) \ {<<>>}
              /\ \E i \in DOMAIN seen : Selected(seen[i]) /\ seen[i].name = name
      BY <1>2, <2>4, <3>1, FilledTyped
    <3>3. ColumnsSeen' = ColumnsSeen /\ \A table : /\ Selected(table)' = Selected(table)
                                               /\ KeyConstraints(table)' = KeyConstraints(table)
      BY <3>1 DEF ColumnsSeen, Selected, KeyConstraints
    <3>4. QED
      BY <1>2, <3>1, <3>2, <3>3 DEF TablesTypeOK
  <2>5. CASE Filled \/ UNCHANGED tableVars
    <3>1. /\ UNCHANGED <<server, contents, seen, primary_keys, tables>>
          /\ stage' = stage \/ (stage = "fill" /\ stage' = "done")
      BY <2>5 DEF Filled, tableVars
    <3>2. ColumnsSeen' = ColumnsSeen /\ \A table : /\ Selected(table)' = Selected(table)
                                               /\ KeyConstraints(table)' = KeyConstraints(table)
      BY <3>1 DEF ColumnsSeen, Selected, KeyConstraints
    <3>3. QED
      BY <1>2, <3>1, <3>2 DEF TablesTypeOK
  <2>6. QED
    BY <1>2, <2>1, <2>2, <2>3, <2>4, <2>5, <2>7 DEF TablesNext
<1>3. QED
  BY <1>1, <1>2, FillInvariant, PTL DEF TablesSpec

(* At the end a table with a name of its own has all its columns. *)
LEMMA AllFilled ==
    ASSUME DatabasesOk, FillInv, stage = "done", NEW i \in DOMAIN seen, Unique(i),
           seen[i].columns # <<>>
    PROVE  /\ seen[i].columns \in Seq({seen[i].columns[j] : j \in DOMAIN seen[i].columns})
           /\ seen[i].name \in DOMAIN tables
           /\ tables[seen[i].name] =
                 [j \in 1..Len(seen[i].columns) |->
                     [name |-> seen[i].columns[j],
                      primary_key |-> <<seen[i].name, seen[i].columns[j]>> \in primary_keys]]
<1> DEFINE size == Len(seen[i].columns)
<1>1. PICK m \in Nat : FilledTo(i, m)
  BY DEF FillInv
<1>2. /\ size \in Nat
      /\ seen[i].columns \in Seq({seen[i].columns[j] : j \in DOMAIN seen[i].columns})
  BY DatabasesAreSequences DEF FillInv, DatabasesOk
<1>3. size # 0
  BY <1>2
<1>4. m = size
  <2>1. m \in 0..size /\ \A j \in 1..size : ~(m < j)
    BY <1>1 DEF FillInv, FilledTo
  <2>2. QED
    BY <1>2, <1>3, <2>1
<1>5. QED
  BY <1>1, <1>2, <1>3, <1>4 DEF FilledTo

(* What it says: its columns' names, and those marked as of the key. *)
LEMMA FilledTableSays ==
    ASSUME DatabasesOk, FillInv, stage = "done", NEW i \in DOMAIN seen, Unique(i),
           seen[i].columns # <<>>
    PROVE  LET own == seen[i].columns
               table == tables[seen[i].name]
           IN  /\ [j \in DOMAIN table |-> table[j].name] = own
               /\ {c.name : c \in {table[j] : j \in {j \in DOMAIN table : table[j].primary_key}}} =
                     {own[j] : j \in {j \in DOMAIN own : <<seen[i].name, own[j]>> \in primary_keys}}
<1> DEFINE own == seen[i].columns
           name == seen[i].name
           table == tables[name]
<1>1. /\ own \in Seq({own[j] : j \in DOMAIN own})
      /\ table = [j \in 1..Len(own) |->
                    [name |-> own[j], primary_key |-> <<name, own[j]>> \in primary_keys]]
  BY AllFilled
<1> HIDE DEF own, name, table
<1> DEFINE marked == {j \in DOMAIN table : table[j].primary_key}
           keyed == {j \in DOMAIN own : <<name, own[j]>> \in primary_keys}
<1>2. DOMAIN own = 1..Len(own) /\ DOMAIN table = 1..Len(own)
  BY <1>1
<1>3. \A j \in DOMAIN own : table[j].name = own[j]
  BY <1>1, <1>2
<1>4. \A j \in DOMAIN own : table[j].primary_key <=> <<name, own[j]>> \in primary_keys
  <2> TAKE j \in DOMAIN own
  <2>1. CASE <<name, own[j]>> \in primary_keys
    BY <1>1, <1>2, <2>1
  <2>2. CASE <<name, own[j]>> \notin primary_keys
    BY <1>1, <1>2, <2>2
  <2>3. QED
    BY <2>1, <2>2
<1>5. [j \in DOMAIN table |-> table[j].name] = own
  <2>1. [j \in DOMAIN table |-> table[j].name] = [j \in DOMAIN own |-> own[j]]
    BY <1>2, <1>3, Zenon
  <2>2. own = [j \in DOMAIN own |-> own[j]]
    BY <1>1
  <2>3. QED
    BY <2>1, <2>2
<1>6. marked = keyed
  BY <1>2, <1>4, Zenon
<1>7. {c.name : c \in {table[j] : j \in marked}} = {own[j] : j \in keyed}
  <2>1. \A j \in keyed : table[j].name = own[j]
    BY <1>3
  <2>2. {c.name : c \in {table[j] : j \in keyed}} = {table[j].name : j \in keyed}
    OBVIOUS
  <2>3. {table[j].name : j \in keyed} = {own[j] : j \in keyed}
    <3> HIDE DEF keyed
    <3> QED
      BY <2>1
  <2>4. QED
    BY <1>6, <2>2, <2>3
<1>8. QED
  BY <1>5, <1>7 DEF own, name, table

(* A table whose name is not in two schemas is reported with exactly its own columns. *)
THEOREM TablesStayApart == TablesSpec => []TablesApart
<1>1. FillInv => TablesApart
  <2> SUFFICES ASSUME DatabasesOk, FillInv, stage = "done", NEW i \in DOMAIN seen, Unique(i),
                      seen[i].columns # <<>>
               PROVE  /\ seen[i].name \in DOMAIN tables
                      /\ ColumnNames(seen[i].name) = seen[i].columns
    BY DatabasesAssumption DEF TablesApart, Unique
  <2>1. seen[i].name \in DOMAIN tables
    BY AllFilled
  <2>2. [j \in DOMAIN tables[seen[i].name] |-> tables[seen[i].name][j].name] = seen[i].columns
    BY FilledTableSays, Zenon
  <2>3. QED
    BY <2>1, <2>2 DEF ColumnNames
<1>2. QED
  BY <1>1, FillInvariant, PTL

(* A set of columns some table of a name had as a key that was shown. *)
ShownFor(shown, name) == {p[2] : p \in {p \in shown : contents[p[1]].name = name}}

(* Of such a table the columns of some constraints of its own name are marked, whole. *)
THEOREM KeysStayApart == TablesSpec => []KeysOfOwnTable
<1>1. FillInv => KeysOfOwnTable
  <2> SUFFICES ASSUME DatabasesOk, FillInv, stage = "done",
                      NEW i \in DOMAIN seen, Unique(i), seen[i].columns # <<>>
               PROVE  \E shown \in SUBSET ShownFor(Constrained, seen[i].name) :
                         Marked(seen[i].name) =
                            (UNION shown) \cap {seen[i].columns[j] : j \in DOMAIN seen[i].columns}
    BY DatabasesAssumption DEF KeysOfOwnTable, Unique, ShownFor
  <2> DEFINE own == seen[i].columns
             name == seen[i].name
  <2>1. Marked(name) = {own[j] : j \in {j \in DOMAIN own : <<name, own[j]>> \in primary_keys}}
    BY FilledTableSays, Zenon DEF Marked
  <2>2. PICK shown \in SUBSET Constrained :
            primary_keys = UNION {{contents[p[1]].name} \X p[2] : p \in shown}
    BY DEF FillInv, KeysInv
  <2> HIDE DEF own, name
  <2>3. \A x : <<name, x>> \in primary_keys <=> x \in UNION ShownFor(shown, name)
    BY <2>2 DEF ShownFor
  <2>4. ShownFor(shown, name) \subseteq ShownFor(Constrained, name)
    BY <2>2 DEF ShownFor
  <2>5. Marked(name) = (UNION ShownFor(shown, name)) \cap {own[j] : j \in DOMAIN own}
    BY <2>1, <2>3
  <2>6. QED
    BY <2>4, <2>5 DEF own, name
<1>2. QED
  BY <1>1, FillInvariant, PTL
-----------------------------------------------------------------------------
(***************************************************************************)
(* A pass, with its introspections.                                        *)
(***************************************************************************)

(* A step of a pass is one of each of its parts, or leaves it as it is. *)
LEMMA PassStep == [PassNext]_passVars => [Next]_vars
BY DEF PassNext, passVars, PassAgent, PassDatabase, Outside, Introspect, Ready, ColumnsAnswered,
       Tabulate, TablesAnswered, Failed, Late, Next, Agent, Database

LEMMA TablesStep == Stages /\ [PassNext]_passVars => [TablesNext]_tableVars
<1> SUFFICES ASSUME Stages, [PassNext]_passVars PROVE [TablesNext]_tableVars
  OBVIOUS
<1>1. CASE Introspect
  <2>1. k \in DOMAIN reports /\ reports \in Reports
    BY <1>1, ReportsAreSequences DEF Introspect, Connect, Enriching, Stages
  <2>2. PICK info \in InfoOf(reports[k]) : connection' = {info}
    BY <1>1 DEF Introspect, Connect
  <2>3. Open(info)
    BY <1>1, <2>2 DEF Introspect
  <2>4. info \in Connections
    BY <2>1, <2>2, ConnectionsAssumption
  <2>5. QED
    BY <2>3, <2>4 DEF TablesNext
<1>2. CASE ~Introspect
  BY <1>2 DEF PassNext, passVars, PassAgent, PassDatabase, Outside, Ready, ColumnsAnswered,
              Tabulate, TablesAnswered, Failed, Late, TablesNext
<1>3. QED
  BY <1>1, <1>2

(* A pass is an enrichment and, in its course, one introspection after another: what is
   proved of either holds of the two together. *)
THEOREM PassIsBoth == PassSpec => Spec /\ TablesSpec
<1>1. PassInit => Init /\ TablesInit
  BY DEF PassInit
<1>2. DatabasesInv => Stages
  BY DEF DatabasesInv
<1>3. QED
  BY <1>1, <1>2, InitOk, DatabasesStep, PassStep, TablesStep, PTL DEF PassSpec, Spec, TablesSpec

(* So every invariant above is one of the pass. *)
THEOREM PassKeepsThem ==
    PassSpec => [](/\ TablesOfOwnDatabase /\ FailuresIsolated /\ ConnectsAsDeclared
                   /\ TablesApart /\ KeysOfOwnTable)
BY PassIsBoth, TablesAreOwn, FailuresAreIsolated, ConnectsAsItSays, TablesStayApart,
   KeysStayApart, PTL
=============================================================================
