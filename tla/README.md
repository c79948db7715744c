# TLA+ models of the Aegis AI Agent

The Aegis agent (`src/`, Rust, tokio) runs on a customer host. It registers once with a
Gateway, keeps the credentials it got in a file, sends a heartbeat every 30 seconds,
collects the topology of the host every 15 minutes or on request, and uploads it to object
storage through presigned URLs the Gateway hands out. This directory holds TLA+ models of
what makes that hard to get right, the TLC runs that check them on small instances, and
proofs, checked by TLAPS, that hold for every value of the constants.

Paths below are relative to the repository root; `src/agent.rs` and its siblings are the crate.

## 1. The system

| Part | State it keeps | Operations | Talks to |
| --- | --- | --- | --- |
| Startup and credentials (`agent.rs`, `config.rs`, `client.rs`) | `.agent_secret`, `Arc<Mutex<AgentConfig>>` shared by both loops | `load_or_register_agent`, `register_agent`, `save_config`, `recover_from_stale_credentials`, the heartbeat loop | Gateway (register, status), the file system |
| Discovery loop (`discovery.rs`, `client.rs`) | `last_payload`, the locals of a pass, the scan channel | `start_discovery_loop`, `upload_topology`, `upload_payload`, `attach_local_image_archives` | the shared config, Gateway (upload URL, status), object storage, the extractors |
| Scan trigger (`server.rs`, `discovery.rs`) | `SCAN_TRIGGER`, a channel of capacity 10 | `scan_handler`, `trigger_topology_scan` | the discovery loop |
| Topology merge (`discovery.rs`) | none | containers, ports and routes of all extractors become one payload | extractors |
| Image archives (`discovery.rs`, `client.rs`) | the images exported in a pass, `original_minio_host` of the client | `attach_local_image_archives`, `docker_save_image`, `get_upload_url`, `upload_payload` | `docker save`, Gateway, object storage |
| Database schemas (`database.rs`, `discovery.rs`) | two maps by `database_schema_key` | detection from environment and image, connection, introspection with a 5 s limit, tables from rows | the databases found |
| Runtime resources (`discovery.rs`) | the vector both extractors extend | `collect_runtime_resources` | the Docker and the Kubernetes extractor |
| Docker extractor (`extractor/docker.rs`) | the nodes of one collection | choice of the socket, `list_active_resources` with two inspections per container | the Docker daemon |
| Kubernetes extractor (`extractor/k8s.rs`) | three lists | `list_active_resources`, mapping of pods, services and ingresses | the API server |
| Host processes (`extractor/mod.rs`) | the process table, behind a mutex | `get_processes`, `filter_host_processes` | the host |
| Redaction (`redaction/`, `bin/aegis-redact.rs`, `domain/mod.rs`) | compiled patterns | text and environment values are masked | - |
| Health (`health.rs`) | one HTTP client | one request with a 2 s limit mapped to 200 or 503 | the ingest worker |
| Entry points, errors, packaging (`main.rs`, `lib.rs`, `error.rs`, `install.sh`, `chart/`) | - | start, and restart by systemd (`Restart=always`) | - |

Where it is hard, and what makes each part correct:

* **Credentials.** Two loops share one identity and can have it rejected at the same time;
  each clones the config, uses it after the mutex is released, and re-registers *holding*
  the mutex across a network request. Registration has three steps (create at the Gateway,
  truncate and write the file, replace the shared config), and the process can die, or a
  step fail, between any two. Correct means: no agent is created twice for one rejection,
  a running credential survives a restart, a retry never repeats the rejected credential,
  both loops keep going, and seen from outside the identity only moves forward.
* **Discovery.** A pass works for minutes with a config it cloned at its start; the
  credentials may be replaced by the heartbeat loop between any two of its requests; every
  request may fail in a way that is recovered from, retried, logged or propagated. Correct
  means: `last_payload` never hides a topology that is not stored, the loop converges to
  the present topology, and an accepted scan request forces an upload.
* **Merge.** Two extractors report the same container, in an order that depends on which of
  them answered, each with some of its ports, attributes and digests. Correct means that
  what is left after any number of merges is what a definition over all reports asks for,
  and that the routes, made before the merges, agree with the ports kept after them.
* **Process filter.** A limit, a sort and an exception for the agent's own process; correct
  means that the result agrees with a simple definition of it, and that no host can break it.
* **Image archives.** The export of an image has three steps that can fail (URL, `docker save`,
  PUT), several containers share an image, object names are made from a sanitized name and
  a second, and one cell of the client remembers which storage host a URL was signed for.
  Correct means that a reference in the payload leads to the archive of the container's own
  image as long as no later image takes its object's name, and that containers of one image
  share it.
* **Schemas.** A database is described by the redacted environment and connected to with the
  raw one; schemas and tables meet in two maps filled in two passes over the same nodes; a
  database may refuse, answer slowly or never. Correct means that tables are listed with the
  database they were read from and made of its own rows, that one failing database costs no
  other its tables, that a connection goes where the container's environment says, and that
  the pass ends.
* **Extractors.** What they list changes while they ask about it: containers stop, tags move to
  other images, objects come and go between three lists. Correct means that the answer holds
  exactly what was listed, or there is none, that attributes are those of the right image,
  status or security context, and that one source failing leaves the other's report alone.
* **Entities.** The text between labelled tokens is copied by offsets that must never run
  backwards, and tokens that repeat the label before them are passed over. Correct means that
  no other text is lost, that a change of label leaves its tag in its place, and, as the
  documentation has it, that the text of every entity is gone, which the code does not keep.

PROJECT.json lists every component with its status and every hazard with its line.

## 2. Modules

| Module | What it is |
| --- | --- |
| `AgentIdentity` | abstract specification: the identity the agent works under |
| `AgentCredentials` | startup, the file, the mutex and both loops in detail; implements `AgentIdentity` |
| `MCAgentCredentials` | the two loops and their symmetry, for TLC |
| `AgentCredentialsProofs` | type correctness, inductive invariant, safety theorems and the refinement |
| `TopologySync` | the discovery loop on top of `AgentIdentity` |
| `MCTopologySync` | two topologies, one with a local image |
| `TopologySyncProofs` | type correctness, and that what is uploaded is stored |
| `TopologyMerge` | how the reports of the extractors become containers, ports and routes |
| `MCTopologyMerge` | a container both extractors report, two replicas, a service, an ingress |
| `TopologyMergeProofs` | the five properties of the merge, for any reports |
| `ProcessFilter` | which processes of the host a topology lists |
| `MCProcessFilter` | a host with up to three processes besides the agent |
| `ProcessFilterProofs` | the three properties of the filter, for any number of processes |
| `Extraction` | abstract specification: what a `TopologyExtractor` promises its caller |
| `DockerExtraction` | the Docker extractor over a changing daemon; implements `Extraction` |
| `KubernetesExtraction` | the Kubernetes extractor over a changing cluster; implements `Extraction` |
| `RuntimeResources` | the composition: the choice of the daemon, then both extractors in turn |
| `MCRuntimeResources` | five kinds of hosts |
| `RuntimeResourcesProofs` | type correctness, that both extractors implement `Extraction` in the composition, and its other safety properties |
| `DatabaseSchema` | databases: detection, connection, introspection, the two maps |
| `MCDatabaseSchema` | seventeen container nodes, in every list of up to two and some of three |
| `IntrospectedTables` | the two queries of an introspection and the tables made of their rows |
| `DatabasePass` | the composition: the databases of a pass, and the introspection it waits for |
| `MCDatabasePass` | the same nodes, and databases with tables of one name in two schemas |
| `DatabaseSchemaProofs` | that tables stay with their database, whatever fails, and connections with their container; that tables made of rows stay apart; that the composition is both |
| `ImageArchives` | the export of local images inside a pass, with the two client calls it makes |
| `MCImageArchives` | six image names in lists of up to three containers |
| `ImageArchivesProofs` | type correctness and the three properties of the archives |
| `EntityRedaction` | the replacement of named entities in a text |
| `MCEntityRedaction` | every labelling of texts of up to three words |
| `EntityRedactionProofs` | the three properties of the redaction, for every text |

`TopologySync` is the frame: the other modules detail its steps. Its `Collect` is
`RuntimeResources`, then `TopologyMerge` and `DatabaseSchema` over what was found, then
`ProcessFilter`; its `AttachArchive` is `ImageArchives`. `DatabasePass` composes `DatabaseSchema`
with `IntrospectedTables`, which details its columns and keys steps.

`TopologySync` does not repeat the credentials protocol: its identity actions *are* the
actions of `AgentIdentity` (`Identity!Issue`, `Identity!Replace`, ...). That
`AgentCredentials` implements `AgentIdentity` is what allows this; it is model-checked and
proved.

### AgentIdentity

The n-th registration the Gateway accepts is the number n. `issued` counts them, `revoked`
holds those it no longer accepts, `held` is what the running agent works under (0 when it is
not running) and `lastHeld` what it worked under last. It promises that an agent is created
only for a process without an identity or with a rejected one, that a start never goes back
behind the identity used before, and that a running agent changes identity only after a
rejection and only for the newest.

### AgentCredentials

| TLA+ | Code |
| --- | --- |
| `pc[Startup]`, `pc[l]` | the await points of `load_or_register_agent` and of a loop |
| `cfg[t]` | the cloned config a call was made with (`config`, `current`) |
| `fresh[t]` | the config `register_agent` or the recovery returned |
| `fallback` | a failed re-registration of the start is followed by line 70 of `agent.rs` |
| `shared`, `lock` | the config behind the mutex, and who holds it across an await |
| `file` | `.agent_secret`: a credential, `Missing`, or `Corrupt` (truncated and not rewritten) |
| `issued`, `revoked`, `reachable` | the Gateway |
| `lastUsed` | history: the last credential a running agent worked under |

`Load` is `load_local_config` with its three outcomes; `ValidateKeeps` and
`ValidateRejected` are `validate_loaded_agent`; `Register`, `RegisterReplyLost`,
`RegisterUnreachable`, `Truncate`, `Write`, `SaveFails` and `Publish` are `register_agent`
up to the replacement of the shared config, with the callers' reaction to an error in
`RegistrationFails`; `Snapshot`, `CallAccepted`, `CallFails`, `CallRejected`, `Reuse`,
`Recover` and `Retry` are one authenticated call of a loop with its recovery. Only the
mutex acquisitions that are held across an await have a state of their own; a clone or a
compare under the mutex is one step, enabled when the mutex is free.

A discovery pass is, for this module, a sequence of such calls; which ones, and what it does
with the results, is the subject of `TopologySync`. Its upload-URL request for an image
archive has no recovery and changes nothing here.

Abstractions: the Gateway rejects (401, 403, 404) exactly the revoked credentials; any
other error status counts as an outage. A 404 for another reason is thus a revocation. The
deployment token is valid. `SKIP_AGENT_INIT` and `SKIP_AGENT_LOOPS`, both for tests, are not
set.

### TopologySync

| TLA+ | Code |
| --- | --- |
| `pc` | the await points of `start_discovery_loop` and `upload_topology` |
| `pass.force`, `pass.config`, `pass.payload` | `force_upload`; the config of the next request; `payload` |
| `pass.owner` | history: under whose identity the upload URL was obtained |
| `pass.attempts` | `attempts` of `upload_payload` |
| `lastPayload` | `last_payload` |
| `queue` | the messages in the channel behind `SCAN_TRIGGER` |
| `world` | what the host looks like now |
| `objects`, `notified` | object storage; the last `UPLOAD_COMPLETE` the Gateway accepted |

A topology is an opaque value, after redaction; a payload adds the reference of the image
archive exported for it. Each branch of `upload_topology` is an action: the upload URL
with its one recovery, the PUT with its retries, the re-read of the config, the status
update with its one recovery and the error that is only logged. `Tick` and `TakeTrigger`
are the branches of the `select!`, each with the clone of the config that follows it.

Abstractions: all images of a payload are one archive; the backoff between PUTs is time and
leaves no trace; an object is identified with its content (file names carry a timestamp);
the local-development rewrite of the storage host is left to `ImageArchives`.

### TopologyMerge

| TLA+ | Code |
| --- | --- |
| `node`, `exposed` | the `ContainerNode` in the loop, and `deduped` of its bindings |
| `containers`, `routes` | `merged_containers` by `container_key`, the keys of `routes` |
| `read`, `reported`, `clock`, `nodes` | history: the nodes inserted, the bindings read, in order |

A step is one iteration of a loop of the code, so that a behaviour of the module is one
order in which reports and bindings may come. `ReadBinding` is an iteration of
`dedupe_port_bindings`; `FinishNode` is `proto_container_from_node`, `insert_routes` and
`insert_container` with `merge_container`. A set of ports is a function from the port (the
four fields of `PortBindingKey`) to the source it is kept from. `Keep` is both the loop of
`dedupe_port_bindings` (with one binding) and the one of `dedupe_proto_ports` after a merge.

Abstractions: a text is an opaque value, `LowerCase` and `HostName` say what normalization
makes of it; `Nothing` stands for `None`, for the image `"unknown"` and for an empty id;
what holds of the environment holds of the labels, which are merged by the same call; the
volumes and networks of a container are sets. A route is its `route_key`. The insertion of
database schemas is the subject of `DatabaseSchema`.

### ProcessFilter

| TLA+ | Code |
| --- | --- |
| `host` | the processes sysinfo finds |
| `max_processes`, `include_all` | `AEGIS_MAX_HOST_PROCESSES`, `AEGIS_INCLUDE_ALL_HOST_PROCESSES` |
| `poisoned` | the `Mutex<System>` that is held while the filter runs |
| `found`, `reported` | history: what was retained; the list returned |

The names are given by the classes the name tests put them in. `Newest` and `Oldest` are what
`split_off` leaves, `OwnCutOff` whether the agent's own process is in the wrong one of them.
`GetProcessesPanics` is the `remove(0)` that follows when the tail is an empty list (`Panics`): it
fails the pass and poisons the lock, which `get_host_info` also takes. That this is the case
exactly at a limit of 0 is not said by the model; it is checked and proved
(`BreaksExactlyAtZero`).

### Extraction, DockerExtraction, KubernetesExtraction and RuntimeResources

`Extraction` is the trait `TopologyExtractor` as its caller sees it: every kind of resource
is listed once, at some instant, and the answer holds exactly what was listed, or there is no
answer. Both extractors are shown to implement it (`AnswersAsListed`).

| TLA+ (`DockerExtraction`) | Code |
| --- | --- |
| `containers`, `tags`, `withHash` | the daemon: containers, the image each reference stands for, whether a summary has `ImageID` |
| `nodes`, `todo`, `current` | the nodes of `list_active_resources`, those still to be enriched, the one in hand |
| `listed`, `inspected` | history: the summaries; the nodes whose inspection was answered |

`List` is `list_containers` with `map_container_to_node` and the filter; for each node
`TakeNode`, then `Inspect` or `InspectFails`, then `InspectImage` or `InspectImageFails`.
Containers `Stop` and are removed, tags are moved (`Retag`) between any two of these. An image
is its reference (name and tag) or its hash; `Version` is `image_version_from_reference`,
which reads the digest of a bare hash as a tag. Nodes are enriched in any order, which the
code's order is one of. Ports, environment, labels, networks and volumes are copied from the
answers and left out.

| TLA+ (`KubernetesExtraction`) | Code |
| --- | --- |
| `objects` | the pods, services and ingresses of the cluster |
| `pc` in `"Pod"`, `"Service"`, `"Ingress"` | the list that is asked for next |
| `listed`, `resources` | the three lists; the `Ok` of `list_active_resources` |

`ContainerNode` is `map_pod_container` with the status found by name and the security
contexts combined by `container_privileges`; `IsIncluded` the namespace and phase filters.
Images, labels, selectors, volumes and ports of containers are left out.

`RuntimeResources` instantiates both (`Docker!`, `Kubernetes!`) and lets each of their steps be
a step of the collection while it is their turn. `Candidates` is
`unix_docker_socket_candidates`, `Deduped` where in that list the candidates are that stay,
`Reachable` what `connect_to_docker_socket` makes of them: a socket counts if its file exists,
and the first that counts is taken. `ConnectKubernetes` is the guard of `K8sExtractor::new`.
What changes before a source is asked is as good as there from the start, and what changes
afterwards is not seen, so each source changes only while it is asked.

### DatabaseSchema, IntrospectedTables and DatabasePass

| TLA+ (`DatabaseSchema`) | Code |
| --- | --- |
| `reports`, `k` | the container nodes of the payload in order, and the one being read |
| `schemas` | `database_schemas`, by `database_schema_key` |
| `enriched` | `enriched_schemas` of `enrich_database_schemas` |
| `connection` | the `DatabaseConnectionInfo` in use |
| `found` | history: the nodes whose introspection got tables |

A value of an environment variable is what its readers make of it: its text, the number it
spells, the parts of the URL it is. `Redact` is the redaction a node's environment has gone
through, `RawEnv` the in-memory one. A value is masked when the key is sensitive or the value
comes from elsewhere; of any other the patterns (`scanner.rs`) and the entity model leave
`Redacted(value)`, a constant operator: nothing is supposed of it but that its result is a value
again. So it may put anything in the place of a host, a database, a user or a number, or leave
no URL at all. `Schema` and `ConnectionInfo` are the two readings, with the widths of a port on
both sides (`I32`, `U16`). `ReadNode` is the loop of `build_network_topology_from_resources`; then,
per node, `Connect`, the steps of an introspection, each of which may be answered, refused or
never answered, and `TimedOut`; `Apply` brings the maps together.

What `ConnectsAsDeclared` says is said of plain containers (`Plain`): their environment is
readable, at most one of its variables is for a URL, and redaction makes none of their values
lead elsewhere (`LeadsNowhereElse`): it may replace texts, the password of a URL or the whole
URL, but puts no other integer and no other scheme, host, port, database or user in their
place. Where it does, the code connects to what redaction made of the setting, because the
schema's host, database and user come before the raw URL (`database.rs:56`, `:81`, `:97`);
`ConnectsToRawHost` is about that.

| TLA+ (`IntrospectedTables`) | Code |
| --- | --- |
| `server` | the connection, of which the engine and the database decide the queries |
| `contents`, `seen` | the database's tables now; history: as they were at the first query |
| `columns`, `primary_keys` | the rows of the first query not filled in yet; the answer of the second |
| `tables` | the map of `tables_from_columns` |

A row is the position of a table and of one of its columns, `Before` the ORDER BY of the query,
`Selected` its WHERE. The database may `Migrate` until the second query is answered. What that
query takes for the key of a table are the columns of any of its constraints that has the name
of a primary key of the schema, since with PostgreSQL it joins by schema and name and not by
table (`KeyConstraints`), as far as the user is shown the constraint; a failure is none of them
(`ReadKeys`). `FillRow` is a row of `tables_from_columns`. Column types and nullability are
copied and left out.

In `DatabasePass` a step of an introspection is one of both modules: `Introspect` begins one with
the connection in use, `ColumnsAnswered` and `ReadKeys` are the queries, `Tabulate` the agent's
work on them, `TablesAnswered` the result, `Failed` and `Late` the other two ends. The timeout is
over the queries only, nothing being awaited after them; an answer without a table is `Ok` with
none, which is reported like an error.

### ImageArchives

| TLA+ | Code |
| --- | --- |
| `containers`, `k`, `refs` | the payload's containers, the one visited, its archive reference and object |
| `exported` | the map of images already exported in this pass |
| `object`, `url`, `attempts` | locals of one export; the URL is the host dialled and the host it was signed for |
| `minioHost` | `original_minio_host` |
| `storage`, `now` | object storage: whose archive an object holds; the second in file names |

A step is one await of the loop body. An image name is a sequence of words and separators, so
that `Sanitize` and `ShouldExport` are modelled by what they do. The storage accepts a PUT only
with the `Host` its URL was signed for. The content of an archive is the image's name:
`docker save` names the image by its tag, and which image the tag stands for by then is left
out.

### EntityRedaction

`todo` is the part of `redacted_indices` the loop has not come to, `lastPos` and `current` are
`last_pos` and `current_redaction`, `output` is `new_text` as positions of the input and
labels. The tokens come in the order of the text and do not overlap, as the tokenizer makes
them (`TextOk`); those it adds have the offsets 0, 0. What the network infers is an
arbitrary labelling. A slice that would run backwards is the state `"panic"`, which `TypeOK`
excludes; only the special tokens with the offsets 0, 0 could lead there. `Opening` is a token
whose label is not that of the token labelled before it, next to it or not; only those get a
tag, and only their text is replaced.

## 3. Runs

| Run | Instance | Shows |
| --- | --- | --- |
| `credentials` | 2 loops, 4 faults, 2 outages, fairness | `TypeOK`, `NoSpuriousRegistration`, `RestartSafe`, `RetryIsNewer`, `ImplementsIdentity`, `EventuallyInSync`, `CallsKeepBeingAccepted` |
| `credentials_restart` | 2 faults | *violated*: `RestartRecovers` |
| `topology` | 2 topologies, 2 identities, scans and changes, 1 fault and export, fairness | `TypeOK`, `UploadedIsStored`, `NoticeOfOwner`, `Converges`, `ScanForcesUpload` |
| `topology_untold` | 1 scan and change | *violated*: `GatewayIsTold` |
| `topology_merge` | 3 nodes, 3 bindings read | `TypeOK`, `BestSourceKept`, `AttributesReported`, `HashesPaired`, `RoutesMatchPorts` |
| `process_filter` | 3 processes besides the agent, limits 0 to 3 and 100 | `TypeOK`, `ReportedByDefinition`, `BreaksExactlyAtZero` |
| `image_archives` | up to 3 containers, 4 storage hosts, 2 attempts, 2 seconds | `ReferencesResolve`, `ArchiveShared`, `ReplacedHostRestored` |
| `database_pass` | lists of up to 3 of 17 nodes, databases with up to 5 contents, both engines, fairness | `TablesOfOwnDatabase`, `FailuresIsolated`, `ConnectsAsDeclared`, `TablesApart`, `KeysOfOwnTable`, `EnrichmentEnds` |
| `database_address` | the same lists, `DatabaseSchema` alone | *violated*: `ConnectsToRawHost` |
| `entity_redaction` | texts of up to 3 words, 2 labels | `TypeOK`, `OthersKept`, `TagsWhereLabelsChange` |
| `entity_stripped` | the same | *violated*: `EntitiesStripped` |
| `runtime_resources` | 2 containers, 2 images, 3 references, 13 clusters, 2 changes, fairness | `TypeOK`, `SourcesIndependent`, `StatusOfOwnContainer`, `RootAsRun`, `ChosenDaemonAsked`, `ImageOfOwnContainer`, `AnswersAsListed`, `CollectionEnds` |

**Bounds.** `MaxFaults` counts revocations, lost replies, failed saves and crashes together;
four are enough for two rejections each met by a failure and a restart, and for every pair of
loops to race twice. `MaxOutages` is separate so that outages do not eat the faults. In
`TopologySync` a channel of capacity 1 is full after one scan and refuses the second, `MaxAttempts = 2` gives one
retry and one last attempt, `MaxIssued = 2` one replacement (the last identity is not revoked,
so that there is one to converge to). No run uses symmetry. Three bindings in
`TopologyMerge` are enough for a port to be met twice in one report and once more in another,
and three nodes for a merge of a merge; the five bindings there are cover every priority but 0
and two spellings of one port. In `ProcessFilter` one process has a lower id than the agent
and two a higher, so that each limit cuts at a different side of the agent.
`MCImageArchives` has two images of one sanitized name, so that two exports of one second share
an object, a registry with a port, and a digest; two attempts give one retry and one last
attempt; the four storage hosts are two internal ones, `localhost:9000` and a public one. The
nodes of `MCDatabaseSchema` are a server that does not say where it listens, one container
reported twice, nodes without an id, URLs by name, by address and by a name with an address in
it, secrets that are not known, a database redaction takes for a city, a password and a user
long enough for a secret, a port beyond 65535, an empty name, both engines at once; pairs
suffice for two nodes to meet under one key, and the lists of three put a node between them.
`MCDatabasePass` gives every server several contents, from which a migration chooses again: none,
tables of one name in two schemas, columns of one name in two tables, a constraint named as
another table's key, a table without a column, a system schema and two states of one table.
`RuntimeResources` would multiply the possible daemons by the clusters and the
settings; since the sources are asked in turn and share nothing, `MCHosts` is a sum instead:
every container on every daemon without a cluster; two containers; every cluster without a
daemon; one container and a cluster that both change; and nothing to report under every
combination of settings and sockets. Two changes are enough to remove a container and move a
tag between two requests. One cluster has a pod for each of the 81 combinations of users and
`runAsNonRoot`.

**Fairness.** Weak fairness of `StartupStep` and each `LoopStep`: tokio polls every ready
task, the intervals fire for ever, a request ends with a reply or an error, systemd restarts
the process. `OutageEnds`: an outage does not last for ever. In `TopologySync`, strong
fairness of `TakeTrigger`: `select!` picks a ready branch at random, so that a waiting scan
request is not passed over for ever by the tick; weak fairness of `RegisterAgent`,
`AgentStarts` and `ReplaceIdentity`: startup and recovery get the agent an identity, which is
what `EventuallyInSync` shows of `AgentCredentials`. In `DatabasePass` only the agent's own
steps, its timer of five seconds among them, are fair (`PassAgent`): a database need not answer.
In `RuntimeResources` the steps of the collection are: a request to the daemon ends after 120
seconds (`DockerExtractor::new`). That one to the API server ends too is an assumption about the
kube client's defaults (a read timeout); nothing in `k8s.rs` sets one, and without it
`CollectionEnds` is not to be had. The budgets of faults are finite, so liveness says what happens once faults stop; nothing forces a fault to happen.

**What the violated runs show.**

* `RestartRecovers`: a crash, or a failed write, after `save_config` has truncated the file
  leaves one that `load_local_config` cannot parse; every later start fails, although the
  service restarts always (`install.sh:74`). `EventuallyInSync` and
  `CallsKeepBeingAccepted` hold but for exactly that state (`Bricked`).
* `GatewayIsTold`: a status update that fails for another reason than the credentials is
  logged, the upload counts as done, and no later tick repeats the notice.
* `ConnectsToRawHost`: the host of a schema comes from the redacted environment and precedes
  the raw URL, so a database given by an address is looked for at `203.0.113.10`.
* `EntitiesStripped`: `docs/en/telemetry.md:39` and `docs/en/architecture.md:70` have PII
  stripped before anything leaves the host; a token with the label of the one labelled before
  it is passed over, and its text stays: the second word of a name, or a name after other text.

**Other places where words and code differ**, met while modelling; the models follow the code,
and no run is about them:

* `docs/en/architecture.md:32` calls the deployment token one-time and for the first
  registration only; `Recover` and `ValidateRejected` use it again.
* `docs/en/architecture.md:71` calls `database.rs` the persistence of the agent's credentials; that
  is `config.rs`, and `database.rs` reads the schemas of the databases found.
* `src/agent.rs:69` says "No local secret, perform registration"; `RegistrationFails` also leads
  there after the failed re-registration of a stored, rejected credential.
* `src/discovery.rs:78` skips an unchanged topology; a host with a local image is never
  unchanged, because `AttachArchive` comes before the comparison.
* `src/client.rs:177` restores the `Host` of a URL whose host was replaced; `HostHeader` also
  replaces that of a URL the Gateway issued for `localhost:9000` itself.
* `src/domain/mod.rs:58` says `run_as_root` is about UID 0; an empty `Config.User`, which is
  Docker's UID 0, is not reported as root (`IsRootUser`). `src/domain/mod.rs:55` says
  `privileged` is about elevated privileges; it falls back to the negation of the pod's
  `runAsNonRoot` (`Privileged`).
* `src/domain/mod.rs:58` has it "configured to run as UID 0"; a container of a pod without a user,
  whose `runAsNonRoot` is false, is reported to run as root (`RunAsRoot`, `k8s.rs:416`),
  although the kubelet takes the user of its image, whichever that is. `RootAsRun` is silent
  about it, and speaks of every container whose settings decide.

**What nothing in the repository decides.** Two images of a payload whose names differ in
separators only, exported within a second, share an object (`Filename`); of two reports of a
database the later counts, with tables or without (`Enriched`); tables of one name in two schemas
are one (`Fill`); a version may be a tag of the image a reference was moved to (`RepoVersions`). No
statement contradicts any of these, so `ReferencesResolve`, `FailuresIsolated`, `TablesApart` and
`ImageOfOwnContainer` exempt them and bound what is lost to them.

## 4. Proofs

All proofs are for any set of loops, any topologies, payloads, daemons and clusters, and any
bounds, from the assumptions named in the modules, which TLC evaluates in the runs: the names
of the main task and of "no task" are no loops, the bounds are naturals, `ChannelCapacity` and
`MaxAttempts` are positive, `NoTopology` is no topology; payloads are sequences
(`ListsAssumption`), and in those of containers a value, redacted or not, spells at most one
integer and one URL with at most one of each part (`ReportsAssumption`); connections are of the
servers containers describe (`ConnectionsAssumption`); `None` is nothing that exists, no reference
is a hash (`DockerConstants`); a pod has one of the five phases, objects of a kind differ by
namespace and name, containers and statuses of a pod by name, containers that run by id, and
an optional field has at most one value (`KubernetesConstants`); processes have ids of their
own (`ProcessesAssumption`); the tables of a database and their columns are in an order, and
constraints are of columns (`DatabasesAssumption`); tokens are in the order of the text and within it
(`TextsAssumption`).

`AgentCredentialsProofs` proves `TypeCorrect` and then one inductive invariant, `IInv`, from
which the rest follows. None of the three safety properties is inductive:

* `RestartSafe` needs to know what the disk holds while a registration is under way
  (`DiskInv`: between `Truncate` and `Write` the running credential has been rejected, and
  after `Write` the file holds the fresh credential), hence who may be in those states
  (`LockInv`: a loop beyond `Recover` is the holder of the mutex, and there is only one);
* `RetryIsNewer` needs that a fresh credential is newer than every snapshot (`LoopInv`);
* `NoSpuriousRegistration` needs a count: as long as the newest identity is usable, one
  identity per fault, and one more otherwise (`NewestUsable`, `CountInv`), with what startup
  knows in each of its states (`PhaseInv`, `StartupInv`).

`Refinement` shows, from `IInv`, that the initial state maps to an initial state of
`AgentIdentity` and each step to a step of it or to a stutter, with `held` mapped to
`shared` and `lastHeld` to `lastUsed`.

`TopologySyncProofs` proves `TypeCorrect` (with `PayloadInv`: a pass beyond its collection
has a payload) and `UploadsAreStored` (with `StoredInv`: from the PUT that succeeded to the
end of the pass the payload is in storage, whatever happens to the identity meanwhile), and
`OwnersAnnounce` (with `OwnerInv`: whoever holds the identity when the status is sent is the one
the upload URL was obtained under, or that one has been revoked).

`TopologyMergeProofs` proves all five properties of the merge, for any texts, reports and
services and for any number of them:

* `BestSource` rests on one lemma about the two loops, `KeepBest`: if one set of ports is the
  best of some reports (`BestOf`), and another the best of reports that came later, `Keep` of
  the two is the best of all of them. The invariant around it says which reports a container
  (`ContainersInv`) and the node being read (`ExposedInv`) account for, and that reports are
  numbered in the order of their nodes (`OrderInv`), so that the tie between equal priorities
  is decided the same way inside a report and across reports.
* `AttributesKept` and `HashesKept` follow from what one report (`KnownOnce`) and one more
  report (`KnownMerge`) leave in a container; that no report is left out needs that every node
  read has its container (`ReadInv`).
* `RoutesAgree`: the property is inductive together with the types, because the published
  ports of a merge are those of both sides (`PublishedKeep`).

`ImageArchivesProofs` proves `TypeCorrect` (with `InHand`: while an image is being exported, it
is the one of the container being visited, and was not exported before) and the three
properties. `ReferencesLead` needs that a reference is what `exported` has for the image
(`AttachedInv`), and that under this name storage has the archive of that image, or of an image
visited after it and with its sanitized name (`StoredInv`). A PUT, also one that fails in the end
or whose answer is lost, keeps that (`PutKeeps`): the names of two objects are equal only if
second and sanitized name are, and the image being stored is the one visited last
(`StoreKeeps`). `HostRestored` needs that the remembered host is that of the
URL in hand through all retries (`HostInv`).

`RuntimeResourcesProofs` is about the composition. A step of it is at most one step of each
extractor (`DockerSteps`, `KubernetesSteps`), so invariants of one are invariants of both.

* `BothAnswer`: from `DockerStage` (nothing is there before the list) and `ListsInv` (which
  lists there are at each point) every step of an extractor maps to a step of `Extraction` or
  to a stutter. That the resources made of the three lists are about exactly the objects to be
  reported is `NodesOfLists`; it needs that the phases the code leaves out are all but three.
* `ImagesKeptApart`: a container keeps its image and reference while tags move; a node in hand
  has no hash yet but that of the list, and no node is asked about twice (`ImagesInv`).
* `StatusIsOwn` and `RootIsResolved`: what is reported of a container is about one container of
  one pod (`ReportedOne`), since names are unique; the four settings are then taken one after
  the other, which decides three of the four cases as the kubelet does and leaves the fourth
  open.
* `NeitherCosts`: what the vector holds at each point (`VectorInv`).
* `TypeCorrect` adds what is known of the settings and of the endpoint at each point
  (`CollectionInv`) and that nothing of a cluster is reported twice: a resource tells which
  object it was made of (`ObjectOnce`), a container has one status at most and shares it with no
  other (`StatusesTyped`).
* `ChosenIsAsked`: what the user chose is how the list of candidates begins (`ChosenFirst`,
  whatever follows); hence the first candidate that exists and is not a repetition is it
  (`ChosenReachable`).

`DatabaseSchemaProofs` rests on one notion, the last node with a key (`LastWithKey`): the loop
that lists schemas and the loop that reads tables fill their maps one after the other, and each
has a key from the last such node it is through with (`ListedInv`, `ReadInv`). At the end that
is one node, hence `TablesAreOwn`; and tables once read are lost to a later node only
(`FailuresAreIsolated`).

`ConnectsAsItSays` has no invariant of its own: the connection in use is one of the node in
hand (`Stages`), and what remains is that the redacted and the raw reading of a plain container
agree, whatever operator `Redacted` is. The two environments have the same variables
(`SameVariables`), so each setting is read from the same one, the first of its keys that is there
(`Least`, `ValueOfKey`); what redaction leaves of the integer and the URL of a value leads nowhere
else (`RedactedEntry`); with one URL at most, what the redacted reading has of it the raw one has
too (`UrlsAgree`), and what it lacks the raw URL supplies. The port is the exception to both widths being one:
one beyond an `i32` and one beyond a `u16` are lost alike, and the default steps in (`PortOf`).

`DatabaseSchemaProofs` extends `IntrospectedTables` too, whose names are distinct for it
(`TablesSpec`, `TablesNext`). Its invariant `FillInv` says of each table with a name of its own how far it is filled: with the
first m of its columns, the rest being the rows still to come (`FilledTo`). That a row goes to
this table and is its next column (`RowFilled`) needs that rows are taken in their order, and
that no other table has its name. `TablesStayApart` and `KeysStayApart` are `FillInv` with no row
left; for the keys, it says too which constraints were shown when they were queried, and that
the database is not looked at again. `PassIsBoth` maps each step of `DatabasePass` to a step of
either module or a stutter, so that `PassKeepsThem` has the invariants of both in the
composition. `TablesTypeCorrect` adds that nothing
is reported the query did not select, and no table without a column; no run checks it.

`ProcessFilterProofs` has to know first that the list `SortedByPid` chooses exists for any finite set of processes:
the place of a process in it is the number of those with no higher id (`Ranks`,
`SortedExists`). `LimitedIsReport` then shows that cutting such a list at the limit, with the
agent's process put in the place of the last one if it would be cut off, is a report of the set:
of the right length, sorted, with the agent and the highest ids. `FilterInv` says that what
was reported last is a report of what was found, that the lock is poisoned only at limit 0, and
that at limit 0 nothing is ever reported. The last two follow from the length of the tail
(`PanicsWithoutTail`, `NothingLeftAtZero`): it is empty only at limit 0, and there the agent's
own process, always among those retained, has always been cut off.

`EntityRedactionProofs` rests on `EntitiesInv`. `AheadInv`: the tokens still to come start where
the text already copied ends, so no slice runs backwards. `OutputInv`: what is copied is in its
order and ends at `lastPos`, every opening token taken has its tag in its place
(`OpeningsTagged`), and no tag is of anything else (`TagsOfOpenings`). That the code compares with
one variable what `Opening` says of all tokens before is `OpeningIff`, from `CurrentInv`: `current`
is the label of the last token taken that is not special. A replacement (`ReplaceOk`) puts
positions and one tag after what is there; a token that is skipped or repeats the label
(`SkipOk`) changes no opening (`SameOpenings`).

**Towards termination.** `PassAdvances`, `EnrichmentAdvances` and `CollectionAdvances` state what
the end of an export, `EnrichmentEnds` and `CollectionEnds` rest on: a natural number (`StepsLeft`,
`PassLeft`, `Left`) falls with every step of the agent and is raised by nothing, be it a failure,
a change at the daemon or in the cluster, or passing time. It is the product of what is left
to visit and the steps of one visit, less what is done of the present one. `CollectionAdvances`
supposes that the containers a daemon can have (`Ids`) are finitely many, the other two suppose
nothing. That a step of the agent is always possible until the end is ENABLED, and left to TLC.

**Only model-checked** is what the provers here have no reach for: the liveness properties
`EventuallyInSync`, `CallsKeepBeingAccepted`, `Converges`, `ScanForcesUpload`, `EnrichmentEnds`
and `CollectionEnds`, which need fairness and ENABLED. Every safety invariant, action property
and refinement that a passing run checks is proved.

## 5. Not modelled

* Text: redaction patterns, the inference of the entity model, URL parsing, log and error
  wording. Only what is *done* with an error text matters above
  (`is_stale_agent_secret_error`), and is modelled by its outcome.
* Time: the backoff, the 30 s and 15 min intervals and the 5 s and 2 s limits are orders of
  events, not durations. The HTTP client of the agent has no timeout: a request that never
  ends is outside the fairness assumed here.
* `get_containers` and `get_pods`: nothing calls them. The named pipes of Windows. The list of
  sensitive volumes: a match of paths.
* Whether an image of a registry with a port is local (`should_export_local_image` takes it for
  one), which of two database URLs of different engines is meant, and which image `docker save`
  finds under a tag by then: the repository says nothing the code could be compared with.
* The tool `aegis-redact` and the health endpoint: one input, one output, no state.

## 6. Plan

Next, in this order:

1. A composition of `AgentCredentials` with `TopologySync`, in which a pass makes its two calls
   through the recovery.
2. More theorems: a bound on the recoveries of a pass, and what holds of the composition of
   item 1.
