# A TLA+ model of ketebe

ketebe is a vector database server in Rust: collections of records with vectors
and metadata, durable writes, exact, HNSW and lexical retrieval, background
jobs, embedding migration, Kafka ingestion, and a multi-tenant control plane.
This directory models the parts of the server whose correctness depends on
order, interleaving and failure, checks them with TLC on small instances, and
proves the most important results with TLAPS for every value of the constants.

Paths below are relative to `src/crates/`; `server/` stands for
`ketebe-server/src/` and `storage/` for `ketebe-storage/src/`.

## 1. Inventory

| Component | State it keeps | Operations | What makes it hard | What makes it correct |
|---|---|---|---|---|
| Collection store (`storage/wal.rs`, `segment.rs`, `checkpoint.rs`, `compaction.rs`, `wal_reclaim.rs`, `hnsw_snapshot.rs`; `server/runtime.rs`, `write.rs`, `chunking.rs`) | log file, segment files, checkpoint file, index snapshot; in memory the segments, overlay, checkpoint, next sequence, log writer, index | upsert, delete, chunk replacement, parent deletion, seal, compaction, recovery | several files change one after the other; a crash, an I/O error or a dropped request may come between any two; compaction waits without the lock | nothing accepted is lost or comes back, recovery accepts what was written, the index never lags silently |
| Resource scheduler (`server/resource_scheduler.rs`) | six semaphores, gauges | acquire, try_acquire, drop | hold-and-wait over a chain of semaphores; nested requests; dropped futures | permits conserved, shares kept, nobody waits for ever |
| Background jobs (`server/jobs.rs`) | one record file per job, cancellation flags, a concurrency limiter | submit, run, cancel, recover | worker and canceller read, then write; crash with jobs in flight | records match tasks, outcomes final, early cancel prevents the work |
| Lexical builds (`server/write.rs` 891-1131, `lexical_scheduler.rs`, `storage/lexical_index.rs`) | latest fingerprint per collection, snapshots on disk, cached index | schedule, build, retry, install, cancel | builds race with newer checkpoints and schema changes and share temporary files | a query never uses an index of another checkpoint or schema |
| Lifecycle (`server/lifecycle.rs`, `standalone.rs`) | phase, count of admitted writes, the server tasks | admit, drain, join, stop | admission races with draining; lost wake-up | no write is cut off before the deadline |
| Embedding migration (`server/embedding_migration.rs`) | migration state, staged snapshot, cutover journal | start, build, catch up, activate, recover | no lock spans an operation; crash between journal, vectors and configuration | a vector belongs to its record's text; the profile is switched only over complete vectors |
| Model calls (`server/embedding.rs`, `embedding_cache.rs`, `reranking.rs`) | provider registry, shared cache, permits, retries | embed, embed in batches, rerank | batches end out of order, some fail, callers go away, the cache evicts meanwhile | every output belongs to its input, permits come back |
| Documents and chunking (`server/embedding_http.rs`, `chunking.rs`, `token_chunking.rs`, `semantic_chunking.rs`) | the chunks of each parent document | put, delete, cut | embedding without the lock while the schema changes; lengths and overlaps at their limits | the visible chunks are one whole generation; nothing of the text is lost |
| Kafka ingestion (`server/kafka_ingestion.rs`, `stream_ingestion_http.rs`) | buffered messages per partition, recorded revocations, the managed stream and its task; the committed offsets are the broker's | receive, apply, commit, dead-letter, rebalance, create, pause, resume | redelivery, rebalance between apply and commit | at least once, in order, nothing skipped |
| Backup, restore, integrity (`server/backup.rs`, `integrity.rs`) | snapshot and staging directories | create, restore, verify | file-level copying beside a live store, shared staging directories, decay of copies | a restored collection equals the one backed up; what is verified can be recovered |
| Control plane (`storage/control_plane_store.rs`, `server/control_plane_api.rs`, memberships, catalog) | two membership files and one resource file, read and republished whole by each request; catalog, claims, namespaces | create, update, delete, grant, revoke | requests overlap on shared files and one temporary path; several files change one after the other; last-owner rules | no orphan, owners retained, deletion final, a restart accepts the files |
| Access (`server/api_keys.rs`, `service_accounts.rs`, `authentication.rs`, `authorization.rs`, `authorization_http.rs`, `job_access.rs`) | keys and claims in memory and in files, accounts and roles | issue, rotate, revoke, authenticate, authorize, claim | the check and the work are steps apart; memory and file disagree after an error | withdrawn secrets stay rejected, nobody acts without authority |
| Governance (`server/governance.rs`, `organization_governance.rs`, `resource_governance.rs`) | policies, overrides, windows, usage, meters | set, resolve, admit, release | limits change while work is admitted; windows at their edge | limits hold, books match the permits |
| Query runtime (`server/query_runtime.rs`, `query_v1.rs`, `cursor.rs`) | concurrency permits, deadlines; cursors at the clients | admit, search, page, rerank | a page boundary over changing data, a provider that is awaited | every hit once, in order, within the limits |
| Search profiles (`server/search_profiles.rs`) | one file per version | create, list, resolve, delete | check and rename without a lock, crash between write and sync | an answered creation survives |
| Retrieval (`storage/search.rs`, `filter.rs`, `predicate.rs`, `cost_planner.rs`, `lexical_index.rs`, `hybrid.rs`, `hnsw.rs`) | none | search, filter, fuse, rank | ties, empty and undefined values, plans that must agree | results are what a plain definition says |
| MCP retrieval tools (`src/integrations/mcp/src`) | none | search, fuse, assemble a context | budgets, ties, collections that fail | nothing beyond the budget, nothing the filter excludes |
| HTTP and gRPC adapters, SDKs, benchmarks | none of their own | parse, route, format | - | not modelled |

The components meet in one place, the catalog's `RwLock` (every handler of the
write service runs under its write half), and in two shared resources: the
resource scheduler (embedding, lexical builds, compaction and jobs ask it for
permits before they work) and the data directory, which is all that survives a
crash. Jobs call the migration and backup services; writes call sealing, sealing
calls the index and lexical builds.

## 2. Plan

1. (done) `CollectionStore` with its abstract specification `RecordStore`, the
   inductive invariant and the durability proofs; `ResourceScheduler`; `Jobs`.
2. (done) `ControlPlane`, `KafkaIngestion`, `Lifecycle` and `Standalone`.
3. (done) `EmbeddingMigration`, `LexicalBuild`, `Backup`, `Access`, `Governance`,
   `SearchProfiles`, `Query`, `Documents`, `Embedding`; the algorithms `Retrieval`,
   `Scoring`, `Hnsw`, `Chunking`, `AgentSearch`, `Codec`, `Integrity`.
4. (done) Proofs: `CollectionStore` (durability, the index, the refinement of
   `RecordStore`), `ResourceScheduler` (`SchedulerInv`, `SharesKept`), `Jobs` (`JobsInv`, `OutcomeIsFinal`), `ControlPlane`
   (all four properties), `Access` (`AccessInv`, `WithdrawnSecretsRejected`),
   `LexicalBuild` (`LexicalInv`), `Backup` (`BackupSound`, `LiveWritesKept`),
   `KafkaIngestion` (`DeliveryInv`, `RunningHasTask`), `EmbeddingMigration`
   (`MigrationInv`, `SwitchIsComplete`).
5. Candidates for more proofs: `BooksMatchPermits` and `EffectiveNoLooser` of
   `Governance`, the permits and the cache of `Embedding` apart from the order of results.
6. Candidates for more modelling: the temporary file of `collection.json`, scoped
   layouts in backups, the audit log, the MCP adapter's own rate limit.

## 3. Modules

| Module | Models | Checked by |
|---|---|---|
| `CollectionStore` | one collection, its files, its handlers, crash and recovery | runs `store_*` |
| `CollectionStoreInvariant` | the inductive invariants `IInv` and, with the index, `IndexedInv` | proofs |
| `RecordStore` | what a collection promises: a map that only writes change | refinement target |
| `CollectionStoreRefinement` | the refinement mapping to `RecordStore`, its invariants `RefinementInv` and `TailInv` | run `store_refinement`, proofs |
| `MCCollectionStore` | TLC instance | runs `store_*` |
| `CollectionStoreProofs` | theorems: types, durability, the index, the refinement | TLAPS |
| `ResourceScheduler` | the global scheduler | run `scheduler` |
| `Lifecycle` | phase, write admission, guards, the wait for admitted writes | run `scheduler` |
| `Standalone` (extends `Lifecycle`) | the process: server tasks, signal, drain, deadline, restart | run `scheduler` |
| `Jobs` | job records, workers, cancels, recovery | run `jobs` |
| `ResourceSchedulerProofs`, `JobsProofs`, `ControlPlaneProofs`, `AccessProofs`, `KafkaIngestionProofs`, `EmbeddingMigrationProofs` | theorems about one component each | TLAPS |
| `MaintenanceProofs` | theorems about `LexicalBuild` and `Backup` | TLAPS |
| `ControlPlane` | the control plane's files, requests on several worker threads, start-up | run `control_plane` |
| `KafkaIngestion` | ingestion tasks, the managed stream, the consumer group around them | run `ingestion` |
| `EmbeddingMigration` | migration of a collection to another embedding profile | run `embedding` |
| `Embedding` | calls of embedding providers and rerankers, with the cache | run `embedding` |
| `LexicalBuild` | background builds of the lexical index | run `maintenance` |
| `Backup` | backups and restores | run `maintenance` |
| `Access` | keys, accounts, claims and the checks before a handler | run `administration` |
| `Governance` | limits of projects | run `administration` |
| `SearchProfiles` | the files of search profiles | run `administration` |
| `Query` (extends `Scoring`) | queries beside writes: admission, pages, reranking | run `query` |
| `Documents` (extends `Chunking`) | documents stored as chunks | run `query` |
| `Retrieval`, `Scoring` | visibility, predicates, search, plans; lexical scores, fusion, reranking | run `query` |
| `Hnsw`, `HnswFile`, `Chunking`, `AgentSearch`, `Codec`, `Integrity` | pure algorithms and file formats | run `query` |

`MCScheduler`, `MCEmbedding`, `MCMaintenance`, `MCAdministration` and `MCQuery` put
several components into one TLC instance. They do not interact there: the variable
`part` picks the component a behaviour runs, the others stay in one initial state.
`MCRetrieval` and `MCAlgorithms` hold the bounded inputs of the algorithms and their
reference definitions; an input is one state. `MCJobs`, `MCControlPlane`,
`MCKafkaIngestion` and `MCCollectionStore` instantiate one component each. `Hnsw`,
`HnswFile`, `Chunking`, `Documents` and `Codec` use RECURSIVE operators, where the code recurses or
loops over a growing structure, and are for TLC only.

### 3.1 CollectionStore

State. `wal` is `wal.log` as a sequence of frames (a frame is a mutation with its
sequence number; `Torn` stands for the bytes of a half-written one), `segFiles`
the directory `segments/`, `ckptFile` and `hnswFile` the published checkpoint and
index snapshot. `segments`, `mutable`, `checkpoint`, `nextSeq`, `writer`,
`walLast` and `hnsw` are the fields of `CollectionRuntime` and `Wal`. `pc` is the
place each task has reached in its handler, `staged` the segment id the lock
holder has chosen. `committed` and `damaged` are history variables.

Data is abstracted to what versions need: a record id, a content, a sequence
number. `Newest` is the latest-sequence-wins merge that `from_mutations`,
`compact_segments` and the query overlay all perform.

Actions. A write is one step (`AppendBatch`): validation, sequence numbers, the
append and the overlay all happen under the lock, and `append_batch` is the only
file operation; what an interrupted append leaves in the file is
`PartialAppend`, used by `CrashInAppend` and `AppendFails`. Sealing is
`SealPublishSegment`, `SealPublishCheckpoint`, `SealReclaim`, `RebuildIndex`;
compaction is `CompactStart`, `CompactCheck` (it then waits for a permit without
the lock), `CompactPublishSegment`, `CompactPublishCheckpoint`,
`CompactInstall`, `CollectSegment`, `CollectDone`, `RebuildIndex`. Every file operation has a
failing twin that covers both outcomes of a rename followed by an error.
`HandlerDropped` drops a handler's future at an await. `Crash` may come at any
step. `Recover` is `recover_with_threshold` for one collection: named segments,
checks against the checkpoint, replay of the log from the checkpoint on, next
sequence number, index restored or rebuilt. `RecoverRefused` is an error there,
after which the server does not start.

`damaged` becomes true when bytes are appended behind an unclean tail (a torn
frame, or frames of a failed append that the writer does not know about). From
then on the file may not be readable, see Findings; the safety properties are stated for
histories without it, and the runs reach both.

### 3.2 ResourceScheduler

Clients walk along `Order`, the semaphores as `acquire_inner` asks for them, and pass by those
their kind of work needs nothing of; `at` is how far they are, so what a client holds
(`Held`) is a function of its position and its kind. The counter `avail` and the gauges
`queued` and `activePermits` are kept beside it, as the code keeps them; the properties say that they agree. tokio's semaphore is external and modelled as
documented: first come first served, all permits of one request at once,
nothing for `try_acquire` while somebody waits. A nested client works inside its
outer one (a catch-up job embeds through `embedding_cache.rs`).

### 3.3 Jobs

`jobs` is the directory of records; the store's mutex makes one `get` or one
`update` atomic and nothing more, so the worker's read, decision and update are
separate steps, as are the three of `cancel`. Store errors may hit any of them.
A restart drops all tasks and runs `recover_interrupted` record by record before
the server is ready; an error there ends the start-up.

### 3.4 ControlPlane

State. `final` and `temp` are the published and the temporary version of
`control-plane.ktcp` (`cp`), `organization-memberships.json` (`om`) and
`project-memberships.json` (`pm`). A version has its content, or `Unreadable`
for bytes that do not decode, and the threads that still hold it open for
writing: a writer keeps its file across a rename, so what it writes may land in
the published one. `pc`, `call`, `store`, `target` and `next` are a thread's
request: its place, its arguments, the copy of the resource file it works on,
the file it publishes and the content. `catalog`, `claims`, `spaces` and `data`
say which projects have a collection in the namespace catalog, in
`authorization.json`, as a directory and in memory; `keys` which have an API key.
`clashed` is a history variable: the files two requests had open at once.

Actions. `Begin` admits a request; `Authorize*`, `LoadProject` and the twelve
operations read the files and decide; `Publish` leads to the steps of a
publication: remove or create the temporary file, write, rename, each of which may fail. Creation then
adds the first owner and undoes itself if that fails, deletion purges the
memberships; a collection goes through catalog, claim, namespace and data, and
back. `Crash` loses everything but the files and may cut any publication; start-up is
modelled with the checks of `bootstrap_migration.rs` and `runtime.rs`, which end in
`up` or `refused`.

Abstractions. A guard that reads two files reads them at one instant. The
catalog, the claims and the keys have one instance with a mutex in the server,
so their operations are atomic. A project has at most one collection name. A
crash is a crash of the process, not of the machine (the membership files are
not synced before their rename). Names, timestamps, audit events and read-only
requests are left out.

### 3.5 KafkaIngestion

State. `task` has one record per ingestion task: its place in the loop of
`run_kafka_ingestion` (`pc`), the buffers, the revocations the rebalance callback
has recorded and the partitions still to flush. `committed` and `members` belong
to the consumer group, `stored` is what the write service has applied last for
each record, `stream` is `MANAGED_STREAM`. `handled` and `stale` are history
variables.

Actions. `LoopTop`, `Receive`, `Linger` and `ClientError` are the loop;
`WriteRecord`, `PublishDlq` and `CommitAck`, each with a failing twin, are the
steps of `flush_partition` between its awaits; `Flush` finds the next partition with
messages and `BeginBatch` the next batch of it.
An operation that fails may have taken effect all the same. A task that was
aborted runs on to its next await. The failure of the configured task panics the
process; that of the managed one is recorded in the stream.

The group is external: one owner per partition, revocation and assignment while
the member polls, expulsion of a member that does not, commits accepted from every
member. A message is good, poison (does not decode) or without payload; good
messages are upserts of one record.

### 3.6 Lifecycle and Standalone

The write gate makes admission and the change of phase one step each. Dropping a
guard is two, decrement and notification, and so is the wait: the `Notified`
future is created, then the counter is read. `Standalone` runs
`run_standalone_from_env` around them: `select!`, drain, join in order, deadline.
Each transport has one write in flight. A transport stops by itself only after
draining began and its requests were answered.

### 3.7 EmbeddingMigration

State. `state`, `snapshot` and `journal` are the three files of a migration, `active`
is the profile in `collection.json`, `live` the managed records with the profile and the
text their vector was made from, `running` the entry in `ACTIVE_MIGRATIONS`, `builder`
the spawned `build_snapshot`, `op` the handler each actor is in.

Actions. `Start*`, `Build*`, `CatchUp*`, `Activate*`, `Journal*`, `Publish`, `Finalize`
and `Recover*` are the steps of the handlers between which a file was written or the
catalog lock was released; the start-up recovery is the same `Recover` with the actor
`Boot`. `WriteProvider`, `WriteProfile` and `WriteUpsert` are a user's embedding write,
which chooses the provider, reads the profile and writes at three instants. `Crash` and
`Restart` may come at any step, and a failing step leaves the files as they are.
A recovery may run inside the `status` call of an activation; `recover_finalize` and
`finalize` tell its switch from the activation's own. `recs` is what a handler carries
across its steps: the records it read, the vectors it staged, the batch it will publish, or
the snapshot that recovery has compared with the live records.

### 3.8 Embedding

A call walks through `lookup`, `batches`, `insert`; batches wait for the call's
limiter and the provider's permits, are sent, answered, retried or refused, in any
order. The cache is a map with an order of use; texts with one `Canonical` form share a
key. `Drop` is a caller that goes away. The reranker's loop is the second client of
the permits; it differs in what it retries.

### 3.9 LexicalBuild

State. `latest`, `cache` and `status` are the scheduler's map, the installed index and
the reported state; `indexFiles` and `temps` the published and temporary snapshot per
fingerprint with the builder that wrote it. A fingerprint is the checkpoint together
with the schema.

Actions. `Seal` and the schema change end in `ScheduleRead`, `Register`, `Spawn`; a
builder goes through `Acquire`, `Check`, `Publish*`, `GarbageCollect`, `Built`,
`Compare`, `Result`, `Done`, may fail in every attempt, and leaves. `Query` is what a
query leaves behind, `Answer` which index it uses.

### 3.10 Backup and Integrity

A directory is a function from file names to contents. `create` copies file by file
under the catalog's lock, verifies, writes the inventory and renames; `restore`
materializes into `.restore-staging/<id>`, checks the inventory, verifies, and
publishes under the publication gate and the lock. Clients write, seal and delete
between the steps, a copy may decay, the server may crash. `shared` remembers the
backup ids on which two operators worked at once.

`Integrity` compares the verifier's report with what recovery accepts, for every
directory of a bounded set.

### 3.11 Access

`memKeys` and `diskKeys`, `memPolicy` and `diskPolicy` are the two copies the code
keeps: a failed save leaves them different until a restart. A request is in `Arrive`,
`Authenticate`, `Authorize`, `CheckQuota` and `Handle`; creation and deletion of a
collection then go through scope, claim and data. Administrators change accounts, roles,
keys and permissions between any two of these.

### 3.12 Governance

Every lock of the three services is one step. Admission reads the clock, then the limit,
then takes the lock of the windows (`BeginAdmit`, `ReadLimit`, `Admit`); setting a limit and
dropping the old window are two locks (`ApplyRate`, `RemoveWindows`). `resolve_project_policy`
is `Effective`.

What the windows promise is less than it seems, because a request may read the clock, stall,
and count in a window that began later. With a limit of 2 per unit of time two requests can be
admitted at 0 and three more, which also read 0, in the windows of 1, 2 and 3. `granted` therefore
remembers, since the limit last changed, when the first window began, how many requests were
admitted, and when those that were not late for their window read the clock. `RateBounded`
says that the total, late requests included, is at most the limit for each window length between
the first and the present window and once more; and that the requests which were not late are
fewer than twice the limit in any stretch as long as a window.

### 3.13 Query

A request is resolved against a profile (`Resolve`: `top_k`, execution, candidate counts, fusion constant, reranking, timeout), validated and admitted (`Submit`); retrieval
under the read lock is one step (`SearchPage`, `SearchAll`), reranking another one after
the lock is gone. A request may give the number of dense and lexical candidates, which decides
whether its budget admits a hybrid search. A cursor is bound to predicate, execution and
profile (`CursorQuery`) and to the snapshot it was made for; one metric per collection and one
request vector stand for the rest of its hash. A search that needs an index which is not there fails
(`DenseSearch`). `pages` keeps the ranking at the first page as history. Writes, deletes and
the clock go on between the steps; `Abandon` drops a handler. `AnswersWithinLimits` is about
answers without pages: a page fetches one row more than was asked for.

### 3.14 Documents and SearchProfiles

A PUT of a document reads the schema when it is routed (`Put`), again in the service
(`Prepare`), embeds without a lock and replaces the chunks (`ReplaceParentChunks`); the
collection may be dropped and created anew meanwhile. The file system calls of
`search_profiles.rs` are one step each; `durable` is the directory a crash of the machine
leaves.

### 3.15 Algorithms

`Retrieval` has predicates with their three outcomes, the plans of `cost_planner.rs`,
exact, filtered and paged search; `Scoring` the inverted index, its snapshot, BM25 order,
fusion and reranking; `Hnsw` insertion with pruning, layered search and the checks of a
loaded graph; `HnswFile` the index snapshot file in both formats, loaded for the checkpoint,
metric and configuration it was made for and for others;
`Chunking` the three ways to cut a text; `AgentSearch` the retrieval tools
of the MCP server, with fusion and the reranking of its result. Of the metadata with a reserved name the
answer never shows source and content; the other reserved names (chunk, embedding) it shows only when
freshness was asked for, which is what `project_metadata` does; `Codec` the frames of the log and the entries of segments, read back
after every cut. Numbers are integers: scores keep the order of the code's floating
point values, not the values.

## 4. Runs

| Run | Shows |
|---|---|
| `store_faults` | two faults anywhere in writes, seals, compaction and recovery, torn and failed appends included: the files always determine every accepted write (`DurableAtEveryStep`), recovery accepts them (`RestartNotRefused`), sequence numbers are not reused, the index a query may use indexes the current records, no unsealed data without a log writer, segment files immutable |
| `store_refinement` | batches of two, chunk replacement, parent deletion, one fault: the collection implements `RecordStore`, and queries see exactly the newest accepted versions |
| `store_liveness` | two writers, two compactions: every handler ends, a full overlay is sealed |
| `store_torn_tail` | refutes `RestartReconstructs`, see Findings |
| `scheduler` | the default budget; embedding, lexical build, compaction, job and the job's own embedding compete, one future is dropped, one client tries instead of waiting: no permit is lost (`SchedulerInv`), shares are kept (`SharesKept`), every waiting request is served. And the process: writes on two transports, signal, two faults, restarts: a drain cuts off no admitted write but by its deadline or a crash, and ends by itself (`DrainCompletes`) |
| `jobs` | two jobs of two kinds, a cancel request that may come back, one crash, one store error: records match tasks, gauge and permits, an early cancel prevents the work (`JobsInv`), outcomes are final, without faults every job ends |
| `control_plane` | two worker threads, five requests out of every operation, one crash or I/O error: every snapshot that can be read is consistent, every file can be read unless two requests overlapped on it (`ControlPlaneInv`), a resource keeps an owner, can be managed, and collections belong to a project that exists (`OwnersRetained`, `ResourcesAgree`), deletion is kept by every request that does not overlap (`DeletingKept`) |
| `ingestion` | two tasks in one group, one of them configured or both managed, one rebalance, three stream requests, one fault; topics with good, poison and empty messages: no offset is committed before everything below it was handled, first delivery is in order, redelivery does not hide a committed message (`DeliveryInv`), a stream that says it runs has a task, a consumer left alone reaches the end |
| `embedding` | racing starts, catch-ups and activations, a user's write, one crash or error, start-up recovery: vectors are those of their record's text (`MigrationInv`), the profile is switched only over the vectors of the records it is switched for (`SwitchIsComplete`). And two callers of a provider, one of them also of a reranker: every output belongs to its input, permits come back, refusals are final, a call can always go on (`EmbeddingInv`) |
| `maintenance` | two callers that seal or change the schema, two builders with a failing attempt, deletion, drain, restart: registrations have a builder, Ready is honest, queries use the index of the current checkpoint and schema (`LexicalInv`). And two operators that create and restore while the collection is written, sealed, deleted, with a crash or a damaged copy: a restore publishes the snapshot (`BackupSound`), a live collection is never replaced (`LiveWritesKept`) |
| `administration` | one key and one account, two projects, two collections, two requests, four events: authority was held during the request, the quota is exceeded only by creations that raced (`AccessInv`), withdrawn secrets are rejected. Three submitters to the rate windows, two to the budgets, under two policies: windows, books, inheritance (`GovernanceInv`). Two handlers, two versions, one crash: answered creations survive, only a race replaces a version (`ProfilesKept`) |
| `query` | every bounded input of the algorithms against its reference: `RetrievalCorrect` (visible versions, top k, pages, predicates, lexical search and snapshots, fusion, reranking, HNSW), `FilesCorrect` (log, segments, integrity report), `ChunkingCorrect`, `AgentSearchCorrect`. Two clients page and query three records beside writes: pages are those of one snapshot, answers keep the limits, permits match the queries (`QueryInv`). Two clients put documents: whole generations, cut by the schema (`DocumentsInv`) |

A property whose name ends in `Inv`, `Correct`, `Kept`, `Agree`, `Sound`, `Completes` or
`Progress` is a conjunction; its comment names the parts, which are defined above it, one
per idea, each with its own explanation.

Bounds. Three sequence numbers and two records are enough for an overwritten, a
deleted and a rewritten record to be spread over log, overlay, two segments and a
compacted one; four segment ids allow two seals, an orphan and a compaction (seven in
the liveness run, so that ids do not run out); two faults allow a crash after an
I/O error and a crash during the work after a recovery. Two jobs and one permit
make one job wait for the other. The scheduler run uses the budget the server
really has (`ResourceBudget::default`, nothing overrides it); its five clients
exceed both the memory units and the shared slots. The control plane has the default organization and project and one more of each, two
subjects and two slugs: enough for a last owner, a clash of slugs and an
organization that still owns a project; two overlapping requests already show every lost update. Ingestion has one partition (partitions share nothing but the task's loop), batches of up to
two and topics of up to three messages: a poison message in the middle of a batch, one
at its start, and a redelivery that overwrites; three requests are a create, a pause
and a resume. Two foreground writes are enough for one to end while the other runs.
A migration has two records of different texts, three profiles and three calls: a
catch-up and an activation that race, and a recovery. Two builders and two changes make
an outdated builder and a newer one (a third fingerprint is left to the proof); two attempts make a retry. Three
calls of create and restore are two backups of one collection or a backup restored twice.
Four administrative events are enough to issue, rotate, revoke and restart. Three submitters
under a limit of two per unit of time and a clock that ticks twice already exceed twice the limit in one unit once
late requests are counted: the exception in `RateBounded` is needed. Pages of one hit over three
records have a middle page; a limit of four candidates admits a hybrid search with its full
budget and refuses one that asks for more dense candidates. Records, values, tasks and threads are
interchangeable and declared symmetric where no liveness is checked.

Deadlock checking is off where bounded sequence numbers, faults or a drained process
end all activity, and on for the scheduler, the process and ingestion. Where it is off for
the model calls, `CallsCanGoOn` says that a call under way is never stuck.

Fairness. Tokio polls tasks that can run, its `RwLock` and `Semaphore` are fair queues,
so a handler that has started, a worker and a queued request go on (weak fairness of
each task). No client is obliged to call, no crash, restart or cancel is
obliged to happen. There is strong fairness on releasing a resource permit (a
job embeds finitely often, so the moments at which it could end recur until it does)
and on receiving a message or an assignment (both wait in the client until the
task polls again). Admitted writes end. The shutdown deadline is not assumed: the
drain has to end without it.

## 5. Proofs

`CollectionStoreProofs` proves, from
`StoreAssumption` alone (any sets of records, values, tasks and segment ids,
any thresholds and bounds):

* `TypeCorrect`, `WriterNeverMissing`;
* `AcceptedWritesSurvive`, `FilesDetermineRecords`, `RecoveryAlwaysAccepts`,
  `SequencesNeverReused`, `SegmentFilesImmutable`;
* `IndexShowsRecords` (`IndexAgreesWithRecords`);
* `RecordStoreImplemented` (`ImplementsRecordStore`) and `RecordStoreUntilDamaged`.

None of these is inductive. `IInv` (in `CollectionStoreInvariant`) adds what the
handlers rely on: the lock has one holder (`LockInv`) and finds the segment it staged
(`StagedInv`, `StageInv`); the log increases and is whole up to its last frame
(`LogInv`); a frame in it is accepted or newer than everything accepted
(`FrameInv`, which is what makes unacknowledged frames harmless when recovery
adopts them); files and memory each cover the history, split at their own
checkpoint (`FilesInv`, `RuntimeInv`). The two checkpoints differ exactly while a seal or a compaction is between
publishing and installing, which is why the invariant states the split twice.
The proof has one lemma per action group and conjunct, `InvariantHolds` combines them.

The index needs `IndexedInv`, that is `IInv` with `IndexInv`. A rebuild publishes the index snapshot without
regard to what a later seal or compaction publishes, so the snapshot on disk may be arbitrarily old.
`IndexInv` therefore does not relate it to the collection but to the checkpoint it carries:
it shows the versions visible among the accepted mutations up to that checkpoint's sequence number, and
this stays true whatever is accepted later, because later mutations have larger numbers. With
`FilesInv` it follows that a snapshot whose checkpoint equals the current one
shows the current records whenever the overlay is empty: comparing checkpoints at
recovery is enough.

The refinement of `RecordStore` maps a record to its newest version in memory, or to the
one recovery would read while the process is down, and counts changes by the last sequence number.
While the process runs, what is visible is what the accepted mutations show; while it is down, what they
show together with the frames recovery would adopt (`FilesShow`). A write adds mutations newer than all
accepted ones, so it changes the records as its batch says and no others (`FramesApply`). The hard step is a
crash: frames that a failed append left in the log become records. `BacklogInv` says that they are a batch, or
the first part of one, which carries on from the last accepted number, so that such a crash is
`StopInWrite` and any other `Stop`; it needs in turn that `nextSeq - 1` is the number of an accepted mutation.
`Recover` is `Start`, and every other step leaves the records alone. This holds up to the first append
behind an unclean tail (`RecordStoreUntilDamaged`, for all values of the constants). With
`CleanTails`, no torn frame and no failed append, `TailInv` shows that there is no such append,
and the collection implements `RecordStore` (`RecordStoreImplemented`). The hypothesis is
needed: run `store_torn_tail` shows what happens without it. TLC checked `RefinementInv`, `TailInv`
and `ImplementsUntilDamaged` before they were proved, the last also with torn and failed appends,
batches of two and two faults.

`ResourceSchedulerProofs` proves `SchedulerKeepsBooks` (`SchedulerInv`) and
`SchedulerKeepsShares` (`SharesKept`) for any finite set of clients of any kinds and any budget
that `ResourceBudget::validate` accepts. The inductive invariant `Books` is exact: of each
semaphore, what is available and what the clients hold at their positions add up to the
limit (`PermitsConserved`), and the gauges count the clients that are admitted and those that
wait (`GaugesExact`). Bounds alone would not do: that no subtraction goes below
zero follows only from the exact sums. The shares follow from the order of the semaphores:
whoever holds a slot without high priority has passed the `nonHigh` semaphore before and holds
a permit of it, so a set of such clients is no larger than that semaphore's limit.

`ControlPlaneProofs` proves all four properties of the run, for any organizations, projects,
subjects and slugs, any requests and any number of threads, faults and restarts.

* `DiskInv` gives `ControlPlaneKeepsDisk` (`ControlPlaneInv`) and `ControlPlaneKeepsOwners`
  (`OwnersRetained`). Overlapping requests lose updates, so no invariant can relate what is published to what was
  decided. Instead every content anywhere, published, temporary, about to be written or held as
  a copy, is consistent by itself (`GoodFiles`, `GoodCopies`): a rename puts one of these in
  the place of another. `OneWriter` says that a file nobody overlapped on has one writer and
  is published complete. `Phase` is what the place of a request tells about what it holds.
* `AgreementInv` adds what gives `ControlPlaneAgrees` (`ResourcesAgree`) and
  `ControlPlaneKeepsDeleting` (`DeletingKept`): a request whose file nobody else has open
  holds a current copy, and what it will rename is the change it decided on (`Fresh`); record and members
  agree except for what a request in the gap between its two files names, and such a
  request knows what it owes (`AgreeInv` with `Between` and `Halfway`); catalog, claim,
  namespace and data are nested, and an entry that comes or goes has one request that handles it
  (`CatalogInv`); what has a collection, or a request that builds one, is a project that exists and
  that no deletion is about to remove (`OwnedInv`). The last part is where the two orders meet:
  creation enters the catalog and then asks whether the project is active, deletion works on a
  copy that says `deleting` and then looks into the catalog. TLC checked `AgreementInv` first, on the
  instance of the run and on one with a second project besides the default.

`DiskInv` has to say that the default organization is there and has no members.
`bootstrap_default` (`control_plane_store.rs:49`) adds it to a file that lacks it without looking
whether its slug is taken; that is harmless only because nobody ever is a member of it, so
nobody is authorized to delete it.

The proof of `OwnedInv` failed at first, and TLC confirmed why, with a second project:
two requests that overlap on `project-memberships.json` can fail the first owner of a new
project, and the rollback then deletes the project without asking the catalog
(`control_plane_api.rs:372`), which orphans a collection created in it meanwhile. The premise of
`CollectionsOwned` names that file too.

`JobsProofs` proves `JobsSafe` (`JobsInv`) and `OutcomesFinal` (`OutcomeIsFinal`) for
any number of jobs, callers, kinds and permits. `JobsIInv` adds to the shapes: a task or a
cancel request exists only in an open process and for a record that exists (`Owners`);
the place a task has reached says which states its record may have (`Progress`), as long
as no store error has come between them; every permit is free or with one task, and the
gauge counts the executing ones (`Counts`); a job cancelled before its worker looked is
still cancelled, and its task can only find that out (`History`). The last part is what
makes the early cancel survive the worker's read, decision and update.

`AccessProofs` proves `AccessSafe` (`AccessInv`) and `WithdrawnStayOut`
(`WithdrawnSecretsRejected`) for any sets of accounts, keys, projects, collections and
requests, and any quota; the assumption `AccessConstants` says that the sets counted are
finite and that `None` is no project. `AccessIInv` relates the two copies of a key: what is on disk is in
memory for the same account and project, and no copy has a secret that was not generated
(`KeysAgree`); a withdrawn secret is older than, or revoked in, both copies
(`WithdrawnDead`), which is why a restart that loads the file does not revive it.
`RolesHeld` says that a request acts with a role its account had at some moment since the
request arrived, although roles change between its steps. `QuotaKept` counts the claims
together with the creations that have passed the quota check, so that it is preserved by the
claim itself.

`MaintenanceProofs` proves `LexicalSafe` (`LexicalInv`) for any number of callers,
builders, slots, attempts and schemas. Besides the shapes, `LexicalIInv` has two parts of
the property, each of which mentions the places of every builder and caller: a registered
fingerprint has a builder or a caller that brings one (`RegistrationHasBuilder`), the status
is ready only with the cached index (`ReadyIsCached`); and the holders of a slot are at most
as many as the slots (`SlotsKept`). That a query never uses another index follows from them
and from what `query_lexical_index` compares.

It also proves `RestoresAreSnapshots` (`BackupSound`) and `LiveCollectionsKeepWrites`
(`LiveWritesKept`) of `Backup`, for any operators and any bounds. `BackupIInv` follows the
snapshot from place to place, for backup ids no two operators worked on at once: while a create copies, its
staging directory is the part of the collection not on its list (the lock it holds keeps the
collection still, `LockHeld`); from then on the directory's content is what the create has
seen (`CreateState`), then what the inventory lists (`BackupKept`, which says nothing of the copies beside
it, since these may decay), and at last what a restore finds equal to the inventory, stages and
publishes (`RestoreState`). `Alone` is what makes `shared` sufficient as an exception.

`KafkaIngestionProofs` proves `DeliverySafe` (`DeliveryInv`) and `RunningStreams`
(`RunningHasTask`) for any topic, any number of partitions, tasks, rebalances, requests and
faults. None of the delivery properties is inductive: what a commit may skip depends on what is in
the buffers. `IngestionIInv` has three groups. `Shapes`: types, and that what is left of a batch is
the end of the clean prefix of the buffer under flush (`FlushShape`). `Delivered`:
whatever precedes a buffered message was handled or is buffered before it
(`BuffersCovered`), the same for a consumer's position (`PositionsCovered`), and the
messages of a batch that are done with were handled (`AppliedHandled`); a receive keeps the
first by the second, an assignment the second by `NothingSkipped`, a commit
`NothingSkipped` by the first and third. This group needs no assumption on who holds a partition, which is why nothing is
skipped even when two tasks work on one partition. `Held`, for partitions that were never handed out too early:
one member is assigned a partition, one task has its messages (`OneConsumer`, `OneHolder`), the
buffer goes on from the committed offset without a gap (`BuffersFollowCommit`), and what is
done with is stored (`AppliedStored`); so a write is never older than what is
committed. `HandleRuns` and `DrainsWhenAsked` carry `RunningHasTask`: a task stops
without a failure only when the process drains, and only a task that is no longer the
stream's is aborted. The same invariant was checked by TLC, also with two partitions, before it was proved.

`EmbeddingMigrationProofs` proves `MigrationSafe` (`MigrationInv`) and `SwitchComplete`
(`SwitchIsComplete`) for any finite set of records and any profiles, texts, calls, writes
and faults; besides finiteness `MigrationConstants` says that `None` is no profile. Neither
is inductive, because a vector travels through the builder, two files and a handler before it
is published. `MigrationIInv` says of each of these places what it owes to the live records: a
copy whose sequence number is still the record's has the record's text (`Copied`), a staged
vector whose sequence number is still the record's embeds that text (`Staged`), and a pending record
is whole by itself (`Whole`). Since every change gives a record a new sequence number
(`Grows`), no step of anyone else disturbs them, so overlapping calls need no lock for this.
For the switch, `HandlerOK` keeps what lies behind the frontier: while `activate` is about to
publish, the live records that are not in its batch are newer than the frontier; once it has published,
every live record is. For recovery, a record it compared that is still below the frontier is the
one it compared. `Sound` and `ProcessOK` add that a migration that was ever ready has a
snapshot and that start-up recovery runs alone. That `last_frontier_sequence` lies below the
next sequence number needs a greatest element (`MaxBelow`), from the well-foundedness of the numbers.
The same invariant was checked by TLC before it was proved, exhaustively under bounds like
those of the run and in random behaviours of up to twelve calls, four writes and three faults.

In each of these modules one lemma says what each operation does to the state it
touches, one lemma per part of the invariant goes through the operations, and a last one combines them.

Only model-checked:

* all liveness properties and the parts that contain ENABLED (`CallsCanGoOn` in
  `EmbeddingInv`): TLAPS here does not do fairness or ENABLED;
* what recursive definitions, folds and sorting compute: `Hnsw`, `HnswFile`, `Chunking`,
  `Codec` and with them `RetrievalCorrect`, `FilesCorrect`, `ChunkingCorrect`,
  `AgentSearchCorrect`, `DocumentsInv`, the rankings in `QueryInv`, the order of results in
  `EmbeddingInv`, the sums of `GovernanceInv`: induction over data is out of reach;
* the process (`Lifecycle`, `Standalone`) and `SearchProfiles`, which TLC covers with all the
  interleavings of a small number of handlers.

## 6. Findings

* `store_torn_tail` (`storage/wal.rs:107`). Replay ignores a half-written last
  frame, but opening the log does not cut it off, so the next accepted batch is
  appended behind it; at the restart after that the log has a checksum or header error
  in the middle and the server does not start. The same happens after an append
  that failed once its frames had reached the file (`wal.rs:145`): the
  numbers are handed out again and replay reports a sequence regression; set
  `FailedAppends` in the configuration to see it. If what follows the torn frame is shorter
  than the frame was meant to be, the accepted writes are dropped without an error (`wal.rs:207`).

Met while modelling, without a run of their own. A model of the code in question contains the behaviour;
the properties above are stated so that they hold beside them.

Jobs, process and scheduler:

* A cancel that comes between the worker's look at the record and its update to
  `Running` is answered with a `Cancelled` record; the update overwrites it and the job
  runs (`server/jobs.rs:518`; the test at `tests/jobs.rs:169` cancels earlier). A store error
  between two states leaves the record as it is until a restart (`jobs.rs:531`).
* `acquire` of the resource scheduler decrements its `queued` gauge
  after the await, so a dropped future leaves it too high for ever.
* `finish_http`, `finish_grpc` and `finish_kafka` (`server/standalone.rs:385`)
  panic on every result, also on that of a task which ended because it was asked to. A
  shutdown that has to wait for a transport therefore ends in a panic, before the later
  tasks are joined and the phase becomes `Stopped` (`Awaited`). No admitted write is
  lost by it (`AdmittedWritesFinish`); the flush of the ingestion task may be cut, and
  is repeated after the restart.

Ingestion:

* A task that a pause has aborted can still fail before its next await and
  mark the stream, resumed meanwhile, as failed (`server/stream_ingestion_http.rs:281`).
  A second resume then starts another task beside the one that runs, whose handle is
  lost, although "stream ingestion v0 supports one managed ingestion at a time"
  (`stream_ingestion_http.rs:141`).
* A message without payload fails the task also under the dead-letter
  policy (`server/kafka_ingestion.rs:957`), although `poison_error_class` has a class
  for it; every resume fails on it again.
* Messages of a revoked partition are flushed after the revocation, when its new
  owner may have gone on: `stale` in `CommittedNotOverwritten` is that case.
* A revocation and a new assignment of the same partition in one poll refuse the batch
  (`server/kafka_ingestion.rs:563`).

Control plane, access, governance:

* A request that read the resource file before another one moved an organization to
  `deleting` publishes it as `active` again (`server/control_plane_api.rs:730`);
  `docs/concepts/control-plane-lifecycle.md:38` calls `deleting` final.
* A collection's catalog entry is durable before its namespace exists, and outlives it in
  a deletion; a crash in between leaves an entry that start-up refuses
  (`server/runtime.rs:598`). So does a project that leaves `active` between the deletion of
  the data and the removal of the claim (`management_http.rs:294`). A crash between
  a creation and its first owner leaves a resource without one (`control_plane_api.rs:189`).
  The rollback of a creation whose first owner could not be added, because two requests
  overlapped on `project-memberships.json`, takes the project without asking the catalog.
* The key of a deleted project is admitted again when a project with the same id
  is created (`server/api_keys.rs:411`).
* A failed save of a rotation makes the key unusable until a restart; a failed save of a
  claim leaves it in memory. Errors of the audit log are ignored.
* `check_record_quota`, `OrganizationGovernanceService` and `InMemoryResourceGovernor`
  are not called by the server. An override stays in effect after the organization
  disallows overrides. `ThroughputExceeded` is called retryable also when the
  request is larger than the whole budget.

Embedding and documents:

* Activation checks the staged versions before it publishes and publishes them with new
  sequence numbers: a write or a deletion accepted in between is overwritten or
  undone (`server/embedding_migration.rs:495`), although
  `docs/concepts/storage-and-consistency.md:21` says "Newer mutations supersede older
  record versions; deletes prevent older versions from reappearing in retrieval results".
* A user's write that straddles the switch of the profile is labelled with the new
  profile and has a vector of the old one. A crash between the state `Activating` and the
  journal makes start-up fail. `detect_source_change` is not called by the server.
* Recovery compares the live records with whatever snapshot is on disk, and asks for the records
  of that snapshot only (`server/embedding_migration.rs:572`). Suppose an earlier attempt
  published a record's target vector and failed, and a `catch_up` that read the collection before
  another record was added writes its snapshot after an activation has
  passed its check, just before a crash: start-up then switches the profile, and the
  added record keeps its old vector although it is below the frontier. This takes six calls, three
  writes and deletes and two faults, more than the run has; `SwitchIsComplete` therefore says of recovery
  no more than that it switches for the records it compared.
* A document stored in a collection without ingestion schema, first with and then without
  chunking, keeps its old chunks; deleting a document that is stored whole deletes
  nothing; a collection dropped and created anew during the embedding gets chunks cut
  by the old policy. With overlap, a structural break can give a chunk that lies inside the
  one before it.

Files:

* A temporary `collection.json.tmp` that a crash leaves blocks every later schema change
  (`server/write.rs:1190`, `create_new`); a temporary file of a search profile left by the same
  process id blocks that version.
* Two backups in one millisecond share an id and a staging directory. Two restores of one
  backup share `.restore-staging/<id>`, so what is published may not be what was verified
  (`server/backup.rs:309` says otherwise). Scoped collections are restored into the legacy
  directory; temporary files are copied too.
* A schema changed from A to B and back to A can lose a build; two builders of one
  fingerprint share a temporary file, which only delays the index.
* Two creations of one version of a search profile can both be answered, the second
  replacing the first; a deletion does not sync the directory and may remove a profile
  created anew meanwhile; a listing fails when a file vanishes meanwhile.
* The log's checksum covers the payload, not the sequence number and the operation in the
  header. The verifier does not read ingestion settings.

Queries:

* A profile replaces an explicit `top_k` of 10 or `rrf_k` of 60, the defaults. A page
  reads one row more than was admitted. The cursor of a collection deleted and created
  anew with the same number of writes is accepted. Filtered searches with and without
  pages can each fail where the other does not.
* Pruning in `connect` (`storage/hnsw.rs:423`) can make a record unreachable.
  `planner.rs` is not part of the library.
* MCP: `prefer_recent` and `score_sum` reverse rankings under `l2` (`search.rs:314`;
  the test at `search.rs:499` has higher scores first); a requested freshness shows reserved
  metadata (`_ketebe_chunk`, `_ketebe_embedding`), as `project_metadata` takes only source and content away;
  a fused search with reranking needs `top_n` equal to `candidate_limit`, because `fusion.rs:147`
  refuses a larger one and the query API a smaller one; a citation names the first collection although the text may come from another;
  headers are not counted in the byte budget; a collection listed twice counts
  twice; the deny list is enforced for write tools only.

## 7. Not modelled

Byte layouts other than the log's and the segments', scope checks of storage files,
floating point arithmetic, Unicode tokenization, the JSON of configurations, the audit log,
metrics and progress texts, legacy migration into the default project, the dispatch and HTTP
side of the MCP server, and the components marked `not_modelled` in `PROJECT.json`: they
parse, route and format, or measure, around state that is modelled above.
