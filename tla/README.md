# VectorShelf in TLA+

VectorShelf is a document knowledge service: users upload documents, background
workers parse, chunk and embed them, search answers questions from the vectors
of the documents a user may read.  The backend is Python (`src/src`), its state
is a PostgreSQL ledger, and several processes work on that ledger at once.  This
directory holds TLA+ models of it, the TLC runs that check them on small
instances and the TLAPS proofs of what holds for every instance.  Paths below
are relative to `src/src` of the repository unless they start with `src/`.

## 1. The system

| component | state it keeps | operations | what is hard | what makes it correct |
|---|---|---|---|---|
| indexing ledger (`indexing/`) | rows for workers, documents, versions, jobs, attempts, chunks, vectors | register, heartbeat, stop; claim, renew; start_attempt, save_chunks, save_embeddings, complete, fail; recover_expired, manual_retry | leases that run out under a working owner, retries, two transactions around a long call, deletion at any time | one owner per job, one success per job, the rows of a version agree, a served document stays served |
| worker runtime (`worker/`) | execution slots, renewal threads, poll back-off | poll, heartbeat, recovery ticks, run a claim, shut down | lost answers, refused submissions, threads that outlive their lease | no slot and no claim is lost for good |
| documents (`documents/`) | the same rows seen from the user; file objects | upload, add_version, delete, metadata, visibility | the file is stored before the transaction, the transaction may have an unknown outcome | no row without its object, no orphan that stays |
| sync outbox (`sync/core.py`, `sync/outbox`, `sync/management`) | events PENDING, PROCESSING, PROCESSED, FAILED with owner, lease, failure count | publish, claim, dispatch, record_failure, recover_expired, retry | two dispatchers, expiry in the middle of a dispatch, idempotency keys | effects and PROCESSED commit together, once |
| sync consistency (`sync/consistency`) | issues and reconciliation runs | add, ignore, repair, reconcile, orphan detection | a scan races with uploads; a crash in a run | an object in use is never reported as orphan |
| transaction manager (`infra/postgres/transaction.py`) | the ambient transaction of a thread | transaction, operation | nesting, rollback-only, an unknown commit outcome | all or nothing, for every nesting |
| permissions (`permissions/`) | grants and their cached projection | grant, revoke, refresh, readable ids | the cache is filled while grants change; two services call each other under their locks | a cached answer never grants more than the rows do; no two threads wait for each other |
| collections (`collections/`) | a tree of collections and the documents in each | create, add and remove a document, visibility, delete | each edit reaches into the cache of the permissions, a deletion into their ledger | the same, seen from the other side |
| authentication (`auth/`), MCP tokens (`mcp/`) | sessions, role cache, tokens | login, logout, resolve, invalidate; issue, revoke, authenticate | a lookup races with an invalidation | no role or token survives its revocation |
| embedding client (`embedding/`) | circuit breaker | embed with retries and batches | probes that end without a result | every chunk is embedded once, in order |
| dashboard (`ops/`), platform and WebSocket (`platform/`) | subscriptions, the last pushed snapshot | change, push, connect, subscribe | a change during a push | a change is followed by a push |
| search (`search/`), guardrails (`guardrails/`) | a cached answer, one generation slot, the breaker of the language model | prefilter, retrieve, merge, check live, rank, gate, generate, judge, mask | rights that change during a search, calls that never return, scores from many sources | nothing is shown that may not be read, nothing comes late, no unfaithful answer passes unmarked |
| reading (`documents/query`, `collections`, `mcp/`) | none of its own; the rate windows of the tools | detail, status, content, file, lists, tools | each request reads, decides and reads again | only what could be read meanwhile is shown |
| parsing (`parsing/`) | the chunks of a version | cut a text into windows, put it together | offsets at overlaps and edges of sections | what is read is what was parsed |
| users (`users/`) | accounts and their roles | signup, create, assign and remove a role, status | two administrators, two signups | what was answered as done was done, once |
| start and stop (`infra/runtime.py`, `infra/settings.py`, `application.py`), migrations (`infra/postgres/migrate.py`) | settings, threads, the model row, the schema history | load, validate, open, start, stop; migrate | processes that start together, die in between, have a commit in flight | the schema follows one package; nothing goes on after a failed start |
| storage adapters (`storage/`, `infra/s3`) | objects | put, delete, list | lost answers | seen from `DocumentFiles` |
| frontend (`src/frontend`), tools (`src/tools`) | none of the ledger | - | - | - |

How they interact: an upload writes document, version, job and a sync event in
one transaction; `worker` polls `indexing.claim` and runs `execute_claim` of
`application.py` in a slot, one transaction per call, while a renewal thread
extends the lease; every process also runs `recover_expired`.  The indexing
service reports each change to the documents service through the
`commit_index_*` calls, inside the same transaction; they may refuse it, which
rolls everything back.  A deletion only marks the document and publishes
`DOCUMENT_DELETED`; the sync dispatcher later calls the indexing service to
stale the vectors, and the permissions service to refresh its projection.

The hazards of this code, each at its line and with the properties that cover
it, are the list `hazards` of `PROJECT.json`; where a property covers one only in
part, a note there says what is left.

## 2. Modules

| module | role |
|---|---|
| `IndexingJobs` | the core: ledger, workers, claim execution and the document operations on the same tables |
| `VersionLifecycle`, `LedgerLifecycle` | what the ledger promises to the user of a document, without workers, leases or retries; the refinement mapping between the two |
| `SyncOutbox`, `EventDelivery` | publication, dispatch, failure, recovery and retry of events; what that promises to a publisher |
| `LedgerLocks` | the row locks and reads of every transaction of both ledgers and of the outbox |
| `AccessCache` | permissions, collections and the access cache that is projected from the two |
| `Reading` | requests that show documents, by REST and MCP, among concurrent changes; the rate windows of the tools |
| `DocumentFiles` | stored objects and their rows: upload, adoption, cleanup, the orphan detector and reconciliation runs |
| `Transactions` | the ambient transaction of a thread |
| `Migrations` | processes that migrate one database at once |
| `Administration` | accounts with their roles, and the tree of collections |
| `Identity` | principals: JWT, cached roles, logout, API keys |
| `Search`, `Retrieval`, `AnswerGuards` | requests around a search; what it finds and in which order; its calls of the language model |
| `Embedding` | circuit breaker, batches and retries of the embedding client |
| `Chunking`, `Masking` | windows of a text and their reassembly; the masks in the passages of a search |
| `Dashboard` | the push of changes to subscribed sessions |
| `WorkerRuntime` | slots, threads, renewals and shutdown of one worker process |
| `Startup` | how server processes come up and go down |
| `MCIndexingJobs`, `MCAccessCache`, `MCStorage`, `MCServices`, `MCOutboxPassages`, `MCSafety` | values of the constants for TLC; the last four put small modules into one run |
| `IndexingLifecycleProofs`, `IndexingPromisesProofs` | theorems about `IndexingJobs`: types and life cycle, then serving, ownership and the refinement |
| `SyncOutboxProofs`, `LedgerLocksProofs`, `AccessCacheProofs` | theorems about the module each is named after |
| `AnswerGuardsProofs` | theorems about `AnswerGuards`, `Chunking`, `Masking` and `Retrieval` |
| `StorageProofs` | theorems about `DocumentFiles`, `Search` and `Reading` |
| `ServicesProofs` | theorems about `Transactions`, `Identity`, `WorkerRuntime`, `Migrations`, `Administration`, `Startup` and `Embedding` |

How they compose.  `IndexingJobs` uses the outbox at one place only, the
`DOCUMENT_DELETED` event of a document, and takes from it what `EventDelivery`
promises: the handler takes effect at most once, some time after the publication,
in one step with the end of the event.  `SyncOutbox` shows that this is so, for a
handler of any kind.  `IndexingJobs` and `SyncOutbox` have each transaction as one
step, and `LedgerLocks` shows that they may: whatever a transaction decides on is
still current when it commits (`CommitsCurrent`), and none waits for ever
(`NoDeadlock`).  `SyncOutbox` and `DocumentFiles` take from `Transactions` that a
transaction has effect as a whole, fails as a whole, or has an unknown outcome.
`AccessCache` takes apart what is one step in `Reading` and `Search`, a decision
about a document.  `WorkerRuntime` sees of the ledger only the answers to its
calls; `IndexingJobs` sees of the process only its slots.  `Startup` has one run of
`Migrations` as a step.

### IndexingJobs: state and actions

| variable | in the code |
|---|---|
| `worker` | `indexing_workers` (status and age of the heartbeat) and whether the process runs |
| `document`, `version` | `documents`, `document_versions`; `chunks` and `vectors` of a version say whether its rows in `document_chunks` and `document_vectors` exist and in which status |
| `job` | `indexing_jobs`; the ledger allows one per version, so it is a function of the version |
| `attempt` | `indexing_attempts`, by job and claim token (`start_attempt` creates one per token) |
| `outbox` | the `DOCUMENT_DELETED` event of a document |
| `slot` | what one thread of a worker process is doing: idle, holding the row lock of `claim`, or which call of `execute_claim` comes next |
| `lastJob`, `faults` | the id sequence that orders claims; the faults spent so far |

An action is one database transaction: every operation locks job, worker,
version, document, attempt in that order, so two transactions on one job are
serial.  Two places are not one transaction in the code and are not one action
here.  `claim` picks a job under `FOR UPDATE SKIP LOCKED` and then waits for the
worker row: `LockNextPendingJob`, then `Claim` or `ClaimRolledBack`, with other
steps between.  `save_chunks` and `save_embeddings` leave the transaction while
the parser or the provider works: `ParseStarted`/`ChunksSaved` and
`EmbeddingStarted`/`VectorsInserted`.

| code | actions |
|---|---|
| `register_worker`, `heartbeat`, `shutdown` + `stop_worker`, death of a process | `RegisterWorker`, `Heartbeat`, `StopWorker`, `Crash` |
| `poll_tick` + `claim` | `LockNextPendingJob`, `Claim`, `ClaimRolledBack` |
| renewal thread | `Renew`, `RenewRejected` |
| `start_attempt` | `StartAttempt`, `StartRejected` |
| `save_chunks` | `ChunksReplayed`, `ParseStarted`, `ChunksSaved`, `ChunksRejected` |
| `save_embeddings` | `VectorsReused`, `EmbeddingStarted`, `VectorsInserted`, `EmbeddingsRejected` |
| `complete` | `Complete`, `CompleteRejected` |
| `fail`, `report_failure_from_worker` | `Fail`, `FailRejected` |
| interrupt checks of `execute_claim`; an exception or a lost answer | `Withdraw`; `CallFails`, `Answered` |
| `recover_expired` | `MarkDead` (first phase), `RecoverExpired` (per job) |
| `manual_retry` (administrator, `retry_all`, reindex event) | `ManualRetry` |
| `upload`, `add_version`, `delete`, `commit_sync_document_deleted` | `Upload`, `AddVersion`, `Delete`, `DispatchDeleted` |

A stopped worker's threads go on, as Python threads do: `StopWorker` interrupts
them and they look at the interrupt only between calls.  A slot whose lease ran
out is not told; it finds out when a call is refused.

Time.  An instant is kept as the ticks left until it: `lease`, `due` and `beat`
count down with `Tick`, and 0 means "reached".  This keeps the state finite
without a bound on the clock.  `claim` reads the clock once, so the lease it
grants has been running since it began: the slot carries it (`slot[s].lease`).

Left out of this module: the content of chunks and vectors (a version has all
of them or none), the embedding model table, the event log, job priorities
(uploads use one), list queries, the poll back-off.

### SyncOutbox: state and actions

| variable | in the code |
|---|---|
| `event` | `sync_events`: status, claim token, lease, `available_at` (`due`), `failure_count`, `max_retries`; `NONE` before publication |
| `attempts` | `sync_delivery_attempts` of an event in the order of `attempt_no` |
| `applied` | how often the effects of the handler committed: a history variable, no part of the code |
| `dispatcher` | where the dispatcher thread of a process is in `dispatch_one` |
| `faults` | crashes and lost or failed commits spent so far |

`dispatch_one` is three transactions: `claim`; the handler with `_complete`
nested in it; `record_failure` if that one failed.  The second is long, and it
takes the lock of the event row only when the handler calls `mark_processed` at
its end.  So a dispatch is `handling` (no lock, recovery may take the event),
`holding` (completed, locked, not committed: recovery skips the row, everyone
else waits) or `failing`.  All dispatchers claim under the same configured name;
what tells them apart is the claim token.  A claim inserts an attempt row, so the
number of that row identifies the claim and stands for its random token.

| code | actions |
|---|---|
| `publish` | `Publish` (a repeated key changes nothing) |
| `claim` | `Claim`, with or without its answer |
| a handler that raises | `HandlerFails` |
| `_complete` | `Complete` (waits for the row, may find that the claim is lost) |
| the commit of handler and completion | `Commit`, with or without its answer; `CommitFails` |
| `record_failure`, and the early return of `dispatch_one` before it | `RecordFailure` (`SYNC-002`, a lost claim, changes nothing) |
| `recover_expired` | `RecoverExpired`, one event of the batch at a time, as its transactions are |
| `retry_failed` | `RetryFailed` |
| death of the process, restart of the thread by `_supervise` | `Crash` |

The truncation of recovery's clock to a second, and what a delay of the claim
takes from its lease, are within a tick or chosen freely (`left` in `Claim`).

### AccessCache: state and actions

| variable | in the code |
|---|---|
| `permission` | `direct_permissions` of one user; `EXPIRED` is the passing of `expires_at`, `REVOKED` a deleted row |
| `mapping`, `deleted` | `collection_documents`; the collections with status `DELETED` |
| `cache` | `document_permission_cache`, committed rows |
| `event` | refresh events that are published and not processed |
| `call` | for each thread: its operation, how far it is, the locks it holds, what it has read, and the cache rows its transaction has put and deleted and not committed |
| `raced` | history: rows that were written and not committed when a removal deleted those of their document |

The threads are those of one process: they share the lock of the permission
service, the lock of the collection service and the row locks of collections,
which are the members of `held`.  A step goes from one statement or lock to the
next where another thread can come between.  A statement sees what is committed
and what its own transaction wrote; `Unwritten` is the wait for a row that
another transaction has written.  A lock of Python has no timeout, so a thread
that waits for one does nothing else (`Fails`), and the system can really stop:
the runs do not ask TLC for deadlocks but check who waits for whom (`Wanted`).

| code | actions |
|---|---|
| `allows`, `effective_document` for a document | `Decide` ("read"), `DocumentRows`, `CachedGrants`, `NextRow`, `Project`, `Put`, `Answer` |
| `readable_document_ids` | the same in one transaction ("list"), `Answer` going on to the next document |
| `grant` | `Grant`, `LockResource`, `RequireResource`, `Project`, `Put`, `CommitGrant` |
| `revoke` | `Revoke`, `LockResource`, `RequireResource`, `CommitRevoke` |
| `commit_sync_permission_refresh` in `dispatch_one` | `Refresh`, `InvalidatePermission`, `Invalidated`, `Project`, `Put`, `CommitRefresh` |
| `add_document`, `remove_document` | `Edit`, `LockCollection`, `InvalidateDocument`, `DocumentInvalidated`, `CommitEdit` |
| `update_visibility`, `create` under a parent | `Change`, `LockCollection`, `CommitEdit`: only their locks matter here |
| `delete` with `execute_collection_delete` | `DeleteCollection`, `LockCatalog`, `CommitDelete` |
| any exception, with the rollback | `Fails` |

From `SyncOutbox` it takes that an event is handled by one dispatcher at a time
and that its effects commit with its end.  Grants to roles and departments, public
visibility and live decisions never touch the cache, and owners never ask it.
One process is an assumption: with several, the lock of the permissions keeps
nobody of another process out.

### LedgerLocks

A transaction is a program: the sequence of its statements that may wait or that
read what they have not locked (`Lock`, `Fence` for a lock that does not return
the row, `Skip` for `SKIP LOCKED`, `Share` for a foreign key, `Look` for a read).
`BeginTransaction` picks one of 23 operations, `Execute` is the next statement,
`CommitTransaction` asks what the code has checked by then (`Admitted`) and takes
from all others what they have read of the changed rows (`fresh`),
`RollbackTransaction` is a refusal or an error.  Row locks last until the end of the
transaction; READ COMMITTED lets reads be old.  `fresh` is a history variable.

### DocumentFiles

| variable | in the code |
|---|---|
| `stored`, `aged` | objects in the storage; those older than `orphan-grace` |
| `files`, `versions` | `file_objects` by digest and size; uploads whose document rows are committed |
| `upload` | where `upload` or `add_version` is: `FindFile`, `PutCandidate`, `Reject`, `AdoptFile`, `CommitUpload`, `Cleanup`, `Crash` |
| `reconcile`, `run`, `issue` | `OrphanedDataDetector.detect` in a process (`Check`, `Recheck`, `DeleteOrphan`, `Report`, `EndDetection`), its row in `reconciliation_runs`, the issues (`AddIssue`, `Resolve`, `IgnoreIssue`) |

Storage and database are two systems, so every call of either is a step, and each may
take effect and report an error.  `GraceOutlasts` is the deployment's assumption that no
upload is under way longer than the grace of orphans (a day by default): the detector
has nothing else to tell an orphan from a candidate in use.

### Reading

| variable | in the code |
|---|---|
| `docRow`, `folderRow`, `shelf`, `inside` | the rows of the documents, of a collection, of its documents, and the collections in it |
| `right`, `owed`, `projection` | `direct_permissions` with the passing of `expires_at`, the published refresh events of grants, `document_permission_cache` |
| `edit`, `refresh` | what the transaction of an `add_document` or `remove_document`, and that of a refresh in `dispatch_one`, have written and not committed |
| `visit` | a request: where it is, what it has decided and picked, whether it has the lock of the permissions |
| `raced`; `unread`, `gone`, `misled` of a request | history: rows a refresh put though their document was being removed; what the user could at no moment of the request read, what was deleted when it came, what raced rows would have given him |
| `windows`, `ticks` | `ToolRateLimiter`, which is stepped apart from the requests: neither reads the other |

| code | actions |
|---|---|
| `detail`, `status`, `content`, `file`; a tool for a document | `Come`, `LookFirst`, a decision, `LookAgain` |
| a decision: `allows`, `_readable_ids`, `mcp_document_access` | `ReadRow`, `ReadRights`, and for a cached one `ReadCache`, `ProjectRight`, `Answer` |
| `list` of documents | `ListCandidates`, a decision of each, `ListPicked` |
| `get`, `list`, `children`, `documents` of collections | `LookFolder`, `ReadFolder`, `ReadFolderRights`, `Children`, `FolderDocuments`, cached and live decisions, `CheckLive` |
| `grant`, `revoke`, visibility, deletion | `GiveRight`, `RevokeRight`, `RightLapses`, `TurnPublic`, `TurnFolder`, `DeleteShelved`, `ChangeInside`, `DeleteFolder` |
| `add_document`, `remove_document` | `BeginEdit` (up to the DELETE of the document's rows), `CommitEdit` |
| `commit_sync_permission_refresh` and the commit of its dispatcher | `BeginRefresh`, `CommitRefresh` |
| an exception in one of the last two | `RollBack` |

A step is a statement or a run of them that no lock lets anyone separate.  As in
`AccessCache` there is one process with its lock of the permissions, held from the first to
the last statement of a decision, and its lock of the collections; and one dispatcher.

### Search, Retrieval, AnswerGuards

`Search` has requests for the same query of one user, the cached body (`entry`), the
live ledger (`readable`) and the single slot of `GenerationRunner` (`generator`): `LookUp`,
`CheckCached`, `InspectInput`, `Retrieve`, `LiveCheck`, `Gate`, `TakeGenerator`,
`StartCall`, `CallReturns`, `DeadlineExceeded`, `InTime`, `TimedOut`, `AcceptCall`,
`RetryCall`, `Judge`, `Cached`, `Return`.
`Retrieval` runs the interpreter of the pipeline: `RunStep` takes the next step of
the definition in order, looks at its condition (`Enabled`) and applies its handler
(`Prefilter`, `MultiQuery`, `ModeSearch`, `MergeDedup`, `PermissionLivecheck`,
`DocumentScope`, `Reranking`, `RetrievalGate`) to the context.  Scores are whole
multiples of `1 / Scale`.  A sorted list is its elements in their places (`Ranked`): equals keep
the order they had, as `sorted` does.
`AnswerGuards` has the breaker of the language model that all searches share, the
permits of its generations, the retries of an operation, the branches of the
generation step and the judges behind it.
`Masking` is `mask_pii` for one passage: `LookAtMatch` takes or skips the next match in the
order of the patterns, `Mask` replaces the last match that is not replaced yet.

### The others

| module | state | actions, by the code they stand for |
|---|---|---|
| `Transactions` | `depth`, `rollbackOnly`, `raising`, `writes`; `applied`, `verdict`, `failed` are what happened | `transaction`: `OpenConnection`, `EnterNested`, `Raise`, `LeaveNested`, `LeaveOuter`; `operation`: `Write` |
| `Migrations` | `schema`, `advisory`, `orphan` (a commit whose connection broke), `runner` | `run_migrations`: `Open`, `AcquireLock`, `ReadHistory`, `SkipRecorded`, `Apply`, `Commit`, `CommitBreaks`, `Reopen`, `ReadBack`, `Finish`; `OrphanEnds` at the server |
| `Administration` | `users`, `roleLog`, `catalog`, `contents`, `rowOwner`, `catalogLock`, `clerk` | `Signup`, `CreateUser`, `AssignRole`, `RemoveRole`, `SetStatus`, `Login`; `Create`, `AddDocument`, `RemoveDocument`, `ChangeVisibility`, `DeleteTree`; the statements and waits inside them |
| `Identity` | the ledger: `roles`; of each process: `generation`; the shared cache: `cached`, `missed`, `revoked`; `admin`, `request`, `token`, `revoker`, `call`; history: `superseded`, `announced` | `ChangeRoles`, `Announce`; `Validate`, `IsRevoked`, `ReadGeneration`, `Lookup`, `ReadLedger`, `Fill`; `Logout`; `FindKey`, `LoadPrincipal`, `Touch`, `RevokeKey` |
| `Embedding` | `breaker`, `embed`, `aiSlot` | `EmbedQuery`, `Embed`, `BeforeCall`, `TakeAiSlot`, `Answer`, `Succeeded`, `AttemptFailed`, `WakeUp`, `Return`; `CoolDown` |
| `Chunking` | the input, `chunks`, `rebuilt` | `chunk_sections`: `CutWindow`, `NextSection`, `Stored`; `content`: `ReadChunk`, `Answered` |
| `Dashboard` | `changes`, `changed`, `push`, `session`, `subscribed`, `outbound`, `received`, `due` | `Announced`; `tick`: `StartTick`, `Summary`, `Publish`, `Deliver`, `TickEnds`, `SummaryFails`; STOMP frames; `Poll`, `PollEnds` |
| `WorkerRuntime` | `claim`, `slots`, `poll`, `futures`, `renewals`, `accepting`, `pool`, `poolThreads`, `shutdown`, `pending`, `joins` | `poll_tick`: `TakeSlot`, `LookAgain`, `NoClaimAnswered`, `ClaimAnswered`, `Submit` (`Accepted`, `TurnedAway`, `ThreadNotStarted`), `Track`; `_run_claim`: `RunClaim`, `StartRenewal` (registers it), `StartThread`, `EndExecution`, `StopRenewal`, `ReleaseSlot`, `ForgetFuture`; `_renewal_loop`: `CallRenew`, `RenewAnswered`, `LoseClaim`, `StopNoticed`; `shutdown`: `StopAccepting` to `CancelRenewals`, `JoinRenewal`, `JoinUnstarted`, `RecordStopped` |
| `Startup` | `server` with its settings and the variables only its parts look at, `registry` | `LoadSettings`, `ValidateSettings`, `EnvironmentRefuses`, `OpenLedgers`, `ListModels`, `InsertModel`, `FindModel`, `BuildParts`, `CreateApplication`; `StartWorker`, `StartTask`, `TaskNotStarted`, `Serve`, `StopServer`, `CrashServer` |

## 3. Runs

Twelve runs; seven pass, five show a disagreement with the documentation (section 4).

| run | instance | question |
|---|---|---|
| `jobs_versions` | one document with 2 versions, 1 worker, 1 slot, 1 retry, 3 claims, 1 fault, deletion, no timing assumption | do the rows agree, is the served version left alone, is every step one of `VersionLifecycle`? |
| `jobs_workers` | 1 version, 2 workers with 2 + 1 slots, the first may stop or die, 1 retry, 2 claims, 1 fault, deletion, no timing assumption | who owns a job, whose result counts, what may a stale owner, a dead worker or a deletion still change? |
| `jobs_settle` | 2 versions, 2 workers with 1 slot each, one mortal, 1 retry, 1 fault, timely renewals, no deletion, fair schedulers | does every accepted version come to an end? |
| `outbox_passages` | `SyncOutbox`: 2 events, 2 dispatchers, 1 retry and one more granted by hand, leases of 2 ticks, 2 faults, fair threads. `WorkerRuntime`: 2 slots, 2 claims of 2 jobs, threads that may fail to start. `Chunking`: 2 sections of up to 5, every window up to 4 and overlap. `Masking`: every set of 5 overlapping matches. `Retrieval`: 3 chunks of 2 documents, 2 queries, every mode | do effects happen once, is every event delivered or given up after exactly its retries, who may end a dispatch; do slots balance, does a stop end; is a text read as it was parsed, masked where it matched, is what is found ranked and traced? |
| `storage` | `DocumentFiles`: 2 uploads of one content, a repairing scheduler and an administrator's dry run, batches of 1. `Search`: 2 requests, 1 document, 2 tries, 1 change. `Reading`: 2 documents, 1 collection, 4 permissions (user, role, department; on document and collection) and one collection inside, 1 request at a time, 2 changes or refreshes, each in its statements; 2 windows, limits 2 and 1, a minute of 3 ticks | are files kept, orphans deleted, is nothing shown that could not be read, does nothing come late? |
| `services` | `Identity`: 2 processes with a request each, 1 administrator, a time to live of 2, 2 revokers, 2 calls, 3 half seconds, clocks 1 apart. `Embedding`: 2 threads, 3 texts, batches of 2, 2 tries, threshold 2. `Dashboard`: a WebSocket and an XHR session, 2 changes. `Administration`: 2 clerks of one process. `Transactions`: depth 3. `Migrations`: 3 processes, one with another package, 2 broken connections. `Startup`: 2 servers, 3 launches, 26 configurations, a cache of models inside the project and a malformed address among them | are roles fresh, do revoked tokens stay out, does the breaker settle, is every text embedded, every change shown, is what was answered or told what happened? |
| `safety` | `AccessCache`: 2 request threads, 1 dispatcher, 1 collection, 2 documents without expiry or 1 with it. `LedgerLocks`: 2 connections, a document with 2 versions. `AnswerGuards`: 2 searches, every branch, 2 openings | what may never happen in each of them? |
| `retry_repeats_failure` | 1 version, 2 retries, 1 fault, timely | is one transient fault survived by the retries? (no) |
| `deleted_blocks_claims` | 2 documents, one of them deletable, no fault | is every job of a living document settled? (no) |
| `deleted_revived` | 1 deletable document | do a deleted document's vectors stay inactive? (no) |
| `access_deadlock` | `AccessCache` as in `safety`, 2 documents, with expiry | can two threads wait for each other's locks for good? (yes) |
| `access_stale` | the same | does a removal keep a refresh in flight from putting its row back? (no) |

`outbox_passages`, `storage`, `services` and `safety` each hold several modules that share no variable.
A behaviour picks one of them (`part`) and steps it alone: interleaving them would
multiply the states and add nothing, since no property relates two of them.

The properties:

- `LifecycleInv`: the three rows of a version agree (`JobMatchesVersion`), only the
  newest version is ever being indexed (`LiveIsLatest`), with the parts that make
  this inductive.  `ServedVersionIntact`, `OnlyCurrentSearchable`: a failing newer
  version never takes a document out of service, and superseded or failed versions
  leave the searchable set.  `ImplementsLifecycle` (safety) and `KeepsPromises`
  (with liveness): the ledger implements `VersionLifecycle`.
- `OwnedOnce`, `LeaseProtocol`: one owner and one success per job; a lease is taken
  only when it ran out, an attempt is ended only by its owner in time.
  `DeadWorkerGetsNoJob`: `claim` looks at its worker again under the lock (at the
  recorded status, not the age).  `DeletionFreezes`: nothing about a deleted document
  changes its status.  `RetriesAccounted`: a retry is counted exactly when a claimed
  job is requeued.
- `RowsAccounted`, `EffectWithProcessed`: the rows of the outbox agree with each other
  and with what happened; with the `CHECK` constraints of `0006_sync.sql`.
  `HeldUntilCommit`, `LeaseRespected`: a completed dispatch is not taken away before
  its commit, a running one only after its lease.  `DeliversEvents`: the outbox
  implements `EventDelivery`, liveness included.
- `CommitsCurrent`, `NoDeadlock`: see `LedgerLocks`.
- `CacheSound`: each row of the access cache is a permission of the ledger that
  reaches its document, or was written and not committed when a removal deleted the rows of
  its document (`raced`).  `CacheCovered`, without the second half, is what `access_stale` refutes;
  `CacheSound` says that this is the only way to a wrong row.  It relates rows written by five operations in three
  services; what protects it is that a reader keeps the lock of the permissions from
  its look at the ledger to its puts, and that invalidation takes that lock.
  `OnlyEditsInvertLocks`: apart from the edits of a collection all operations agree on
  one order of the locks; it bounds what finding 4 is about.
- `ReadingSound`: what a request shows could be read at some moment of it, though rights and
  rows change between any two statements of its decisions.  Detail, content and list of documents
  decide from the cache and ask nobody again: they may show in addition what a raced refresh
  (finding 5) left there, and nothing else (`misled`); the documents of a collection and the tools
  ask the ledger and show nothing more.  That a document is deleted is told by a tool only to
  its readers; nothing but such a refresh leaves a wrong row in the cache; tools are paced.
- `FileKept`: every committed version has its object.  `ResolvedIsSettled`,
  `OrphansDeleted`: an orphan issue is closed only when it is settled, and orphans go.
- `AnswersReadable`, `GenerationSound`, `GenerationEnds`: what a search answers was readable during it, also
  from the cache; generation ends within its deadline although the model may never
  return, and a late answer reaches nobody and no cache.
- `RetrievalSound`, `GuardsSound`, `PassagesSound`: the ranking is
  complete, without doubles and by the best score, and the trace says what ran; the
  breaker belongs to the calls of its generation and an answer is shown only if
  earned; reassembly is the inverse of cutting (`ReadsWhatWasParsed`), and masks hide what was
  found and nothing else (`MaskedWell`).
- `AdministrationSound`: what was answered as done was done, once; no collection
  outlives its parent.  `RolesFresh`: roles are as new as every change the process that read
  them had answered (unless the cache was unreachable then); another process, which has a
  generation of its own, may put older ones back, and they are served no longer than their time to
  live, from the change, and the time its reader took from the ledger to the cache.
  `RevokedStaysOut`: nobody is let in after a logout or a revocation was answered.
- `VerdictHolds`, `MigrationsTruthful`: what a transaction and a migration run tell is what
  happened.  `StartupSound`: what is refused after the migrations is one of four things no
  earlier check looks at; servers that are up work with a row of their own model; no worker and no
  thread goes on after a failed start.
- `WorkerSound`, `StopCompletes`, `EmbeddingSound`, `ProbeSettles`, `ChangesShown`:
  no permit is lost and no job runs twice in a process; a stop ends, with a closed worker unless it
  joins a renewal that was not started; each text has its vector
  (`VectorsComplete`) and the breaker is half open just while one call is its probe
  (`HalfOpenIsProbed`), which settles it; an announced change is shown.
- In violation runs: `TransientFaultIsRetried`, `JobsSettle`, `DeletedStaysInactive`,
  `NoCircularWait`, and `CacheCovered`, the part of `CacheSound` about rows.

Bounds and why they are enough.  Two versions are the least at which one is
served while another is indexed, fails, is retried and supersedes.  Three slots
of two processes are the least at which a job is held by two threads of one
process and one of another; two claims give a stale and a current token; the
lease of two ticks has a live, a nearly expired and an expired value.  One fault
per behaviour (`MaxFaults`) reaches every lost answer and every failing call,
each followed by everything the system does about it; without timing assumption
the leases and heartbeats run out at any point in addition.  `MaxClaims` bounds
the tokens: it limits how often an administrator restarts a job, never the
automatic retries (`MayRestart`).  `MaxVersions`, `MaxDelay` are named bounds of
the same kind.

In `SyncOutbox` two dispatchers are the least at which one lost its claim and the
other has it; two tries and a granted third one reach every comparison of failures
and limit; two faults let a crash follow a lost answer; the second event shows
that steps of one leave the other alone and that one is not starved by the other.

For `AccessCache` two request threads and a dispatcher give every pair of operations,
with a third to come between; the two documents let a list go on after its first
decision and let a collection have a document the other permission is not for; the
two permissions are one that depends on the mapping and one that does not.
`safety` and `access_stale` have these constants, and refreshes overlap anything in both;
`safety` lets permissions expire with one document only (`OneDocument`), and with two it
gives them no `expires_at` (`Lasting`): with both at once the run has a million and a half
states, finds no error either, and the theorem of `CacheSound` has no such bound.

In `LedgerLocks` two connections give every pair of transactions, a document with two
versions every conflict between siblings; that no larger number of connections is
worse is proved.  Two uploads of one content are the least at which one adopts what the
other put; two detectors let one work on what the other has changed.  Two requests of a
search let one leave a cached answer, or a lost call in the slot, to the other.  In
`Reading` one request runs against two changes: requests change nothing but the cache,
and one of the changes may fill or empty it before; a removal that overlaps a refresh is two, and
a request after it finds the row.  Two processes of `Identity` are one that changes roles
and one that puts old ones back.  Two threads of the embedding client
are a probe and a call of before; two servers are an old and a new release, and three
launches let one come back.  `Chunking` takes every window up to 4 and every overlap over
sections up to 5 characters: windows that are a section, end at its end, and leave a rest of every
length.  The scores of `Retrieval` and the matches of `Masking` are chosen so that orders
differ, ties occur and spans overlap from both sides.

`Timely` states what the configuration intends, heartbeat and renewal intervals
well under the dead threshold and the lease: time does not pass a renewal or a
heartbeat that is due.  The safety runs do not assume it.

Fairness (`Fairness` in `IndexingJobs`) is weak and asks only what threads of
running processes do: the schedulers of `worker/core.py` run heartbeat, poll and
recovery at a fixed delay and survive exceptions (`_fixed_delay_loop`), a thread
goes on to its next call, the sync dispatcher is restarted by `_supervise`.
In `SyncOutbox` it is weak for the dispatcher threads, recovery and the clock, and
strong for the claim of an event by some dispatcher: dispatchers may be busy with
other events again and again when it is due, but `claim` takes due events in the
order of `available_at`, so one that has waited is passed by finitely many.  That
a handler returns is assumed.
In `MCStorage` the scheduler is enabled in `REPAIR` mode, which a deployment must choose
(`infra/settings.py:67-68`: disabled and `DRY_RUN` by default, when nothing is ever deleted); it comes back to its detection, objects age, and it is assumed
not to crash or fail for ever (`<>[]`): `reconciliation_tick` retries nothing, and
a detection that always fails deletes nothing.  A request of a search goes on when it
can and its deadline passes; of the language model nothing is assumed, its calls may
never return.  In `MCOutboxPassages` the thread that shuts down the worker goes on.  Its wait for claims has the
grace period, so that nothing is assumed of them; its joins of renewals have no timeout
(`worker/renewal.py:110-111`), and it is assumed (`RuntimeFairness`) that a call that renews a
lease ends, by an answer or an error: the connection has keepalives and `tcp_user_timeout`
but no timeout of a statement (`infra/postgres/config.py:27`).  In `MCServices` calls of the embedding client end because transport, slot and sleep have timeouts, and the
push loop goes on, is restarted when it ends and does not fail for ever.
Users, administrators, faults and deaths owe nothing.  A worker that may die
leaves another one that does not; without that nothing would be promised.

`CHECK_DEADLOCK FALSE` is said in the runs that contain `AccessCache`: two threads
really can stop there (finding 4), in `storage`, where changes, ticks and tries are
bounded, and in `services`, where an ended transaction is the end of
its part.  In `outbox_passages` every part but the outbox may stay where it is, a stopped worker
among them, so that the outbox alone is held to go on.

## 4. What disagrees with its documentation

Five runs end in a violation; `findings` of `PROJECT.json` quotes the lines.

1. `retry_repeats_failure`: `fail` requeues a job and leaves the version in
   `EMBEDDING`; `save_chunks`, the first call of every claim, refuses that
   state.  One transient provider error therefore costs all retries, within
   their delays, and the job ends `FAILED`.  Recovery rewinds the version in
   the same situation and a test says why.
2. `deleted_blocks_claims`: the `PENDING` job of a deleted document is the first
   in the queue, its claim is always rolled back, and the jobs behind it starve.
   For the same reason the `PROCESSING` job of a deleted document can never be
   committed by recovery.
3. `deleted_revived`: the second transaction of `save_embeddings` inserts
   `ACTIVE` vectors after the deletion was dispatched.
4. `access_deadlock`: `add_document` and `remove_document` hold the lock of the
   collections when they call `invalidate_document_cache`, which takes that of
   the permissions; every permission method takes the two the other way round.
   Deletion was given the right order, and a comment says why.
5. `access_stale`: the refresh of an event releases the lock of the permissions
   before its transaction commits.  A removal in between cannot see its row and
   does not wait for it, and the row of a permission that no longer reaches the
   document stays in the cache.  Search, the tools and the documents of a collection look
   at the ledger again; detail, content and list do not (`misled` in `Reading`).

`jobs_settle` therefore has no deletion, and `KeepsPromises` is a promise about
documents that are not deleted.

What the models show besides, without a document that says otherwise:

- A thread of the application whose `start()` raises is joined by the cleanup, which
  raises in turn: the worker is not shut down and the application not closed
  (`application.py:193-201`; the state `left` of `Startup`).
- Two servers that start on an empty ledger both insert an active embedding model
  (`indexing/registry.py:234`); `ModelAgreed` has this case as its exception.
- `validate_settings` runs "before any deployment adapter is opened" but does not look at
  everything a part refuses: a period longer than a `timedelta` is found after the migrations,
  and after the model is written too a negative grace of orphans, `HF_HOME` or `HF_HUB_CACHE` inside
  the project (`infra/ai/adapters.py:63-71`) and a `REDIS_URL` its client cannot parse
  (`FoundLate` in `RefusedEarly`).
- A shutdown that comes between the registration of a renewal and the start of its thread joins
  a thread that was not started, which raises: `stop_worker` is not called, though the docstring
  promises to "record STOPPED as the last action" (`worker/core.py:403`), and the worker is not
  closed (`JoinUnstarted`).  The lease and the age of the heartbeat then do what a stop would have.
- `executor.submit` raises also when it has queued the claim and cannot start a thread
  for it: the slot is given back in `poll_tick` and again by the claim, and the shutdown does not
  wait for it (`ThreadNotStarted`, `GivenTwice`).
- The generations of the role cache are per process (`auth/core.py:140-141`).  Another one
  may put roles it read before a change into the cache after it: a revoked role is then served for up
  to 30 seconds from then, as `auth/README.md` allows; the bound of `test_auth.py:332`, 30 seconds from the
  change, is exceeded by the time between that process's read and its put.
- The cascade of a collection's deletion relies on the lock of one process
  (`MCProcessOf`): with clerks of two processes `CascadeComplete` does not hold.
- With the default settings rank fusion gives at most 1/61 and the gate asks for 0.3: when the
  reranker fails, a hybrid search is always judged too weak.
- One call of the language model that never returns keeps the only slot of
  `GenerationRunner`: every later generation ends at its deadline (`GenerationEnds` holds
  all the same).

## 5. Proofs

`TypeCorrect` (`IndexingLifecycleProofs`): `Spec => []TypeOK`, for every choice of
the constants that satisfies `ConstantsAssumption` and `NoneAssumption` (the
NULL of the model is not a worker, number or version).  `TypeOK` is inductive
by itself.  The interesting parts are the count of retries (each requeue is
guarded by `MayRetry`) and the shape of slots (a busy slot has the version and
token of a claim).

`LifecycleCorrect` (`IndexingLifecycleProofs`): `Spec => []LifecycleInv` with

    LifecycleInv == TypeOK /\ JobMatchesVersion /\ LiveIsLatest
                      /\ VersionsNumbered /\ LocksHeld

`JobMatchesVersion` and `LiveIsLatest` are not inductive alone.  `AddVersion`
needs that the version above the latest has no row (`VersionsNumbered`), and that
no older version is live, which its guard says of the version rows: there
`JobMatchesVersion` is needed.  `Claim` commits for a job it locked earlier: that
it is still `PENDING` is `LocksHeld`, which in turn needs that nothing but the
claim changes a locked row.  The proof has a lemma per row pattern (kept,
settled, restarted, extended rows), then one step per action.
`JobMatchesVersionAlways` and `LiveIsLatestAlways` follow.  (`LifecycleInv` contains
`TypeOK`, so this is also the type invariant the run checks.)

`IndexingPromisesProofs`: `Spec => []IInv` with `IInv == LifecycleInv /\ ServingInv /\
OwnershipInv`, the invariant the module states.  `ServedVersionIntact` needs that a version
which is served was completed and is not live, and that what supersedes it was
uploaded first (`UploadedFirst`); `OwnedOnce` needs that a token is given once
(`TokensFresh`) and that a success is recorded only with the end of its job.  The proof
sums up the transactions as few kinds of step of one job and one version, so that each
part of the invariant is shown once per kind.  From the invariant: `ServedAlwaysIntact`,
`OnlyCurrentIsSearchable`, `OwnedOnceAlways`; the action properties
`LeaseProtocolKept`, `ClaimsByActiveWorkers`, `DeletionIsFinal`, `RetriesAlwaysAccounted`;
and `LedgerImplementsLifecycle`, every transaction is a step of `VersionLifecycle` or
changes nothing a user sees.  Leases, heartbeats, tokens, retries, lost answers and crashes are
all below that level.

`SyncOutboxProofs`: `Spec => []OutboxInv` with

    OutboxInv == TypeOK /\ GivenUpAfterRetries /\ HeldUntilCommit
                   /\ EffectWithProcessed /\ AttemptsAccounted

The parts need each other.  `TypeOK` bounds the failures, and a failure stays in
bounds because an event being processed has a retry left (`GivenUpAfterRetries`).
A commit does not look at the event again: that it is still `PROCESSING`, so that
the effect is the first and the attempt that ends is the last row, is
`HeldUntilCommit`.  This one holds because `_owned` is checked under the row lock
and nobody else writes a locked row.  The proof first shows that every step is
one of five steps of one event (`OneEvent`), then each part of the invariant for
one event, and the types.  From it: `OutboxTypeCorrect`, `EffectOnce`,
`RetriesGranted`, `HeldAlways`, `AttemptsAlways`, `RowsAlwaysAccounted`, and `ImplementsDelivery`, the
safety part of the refinement, for any number of events, dispatchers and faults; and the
action property `LeaseAlwaysRespected`, an event whose lease has time left is ended by
its dispatcher only.  `DelayAssumption` says that a retry delay is within its cap for each retry there
can be: it contains a power, about which the provers know nothing, and TLC
evaluates it in the run.

`LedgerLocksProofs`: `NeverADeadlock`, `LocksSpec => []NoDeadlock`, for any number of
connections, documents, jobs and workers.  The argument is the classical one, about
this code's programs: each of the 23 programs locks its rows in ascending order of
`Rank` (`Ascends`, proved program by program), which no comment of the code states;
a transaction that others wait for therefore waits, if at all, for a row of a higher
rank; the set of waiting transactions of a circle would have one that waits for the
highest rank (`HighestRank`), and whoever it waits for would wait higher still.  The only
fact about the state is that a transaction stands at one of its statements (`Placed`), which
is inductive.

`CommitsAlwaysCurrent`, `LocksSpec => []CommitsCurrent`, is about the same programs from
the other side: what they read is still so when they commit.  Its invariant is

    CurrentInv == Typed /\ ExclusiveHeld /\ Begun /\ LiveLatest /\ ReadsKept

`ReadsKept` says which of the rows a transaction has locked keeps which of its reads true;
a read without a lock of its own (the other versions of a document, the end of an attempt)
is kept by a lock of a parent row, because every writer takes that one too.

`AccessCacheProofs`: the theorems hold for any threads, documents, collections and permissions,
whatever overlaps.  `LocksAlwaysKept`, `OnlyEditsInvertLocksAlways`: the locks exclude each other
as the methods expect, and only edits of a collection invert their order.
`RevokedNeverCached`: a revoked permission has no cached row, because a
put keeps its permission from being deleted.  `CacheSoundAlways`: every cached row is covered by the
ledger but the raced ones.  `CacheSound` is inductive: next to the rows in the cache
(`CoveredOrRaced`) it speaks of those that are still on their way (`PendingCovered`), and of a
removal between its invalidation and its commit, when it must have every row on its list that is not
raced, and nobody may be about to write another (`RemovalComplete`).  That is what the order of lock
and commit is for; a refresh, which gives its lock back before it commits, is the only
operation whose rows a removal can miss.  The corollary `CoveredUnlessMissed` says it the other way
round: in a behaviour in which no removal misses a row, `CacheCovered` holds.

`StorageProofs`.  `ResolvedStaysSettled` holds for any detectors and uploads: `FilesInv ==
FilesTypeOK /\ UploadsInv /\ DetectorsInv` says what each has looked at and what of it is
still so.  `FileKeptAlways` has the hypothesis `GraceOutlasts`, which is the configuration
the code relies on: an object younger than the grace of orphans may still be in
an upload, an older one may not.  `AnswersAlwaysReadable` and
`GenerationAlwaysSound` follow from `SearchInv == LedgerSound /\ RowsSound /\ EntrySound /\
GeneratorTyped /\ SlotSound`: what a request has collected it could read at some moment
since it began, an entry of the cache carries the documents it was made of, and the
one thread of the generator works for at most one request, whose deadline it may outlive.
`ReadingAlwaysSound` follows from `ReadingInv == ViewsInv /\ ToolsInv`, with `ViewsInv ==
LedgerTyped /\ CacheInv /\ RequestsReading`.  `CacheInv`: what is cached the ledger gives or was
raced, and the same of what an edit and a refresh in flight have written; a removal has on its list
every row it makes wrong, but those a refresh that it could not see is about to commit.  Each change
takes out of the cache the rows of the rights it takes away, and a decision that fills it, also
for other documents, has kept out whoever might take them away since it looked.  A request notes what
could be read since it began, and `RequestSound` says, at each statement of its decision, that it
has found, picked, shown and been allowed nothing else, but for what raced rows gave.  For the windows of the tools `ToolsPaced` is no induction
over the calls: `WindowSound` compares the calls of before with the start of the window that is open,
and it survives that windows are dropped by the calls of others.

`ServicesProofs`.  `VerdictAlwaysHolds` (`TxInv`): a block's mark is passed to
every block around it, so that the outermost tells what happened to all, for any depth.
`RolesAlwaysFresh` (`RolesInv`): a request writes its roles to the cache only under the
generation of its process that it read first, and an invalidation there changes that before it is
answered (`CacheFresh`); what another process puts is dated by its read, which was before
the next change (`Dated`, `RowFresh`).
`RevokedAlwaysStaysOut` (`KeyInv`): the first instant of a revocation is kept, it is not before
the last use, and every revoker that was answered has left it.  `WorkerAlwaysSound` (`RuntimeInv == RuntimeTypeOK /\
SlotsBalance /\ PollFormed /\ ClaimFormed`): the permits in use and the free ones are no fewer than the
concurrency, and more only by the claims that gave theirs back twice.  The proof shows that each transition of a claim adds it to the holders of a permit,
removes it or leaves it, and takes the cardinalities from that.
`MigrationsAlwaysTruthful` (`MigrationInv`) holds for any processes and packages that start on
an empty database.  Who is between the reading of the history and the commit holds the lock,
and its copy of the history is the history (`Positioned`); a broken commit holds the lock in
its place and is of the next file of its package (`OrphanFits`); what a run listed so far is
each file before its index, once (`Listed`).  A run outside the lock may know less than the
history by then, and what `Positioned` says of it holds of any longer one.
`ChangesAlwaysAccounted` (`AccountsInv`) holds for any clerks of any processes: a signup that
is about to commit holds the row of an account there is not yet, whoever waits for a row has
found its account, and the log of a role is one ahead of its removals just while the user
has it, because the table and not the roles read before the wait decides.
`AdministrationAlwaysSound` adds the collections (`CatalogInv`) and has the hypothesis
`OneProcess`: the subtree that is deleted is read before its rows are locked, and that nobody
adds a child to it meanwhile is the lock of the process.  While one clerk holds that, the
plan of a deletion stays a whole subtree (`HasChildren`), which its commit then deletes.
`StartupAlwaysSound` (`StartupInv`) holds for any servers, releases and configurations that start,
crash and start again.  What each part checks of the settings that `validate_settings` compares
follows from what was validated (`ValidIsTaken`); what is left for a later refusal is named by
`FoundLate`, and each of its four causes is found where the part that looks at it is built.  Models are only ever added, so that a list a server saw is still a
beginning of the registry; the tasks that run are the first of its tasks, so that a task that
does not start leaves none behind it.
`EmbeddingAlwaysSound` (`EmbeddingInv == RowsTyped /\ RowsSound /\ PermitsSound`) holds for any
callers, texts, limits and attempts.  A batch is a run of consecutive texts (`Run`) and the batches
one after the other are the texts; with the vectors of the batches that are done this gives
`VectorsComplete`, because only an answer in order is taken (`Complete`).  The batches are a
fold over the texts: `FoldingExists` and `FoldedSteps` unfold it, an induction over the numbers for
which it is defined (`SetInduction`).  `PermitsSound` says which permits are out in
each state of the breaker: while it is open none of the generation, while it is half open the
probe's and no other.

`AnswerGuardsProofs`.  `SearchesAlwaysGuarded` holds for any searches, questions and
threshold, from `GuardsInv == GuardsTyped /\ BreakerInv /\ \A r \in Askers : Answering(asker[r])`.
`BreakerSound` is not inductive: it counts probes, and does not say whose they are.
`BreakerInv` does: a permit of the current generation is in use, is a probe just while the breaker is
open, and the breaker's mark is the permit of one search.  An operation that ends has
two shapes, a new generation that makes old permits of all (`AllAged`) and the same generation
without a probe's permit (`OneEnded`); one lemma for each covers success, failure, lateness and refusal.
`Answering` says what each place of a search may rest on, before its answer is written
(`Unwritten`), while it stands (`Earned`) and after it was judged (`Judged`).

The same module has what a reader is given.  `ReadsAlwaysWhatWasParsed` (`ChunkingInv`) holds
for any sections and any window with a smaller overlap.  Each window goes on where the ones before it
end, or after the newline that follows (`WindowsFit`, `GoesOn`); while the text is cut they reach as
far as the loop is (`CutReaches`), and what is read so far is the text up to the end of the last
window read (`ReadUpTo`); a separator is missed by every window and put back for exactly one.  `Text` flattens the sections: `FlatteningGrows` adds one, by the same induction over numbers.
`PassagesAlwaysSound` adds the masks (`MaskingInv == passage \in Passages /\ TakenSound /\
MaskedSound`), for any matches, however they overlap and long their masks are.  The matches are replaced
from the last to the first, and as far as any of the others reaches every letter is still in
its place (`Untouched`): this is what makes offsets found in the text valid in the masked one, and it
fails for any other order.  `ReplacedIncreases` and `ReplacedHas` say what one replacement leaves.

`RetrievalAlwaysSound` holds for any chunks, documents, scores, limits and settings, and for any
definition that is in order.  That is assumed, because definitions are configuration: the steps are those
of section 3 with ids of their own, the ranking ones come in the order of
`search/test_stage7_pipeline.py`, merging, live check and scoping have no precondition
(`RankingOrder`), `mode_search` always leaves its trace, the traces of a mode have names of their
own, those of a cascade are declared stage by stage, and the first two stages end with their markers (`TracesDeclared`).  The run's
definition has both (`ConfigurationAssumption`).  Other steps may come anywhere, and any may be switched
off or left out.

`RetrievalInv == RankInv /\ GateInv /\ TraceInv` says what a context is after each step.  `RankedSoundly`
speaks only of what is merged; `RankInv` has in addition what there is before, by the ranks that are behind
(`Reached`): no batch before the search, no row before the merge, no rank of the model before the reranker.
With this the order of the definition decides what a handler finds: the merge finds all
batches (`MergedRows`), the live check the rows of the merge, the scope both.
`TraceInv` says which marks are in the trace (`Placed`) and that the search finds no stage and no variant
there (`Plain`).  Each handler has a lemma for its ranking (`MergeRanked`, `LivecheckRanked`, `ScopeRanked`,
`RerankingRanked`) and one for the rest of what it leaves (`StepOutcome`); `StepTraced` and `StepUntraced` add the
trace.  Every sort of the code is one definition, `Ranked`, the place of each by how many are ahead of it:
`RankedInOrder` proves for any strict total order of finitely many that this is a list of
all, each once and in order, and `ByScore`, `At` and `Steps` are instances.  `CascadeEnds` proves
that cutting the declared traces at their markers gives each stage its own.

Only model-checked: all liveness (`KeepsPromises`, `OrphansDeleted`,
`GenerationEnds`, `StopCompletes`, `ProbeSettles`, `ChangesShown` and the liveness of
`DeliversEvents`), which is out of the prover's reach, as is `ENABLED`.

## 6. What could follow

1. What is left of `RankedSoundly` for a definition with its filters in another order, or with
   preconditions of their own, which the interpreter would run just as well.

## 7. Not modelled

- SQL text and row mapping, HTTP routing and envelope, JSON-RPC and STOMP syntax, upload
  validation: translation without state.  Where a constraint or the form of a
  statement matters, the definition names it.
- The definition of the search pipeline: configuration that is not in the repository.
  `Retrieval` takes any definition; the run uses one of all the steps that are modelled, in the order of
  `search/test_stage7_pipeline.py`.  The search history, prompts and highlighting.
- The extraction of text from PDF, DOCX, HTML and others: `Chunking` starts from any
  sections.  The patterns of the guardrails: a classification may come out either way,
  a match is a span.
- Providers (AI services, object storage, Redis, PostgreSQL) are external: modelled by
  what the code must expect of them, errors and lost answers included.
- Several API processes that change collections and permissions at once: the locks of the two
  services are per process in the code, and `Administration`, `AccessCache` and `Reading` have one
  process.  `Identity` has several.
- The denial that a partly filled access cache may bring (`permissions/core.py:227`): the models have
  it, no document excludes it, and no property is about it.
- Poll back-off, retry delays with jitter and `Retry-After`: a delay is any within its bound.
- Frontend (`src/frontend`), end-to-end scripts (`src/tools`), tests.  `components` of
  `PROJECT.json` says part by part what is left out.
