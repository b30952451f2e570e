---------------------------- MODULE IndexingJobs ----------------------------
(***************************************************************************)
(* The indexing ledger of VectorShelf (src/src/indexing) composed with the *)
(* worker process that drives it (execute_claim in src/src/application.py, *)
(* src/src/worker) and with the document operations that share its tables  *)
(* (src/src/documents/core.py).                                            *)
(*                                                                         *)
(* A table of the ledger is a function from its key to a row.  The ledger  *)
(* allows one job per document version (uq_indexing_jobs_document_version),*)
(* so a job is named by its version.  An action is one database            *)
(* transaction: the service locks its rows job, worker, version, document, *)
(* attempt in that order, so transactions on one job are serial.  The two  *)
(* exceptions are modelled as they run: claim holds a row lock that other  *)
(* claims skip, and save_chunks and save_embeddings leave the transaction  *)
(* while the parser or the embedding provider works.                       *)
(*                                                                         *)
(* Abstractions.  Instants are kept as the time left until them: lease,    *)
(* due and beat count down with Tick and 0 means that the instant has been *)
(* reached, so an unbounded clock has finitely many states.  All processes *)
(* share the clock.  The content of chunks and vectors is left out: a      *)
(* version has all its chunks or none, and all its vectors or none, in one *)
(* status.  Priorities are equal, as for every job the upload path makes.  *)
(***************************************************************************)
EXTENDS Integers, FiniteSets

CONSTANTS
    Docs,            \* documents
    Workers,         \* worker rows, one per process instance
    Slots,           \* execution slots (threads) of the worker processes
    Host,            \* the worker process of a slot
    Mortal,          \* the workers that may crash or be shut down
    None,            \* SQL NULL
    MaxVersions,     \* bound on the versions of a document
    MaxRetries,      \* indexing_jobs.max_retries
    MaxClaims,       \* bound on the claims of a job (limits manual retries)
    LeaseDuration,   \* ticks a lease lasts
    DeadThreshold,   \* ticks without a heartbeat until a worker is dead
    MaxDelay,        \* bound on the delay of an automatic retry
    MaxFaults,       \* bound on lost answers and failing calls
    Deletable,       \* the documents a user may delete
    Timely,          \* TRUE: renewals and heartbeats keep their periods
    Reports          \* whether reported failures are retryable: {TRUE} for
                     \* execute_claim, BOOLEAN if workers report over REST too

ASSUME ConstantsAssumption ==
    /\ Host \in [Slots -> Workers]
    /\ Mortal \subseteq Workers
    /\ Deletable \subseteq Docs
    /\ MaxVersions \in Nat \ {0}
    /\ MaxRetries \in Nat
    /\ MaxClaims \in Nat /\ MaxClaims > MaxRetries
    /\ LeaseDuration \in Nat \ {0}
    /\ DeadThreshold \in Nat \ {0}
    /\ MaxDelay \in Nat \ {0}
    /\ MaxFaults \in Nat
    /\ Timely \in BOOLEAN
    /\ Reports \subseteq BOOLEAN

ASSUME NoneAssumption ==
    /\ None \notin Workers
    /\ None \notin Nat
    /\ None \notin Docs \X (1..MaxVersions)

VARIABLES
    worker,      \* indexing_workers and whether the process runs
    document,    \* documents
    version,     \* document_versions with document_chunks, document_vectors
    job,         \* indexing_jobs
    attempt,     \* indexing_attempts, by job and claim token
    outbox,      \* the DOCUMENT_DELETED event of a document
    slot,        \* the claim each slot executes and how far it is
    lastJob,     \* the job_id sequence
    faults       \* faults spent, at most MaxFaults

ledger == <<document, version, job, attempt, outbox, lastJob>>
vars == <<worker, document, version, job, attempt, outbox, slot, lastJob, faults>>

-----------------------------------------------------------------------------
(* Rows. *)

Versions == Docs \X (1..MaxVersions)
Doc(v) == v[1]
Tokens == 1..MaxClaims

ActiveStates == {"UPLOADED", "PARSING", "CHUNKED", "EMBEDDING"}
LiveStates == {"PENDING", "PROCESSING"}

WorkerRow == [status : {"NONE", "ACTIVE", "STOPPED", "DEAD"},
              beat : 0..DeadThreshold, running : BOOLEAN]
DocumentRow == [status : {"NONE", "UPLOADED", "INDEXING", "INDEXED",
                          "FAILED", "DELETED"},
                current : 0..MaxVersions, latest : 0..MaxVersions]
VersionRow == [status : ActiveStates \cup {"NONE", "INDEXED", "FAILED"},
               chunks : BOOLEAN, vectors : {"NONE", "ACTIVE", "STALE"}]
JobRow == [status : LiveStates \cup {"NONE", "INDEXED", "FAILED"},
           id : Nat, owner : Workers \cup {None}, token : Tokens \cup {None},
           lease : (0..LeaseDuration) \cup {None},
           retries : 0..MaxRetries, due : 0..MaxDelay, claims : 0..MaxClaims]
AttemptStates == {"NONE", "STARTED", "SUCCESS", "FAILED"}

(* What a slot does next: "locked" holds the row lock of claim; the others *)
(* name the next transaction of execute_claim.                             *)
Busy == {"start", "parse", "chunk", "embed", "insert", "finish", "report"}
\* lease is what the claim will grant: it counts from the instant claim began.
IdleSlot == [pc |-> "idle", ver |-> None, token |-> None, lease |-> 0,
             interrupted |-> FALSE]
LockedSlot == [pc : {"locked"}, ver : Versions, token : {None},
               lease : 0..LeaseDuration, interrupted : {FALSE}]
BusySlot == [pc : Busy, ver : Versions, token : Tokens, lease : {0},
             interrupted : BOOLEAN]
SlotRow == {IdleSlot} \cup LockedSlot \cup BusySlot

TypeOK ==
    /\ worker \in [Workers -> WorkerRow]
    /\ document \in [Docs -> DocumentRow]
    /\ version \in [Versions -> VersionRow]
    /\ job \in [Versions -> JobRow]
    /\ attempt \in [Versions -> [Tokens -> AttemptStates]]
    /\ outbox \in [Docs -> {"NONE", "PENDING", "PROCESSED"}]
    /\ slot \in [Slots -> SlotRow]
    /\ lastJob \in Nat
    /\ faults \in 0..MaxFaults

Init ==
    /\ worker = [w \in Workers |->
                   [status |-> "NONE", beat |-> 0, running |-> FALSE]]
    /\ document = [d \in Docs |->
                     [status |-> "NONE", current |-> 0, latest |-> 0]]
    /\ version = [v \in Versions |->
                    [status |-> "NONE", chunks |-> FALSE, vectors |-> "NONE"]]
    /\ job = [v \in Versions |->
                [status |-> "NONE", id |-> 0, owner |-> None, token |-> None,
                 lease |-> None, retries |-> 0, due |-> 0, claims |-> 0]]
    /\ attempt = [v \in Versions |-> [t \in Tokens |-> "NONE"]]
    /\ outbox = [d \in Docs |-> "NONE"]
    /\ slot = [s \in Slots |-> IdleSlot]
    /\ lastJob = 0
    /\ faults = 0

-----------------------------------------------------------------------------
(* Predicates shared by the operations. *)

\* _effective: the stored status, read as DEAD once the heartbeat is too old.
Effective(w) == worker[w].status = "ACTIVE" /\ worker[w].beat > 0

\* Mutant of Owns: the claim token is not compared.
OwnsByWorker(s) ==
    LET v == slot[s].ver IN
    /\ job[v].status = "PROCESSING"
    /\ job[v].owner = Host[s]
    /\ job[v].lease # 0

\* Mutant of Owns: an unexpired lease is enough, whoever holds it.
OwnsByLease(s) ==
    job[slot[s].ver].status = "PROCESSING" /\ job[slot[s].ver].lease # 0

\* _ownership: the checks every owner operation starts with.
Owns(s) ==
    LET v == slot[s].ver IN
    /\ job[v].status = "PROCESSING"
    /\ job[v].owner = Host[s]
    /\ job[v].token = slot[s].token
    /\ job[v].lease # 0

\* Mutant of OwnsAttempt: an open attempt is enough.
OpenAttempt(s) ==
    slot[s].token # None /\ attempt[slot[s].ver][slot[s].token] = "STARTED"

\* _started_attempt on top of _ownership.
OwnsAttempt(s) ==
    Owns(s) /\ attempt[slot[s].ver][slot[s].token] = "STARTED"

\* Mutants of Committable: one of its conditions is forgotten.
CommittableIfNotDeleted(v) == document[Doc(v)].status # "DELETED"
CommittableIfLatest(v) == document[Doc(v)].latest = v[2]

\* What commit_index_progress demands of the document of v.
Committable(v) ==
    /\ document[Doc(v)].status # "DELETED"
    /\ document[Doc(v)].latest = v[2]

\* Mutant of ServedByOther: a failure forgets the version that is served.
ServedByNone(v) == FALSE

\* A version other than v that is INDEXED and current keeps its document served.
ServedByOther(v) ==
    LET c == document[Doc(v)].current IN
    c # 0 /\ c # v[2] /\ version[<<Doc(v), c>>].status = "INDEXED"

\* _clear_ownership
Released(row) == [row EXCEPT !.owner = None, !.token = None, !.lease = None]

\* Mutant of Rewound: the version keeps the state it failed in.
KeptAsIs(row) == row

\* The version state a job restarts from.
Rewound(row) == [row EXCEPT !.status = IF row.chunks THEN "CHUNKED" ELSE "UPLOADED"]

\* Mutant of Staled: vectors stay in the searchable set.
KeptActive(row) == row

Staled(row) == [row EXCEPT !.vectors = IF @ = "ACTIVE" THEN "STALE" ELSE @]

\* Mutant of MayRetry: one retry too many.
MayRetryOnceMore(v) == job[v].retries <= MaxRetries

MayRetry(v) == job[v].retries < MaxRetries

\* Mutants of LeaseExpired: a tick early, and never for a job without retries.
LeaseNearlyExpired(v) == job[v].lease \in {0, 1}
LeaseExpiredWithRetries(v) == job[v].lease = 0 /\ MayRetry(v)

LeaseExpired(v) == job[v].lease = 0

\* Mutant of Requeued: the retry is not counted.
RequeuedUncounted(row, delay) ==
    Released([row EXCEPT !.status = "PENDING", !.due = delay])

\* retry_count + 1, back to PENDING after a delay, no owner.
Requeued(row, delay) ==
    Released([row EXCEPT !.status = "PENDING", !.retries = @ + 1, !.due = delay])

\* Slot s goes on to step next, or the answer of its call is lost and the
\* exception handler of execute_claim takes over.
Answered(s, next) ==
    \/ /\ slot' = [slot EXCEPT ![s].pc = next]
       /\ UNCHANGED faults
    \/ /\ faults < MaxFaults
       /\ faults' = faults + 1
       /\ slot' = [slot EXCEPT ![s].pc = "report"]

\* The call of slot s raised and its transaction was rolled back.
Raised(s) ==
    /\ slot' = [slot EXCEPT ![s].pc = "report"]
    /\ UNCHANGED <<worker, ledger, faults>>

-----------------------------------------------------------------------------
(* Workers. *)

RegisterWorker(w) ==
    /\ worker[w].status = "NONE"
    /\ worker' = [worker EXCEPT ![w] =
                    [status |-> "ACTIVE", beat |-> DeadThreshold, running |-> TRUE]]
    /\ UNCHANGED <<ledger, slot, faults>>

\* A worker whose row is no longer ACTIVE gets WORKER-002 and stays as it is.
Heartbeat(w) ==
    /\ worker[w].running /\ worker[w].status = "ACTIVE"
    /\ worker' = [worker EXCEPT ![w].beat = DeadThreshold]
    /\ UNCHANGED <<ledger, slot, faults>>

\* shutdown: after the grace period the unfinished claims are interrupted, their
\* renewals end and STOPPED is recorded; Python threads go on.
StopWorker(w) ==
    /\ w \in Mortal /\ worker[w].running
    /\ worker' = [worker EXCEPT ![w].status = "STOPPED", ![w].running = FALSE]
    /\ slot' = [s \in Slots |->
                  IF Host[s] = w /\ slot[s].pc \in Busy
                  THEN [slot[s] EXCEPT !.interrupted = TRUE] ELSE slot[s]]
    /\ UNCHANGED <<ledger, faults>>

\* The process dies: its threads and its row locks are gone.
Crash(w) ==
    /\ w \in Mortal /\ worker[w].running
    /\ worker' = [worker EXCEPT ![w].running = FALSE]
    /\ slot' = [s \in Slots |-> IF Host[s] = w THEN IdleSlot ELSE slot[s]]
    /\ UNCHANGED <<ledger, faults>>

\* recover_expired, first phase, run by any process whose schedulers run.
MarkDead(w) ==
    /\ \E r \in Workers : worker[r].running
    /\ worker[w].status = "ACTIVE" /\ ~Effective(w)
    /\ worker' = [worker EXCEPT ![w].status = "DEAD"]
    /\ UNCHANGED <<ledger, slot, faults>>

\* A slot whose renewal thread runs and would be granted the lease.
Renewing(s) ==
    /\ slot[s].pc \in Busy /\ ~slot[s].interrupted
    /\ worker[Host[s]].running
    /\ Owns(s) /\ Effective(Host[s])

Elapsed(t) == IF t \in Nat \ {0} THEN t - 1 ELSE t

\* One tick passes.  When Timely, it does not pass a heartbeat or a renewal that
\* is due (heartbeat_interval < dead_threshold, lease_renew_interval < lease), and
\* a claim commits within its lease.
Tick ==
    /\ Timely => /\ \A w \in Workers :
                       worker[w].running /\ worker[w].status = "ACTIVE"
                          => worker[w].beat > 1
                 /\ \A s \in Slots : Renewing(s) => job[slot[s].ver].lease > 1
                 /\ \A s \in Slots : slot[s].pc = "locked" => slot[s].lease > 1
    /\ worker' = [w \in Workers |-> [worker[w] EXCEPT !.beat = Elapsed(@)]]
    /\ job' = [v \in Versions |->
                 [job[v] EXCEPT !.lease = Elapsed(@), !.due = Elapsed(@)]]
    /\ slot' = [s \in Slots |-> [slot[s] EXCEPT !.lease = Elapsed(@)]]
    /\ UNCHANGED <<document, version, attempt, outbox, lastJob, faults>>

-----------------------------------------------------------------------------
(* claim: the row lock on the first due job, then the commit.  Both see the *)
(* instant at which claim began.                                           *)

Claimable(v) ==
    /\ job[v].status = "PENDING" /\ job[v].due = 0
    /\ \A s \in Slots : slot[s].pc = "locked" => slot[s].ver # v

LockNextPendingJob(s, v) ==
    /\ slot[s].pc = "idle"
    /\ worker[Host[s]].running /\ Effective(Host[s])
    /\ Claimable(v)
    /\ \A u \in Versions : Claimable(u) => job[v].id <= job[u].id
    /\ slot' = [slot EXCEPT ![s] = [IdleSlot EXCEPT !.pc = "locked", !.ver = v,
                                                    !.lease = LeaseDuration]]
    /\ UNCHANGED <<worker, ledger, faults>>

\* Mutant of ClaimAllowed: the worker is not looked at again under the lock.
ClaimAllowedOnce(s) == Committable(slot[s].ver)

\* The worker row is read again under its lock, the clock is not: a heartbeat
\* that became too old meanwhile goes unnoticed until recovery marks it DEAD.
ClaimAllowed(s) == worker[Host[s]].status = "ACTIVE" /\ Committable(slot[s].ver)

\* _start_renewal: an older thread of this process still executes the job.
HeldByOldThread(s) ==
    \E r \in Slots \ {s} :
        Host[r] = Host[s] /\ slot[r].pc \in Busy /\ slot[r].ver = slot[s].ver

\* The claim commits and the slot starts it.  If an older thread holds the job,
\* the executor refuses it or the answer is lost, the job stays PROCESSING
\* without anybody working on it.
Claim(s) ==
    LET v == slot[s].ver
        t == job[v].claims + 1
    IN /\ slot[s].pc = "locked"
       /\ ClaimAllowed(s)
       /\ t \in Tokens
       /\ job' = [job EXCEPT ![v] =
                    [@ EXCEPT !.status = "PROCESSING", !.owner = Host[s],
                              !.token = t, !.claims = t, !.lease = slot[s].lease]]
       /\ document' = [document EXCEPT ![Doc(v)].status =
                         IF @ = "UPLOADED" THEN "INDEXING" ELSE @]
       /\ \/ /\ ~HeldByOldThread(s)
             /\ slot' = [slot EXCEPT ![s].pc = "start", ![s].token = t,
                                      ![s].lease = 0]
             /\ UNCHANGED faults
          \/ /\ HeldByOldThread(s)
             /\ slot' = [slot EXCEPT ![s] = IdleSlot]
             /\ UNCHANGED faults
          \/ /\ faults < MaxFaults /\ faults' = faults + 1
             /\ slot' = [slot EXCEPT ![s] = IdleSlot]
       /\ UNCHANGED <<worker, version, attempt, outbox, lastJob>>

ClaimRolledBack(s) ==
    /\ slot[s].pc = "locked"
    /\ ~ClaimAllowed(s)
    /\ slot' = [slot EXCEPT ![s] = IdleSlot]
    /\ UNCHANGED <<worker, ledger, faults>>

-----------------------------------------------------------------------------
(* The renewal thread of a claim. *)

\* A renewal comes a renew interval after the last one, never at its instant.
Renew(s) ==
    /\ Renewing(s)
    /\ job[slot[s].ver].lease < LeaseDuration
    /\ job' = [job EXCEPT ![slot[s].ver].lease = LeaseDuration]
    /\ UNCHANGED <<worker, document, version, attempt, outbox, slot, lastJob, faults>>

RenewRejected(s) ==
    /\ slot[s].pc \in Busy /\ ~slot[s].interrupted
    /\ worker[Host[s]].running
    /\ ~(Owns(s) /\ Effective(Host[s]))
    /\ slot' = [slot EXCEPT ![s].interrupted = TRUE]
    /\ UNCHANGED <<worker, ledger, faults>>

-----------------------------------------------------------------------------
(* execute_claim, one transaction at a time. *)

\* start_attempt: the attempt of this claim token, created once.
StartAttempt(s) ==
    LET v == slot[s].ver
        t == slot[s].token
    IN /\ slot[s].pc = "start" /\ Owns(s)
       /\ attempt' = [attempt EXCEPT ![v][t] = IF @ = "NONE" THEN "STARTED" ELSE @]
       /\ \/ slot' = [slot EXCEPT ![s].pc = "parse"] /\ UNCHANGED faults
          \/ /\ faults < MaxFaults /\ faults' = faults + 1
             /\ slot' = [slot EXCEPT ![s] = IdleSlot]
       /\ UNCHANGED <<worker, document, version, job, outbox, lastJob>>

\* Without an attempt there is nothing to report: the exception ends the claim.
StartRejected(s) ==
    /\ slot[s].pc = "start" /\ ~Owns(s)
    /\ slot' = [slot EXCEPT ![s] = IdleSlot]
    /\ UNCHANGED <<worker, ledger, faults>>

\* save_chunks finds the chunks of an earlier attempt; the ledger refuses them
\* for a deleted document.
ChunksKept(s) ==
    LET v == slot[s].ver IN
    /\ OwnsAttempt(s)
    /\ version[v].status = "CHUNKED" /\ version[v].chunks
    /\ document[Doc(v)].status # "DELETED"

ChunksReplayed(s) ==
    /\ slot[s].pc \in {"parse", "chunk"} /\ ChunksKept(s)
    /\ Answered(s, "embed")
    /\ UNCHANGED <<worker, ledger>>

MayParse(s) ==
    LET v == slot[s].ver IN
    /\ OwnsAttempt(s)
    /\ version[v].status \in {"UPLOADED", "PARSING"}
    /\ Committable(v)

\* First transaction of save_chunks; the parser runs after it.
ParseStarted(s) ==
    /\ slot[s].pc = "parse" /\ MayParse(s)
    /\ version' = [version EXCEPT ![slot[s].ver].status = "PARSING"]
    /\ Answered(s, "chunk")
    /\ UNCHANGED <<worker, document, job, attempt, outbox, lastJob>>

MayChunk(s) ==
    LET v == slot[s].ver IN
    /\ OwnsAttempt(s)
    /\ version[v].status = "PARSING"
    /\ document[Doc(v)].status # "DELETED"

\* Second transaction of save_chunks.
ChunksSaved(s) ==
    /\ slot[s].pc = "chunk" /\ MayChunk(s)
    /\ version' = [version EXCEPT ![slot[s].ver] =
                     [@ EXCEPT !.status = "CHUNKED", !.chunks = TRUE]]
    /\ Answered(s, "embed")
    /\ UNCHANGED <<worker, document, job, attempt, outbox, lastJob>>

ChunksRejected(s) ==
    /\ \/ slot[s].pc = "parse" /\ ~ChunksKept(s) /\ ~MayParse(s)
       \/ slot[s].pc = "chunk" /\ ~ChunksKept(s) /\ ~MayChunk(s)
    /\ Raised(s)

VectorsComplete(v) == version[v].chunks /\ version[v].vectors # "NONE"

\* save_embeddings finds complete vectors: a retry makes the staled ones ACTIVE.
MayReuseVectors(s) ==
    OwnsAttempt(s) /\ VectorsComplete(slot[s].ver) /\ Committable(slot[s].ver)

Reactivated(row) ==
    [row EXCEPT !.vectors = "ACTIVE",
                !.status = IF row.status = "CHUNKED" THEN "EMBEDDING" ELSE row.status]

VectorsReused(s) ==
    /\ slot[s].pc = "embed" /\ MayReuseVectors(s)
    /\ version' = [version EXCEPT ![slot[s].ver] = Reactivated(@)]
    /\ Answered(s, "finish")
    /\ UNCHANGED <<worker, document, job, attempt, outbox, lastJob>>

MayEmbed(s) ==
    LET v == slot[s].ver IN
    /\ OwnsAttempt(s)
    /\ ~VectorsComplete(v) /\ version[v].chunks
    /\ version[v].status \in {"CHUNKED", "EMBEDDING"}
    /\ Committable(v)

\* First transaction of save_embeddings; the provider is called after it.
EmbeddingStarted(s) ==
    /\ slot[s].pc = "embed" /\ MayEmbed(s)
    /\ version' = [version EXCEPT ![slot[s].ver].status = "EMBEDDING"]
    /\ Answered(s, "insert")
    /\ UNCHANGED <<worker, document, job, attempt, outbox, lastJob>>

\* Second transaction of save_embeddings: it looks at the job, the attempt and
\* the chunks, and neither at the document nor at its deletion.
VectorsInserted(s) ==
    /\ slot[s].pc = "insert" /\ OwnsAttempt(s)
    /\ version' = [version EXCEPT ![slot[s].ver].vectors =
                     IF @ = "NONE" THEN "ACTIVE" ELSE @]
    /\ Answered(s, "finish")
    /\ UNCHANGED <<worker, document, job, attempt, outbox, lastJob>>

EmbeddingsRejected(s) ==
    /\ \/ slot[s].pc = "embed" /\ ~MayReuseVectors(s) /\ ~MayEmbed(s)
       \/ slot[s].pc = "insert" /\ ~OwnsAttempt(s)
    /\ Raised(s)

\* A parser, storage, provider or database error before the commit.
CallFails(s) ==
    /\ slot[s].pc # "idle"
    /\ faults < MaxFaults /\ faults' = faults + 1
    /\ slot' = [slot EXCEPT ![s] = IF slot[s].pc \in {"locked", "start", "report"}
                                   THEN IdleSlot ELSE [@ EXCEPT !.pc = "report"]]
    /\ UNCHANGED <<worker, ledger>>

\* execute_claim looks at the interrupt between the calls and in its handler.
Withdraw(s) ==
    /\ slot[s].interrupted /\ slot[s].pc \in {"parse", "embed", "finish", "report"}
    /\ slot' = [slot EXCEPT ![s] = IdleSlot]
    /\ UNCHANGED <<worker, ledger, faults>>

-----------------------------------------------------------------------------
(* complete and fail. *)

MayComplete(s) ==
    LET v == slot[s].ver
        d == document[Doc(v)]
    IN /\ OwnsAttempt(s)
       /\ version[v].status = "EMBEDDING"
       /\ d.status \in {"UPLOADED", "INDEXING", "INDEXED"}
       /\ d.latest = v[2] /\ d.current <= v[2]
       /\ version[v].chunks /\ version[v].vectors = "ACTIVE"

Complete(s) ==
    LET v == slot[s].ver IN
    /\ slot[s].pc = "finish" /\ MayComplete(s)
    /\ version' = [u \in Versions |->
                     IF u = v THEN [version[v] EXCEPT !.status = "INDEXED"]
                     ELSE IF Doc(u) = Doc(v) THEN Staled(version[u])
                     ELSE version[u]]
    /\ document' = [document EXCEPT ![Doc(v)] =
                      [@ EXCEPT !.status = "INDEXED", !.current = v[2]]]
    /\ job' = [job EXCEPT ![v].status = "INDEXED"]
    /\ attempt' = [attempt EXCEPT ![v][slot[s].token] = "SUCCESS"]
    /\ \/ slot' = [slot EXCEPT ![s] = IdleSlot] /\ UNCHANGED faults
       \/ /\ faults < MaxFaults /\ faults' = faults + 1
          /\ slot' = [slot EXCEPT ![s].pc = "report"]
    /\ UNCHANGED <<worker, outbox, lastJob>>

CompleteRejected(s) ==
    slot[s].pc = "finish" /\ ~MayComplete(s) /\ Raised(s)

\* _final_failure
FinalFailure(v) ==
    /\ job' = [job EXCEPT ![v] =
                 Released([@ EXCEPT !.status = "FAILED", !.due = 0])]
    /\ version' = [version EXCEPT ![v] = Staled([@ EXCEPT !.status = "FAILED"])]
    /\ document' = [document EXCEPT ![Doc(v)].status =
                      IF ServedByOther(v) THEN "INDEXED" ELSE "FAILED"]

\* Mutant of MayFail: the document is not looked at.
MayFailAnyway(s) == OwnsAttempt(s) /\ version[slot[s].ver].status \in ActiveStates

\* commit_index_failure refuses a deleted document and the failure is undone.
MayFail(s) ==
    LET v == slot[s].ver IN
    /\ OwnsAttempt(s)
    /\ version[v].status \in ActiveStates
    /\ document[Doc(v)].status # "DELETED"

\* fail: a retryable failure is scheduled again and leaves the version as it is.
Fail(s, retryable) ==
    LET v == slot[s].ver IN
    /\ slot[s].pc = "report" /\ MayFail(s)
    /\ attempt' = [attempt EXCEPT ![v][slot[s].token] = "FAILED"]
    /\ IF retryable /\ MayRetry(v)
       THEN /\ \E delay \in 1..MaxDelay :
                 job' = [job EXCEPT ![v] = Requeued(@, delay)]
            /\ UNCHANGED <<document, version>>
       ELSE FinalFailure(v)
    /\ slot' = [slot EXCEPT ![s] = IdleSlot]
    /\ UNCHANGED <<worker, outbox, lastJob, faults>>

\* report_failure_from_worker swallows the loss of the claim; another error ends
\* the thread.
FailRejected(s) ==
    /\ slot[s].pc = "report" /\ ~MayFail(s)
    /\ slot' = [slot EXCEPT ![s] = IdleSlot]
    /\ UNCHANGED <<worker, ledger, faults>>

-----------------------------------------------------------------------------
(* recover_expired, per job, and manual_retry. *)

RecoverExpired(v) ==
    /\ \E r \in Workers : worker[r].running
    /\ job[v].status = "PROCESSING" /\ LeaseExpired(v)
    /\ Committable(v)
    /\ IF MayRetry(v)
       THEN /\ \E delay \in 1..MaxDelay :
                 job' = [job EXCEPT ![v] = Requeued(@, delay)]
            /\ version' = [version EXCEPT ![v] = Rewound(@)]
            /\ UNCHANGED document
       ELSE FinalFailure(v)
    /\ UNCHANGED <<worker, attempt, outbox, slot, lastJob, faults>>

\* Mutant of MayRestart: a finished job is restarted too.
MayRestartAny(v) ==
    /\ job[v].status \in {"FAILED", "INDEXED"}
    /\ Committable(v)
    /\ job[v].claims + (MaxRetries - job[v].retries) + 1 <= MaxClaims

\* The last conjunct is the bound MaxClaims: there are tokens for the claims of
\* the restarted job.
MayRestart(v) ==
    /\ job[v].status = "FAILED" /\ version[v].status = "FAILED"
    /\ Committable(v)
    /\ job[v].claims + (MaxRetries - job[v].retries) + 1 <= MaxClaims

\* An administrator, retry_all or a reindex event restarts a failed job.
ManualRetry(v) ==
    /\ MayRestart(v)
    /\ job' = [job EXCEPT ![v] = Released([@ EXCEPT !.status = "PENDING", !.due = 0])]
    /\ version' = [version EXCEPT ![v] = Rewound(@)]
    /\ document' = [document EXCEPT ![Doc(v)].status =
                      IF ServedByOther(v) THEN "INDEXED" ELSE "UPLOADED"]
    /\ UNCHANGED <<worker, attempt, outbox, slot, lastJob, faults>>

-----------------------------------------------------------------------------
(* Document operations on the shared tables. *)

\* The version row, its job and the latest pointer, in one transaction.
NewVersion(v) ==
    /\ version' = [version EXCEPT ![v].status = "UPLOADED"]
    /\ job' = [job EXCEPT ![v].status = "PENDING", ![v].id = lastJob + 1]
    /\ lastJob' = lastJob + 1
    /\ UNCHANGED <<worker, attempt, outbox, slot, faults>>

Upload(d) ==
    /\ document[d].status = "NONE"
    /\ document' = [document EXCEPT ![d].status = "UPLOADED", ![d].latest = 1]
    /\ NewVersion(<<d, 1>>)

\* _validate_new_version, which add_version repeats under the document lock.
MayAddVersion(d) ==
    LET row == document[d] IN
    /\ \A v \in Versions : Doc(v) = d => version[v].status \notin ActiveStates
    /\ \/ /\ row.status = "INDEXED" /\ row.current # 0
          /\ version[<<d, row.current>>].status = "INDEXED"
       \/ /\ row.status = "FAILED" /\ row.latest # 0
          /\ version[<<d, row.latest>>].status = "FAILED"

Extended(row, n) ==
    [row EXCEPT !.latest = n,
                !.status = IF row.status = "FAILED" THEN "UPLOADED" ELSE row.status]

AddVersion(d) ==
    LET n == document[d].latest + 1 IN
    /\ n <= MaxVersions
    /\ MayAddVersion(d)
    /\ document' = [document EXCEPT ![d] = Extended(@, n)]
    /\ NewVersion(<<d, n>>)

\* delete marks the document and publishes the event; jobs are left alone.
Delete(d) ==
    /\ d \in Deletable
    /\ document[d].status \notin {"NONE", "DELETED"}
    /\ document' = [document EXCEPT ![d].status = "DELETED"]
    /\ outbox' = [outbox EXCEPT ![d] = "PENDING"]
    /\ UNCHANGED <<worker, version, job, attempt, slot, lastJob, faults>>

\* commit_sync_document_deleted: the vectors go stale and the event is PROCESSED.
DispatchDeleted(d) ==
    /\ outbox[d] = "PENDING"
    /\ outbox' = [outbox EXCEPT ![d] = "PROCESSED"]
    /\ version' = [v \in Versions |->
                     IF Doc(v) = d THEN Staled(version[v]) ELSE version[v]]
    /\ UNCHANGED <<worker, document, job, attempt, slot, lastJob, faults>>

-----------------------------------------------------------------------------
(* Specification. *)

ClaimStep(s) ==
    (\E v \in Versions : LockNextPendingJob(s, v)) \/ Claim(s) \/ ClaimRolledBack(s)

\* One transaction of the claim a slot executes.
ExecuteStep(s) ==
    \/ StartAttempt(s) \/ StartRejected(s)
    \/ ChunksReplayed(s) \/ ParseStarted(s) \/ ChunksSaved(s) \/ ChunksRejected(s)
    \/ VectorsReused(s) \/ EmbeddingStarted(s) \/ VectorsInserted(s)
    \/ EmbeddingsRejected(s)
    \/ Complete(s) \/ CompleteRejected(s)
    \/ (\E retryable \in Reports : Fail(s, retryable)) \/ FailRejected(s)

RenewStep(s) == Renew(s) \/ RenewRejected(s)

SlotStep(s) ==
    ClaimStep(s) \/ ExecuteStep(s) \/ RenewStep(s) \/ Withdraw(s) \/ CallFails(s)

WorkerStep(w) ==
    RegisterWorker(w) \/ Heartbeat(w) \/ MarkDead(w) \/ StopWorker(w) \/ Crash(w)

DocumentStep(d) == Upload(d) \/ AddVersion(d) \/ Delete(d) \/ DispatchDeleted(d)

Next ==
    \/ \E s \in Slots : SlotStep(s)
    \/ \E w \in Workers : WorkerStep(w)
    \/ \E v \in Versions : RecoverExpired(v) \/ ManualRetry(v)
    \/ \E d \in Docs : DocumentStep(d)
    \/ Tick

Spec == Init /\ [][Next]_vars

\* What the schedulers of a running process and the sync dispatcher keep doing.
\* Users, administrators, crashes and faults owe nothing.
Fairness ==
    /\ WF_vars(Tick)
    /\ \A s \in Slots : /\ WF_vars(ClaimStep(s))
                        /\ WF_vars(ExecuteStep(s) \/ Withdraw(s))
                        /\ WF_vars(RenewStep(s))
    /\ \A w \in Workers : /\ WF_vars(RegisterWorker(w))
                          /\ WF_vars(Heartbeat(w))
                          /\ WF_vars(MarkDead(w))
    /\ \A v \in Versions : WF_vars(RecoverExpired(v))
    /\ \A d \in Docs : WF_vars(DispatchDeleted(d))

FairSpec == Spec /\ Fairness

-----------------------------------------------------------------------------
(* Safety. *)

\* The three rows that describe one version agree: it is being indexed exactly
\* while its job is live, and it is INDEXED or FAILED exactly when its job is.
\* Eight transactions of four actors write them.
JobMatchesVersion ==
    \A v \in Versions :
        /\ (job[v].status \in LiveStates) <=> (version[v].status \in ActiveStates)
        /\ \A final \in {"NONE", "INDEXED", "FAILED"} :
              (job[v].status = final) <=> (version[v].status = final)

\* A version that is being indexed is the newest of its document: add_version,
\* manual_retry and recovery never leave two candidates to become current.
LiveIsLatest ==
    \A v \in Versions :
        job[v].status \in LiveStates => document[Doc(v)].latest = v[2]

\* A document keeps being served while a newer version is indexed, fails and is
\* retried: its current version stays INDEXED with ACTIVE vectors, and the
\* document is INDEXED exactly while it has one.
ServedVersionIntact ==
    \A d \in Docs :
        LET row == document[d] IN
        row.status \notin {"NONE", "DELETED"} =>
            /\ (row.status = "INDEXED") <=> (row.current # 0)
            /\ row.current # 0 =>
                  /\ version[<<d, row.current>>].status = "INDEXED"
                  /\ version[<<d, row.current>>].vectors = "ACTIVE"

\* Besides the current version only the one being indexed has ACTIVE vectors: a
\* superseded version and a failed one have left the searchable set.
OnlyCurrentSearchable ==
    \A v \in Versions :
        version[v].vectors = "ACTIVE" =>
            \/ v[2] = document[Doc(v)].current
            \/ job[v].status = "PENDING" \/ job[v].status = "PROCESSING"

\* However often a job is claimed, lost and reclaimed, it is completed at most
\* once, by the attempt of the token it keeps, and no attempt of another token
\* is recorded as the success.
OneSuccessfulAttempt ==
    \A v \in Versions, t \in Tokens :
        (attempt[v][t] = "SUCCESS") <=> (job[v].status = "INDEXED" /\ job[v].token = t)

\* Two slots, of one process or of two, never both pass _ownership for a job.
AtMostOneOwner ==
    \A s1, s2 \in Slots :
        /\ slot[s1].pc \in Busy /\ slot[s2].pc \in Busy
        /\ slot[s1].ver = slot[s2].ver
        /\ Owns(s1) /\ Owns(s2)
        => s1 = s2

\* A job is owned, and its work is done, once: recovery and a second claim hand it
\* over, they never double it.
OwnedOnce == OneSuccessfulAttempt /\ AtMostOneOwner

\* The facts that make these invariants inductive.  The versions of a document
\* are numbered without gaps up to the latest one,
VersionsNumbered ==
    /\ \A v \in Versions :
          (version[v].status = "NONE") <=> (v[2] > document[Doc(v)].latest)
    /\ \A d \in Docs : document[d].status = "NONE" => document[d].latest = 0

\* the row lock of claim keeps its job PENDING and is exclusive,
LocksHeld ==
    /\ \A s \in Slots : slot[s].pc = "locked" => job[slot[s].ver].status = "PENDING"
    /\ \A s1, s2 \in Slots :
          /\ slot[s1].pc = "locked" /\ slot[s2].pc = "locked"
          /\ slot[s1].ver = slot[s2].ver
          => s1 = s2

\* a deletion event exists for deleted documents only,
DeletionAnnounced ==
    \A d \in Docs : outbox[d] # "NONE" => document[d].status = "DELETED"

\* a document has versions once it is uploaded and serves none before,
UploadedFirst ==
    \A d \in Docs : IF document[d].status = "NONE" THEN document[d].current = 0
                                                 ELSE document[d].latest # 0

\* and no two claims of a job have the same token.
TokensFresh ==
    /\ \A v \in Versions : job[v].token \in {None, job[v].claims}
    /\ \A s \in Slots : slot[s].pc \in Busy => slot[s].token <= job[slot[s].ver].claims
    /\ \A s1, s2 \in Slots :
          /\ slot[s1].pc \in Busy /\ slot[s2].pc \in Busy
          /\ slot[s1].ver = slot[s2].ver /\ slot[s1].token = slot[s2].token
          => s1 = s2

\* The inductive invariant of the ledger, in the parts that are proved together.
\* Rows are well formed, retry_count included, the three rows of a version agree,
\* and of a document only the newest version is being indexed: no transaction of
\* worker, recovery, administrator or user leaves two of them in each other's way.
LifecycleInv == TypeOK /\ JobMatchesVersion /\ LiveIsLatest /\ VersionsNumbered /\ LocksHeld
ServingInv == ServedVersionIntact /\ OnlyCurrentSearchable /\ DeletionAnnounced /\ UploadedFirst
OwnershipInv == TokensFresh /\ OneSuccessfulAttempt
IInv == LifecycleInv /\ ServingInv /\ OwnershipInv

\* Once the deletion event was handled no vector of the document is ACTIVE
\* (test_indexing.py: "a deleted document's vectors must stay out of the active
\* set").
DeletedStaysInactive ==
    \A v \in Versions :
        outbox[Doc(v)] = "PROCESSED" => version[v].vectors # "ACTIVE"

\* While leases are kept, a job is given up only after a fault in each of its
\* MaxRetries + 1 claims: an automatic retry is able to finish what the faulty
\* attempt began (README.md:12 promises retries; test_indexing.py:705 "so retry
\* can run").
TransientFaultIsRetried ==
    \A v \in Versions : job[v].status = "FAILED" => faults > MaxRetries

-----------------------------------------------------------------------------
(* What a step may never do. *)

LeaseKept(v) ==
    job[v].status = "PROCESSING" /\ job'[v].status # "PROCESSING" =>
        \/ job[v].lease = 0
        \/ attempt[v][job[v].token] = "STARTED"
           /\ attempt'[v][job[v].token] \in {"SUCCESS", "FAILED"}

SettledByOwner(v, t) ==
    attempt'[v][t] # attempt[v][t] =>
        /\ job[v].status = "PROCESSING" /\ job[v].token = t
        /\ job[v].lease # 0
        /\ attempt[v][t] \in {"NONE", "STARTED"}

\* A job leaves PROCESSING only when its lease has run out or when the attempt of
\* its current token ends, and an attempt ends once, only while its token owns an
\* unexpired lease: recovery never takes a live lease, and a worker that lost its
\* claim never ends the work of the next owner.
LeaseProtocol ==
    [][\A v \in Versions : LeaseKept(v) /\ \A t \in Tokens : SettledByOwner(v, t)]_vars

\* A worker that is recorded DEAD or STOPPED when the claim commits gets no job,
\* even if it was ACTIVE when it picked the job.
DeadWorkerGetsNoJob ==
    [][\A v \in Versions :
          job'[v].claims # job[v].claims => worker[job'[v].owner].status = "ACTIVE"]_vars

\* A deleted document is frozen: none of its statuses changes again, whatever
\* its workers, recovery and administrators still do.
DeletionFreezes ==
    [][\A v \in Versions :
          document[Doc(v)].status = "DELETED" =>
              /\ document'[Doc(v)] = document[Doc(v)]
              /\ version'[v].status = version[v].status
              /\ job'[v].status = job[v].status]_vars

\* retry_count never falls, not even on a manual retry, and grows by one exactly
\* when a claimed job is requeued.
RetriesAccounted ==
    [][\A v \in Versions :
          job'[v].retries - job[v].retries =
              IF job[v].status = "PROCESSING" /\ job'[v].status = "PENDING"
              THEN 1 ELSE 0]_vars

-----------------------------------------------------------------------------
(* Liveness, under FairSpec. *)

Settled(v) == job[v].status \in {"INDEXED", "FAILED"}

\* Every job of a document that is not deleted ends INDEXED or FAILED, however
\* leases, workers and calls fail in between (README.md: uploaded documents are
\* parsed, chunked and embedded automatically).
JobsSettle ==
    \A v \in Versions :
        (job[v].status \in LiveStates)
            ~> (Settled(v) \/ document[Doc(v)].status = "DELETED")

=============================================================================
