----------------------------- MODULE LedgerLocks -----------------------------
(***************************************************************************)
(* The row locks of the document and indexing ledgers and of the sync      *)
(* outbox: the order in which every transaction of src/src/indexing,       *)
(* src/src/documents and src/src/sync takes them from the PostgreSQL       *)
(* stores, and what it reads under them.  Processes share nothing but the  *)
(* database, READ COMMITTED.  IndexingJobs and SyncOutbox have each of     *)
(* these transactions as one step; this module shows that they may.        *)
(*                                                                         *)
(* A job has the number of its version; the versions of a document are in  *)
(* the order of their numbers.  A program is the statements that a         *)
(* transaction may wait at or that read what it has not locked; what it    *)
(* does between two of them is part of the first.                          *)
(***************************************************************************)
EXTENDS Integers, Sequences, FiniteSets

CONSTANTS Connections,     \* connections, of any process
          DocumentIds, Jobs, Workers,
          DocOf        \* the document of a job

ASSUME LocksAssumption ==
    /\ DocumentIds \subseteq Nat /\ Jobs \subseteq Nat /\ Workers \subseteq Nat
    /\ DocOf \in [Jobs -> DocumentIds]

VARIABLES tx,        \* the transaction of a thread
          jobStatus, \* committed
          gone       \* documents that are committed as DELETED

locksVars == <<tx, jobStatus, gone>>

----------------------------------------------------------------------------
(* Rows, and what is found by a query over many *)

Job(j) == <<"job", j>>
Worker(w) == <<"worker", w>>
Version(j) == <<"version", j>>
Document(d) == <<"document", d>>
Attempts(j) == <<"attempts", j>>     \* of a job
ChunkRows(j) == <<"chunks", j>>         \* of a version
Vectors(j) == <<"vectors", j>>       \* which vectors a version has
Searchable(d) == <<"searchable", d>> \* which vectors of a document are ACTIVE
VersionsOf(d) == <<"versions", d>>   \* which versions a document has
Instance(w) == <<"instance", w>>     \* the advisory lock of an instance_id
File == <<"file", 0>>                \* the unique index over digest and size
Created(j) == <<"created", j>>       \* sync events
Reindex(j) == <<"reindex", j>>
Deleted(d) == <<"deleted", d>>

\* The order in which rows are locked.
Rank == [job |-> 1, worker |-> 2, instance |-> 2, version |-> 3, chunks |-> 4, document |-> 5,
         file |-> 6, attempts |-> 6, vectors |-> 6, versions |-> 7, searchable |-> 7,
         created |-> 8, reindex |-> 8, deleted |-> 8]

RankOf(row) == Rank[row[1]]
NoRow == <<"none", 0>>

\* SELECT ... FOR UPDATE of the indexing and sync stores: the row as it is when
\* the wait is over, and what is read next.
Lock(row, also) == [how |-> "lock", row |-> row, reads |-> {row} \union also]

\* The lock of the document store returns nothing; nor does an UPDATE, or an
\* INSERT that waits for another of the same key.
Fence(row, also) == [how |-> "lock", row |-> row, reads |-> also]

Skip(row) == [how |-> "skip", row |-> row, reads |-> {row}]  \* SKIP LOCKED
Share(row) == [how |-> "share", row |-> row, reads |-> {}]   \* a foreign key
Look(rows) == [how |-> "look", row |-> NoRow, reads |-> rows]

Siblings(j) == {k \in Jobs : DocOf[k] = DocOf[j]}
OtherVersions(j) == {Version(k) : k \in Siblings(j) \ {j}}

----------------------------------------------------------------------------
(* The programs of the transactions on a job *)

ClaimJob(j, w) == <<Look({Worker(w)}), Skip(Job(j)), Lock(Worker(w), {}), Lock(Version(j), {}),
                    Lock(Document(DocOf[j]), {})>>

\* Mutant of RenewLease: the worker is locked first.
RenewLeaseWorkerFirst(j, w) == <<Lock(Worker(w), {}), Lock(Job(j), {})>>

RenewLease(j, w) == <<Lock(Job(j), {}), Lock(Worker(w), {})>>

StartAttempt(j, w) == <<Lock(Job(j), {Attempts(j)}), Share(Worker(w)), Fence(Attempts(j), {})>>

\* save_chunks and save_embeddings, before and after what they do in between.
ParseStarted(j) == <<Lock(Job(j), {Attempts(j)}), Lock(Version(j), {}),
                     Lock(Document(DocOf[j]), {ChunkRows(j)})>>

SaveChunks(j) == <<Lock(Job(j), {Attempts(j)}), Lock(Version(j), {ChunkRows(j)}),
                   Fence(ChunkRows(j), {}), Lock(Document(DocOf[j]), {})>>

EmbeddingStarted(j) == <<Lock(Job(j), {Attempts(j)}), Lock(Version(j), {}),
                         Lock(Document(DocOf[j]), {ChunkRows(j), Vectors(j), Searchable(DocOf[j])}),
                         Fence(Searchable(DocOf[j]), {})>>

SaveEmbeddings(j) == <<Lock(Job(j), {Attempts(j)}), Lock(Version(j), {ChunkRows(j), Vectors(j)}),
                       Fence(Vectors(j), {})>>

CompleteJob(j) ==
    <<Lock(Job(j), {}), Lock(Version(j), {}), Lock(Document(DocOf[j]), {}),
      Lock(Attempts(j), {VersionsOf(DocOf[j]), ChunkRows(j), Vectors(j), Searchable(DocOf[j])}
                          \union OtherVersions(j)),
      Fence(Searchable(DocOf[j]), {})>>

FailJob(j) == <<Lock(Job(j), {}), Lock(Version(j), {}), Lock(Document(DocOf[j]), {}),
                Lock(Attempts(j), OtherVersions(j)),
                Fence(Searchable(DocOf[j]), {})>>

RecoverJob(j) == <<Lock(Job(j), {}), Lock(Version(j), {}),
                   Lock(Document(DocOf[j]), {ChunkRows(j)} \union OtherVersions(j)),
                   Fence(Searchable(DocOf[j]), {})>>

ManualRetry(j) == <<Lock(Job(j), {}), Lock(Version(j), {}),
                    Lock(Document(DocOf[j]), {VersionsOf(DocOf[j]), ChunkRows(j)}
                                               \union OtherVersions(j))>>

----------------------------------------------------------------------------
(* The programs of documents, workers and events *)

ChangeWorker(w) == <<Lock(Worker(w), {})>>
RegisterWorker(w) == <<Fence(Instance(w), {Instance(w)})>>

Upload == <<Fence(File, {})>>

\* Everything is validated before the file is stored, and again under the lock.
AddVersion(j) ==
    LET d == DocOf[j]
        read == {Document(d), VersionsOf(d)} \union OtherVersions(j)
    IN  <<Look(read), Fence(Document(d), read), Fence(File, {}), Fence(VersionsOf(d), {}),
          Fence(Created(j), {})>>

\* Mutant of UpdateMetadata: the document that access was decided for is saved.
UpdateMetadataAsSeen(d) == <<Look({Document(d)}), Fence(Document(d), {})>>

UpdateMetadata(d) == <<Look({Document(d)}), Fence(Document(d), {Document(d)})>>
UpdateVisibility(d) == <<Fence(Document(d), {Document(d)})>>
DeleteDocument(d) == <<Look({Document(d)}), Fence(Document(d), {Document(d)}), Fence(Deleted(d), {})>>

\* What a handler does to the ledgers, and mark_processed.
HandleCreated(j) == <<Lock(Version(j), {}), Lock(Created(j), {})>>
HandleReindex(j) == ManualRetry(j) \o <<Lock(Reindex(j), {})>>

\* The vectors are found and changed without a lock on anything else: one that
\* is saved meanwhile comes after it.
HandleDeleted(d) == <<Fence(Searchable(d), {}), Lock(Deleted(d), {})>>

ClaimEvent(j) == <<Skip(Created(j))>>
SettleEvent(j) == <<Lock(Created(j), {})>>

----------------------------------------------------------------------------
(* Transactions *)

JobOps == {"claim", "renew", "start", "parse", "chunk", "embed", "vectors", "complete",
           "fail", "recover", "retry", "reindex", "created", "claim_event", "settle_event", "add"}
DocumentOps == {"metadata", "visibility", "delete", "deleted"}
WorkerOps == {"heartbeat", "register", "upload"}
Ops == JobOps \union DocumentOps \union WorkerOps

Started(op, i, w) == [op |-> op, id |-> i, worker |-> w, pc |-> 1, fresh |-> {}]
Idle == Started("none", 0, 0)

\* The job, the document or the worker is the id.
Program(t) ==
    LET op == tx[t].op
        i == tx[t].id
        w == tx[t].worker
    IN  CASE op = "claim" -> ClaimJob(i, w)
          [] op = "renew" -> RenewLease(i, w)
          [] op = "start" -> StartAttempt(i, w)
          [] op = "parse" -> ParseStarted(i)
          [] op = "chunk" -> SaveChunks(i)
          [] op = "embed" -> EmbeddingStarted(i)
          [] op = "vectors" -> SaveEmbeddings(i)
          [] op = "complete" -> CompleteJob(i)
          [] op = "fail" -> FailJob(i)
          [] op = "recover" -> RecoverJob(i)
          [] op = "retry" -> ManualRetry(i)
          [] op = "reindex" -> HandleReindex(i)
          [] op = "created" -> HandleCreated(i)
          [] op = "claim_event" -> ClaimEvent(i)
          [] op = "settle_event" -> SettleEvent(i)
          [] op = "add" -> AddVersion(i)
          [] op = "metadata" -> UpdateMetadata(i)
          [] op = "visibility" -> UpdateVisibility(i)
          [] op = "delete" -> DeleteDocument(i)
          [] op = "deleted" -> HandleDeleted(i)
          [] op = "heartbeat" -> ChangeWorker(i)
          [] op = "register" -> RegisterWorker(i)
          [] op = "upload" -> Upload
          [] OTHER -> <<>>

\* The rows a transaction has changed when it commits.
Writes(op, i) ==
    CASE op \in {"claim", "parse", "retry"} -> {Job(i), Version(i), Document(DocOf[i])}
      [] op = "renew" -> {Job(i)}
      [] op = "start" -> {Attempts(i)}
      [] op = "chunk" -> {Version(i), ChunkRows(i)}
      [] op \in {"embed", "recover"} ->
            {Job(i), Version(i), Document(DocOf[i]), Searchable(DocOf[i])}
      [] op = "vectors" -> {Vectors(i), Searchable(DocOf[i])}
      [] op \in {"complete", "fail"} ->
            {Job(i), Version(i), Document(DocOf[i]), Searchable(DocOf[i]), Attempts(i)}
      [] op = "reindex" -> {Job(i), Version(i), Document(DocOf[i]), Reindex(i)}
      [] op \in {"created", "claim_event", "settle_event"} -> {Created(i)}
      [] op = "add" -> {Job(i), Version(i), Document(DocOf[i]), VersionsOf(DocOf[i]),
                        File, Created(i)}
      [] op \in {"metadata", "visibility"} -> {Document(i)}
      [] op = "delete" -> {Document(i), Deleted(i)}
      [] op = "deleted" -> {Searchable(i), Deleted(i)}
      [] op = "heartbeat" -> {Worker(i)}
      [] op = "register" -> {Instance(i)}
      [] OTHER -> {File}

Latest(j) == jobStatus[j] # "NONE" /\ \A k \in Siblings(j) : k > j => jobStatus[k] = "NONE"

\* What the transaction has checked when it is about to commit: the status of the
\* job, that its version is the latest and that the document is not deleted.
Admitted(op, i) ==
    /\ op \in JobOps \ {"renew", "start", "vectors", "created", "claim_event", "settle_event"}
          => DocOf[i] \notin gone
    /\ op \in {"renew", "start", "parse", "chunk", "embed", "vectors", "complete", "fail", "recover"}
          => jobStatus[i] = "PROCESSING"
    /\ op \in {"claim", "parse", "embed", "complete", "recover", "retry", "reindex"} => Latest(i)
    /\ op = "claim" => jobStatus[i] = "PENDING"
    /\ op \in {"retry", "reindex"} => jobStatus[i] = "FAILED"
    /\ op = "add" => /\ jobStatus[i] = "NONE"
                     /\ \A k \in Siblings(i) : /\ k < i => jobStatus[k] \in {"INDEXED", "FAILED"}
                                               /\ k > i => jobStatus[k] = "NONE"
    /\ op \in {"metadata", "visibility", "delete"} => i \notin gone
    /\ op = "deleted" => i \in gone

StatusAfter(op, i) ==
    CASE op = "claim" -> {"PROCESSING"}
      [] op = "complete" -> {"INDEXED"}
      [] op \in {"fail", "recover"} -> {"PENDING", "FAILED"}
      [] op \in {"retry", "reindex", "add"} -> {"PENDING"}
      [] OTHER -> {jobStatus[i]}

\* The first version of every document was uploaded.
LocksInit ==
    /\ tx = [t \in Connections |-> Idle]
    /\ jobStatus = [j \in Jobs |-> IF \A k \in Siblings(j) : k >= j THEN "PENDING" ELSE "NONE"]
    /\ gone = {}

\* A row that is not there is not found, and cannot be locked.
BeginTransaction(t) ==
    /\ tx[t] = Idle
    /\ \/ \E op \in JobOps, j \in Jobs, w \in Workers :
             /\ op # "add" => jobStatus[j] # "NONE"
             /\ tx' = [tx EXCEPT ![t] = Started(op, j, w)]
       \/ \E op \in DocumentOps, d \in DocumentIds :
             tx' = [tx EXCEPT ![t] = Started(op, d, 0)]
       \/ \E op \in WorkerOps, w \in Workers :
             tx' = [tx EXCEPT ![t] = Started(op, w, 0)]
    /\ UNCHANGED <<jobStatus, gone>>

\* Row locks are kept until the end of the transaction.
Holds(t, row, how) ==
    \E i \in 1 .. tx[t].pc - 1 : Program(t)[i].row = row /\ Program(t)[i].how \in how

Statement(t) == Program(t)[tx[t].pc]

Conflicts(t, u) ==
    /\ t # u /\ tx[t].pc <= Len(Program(t))
    /\ \/ Statement(t).how \in {"lock", "skip"}
          /\ Holds(u, Statement(t).row, {"lock", "skip", "share"})
       \/ Statement(t).how = "share" /\ Holds(u, Statement(t).row, {"lock", "skip"})

\* SKIP LOCKED does not wait.
WaitsFor(t, u) == Conflicts(t, u) /\ Statement(t).how # "skip"

Execute(t) ==
    /\ tx[t].pc <= Len(Program(t))
    /\ \A u \in Connections : ~Conflicts(t, u)
    /\ tx' = [tx EXCEPT ![t] = [@ EXCEPT !.pc = tx[t].pc + 1,
                                         !.fresh = tx[t].fresh \union Statement(t).reads]]
    /\ UNCHANGED <<jobStatus, gone>>

Ready(t) == /\ tx[t].op # "none" /\ tx[t].pc > Len(Program(t))
            /\ Admitted(tx[t].op, tx[t].id)

\* What others have read of the rows is no longer what is there.
CommitTransaction(t) ==
    LET op == tx[t].op
        i == tx[t].id
    IN  /\ Ready(t)
        /\ tx' = [u \in Connections |->
                     IF u = t THEN Idle
                     ELSE [tx[u] EXCEPT !.fresh = tx[u].fresh \ Writes(op, i)]]
        /\ IF op \in JobOps
           THEN \E s \in StatusAfter(op, i) : jobStatus' = [jobStatus EXCEPT ![i] = s]
           ELSE UNCHANGED jobStatus
        /\ gone' = IF op = "delete" THEN gone \union {i} ELSE gone

\* A refusal, an error, or a lost connection.
RollbackTransaction(t) ==
    /\ tx[t].op # "none"
    /\ tx' = [tx EXCEPT ![t] = Idle]
    /\ UNCHANGED <<jobStatus, gone>>

LocksNext == \E t \in Connections : \/ BeginTransaction(t) \/ Execute(t)
                                  \/ CommitTransaction(t) \/ RollbackTransaction(t)

LocksSpec == LocksInit /\ [][LocksNext]_locksVars

----------------------------------------------------------------------------
(* Properties *)

ReadBy(t) == UNION {Program(t)[i].reads : i \in DOMAIN Program(t)}

\* A transaction that is about to commit has seen everything it decides on, the
\* rows it saves whole included, as it is now: nobody has changed a row, added a
\* version, a chunk or a vector, between its read and its commit.  With it every
\* operation of the ledgers is one step, as IndexingJobs has them.  Not all that
\* is read is locked: the lock of the document keeps its versions, that of the
\* version its chunks and vectors, that of the job its attempts.
\* indexing/ownership.py, processing.py, results.py, recovery.py, documents/core.py.
CommitsCurrent == \A t \in Connections : Ready(t) => ReadBy(t) \subseteq tx[t].fresh

\* No threads wait for each other in a circle, over the operations of both
\* ledgers and of the outbox: PostgreSQL never has a deadlock to break.  Each of
\* these modules locks in the order of Rank, which is written nowhere.
\* indexing/results.py:28-48, documents/indexing.py:48-51, documents/core.py:330-365,
\* indexing/queries.py:97-149, sync/core.py:205-218.
NoDeadlock ==
    ~\E S \in SUBSET Connections : S # {} /\ \A t \in S : \E u \in S : WaitsFor(t, u)
=============================================================================
