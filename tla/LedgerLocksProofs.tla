-------------------------- MODULE LedgerLocksProofs --------------------------
(***************************************************************************)
(* No circle of waiting threads, for any number of threads, documents,     *)
(* jobs and workers: every program locks in the order of Rank, so that a   *)
(* thread that is waited for waits for a row of a higher rank, and in a    *)
(* circle no thread could wait for the highest.  And what a transaction    *)
(* decides on is still so when it commits: a lock it has taken before its  *)
(* read, of the row or of a row that guards it, keeps every writer out.    *)
(***************************************************************************)
EXTENDS LedgerLocks, TLAPS

Ranks == 1 .. 8

\* What is locked earlier has a lower rank.
Ascends(p) ==
    /\ Len(p) \in Nat
    /\ \A i \in 1 .. Len(p) : p[i].how # "look" => RankOf(p[i].row) \in Ranks
    /\ \A i, k \in 1 .. Len(p) : i < k /\ p[i].how # "look" /\ p[k].how # "look"
                                   => RankOf(p[i].row) < RankOf(p[k].row)

\* A transaction is at one of its statements, or behind the last.
Placed == /\ DOMAIN tx = Connections
          /\ \A t \in Connections : /\ DOMAIN tx[t] = {"op", "id", "worker", "pc", "fresh"}
                               /\ tx[t].pc \in Nat \ {0}

----------------------------------------------------------------------------

\* A set of ranks that is not empty has a highest one.
LEMMA HighestRank ==
    ASSUME NEW R \in SUBSET Ranks, R # {}
    PROVE  \E m \in R : \A n \in R : n <= m
<1>1. CASE 8 \in R
  BY <1>1 DEF Ranks
<1>2. CASE 8 \notin R /\ 7 \in R
  BY <1>2 DEF Ranks
<1>3. CASE R \subseteq 1 .. 6
  <2>1. CASE 6 \in R
    BY <1>3, <2>1
  <2>2. CASE 6 \notin R /\ 5 \in R
    BY <1>3, <2>2
  <2>3. CASE R \subseteq 1 .. 4
    <3>1. CASE 4 \in R
      BY <2>3, <3>1
    <3>2. CASE 4 \notin R /\ 3 \in R
      BY <2>3, <3>2
    <3>3. CASE R \subseteq {1, 2}
      <4>1. CASE 2 \in R
        BY <3>3, <4>1
      <4>2. CASE 2 \notin R
        <5>1. R = {1}
          BY <3>3, <4>2
        <5>2. QED BY <5>1
      <4>3. QED BY <4>1, <4>2
    <3>4. QED BY <2>3, <3>1, <3>2, <3>3
  <2>4. QED BY <1>3, <2>1, <2>2, <2>3
<1>4. QED BY <1>1, <1>2, <1>3 DEF Ranks

\* The programs of the operations on a job.
LEMMA JobProgramsAscend ==
    ASSUME NEW j, NEW w
    PROVE  /\ Ascends(ClaimJob(j, w))
           /\ Ascends(RenewLease(j, w))
           /\ Ascends(StartAttempt(j, w))
           /\ Ascends(ParseStarted(j))
           /\ Ascends(SaveChunks(j))
           /\ Ascends(EmbeddingStarted(j))
           /\ Ascends(SaveEmbeddings(j))
<1> USE DEF Ascends, Ranks, RankOf, Rank, Lock, Fence, Skip, Share, Look, NoRow,
            Job, Worker, Version, Document, Attempts, ChunkRows, Vectors, Searchable
<1>1. Ascends(ClaimJob(j, w)) BY SMTT(20) DEF ClaimJob
<1>2. Ascends(RenewLease(j, w)) BY SMTT(20) DEF RenewLease
<1>3. Ascends(StartAttempt(j, w)) BY SMTT(20) DEF StartAttempt
<1>4. Ascends(ParseStarted(j)) BY SMTT(20) DEF ParseStarted
<1>5. Ascends(SaveChunks(j)) BY SMTT(20) DEF SaveChunks
<1>6. Ascends(EmbeddingStarted(j)) BY SMTT(40) DEF EmbeddingStarted
<1>7. Ascends(SaveEmbeddings(j)) BY SMTT(20) DEF SaveEmbeddings
<1>8. QED BY ONLY <1>1, <1>2, <1>3, <1>4, <1>5, <1>6, <1>7

LEMMA ResultProgramsAscend ==
    ASSUME NEW j
    PROVE  /\ Ascends(CompleteJob(j))
           /\ Ascends(FailJob(j))
           /\ Ascends(RecoverJob(j))
           /\ Ascends(ManualRetry(j))
           /\ Ascends(HandleReindex(j))
           /\ Ascends(HandleCreated(j))
           /\ Ascends(ClaimEvent(j))
           /\ Ascends(SettleEvent(j))
           /\ Ascends(AddVersion(j))
<1> USE DEF Ascends, Ranks, RankOf, Rank, Lock, Fence, Skip, Look, NoRow, File, Job, Version,
            Document, Attempts, Searchable, VersionsOf, Created, Reindex
<1>1. Ascends(CompleteJob(j)) BY SMTT(40) DEF CompleteJob
<1>2. Ascends(FailJob(j)) BY SMTT(20) DEF FailJob
<1>3. Ascends(RecoverJob(j)) BY SMTT(20) DEF RecoverJob
<1>4. Ascends(ManualRetry(j)) BY SMTT(20) DEF ManualRetry
<1>5. Ascends(HandleReindex(j)) BY SMTT(20) DEF HandleReindex, ManualRetry
<1>6. Ascends(HandleCreated(j)) BY SMTT(20) DEF HandleCreated
<1>7. Ascends(ClaimEvent(j)) /\ Ascends(SettleEvent(j)) BY SMTT(20) DEF ClaimEvent, SettleEvent
<1>8. Ascends(AddVersion(j)) BY SMTT(40) DEF AddVersion
<1>9. QED BY ONLY <1>1, <1>2, <1>3, <1>4, <1>5, <1>6, <1>7, <1>8

LEMMA OtherProgramsAscend ==
    ASSUME NEW d, NEW w
    PROVE  /\ Ascends(UpdateMetadata(d))
           /\ Ascends(UpdateVisibility(d))
           /\ Ascends(DeleteDocument(d))
           /\ Ascends(HandleDeleted(d))
           /\ Ascends(ChangeWorker(w))
           /\ Ascends(RegisterWorker(w))
           /\ Ascends(Upload)
           /\ Ascends(<<>>)
<1> USE DEF Ascends, Ranks, RankOf, Rank, Lock, Fence, Look, NoRow, File, Worker, Document,
            Searchable, Instance, Deleted
<1>1. Ascends(UpdateMetadata(d)) BY DEF UpdateMetadata
<1>2. Ascends(UpdateVisibility(d)) BY DEF UpdateVisibility
<1>3. Ascends(DeleteDocument(d)) BY DEF DeleteDocument
<1>4. Ascends(HandleDeleted(d)) BY DEF HandleDeleted
<1>5. Ascends(ChangeWorker(w)) BY DEF ChangeWorker
<1>6. Ascends(RegisterWorker(w)) BY DEF RegisterWorker
<1>7. Ascends(Upload) /\ Ascends(<<>>) BY DEF Upload
<1>8. QED BY ONLY <1>1, <1>2, <1>3, <1>4, <1>5, <1>6, <1>7

\* Whatever a thread is doing, it locks in the order of Rank.
LEMMA ProgramAscends ==
    ASSUME NEW t
    PROVE  Ascends(Program(t))
  BY JobProgramsAscend, ResultProgramsAscend, OtherProgramsAscend DEF Program

\* A thread that is waited for and waits itself waits for a row of a higher rank.
LEMMA WaitsHigher ==
    ASSUME Placed, NEW t \in Connections, NEW u \in Connections, NEW v \in Connections,
           WaitsFor(t, u), WaitsFor(u, v)
    PROVE  /\ RankOf(Statement(t).row) \in Ranks
           /\ RankOf(Statement(u).row) \in Ranks
           /\ RankOf(Statement(t).row) < RankOf(Statement(u).row)
<1>1. /\ tx[t].pc \in 1 .. Len(Program(t)) /\ Statement(t).how # "look"
      /\ tx[u].pc \in 1 .. Len(Program(u)) /\ Statement(u).how # "look"
  BY ProgramAscends DEF WaitsFor, Conflicts, Placed, Ascends
<1>2. PICK i \in 1 .. tx[u].pc - 1 : /\ Program(u)[i].row = Statement(t).row
                                     /\ Program(u)[i].how # "look"
  BY DEF WaitsFor, Conflicts, Holds
<1>3. i \in 1 .. Len(Program(u)) /\ i < tx[u].pc
  BY <1>1, ProgramAscends DEF Ascends, Placed
<1>4. RankOf(Program(u)[i].row) < RankOf(Program(u)[tx[u].pc].row)
  BY <1>1, <1>2, <1>3, ProgramAscends DEF Ascends, Statement
<1>5. QED BY <1>1, <1>2, <1>4, ProgramAscends DEF Ascends, Statement

\* No circle, wherever the threads are.
LEMMA NoCircle == Placed => NoDeadlock
<1> SUFFICES ASSUME Placed, NEW S \in SUBSET Connections, S # {},
                    \A t \in S : \E u \in S : WaitsFor(t, u)
             PROVE  FALSE
  BY DEF NoDeadlock
<1> DEFINE Awaited(t) == RankOf(Statement(t).row)
           R == {Awaited(t) : t \in S}
<1>1. \A t \in S : Awaited(t) \in Ranks
  BY WaitsHigher
<1>2. R \in SUBSET Ranks /\ R # {}
  BY <1>1
<1>3. PICK m \in R : \A n \in R : n <= m
  BY <1>2, HighestRank
<1>4. PICK t \in S : Awaited(t) = m
  BY <1>3
<1>5. PICK u \in S : WaitsFor(t, u)
  OBVIOUS
<1>6. PICK v \in S : WaitsFor(u, v)
  OBVIOUS
<1>7. Awaited(t) < Awaited(u)
  BY <1>5, <1>6, WaitsHigher
<1>8. Awaited(u) <= Awaited(t) /\ Awaited(u) \in Ranks /\ Awaited(t) \in Ranks
  BY <1>1, <1>3, <1>4
<1>9. QED BY <1>7, <1>8 DEF Ranks

----------------------------------------------------------------------------

\* BeginTransaction, Execute and the ends of a transaction keep the place in its program.
LEMMA PlacedInvariant == LocksSpec => []Placed
<1>1. LocksInit => Placed
  BY DEF LocksInit, Placed, Idle, Started
<1>2. Placed /\ [LocksNext]_locksVars => Placed'
  <2> SUFFICES ASSUME Placed, [LocksNext]_locksVars PROVE Placed'
    OBVIOUS
  <2>1. CASE UNCHANGED locksVars
    BY <2>1 DEF locksVars, Placed
  <2>2. CASE LocksNext
    <3>1. PICK t \in Connections : \/ BeginTransaction(t) \/ Execute(t)
                                    \/ CommitTransaction(t) \/ RollbackTransaction(t)
      BY <2>2 DEF LocksNext
    <3>2. CASE BeginTransaction(t)
      <4>1. PICK op, i, w : tx' = [tx EXCEPT ![t] = Started(op, i, w)]
        BY <3>2 DEF BeginTransaction
      <4>2. QED BY <4>1 DEF Placed, Started
    <3>3. CASE Execute(t)
      BY <3>3 DEF Execute, Placed
    <3>4. CASE CommitTransaction(t)
      BY <3>4 DEF CommitTransaction, Idle, Started, Placed
    <3>5. CASE RollbackTransaction(t)
      BY <3>5 DEF RollbackTransaction, Idle, Started, Placed
    <3>6. QED BY <3>1, <3>2, <3>3, <3>4, <3>5
  <2>3. QED BY <2>1, <2>2
<1>3. QED BY <1>1, <1>2, PTL DEF LocksSpec

\* The transactions of the ledgers and of the outbox never wait for each other in
\* a circle: indexing, documents and sync lock rows in one order.
THEOREM NeverADeadlock == LocksSpec => []NoDeadlock
  BY PlacedInvariant, NoCircle, PTL

----------------------------------------------------------------------------
(* What is read is locked.                                                  *)

\* The locks that everyone has who changes a row (but for WritesGuarded).
Guards(row) ==
    CASE row[1] \in {"attempts", "chunks", "vectors"} -> {Job(row[2])}
      [] row[1] = "version" -> {row, Document(DocOf[row[2]])}
      [] row[1] \in {"searchable", "versions"} -> {Document(row[2])}
      [] OTHER -> {row}

Exclusive == {"lock", "skip"}

\* The first n statements of a program lock one of the guards of a row.
Guarded(p, row, n) ==
    \E m \in 1 .. n : p[m].row \in Guards(row) /\ p[m].how \in Exclusive

\* Every row that is read is guarded in the end, and what was read before its guard
\* was locked is read again with the lock.
ReadsGuarded(p) ==
    \A i \in 1 .. Len(p) : \A row \in p[i].reads :
        \/ Guarded(p, row, i)
        \/ \E n \in i + 1 .. Len(p) :
              /\ p[n].row \in Guards(row) /\ p[n].how \in Exclusive /\ row \in p[n].reads
              /\ \A m \in 1 .. n - 1 : p[m].row \notin Guards(row) \/ p[m].how \notin Exclusive

LEMMA RowGuards ==
    ASSUME NEW i
    PROVE  /\ Guards(Job(i)) = {Job(i)} /\ Guards(Worker(i)) = {Worker(i)}
           /\ Guards(Version(i)) = {Version(i), Document(DocOf[i])}
           /\ Guards(Document(i)) = {Document(i)}
           /\ Guards(Attempts(i)) = {Job(i)} /\ Guards(ChunkRows(i)) = {Job(i)}
           /\ Guards(Vectors(i)) = {Job(i)}
           /\ Guards(Searchable(i)) = {Document(i)} /\ Guards(VersionsOf(i)) = {Document(i)}
           /\ Guards(Instance(i)) = {Instance(i)} /\ Guards(Created(i)) = {Created(i)}
           /\ Guards(Reindex(i)) = {Reindex(i)} /\ Guards(Deleted(i)) = {Deleted(i)}
<1> USE DEF Guards, Job, Worker, Version, Document, Attempts, ChunkRows, Vectors, Searchable,
            VersionsOf, Instance, Created, Reindex, Deleted
<1>1. Guards(Job(i)) = {Job(i)} /\ Guards(Worker(i)) = {Worker(i)}
  OBVIOUS
<1>2. /\ Guards(Version(i)) = {Version(i), Document(DocOf[i])}
      /\ Guards(Document(i)) = {Document(i)}
  OBVIOUS
<1>3. Guards(Attempts(i)) = {Job(i)} /\ Guards(ChunkRows(i)) = {Job(i)} /\ Guards(Vectors(i)) = {Job(i)}
  OBVIOUS
<1>4. Guards(Searchable(i)) = {Document(i)} /\ Guards(VersionsOf(i)) = {Document(i)}
  OBVIOUS
<1>5. Guards(Instance(i)) = {Instance(i)} /\ Guards(Created(i)) = {Created(i)}
  OBVIOUS
<1>6. Guards(Reindex(i)) = {Reindex(i)} /\ Guards(Deleted(i)) = {Deleted(i)}
  OBVIOUS
<1>7. QED BY ONLY <1>1, <1>2, <1>3, <1>4, <1>5, <1>6

LEMMA JobReadsGuarded ==
    ASSUME NEW j \in Jobs, NEW w
    PROVE  /\ ReadsGuarded(ClaimJob(j, w))
           /\ ReadsGuarded(RenewLease(j, w))
           /\ ReadsGuarded(StartAttempt(j, w))
           /\ ReadsGuarded(ParseStarted(j))
           /\ ReadsGuarded(SaveChunks(j))
           /\ ReadsGuarded(EmbeddingStarted(j))
           /\ ReadsGuarded(SaveEmbeddings(j))
<1> USE DEF ReadsGuarded, Guarded, Exclusive, Lock, Fence, Skip, Share, Look
<1>1. ReadsGuarded(ClaimJob(j, w))
  <2> DEFINE p == ClaimJob(j, w)
  <2>1. Job(j) # Worker(w)
    BY DEF Job, Worker
  <2>2. /\ Len(p) = 5 /\ p[1] = Look({Worker(w)}) /\ p[2] = Skip(Job(j))
        /\ p[3] = Lock(Worker(w), {}) /\ p[4] = Lock(Version(j), {})
        /\ p[5] = Lock(Document(DocOf[j]), {})
    BY DEF ClaimJob
  <2> HIDE DEF p
  <2>3. ASSUME NEW i \in 1 .. 5, NEW row \in p[i].reads, i # 1
        PROVE  Guarded(p, row, i)
    BY <2>2, <2>3, RowGuards
  <2>4. ASSUME NEW row \in p[1].reads
        PROVE  /\ p[3].row \in Guards(row) /\ p[3].how \in Exclusive /\ row \in p[3].reads
               /\ \A m \in 1 .. 2 : p[m].row \notin Guards(row) \/ p[m].how \notin Exclusive
    BY <2>1, <2>2, <2>4, RowGuards
  <2> QED
    BY <2>2, <2>3, <2>4 DEF p
<1>2. ReadsGuarded(RenewLease(j, w)) BY RowGuards DEF RenewLease
<1>3. ReadsGuarded(StartAttempt(j, w)) BY RowGuards DEF StartAttempt
<1>4. ReadsGuarded(ParseStarted(j)) BY RowGuards DEF ParseStarted
<1>5. ReadsGuarded(SaveChunks(j)) BY RowGuards DEF SaveChunks
<1>6. ReadsGuarded(EmbeddingStarted(j)) BY RowGuards DEF EmbeddingStarted
<1>7. ReadsGuarded(SaveEmbeddings(j)) BY RowGuards DEF SaveEmbeddings
<1>8. QED BY ONLY <1>1, <1>2, <1>3, <1>4, <1>5, <1>6, <1>7

LEMMA ResultReadsGuarded ==
    ASSUME NEW j \in Jobs
    PROVE  /\ ReadsGuarded(CompleteJob(j))
           /\ ReadsGuarded(FailJob(j))
           /\ ReadsGuarded(RecoverJob(j))
           /\ ReadsGuarded(ManualRetry(j))
           /\ ReadsGuarded(HandleReindex(j))
           /\ ReadsGuarded(HandleCreated(j))
           /\ ReadsGuarded(ClaimEvent(j))
           /\ ReadsGuarded(SettleEvent(j))
           /\ ReadsGuarded(AddVersion(j))
<1> USE DEF ReadsGuarded, Guarded, Exclusive, Lock, Fence, Skip, Look
<1>0. \A row \in OtherVersions(j) : Document(DocOf[j]) \in Guards(row)
  BY RowGuards DEF OtherVersions, Siblings
<1>1. ReadsGuarded(CompleteJob(j)) BY <1>0, RowGuards DEF CompleteJob
<1>2. ReadsGuarded(FailJob(j)) BY <1>0, RowGuards DEF FailJob
<1>3. ReadsGuarded(RecoverJob(j)) BY <1>0, RowGuards DEF RecoverJob
<1>4. ReadsGuarded(ManualRetry(j)) BY <1>0, RowGuards DEF ManualRetry
<1>5. ReadsGuarded(HandleReindex(j)) BY <1>0, RowGuards DEF HandleReindex, ManualRetry
<1>6. ReadsGuarded(HandleCreated(j)) BY <1>0, RowGuards DEF HandleCreated
<1>7. ReadsGuarded(ClaimEvent(j)) /\ ReadsGuarded(SettleEvent(j)) BY <1>0, RowGuards DEF ClaimEvent, SettleEvent
<1>8. ReadsGuarded(AddVersion(j)) BY <1>0, RowGuards DEF AddVersion
<1>9. QED BY ONLY <1>1, <1>2, <1>3, <1>4, <1>5, <1>6, <1>7, <1>8

LEMMA OtherReadsGuarded ==
    ASSUME NEW d, NEW w
    PROVE  /\ ReadsGuarded(UpdateMetadata(d))
           /\ ReadsGuarded(UpdateVisibility(d))
           /\ ReadsGuarded(DeleteDocument(d))
           /\ ReadsGuarded(HandleDeleted(d))
           /\ ReadsGuarded(ChangeWorker(w))
           /\ ReadsGuarded(RegisterWorker(w))
           /\ ReadsGuarded(Upload)
           /\ ReadsGuarded(<<>>)
<1> USE DEF ReadsGuarded, Guarded, Guards, Exclusive, Lock, Fence, Look, NoRow, File, Worker,
            Document, Searchable, Instance, Deleted
<1>1. ReadsGuarded(UpdateMetadata(d)) BY DEF UpdateMetadata
<1>2. ReadsGuarded(UpdateVisibility(d)) BY DEF UpdateVisibility
<1>3. ReadsGuarded(DeleteDocument(d)) BY DEF DeleteDocument
<1>4. ReadsGuarded(HandleDeleted(d)) BY DEF HandleDeleted
<1>5. ReadsGuarded(ChangeWorker(w)) BY DEF ChangeWorker
<1>6. ReadsGuarded(RegisterWorker(w)) BY DEF RegisterWorker
<1>7. ReadsGuarded(Upload) /\ ReadsGuarded(<<>>) BY DEF Upload
<1>8. QED BY ONLY <1>1, <1>2, <1>3, <1>4, <1>5, <1>6, <1>7

\* The jobs and versions that a program locks are its own, and so are the sets of
\* searchable vectors it reads.
Tidy(p, own, read) ==
    /\ \A m \in 1 .. Len(p) : p[m].row[1] \in {"job", "version"} => p[m].row[2] \in own
    /\ \A m \in 1 .. Len(p) : \A row \in p[m].reads : row[1] = "searchable" => row \in read
    /\ DOMAIN p = 1 .. Len(p) /\ Len(p) \in Nat

LEMMA JobTidy ==
    ASSUME NEW j, NEW w
    PROVE  /\ Tidy(ClaimJob(j, w), {j}, {})
           /\ Tidy(RenewLease(j, w), {j}, {})
           /\ Tidy(StartAttempt(j, w), {j}, {})
           /\ Tidy(ParseStarted(j), {j}, {})
           /\ Tidy(SaveChunks(j), {j}, {})
           /\ Tidy(EmbeddingStarted(j), {j}, {Searchable(DocOf[j])})
           /\ Tidy(SaveEmbeddings(j), {j}, {})
<1> USE DEF Tidy, Lock, Fence, Skip, Share, Look, NoRow, Job, Worker, Version, Document,
            Attempts, ChunkRows, Vectors, Searchable
<1>1. Tidy(ClaimJob(j, w), {j}, {}) BY DEF ClaimJob
<1>2. Tidy(RenewLease(j, w), {j}, {}) BY DEF RenewLease
<1>3. Tidy(StartAttempt(j, w), {j}, {}) BY DEF StartAttempt
<1>4. Tidy(ParseStarted(j), {j}, {}) BY DEF ParseStarted
<1>5. Tidy(SaveChunks(j), {j}, {}) BY DEF SaveChunks
<1>6. Tidy(EmbeddingStarted(j), {j}, {Searchable(DocOf[j])}) BY DEF EmbeddingStarted
<1>7. Tidy(SaveEmbeddings(j), {j}, {}) BY DEF SaveEmbeddings
<1>8. QED BY ONLY <1>1, <1>2, <1>3, <1>4, <1>5, <1>6, <1>7

LEMMA ResultTidy ==
    ASSUME NEW j
    PROVE  /\ Tidy(CompleteJob(j), {j}, {Searchable(DocOf[j])})
           /\ Tidy(FailJob(j), {j}, {})
           /\ Tidy(RecoverJob(j), {j}, {})
           /\ Tidy(ManualRetry(j), {j}, {})
           /\ Tidy(HandleReindex(j), {j}, {})
           /\ Tidy(HandleCreated(j), {j}, {})
           /\ Tidy(ClaimEvent(j), {}, {})
           /\ Tidy(SettleEvent(j), {}, {})
           /\ Tidy(AddVersion(j), {}, {})
<1> USE DEF Tidy, Lock, Fence, Skip, Look, NoRow, File, Job, Version, Document, Attempts,
            ChunkRows, Vectors, Searchable, VersionsOf, Created, Reindex
<1>1. \A row \in OtherVersions(j) : row[1] # "searchable"
  BY DEF OtherVersions
<1>2. Tidy(CompleteJob(j), {j}, {Searchable(DocOf[j])}) BY <1>1 DEF CompleteJob
<1>3. Tidy(FailJob(j), {j}, {}) BY <1>1 DEF FailJob
<1>4. Tidy(RecoverJob(j), {j}, {}) BY <1>1 DEF RecoverJob
<1>5. Tidy(ManualRetry(j), {j}, {}) BY <1>1 DEF ManualRetry
<1>6. Tidy(HandleReindex(j), {j}, {}) BY <1>1 DEF HandleReindex, ManualRetry
<1>7. Tidy(HandleCreated(j), {j}, {}) BY DEF HandleCreated
<1>8. Tidy(ClaimEvent(j), {}, {}) /\ Tidy(SettleEvent(j), {}, {}) BY DEF ClaimEvent, SettleEvent
<1>9. Tidy(AddVersion(j), {}, {}) BY <1>1 DEF AddVersion
<1>10. QED BY ONLY <1>2, <1>3, <1>4, <1>5, <1>6, <1>7, <1>8, <1>9

LEMMA OtherTidy ==
    ASSUME NEW d, NEW w
    PROVE  /\ Tidy(UpdateMetadata(d), {}, {})
           /\ Tidy(UpdateVisibility(d), {}, {})
           /\ Tidy(DeleteDocument(d), {}, {})
           /\ Tidy(HandleDeleted(d), {}, {})
           /\ Tidy(ChangeWorker(w), {}, {})
           /\ Tidy(RegisterWorker(w), {}, {})
           /\ Tidy(Upload, {}, {})
           /\ Tidy(<<>>, {}, {})
<1> USE DEF Tidy, Lock, Fence, Look, NoRow, File, Worker, Document, Searchable, Instance, Deleted
<1>1. Tidy(UpdateMetadata(d), {}, {}) BY DEF UpdateMetadata
<1>2. Tidy(UpdateVisibility(d), {}, {}) BY DEF UpdateVisibility
<1>3. Tidy(DeleteDocument(d), {}, {}) BY DEF DeleteDocument
<1>4. Tidy(HandleDeleted(d), {}, {}) BY DEF HandleDeleted
<1>5. Tidy(ChangeWorker(w), {}, {}) BY DEF ChangeWorker
<1>6. Tidy(RegisterWorker(w), {}, {}) BY DEF RegisterWorker
<1>7. Tidy(Upload, {}, {}) /\ Tidy(<<>>, {}, {}) BY DEF Upload
<1>8. QED BY ONLY <1>1, <1>2, <1>3, <1>4, <1>5, <1>6, <1>7

\* A transaction is what BeginTransaction can start.
Formed(t) ==
    /\ tx[t].op \in Ops \cup {"none"}
    /\ tx[t].op \in JobOps => tx[t].id \in Jobs
    /\ tx[t].op \in DocumentOps => tx[t].id \in DocumentIds

OwnJobs(t) == IF tx[t].op \in JobOps \ {"add"} THEN {tx[t].id} ELSE {}

SearchableRead(t) ==
    IF tx[t].op \in {"embed", "complete"} THEN {Searchable(DocOf[tx[t].id])} ELSE {}

\* Whatever a thread is doing: what it reads is guarded, what it locks is its own.
LEMMA ProgramGuarded ==
    ASSUME NEW t, Formed(t)
    PROVE  ReadsGuarded(Program(t)) /\ Tidy(Program(t), OwnJobs(t), SearchableRead(t))
<1> DEFINE op == tx[t].op
           i == tx[t].id
           w == tx[t].worker
           Fine == ReadsGuarded(Program(t)) /\ Tidy(Program(t), OwnJobs(t), SearchableRead(t))
<1> USE DEF Formed, Ops, JobOps, DocumentOps, WorkerOps, OwnJobs, SearchableRead
<1>1. ASSUME NEW p, NEW own, NEW read, Program(t) = p, ReadsGuarded(p), Tidy(p, own, read),
             OwnJobs(t) = own \/ own = {}, SearchableRead(t) = read
      PROVE  Fine
  BY <1>1 DEF Tidy
<1>2. CASE op \in {"claim", "renew", "start"}
  BY <1>1, <1>2, JobReadsGuarded, JobTidy DEF Program
<1>3. CASE op \in {"parse", "chunk", "vectors"}
  BY <1>1, <1>3, JobReadsGuarded, JobTidy DEF Program
<1>4. CASE op = "embed"
  BY <1>1, <1>4, JobReadsGuarded, JobTidy DEF Program
<1>5. CASE op \in {"fail", "recover", "retry"}
  BY <1>1, <1>5, ResultReadsGuarded, ResultTidy DEF Program
<1>6. CASE op = "complete"
  BY <1>1, <1>6, ResultReadsGuarded, ResultTidy DEF Program
<1>7. CASE op \in {"reindex", "created", "claim_event", "settle_event", "add"}
  BY <1>1, <1>7, ResultReadsGuarded, ResultTidy DEF Program
<1>8. CASE op \in DocumentOps \cup WorkerOps \cup {"none"}
  BY <1>1, <1>8, OtherReadsGuarded, OtherTidy DEF Program
<1>9. QED BY <1>2, <1>3, <1>4, <1>5, <1>6, <1>7, <1>8

\* A program locks a row at one of its statements.
Locked(p, row) == \E m \in 1 .. Len(p) : p[m].row = row /\ p[m].how \in Exclusive

LEMMA LedgerRowsLocked ==
    ASSUME NEW j, NEW w
    PROVE  /\ \A row \in {Job(j), Version(j), Document(DocOf[j])} :
                 /\ Locked(ClaimJob(j, w), row) /\ Locked(ParseStarted(j), row)
                 /\ Locked(SaveChunks(j), row) /\ Locked(EmbeddingStarted(j), row)
                 /\ Locked(CompleteJob(j), row) /\ Locked(FailJob(j), row)
                 /\ Locked(RecoverJob(j), row) /\ Locked(ManualRetry(j), row)
                 /\ Locked(HandleReindex(j), row)
           /\ Locked(RenewLease(j, w), Job(j)) /\ Locked(StartAttempt(j, w), Job(j))
           /\ Locked(SaveEmbeddings(j), Job(j)) /\ Locked(HandleReindex(j), Reindex(j))
           /\ \A row \in {Document(DocOf[j]), File, VersionsOf(DocOf[j]), Created(j)} :
                 Locked(AddVersion(j), row)
           /\ Locked(HandleCreated(j), Created(j)) /\ Locked(ClaimEvent(j), Created(j))
           /\ Locked(SettleEvent(j), Created(j))
<1> USE DEF Locked, Exclusive, Lock, Fence, Skip, Share, Look
<1>1. ASSUME NEW row \in {Job(j), Version(j), Document(DocOf[j])}
      PROVE  /\ Locked(ClaimJob(j, w), row) /\ Locked(ParseStarted(j), row)
             /\ Locked(SaveChunks(j), row) /\ Locked(EmbeddingStarted(j), row)
             /\ Locked(CompleteJob(j), row) /\ Locked(FailJob(j), row)
             /\ Locked(RecoverJob(j), row) /\ Locked(ManualRetry(j), row)
             /\ Locked(HandleReindex(j), row)
  <2>1. Locked(ClaimJob(j, w), row) BY <1>1 DEF ClaimJob
  <2>2. Locked(ParseStarted(j), row) BY <1>1 DEF ParseStarted
  <2>3. Locked(SaveChunks(j), row) BY <1>1 DEF SaveChunks
  <2>4. Locked(EmbeddingStarted(j), row) BY <1>1 DEF EmbeddingStarted
  <2>5. Locked(CompleteJob(j), row) BY <1>1 DEF CompleteJob
  <2>6. Locked(FailJob(j), row) BY <1>1 DEF FailJob
  <2>7. Locked(RecoverJob(j), row) BY <1>1 DEF RecoverJob
  <2>8. Locked(ManualRetry(j), row) BY <1>1 DEF ManualRetry
  <2>9. Locked(HandleReindex(j), row) BY <1>1 DEF HandleReindex, ManualRetry
  <2>10. QED BY ONLY <2>1, <2>2, <2>3, <2>4, <2>5, <2>6, <2>7, <2>8, <2>9
<1>2. Locked(RenewLease(j, w), Job(j)) /\ Locked(StartAttempt(j, w), Job(j))
  BY DEF RenewLease, StartAttempt
<1>3. Locked(SaveEmbeddings(j), Job(j)) /\ Locked(HandleReindex(j), Reindex(j))
  BY DEF SaveEmbeddings, HandleReindex, ManualRetry
<1>4. ASSUME NEW row \in {Document(DocOf[j]), File, VersionsOf(DocOf[j]), Created(j)}
      PROVE  Locked(AddVersion(j), row)
  BY <1>4 DEF AddVersion
<1>5. Locked(HandleCreated(j), Created(j)) /\ Locked(ClaimEvent(j), Created(j))
  BY DEF HandleCreated, ClaimEvent
<1>6. Locked(SettleEvent(j), Created(j))
  BY DEF SettleEvent
<1>7. QED BY <1>1, <1>2, <1>3, <1>4, <1>5, <1>6

LEMMA OtherRowsLocked ==
    ASSUME NEW d, NEW w
    PROVE  /\ Locked(UpdateMetadata(d), Document(d)) /\ Locked(UpdateVisibility(d), Document(d))
           /\ Locked(DeleteDocument(d), Document(d)) /\ Locked(DeleteDocument(d), Deleted(d))
           /\ Locked(HandleDeleted(d), Deleted(d))
           /\ Locked(ChangeWorker(w), Worker(w)) /\ Locked(RegisterWorker(w), Instance(w))
           /\ Locked(Upload, File)
<1> USE DEF Locked, Exclusive, Lock, Fence, Look
<1>1. Locked(UpdateMetadata(d), Document(d)) /\ Locked(UpdateVisibility(d), Document(d))
  BY DEF UpdateMetadata, UpdateVisibility
<1>2. Locked(DeleteDocument(d), Document(d)) /\ Locked(DeleteDocument(d), Deleted(d))
  BY DEF DeleteDocument
<1>3. Locked(HandleDeleted(d), Deleted(d))
  BY DEF HandleDeleted
<1>4. Locked(ChangeWorker(w), Worker(w)) /\ Locked(RegisterWorker(w), Instance(w))
  BY DEF ChangeWorker, RegisterWorker
<1>5. Locked(Upload, File)
  BY DEF Upload
<1>6. QED BY <1>1, <1>2, <1>3, <1>4, <1>5

\* Who changes a row has locked all of its guards, but for a new job and version,
\* which only their documents and numbers guard, and for the vectors that are made
\* searchable with the lock of their job, or stop to be so without one.
LEMMA WritesGuarded ==
    ASSUME NEW t, Formed(t), tx[t].op # "none", NEW row \in Writes(tx[t].op, tx[t].id)
    PROVE  \/ \A g \in Guards(row) : Locked(Program(t), g)
           \/ tx[t].op = "add" /\ row \in {Job(tx[t].id), Version(tx[t].id)}
           \/ tx[t].op = "vectors" /\ row = Searchable(DocOf[tx[t].id])
           \/ tx[t].op = "deleted" /\ row = Searchable(tx[t].id)
<1> DEFINE op == tx[t].op
           i == tx[t].id
           w == tx[t].worker
<1> USE DEF Formed, Ops, JobOps, DocumentOps, WorkerOps
<1>1. Guards(File) = {File}
  BY DEF Guards, File
<1>2. CASE op \in {"claim", "parse", "retry"}
  <2>1. row \in {Job(i), Version(i), Document(DocOf[i])}
    BY <1>2 DEF Writes
  <2>2. \A g \in Guards(row) : g \in {Job(i), Version(i), Document(DocOf[i])}
    BY <2>1, RowGuards
  <2> QED
    BY <1>2, <2>2, LedgerRowsLocked, ZenonT(40) DEF Program
<1>3. CASE op \in {"embed", "recover", "complete", "fail"}
  <2>1. row \in {Job(i), Version(i), Document(DocOf[i]), Searchable(DocOf[i]), Attempts(i)}
    BY <1>3 DEF Writes
  <2>2. \A g \in Guards(row) : g \in {Job(i), Version(i), Document(DocOf[i])}
    BY <2>1, RowGuards
  <2> QED
    BY <1>3, <2>2, LedgerRowsLocked DEF Program
<1>4. CASE op = "chunk"
  <2>1. row \in {Version(i), ChunkRows(i)}
    BY <1>4 DEF Writes
  <2>2. \A g \in Guards(row) : g \in {Job(i), Version(i), Document(DocOf[i])}
    BY <2>1, RowGuards
  <2> QED
    BY <1>4, <2>2, LedgerRowsLocked DEF Program
<1>5. CASE op = "reindex"
  <2>1. row \in {Job(i), Version(i), Document(DocOf[i]), Reindex(i)}
    BY <1>5 DEF Writes
  <2>2. \A g \in Guards(row) : g \in {Job(i), Version(i), Document(DocOf[i]), Reindex(i)}
    BY <2>1, RowGuards
  <2> QED
    BY <1>5, <2>2, LedgerRowsLocked DEF Program
<1>6. CASE op \in {"renew", "start"}
  <2>1. row \in {Job(i), Attempts(i)}
    BY <1>6 DEF Writes
  <2> QED
    BY <1>6, <2>1, RowGuards, LedgerRowsLocked DEF Program
<1>7. CASE op = "vectors"
  <2>1. row \in {Vectors(i), Searchable(DocOf[i])}
    BY <1>7 DEF Writes
  <2>2. Program(t) = SaveEmbeddings(i)
    BY <1>7 DEF Program
  <2>3. Guards(Vectors(i)) = {Job(i)} /\ Locked(Program(t), Job(i))
    BY <2>2, RowGuards, LedgerRowsLocked
  <2>4. CASE row = Vectors(i)
    BY ONLY <2>3, <2>4
  <2>5. CASE row = Searchable(DocOf[i])
    BY ONLY <1>7, <2>5
  <2> QED
    BY ONLY <2>1, <2>4, <2>5
<1>8. CASE op \in {"created", "claim_event", "settle_event"}
  <2>1. row = Created(i)
    BY <1>8 DEF Writes
  <2>2. Guards(Created(i)) = {Created(i)}
    BY RowGuards
  <2>3. Locked(Program(t), Created(i))
    BY <1>8, LedgerRowsLocked DEF Program
  <2> QED
    BY <2>1, <2>2, <2>3
<1>9. CASE op = "add"
  <2>1. row \in {Job(i), Version(i), Document(DocOf[i]), VersionsOf(DocOf[i]), File, Created(i)}
    BY <1>9 DEF Writes
  <2>2. Program(t) = AddVersion(i)
    BY <1>9 DEF Program
  <2>3. ASSUME row \notin {Job(i), Version(i)}
        PROVE  \A g \in Guards(row) : g \in {Document(DocOf[i]), File, VersionsOf(DocOf[i]), Created(i)}
    BY <1>1, <2>1, <2>3, RowGuards
  <2>4. \A g \in {Document(DocOf[i]), File, VersionsOf(DocOf[i]), Created(i)} : Locked(Program(t), g)
    BY <2>2, LedgerRowsLocked
  <2> QED
    BY <1>9, <2>3, <2>4
<1>10. CASE op \in DocumentOps
  <2>1. \/ op \in {"metadata", "visibility", "delete"} /\ row = Document(i)
        \/ op \in {"delete", "deleted"} /\ row = Deleted(i)
        \/ op = "deleted" /\ row = Searchable(i)
    BY <1>10 DEF Writes
  <2>2. CASE op \in {"metadata", "visibility", "delete"} /\ row = Document(i)
    <3>1. Guards(row) = {Document(i)} /\ Locked(Program(t), Document(i))
      BY <2>2, RowGuards, OtherRowsLocked DEF Program
    <3> QED
      BY <3>1
  <2>3. CASE op \in {"delete", "deleted"} /\ row = Deleted(i)
    <3>1. Program(t) = IF op = "delete" THEN DeleteDocument(i) ELSE HandleDeleted(i)
      BY <2>3 DEF Program
    <3>2. Guards(row) = {Deleted(i)} /\ Locked(Program(t), Deleted(i))
      BY <2>3, <3>1, RowGuards, OtherRowsLocked
    <3> QED
      BY <3>2
  <2>4. CASE op = "deleted" /\ row = Searchable(i)
    BY ONLY <2>4
  <2> QED
    BY ONLY <2>1, <2>2, <2>3, <2>4
<1>11. CASE op \in WorkerOps
  <2>1. \/ op = "heartbeat" /\ row = Worker(i)
        \/ op = "register" /\ row = Instance(i)
        \/ op = "upload" /\ row = File
    BY <1>11 DEF Writes
  <2>2. \A g \in Guards(row) : g = row
    BY <1>1, <2>1, RowGuards
  <2>3. Locked(Program(t), row)
    BY <2>1, OtherRowsLocked DEF Program
  <2> QED
    BY <2>2, <2>3
<1>12. QED
  BY <1>2, <1>3, <1>4, <1>5, <1>6, <1>7, <1>8, <1>9, <1>10, <1>11

----------------------------------------------------------------------------
(* What is read stays as it was read.                                       *)

JobStatuses == {"NONE", "PENDING", "PROCESSING", "INDEXED", "FAILED"}

\* The transactions are at their statements, the jobs have a status.
Typed ==
    /\ DOMAIN tx = Connections
    /\ \A t \in Connections : /\ DOMAIN tx[t] = {"op", "id", "worker", "pc", "fresh"}
                              /\ Formed(t)
                              /\ tx[t].pc \in 1 .. Len(Program(t)) + 1
    /\ jobStatus \in [Jobs -> JobStatuses]

\* Two transactions never have the same exclusive lock.
ExclusiveHeld ==
    \A t, u \in Connections : \A row :
        Holds(t, row, Exclusive) /\ Holds(u, row, Exclusive) => t = u

\* The job of a transaction exists, but for the one that adds it.
Begun == \A t \in Connections : tx[t].op \in JobOps \ {"add"} => jobStatus[tx[t].id] # "NONE"

\* Only the latest version of a document is waiting or in work.
Live(j) == jobStatus[j] \in {"PENDING", "PROCESSING"}
LiveLatest == \A j \in Jobs : Live(j) => Latest(j)

\* A transaction that can no longer commit, because of what it reads the
\* searchable vectors for: its job is lost, or its document is deleted.
Doomed(t, row) ==
    /\ tx[t].op \in {"embed", "complete"} /\ row = Searchable(DocOf[tx[t].id])
    /\ jobStatus[tx[t].id] # "PROCESSING" \/ DocOf[tx[t].id] \in gone

\* What a transaction has read, and has the guard of, is as it was read.
Done(t) == 1 .. tx[t].pc - 1
ReadsKept ==
    \A t \in Connections : \A i \in Done(t) : \A row \in Program(t)[i].reads :
        Guarded(Program(t), row, tx[t].pc - 1) => row \in tx[t].fresh \/ Doomed(t, row)

CurrentInv == Typed /\ ExclusiveHeld /\ Begun /\ LiveLatest /\ ReadsKept

\* A program is the same for as long as its transaction is.
LEMMA ProgramKept ==
    ASSUME NEW t, tx'[t].op = tx[t].op, tx'[t].id = tx[t].id, tx'[t].worker = tx[t].worker
    PROVE  /\ Program(t)' = Program(t) /\ OwnJobs(t)' = OwnJobs(t)
           /\ SearchableRead(t)' = SearchableRead(t) /\ Formed(t)' = Formed(t)
  BY DEF Program, OwnJobs, SearchableRead, Formed

\* A transaction that is ready has all the locks of its program.
LEMMA ReadyHolds ==
    ASSUME Typed, NEW u \in Connections, Ready(u), NEW g, Locked(Program(u), g)
    PROVE  Holds(u, g, Exclusive)
<1>1. Len(Program(u)) \in Nat
  BY ProgramGuarded DEF Typed, Tidy
<1>2. tx[u].pc - 1 = Len(Program(u))
  BY <1>1 DEF Typed, Ready
<1>3. QED BY <1>2 DEF Locked, Holds

\* What saves or completes vectors has its job first.
LEMMA JobFirst ==
    ASSUME Typed, NEW t \in Connections, tx[t].op \in {"embed", "complete"}, Done(t) # {}
    PROVE  Holds(t, Job(tx[t].id), Exclusive)
<1>1. /\ Program(t)[1].row = Job(tx[t].id)
      /\ Program(t)[1].how \in Exclusive
  BY DEF Program, EmbeddingStarted, CompleteJob, Lock, Exclusive
<1>2. 1 \in 1 .. tx[t].pc - 1
  <2>1. Len(Program(t)) \in Nat
    BY ProgramGuarded DEF Typed, Tidy
  <2>2. tx[t].pc \in Nat
    BY <2>1 DEF Typed
  <2> QED
    BY <2>2 DEF Done
<1>3. QED BY <1>1, <1>2 DEF Holds

\* The locks of a row are exclusive.
LEMMA GuardedHolds ==
    ASSUME NEW t, NEW row, Guarded(Program(t), row, tx[t].pc - 1)
    PROVE  \E g \in Guards(row) : Holds(t, g, Exclusive)
  BY DEF Guarded, Holds

\* The job of a ready transaction that changes it is locked.
LEMMA StatusLocked ==
    ASSUME Typed, NEW u \in Connections, Ready(u), tx[u].op \in JobOps \ {"add"},
           NEW s \in StatusAfter(tx[u].op, tx[u].id), s # jobStatus[tx[u].id]
    PROVE  Holds(u, Job(tx[u].id), Exclusive)
<1>1. tx[u].op \in {"claim", "complete", "fail", "recover", "retry", "reindex"}
  BY DEF StatusAfter, JobOps
<1>2. Locked(Program(u), Job(tx[u].id))
  BY <1>1, LedgerRowsLocked DEF Program
<1>3. QED BY <1>2, ReadyHolds

\* What a step leaves to the transactions it does not touch.
LEMMA OthersKept ==
    ASSUME CurrentInv, NEW t \in Connections, DOMAIN tx' = Connections,
           \A u \in Connections \ {t} : tx'[u] = tx[u], UNCHANGED <<jobStatus, gone>>,
           tx'[t].pc = 1, DOMAIN tx'[t] = {"op", "id", "worker", "pc", "fresh"}, Formed(t)',
           tx'[t].op \in JobOps \ {"add"} => jobStatus[tx'[t].id] # "NONE"
    PROVE  CurrentInv'
<1>1. Len(Program(t)') \in Nat
  <2>1. (Tidy(Program(t), OwnJobs(t), SearchableRead(t)))'
    BY ProgramGuarded, PTL
  <2> QED
    BY <2>1 DEF Tidy
<1>2. \A u \in Connections \ {t} : /\ Program(u)' = Program(u) /\ Formed(u)' = Formed(u)
                                   /\ tx'[u] = tx[u]
  BY ProgramKept
<1>3. Typed'
  BY <1>1, <1>2 DEF CurrentInv, Typed
<1>4. \A u \in Connections : \A row : Holds(u, row, Exclusive)' => u # t /\ Holds(u, row, Exclusive)
  BY <1>2 DEF Holds
<1>5. ExclusiveHeld'
  BY <1>4 DEF CurrentInv, ExclusiveHeld
<1>6. Begun'
  BY <1>2 DEF CurrentInv, Begun
<1>7. LiveLatest'
  BY DEF CurrentInv, LiveLatest, Live, Latest, Siblings
<1>8. ReadsKept'
  <2> SUFFICES ASSUME NEW u \in Connections, NEW i \in Done(u)', NEW row \in Program(u)'[i].reads,
                      Guarded(Program(u)', row, tx'[u].pc - 1)
               PROVE  row \in tx'[u].fresh \/ Doomed(u, row)'
    BY DEF ReadsKept
  <2>1. u # t
    BY DEF Done
  <2>2. row \in tx[u].fresh \/ Doomed(u, row)
    BY <1>2, <2>1 DEF CurrentInv, ReadsKept, Done
  <2>3. QED BY <1>2, <2>1, <2>2 DEF Doomed
<1>9. QED BY <1>3, <1>5, <1>6, <1>7, <1>8 DEF CurrentInv

LEMMA BeginKeeps ==
    ASSUME CurrentInv, NEW t \in Connections, BeginTransaction(t)
    PROVE  CurrentInv'
<1>1. PICK op, i, w : /\ tx' = [tx EXCEPT ![t] = Started(op, i, w)]
                      /\ op \in Ops
                      /\ op \in JobOps => i \in Jobs
                      /\ op \in DocumentOps => i \in DocumentIds
                      /\ op \in JobOps \ {"add"} => jobStatus[i] # "NONE"
  BY DEF BeginTransaction, Ops, JobOps, DocumentOps, WorkerOps
<1>2. tx'[t] = Started(op, i, w) /\ \A u \in Connections \ {t} : tx'[u] = tx[u]
  BY <1>1 DEF CurrentInv, Typed
<1>3. DOMAIN tx' = Connections /\ UNCHANGED <<jobStatus, gone>>
  BY <1>1 DEF CurrentInv, Typed, BeginTransaction
<1>4. /\ tx'[t].pc = 1 /\ tx'[t].op = op /\ tx'[t].id = i
      /\ DOMAIN tx'[t] = {"op", "id", "worker", "pc", "fresh"}
  BY <1>2 DEF Started
<1>5. Formed(t)'
  BY <1>1, <1>4 DEF Formed
<1>6. QED BY <1>1, <1>2, <1>3, <1>4, <1>5, OthersKept

LEMMA RollbackKeeps ==
    ASSUME CurrentInv, NEW t \in Connections, RollbackTransaction(t)
    PROVE  CurrentInv'
<1>1. tx'[t] = Idle /\ \A u \in Connections \ {t} : tx'[u] = tx[u]
  BY DEF CurrentInv, Typed, RollbackTransaction
<1>2. DOMAIN tx' = Connections /\ UNCHANGED <<jobStatus, gone>>
  BY DEF CurrentInv, Typed, RollbackTransaction
<1>3. /\ tx'[t].pc = 1 /\ tx'[t].op = "none"
      /\ DOMAIN tx'[t] = {"op", "id", "worker", "pc", "fresh"}
  BY <1>1 DEF Idle, Started
<1>4. Formed(t)'
  BY <1>3 DEF Formed, JobOps, DocumentOps
<1>5. tx'[t].op \notin JobOps
  BY <1>3 DEF JobOps
<1>6. QED BY <1>1, <1>2, <1>3, <1>4, <1>5, OthersKept

\* A row whose guard is locked now was read before it was guarded, and is read again.
LEMMA GuardReads ==
    ASSUME NEW p, NEW n \in 1 .. Len(p), Len(p) \in Nat, ReadsGuarded(p), NEW row,
           Guarded(p, row, n), ~Guarded(p, row, n - 1),
           NEW i \in 1 .. n, row \in p[i].reads
    PROVE  row \in p[n].reads
<1>1. CASE i = n
  BY <1>1
<1>2. CASE i < n
  <2>1. p[n].row \in Guards(row) /\ p[n].how \in Exclusive
    BY DEF Guarded
  <2>2. ~Guarded(p, row, i)
    BY <1>2 DEF Guarded
  <2>3. PICK k \in i + 1 .. Len(p) :
           /\ p[k].row \in Guards(row) /\ p[k].how \in Exclusive /\ row \in p[k].reads
           /\ \A m \in 1 .. k - 1 : p[m].row \notin Guards(row) \/ p[m].how \notin Exclusive
    BY <2>2 DEF ReadsGuarded
  <2>4. ~(k < n)
    BY <2>3 DEF Guarded
  <2>5. ~(n < k)
    BY <2>1, <2>3
  <2>6. QED BY <2>3, <2>4, <2>5
<1>3. QED BY <1>1, <1>2

LEMMA ExecuteKeeps ==
    ASSUME CurrentInv, NEW t \in Connections, Execute(t)
    PROVE  CurrentInv'
<1> DEFINE p == Program(t)
           n == tx[t].pc
<1>1. /\ tx'[t] = [tx[t] EXCEPT !.pc = n + 1, !.fresh = tx[t].fresh \union p[n].reads]
      /\ \A u \in Connections \ {t} : tx'[u] = tx[u]
      /\ DOMAIN tx' = Connections /\ UNCHANGED <<jobStatus, gone>>
  BY DEF CurrentInv, Typed, Execute, Statement
<1>2. /\ tx'[t].op = tx[t].op /\ tx'[t].id = tx[t].id /\ tx'[t].worker = tx[t].worker
      /\ tx'[t].pc = n + 1 /\ tx'[t].fresh = tx[t].fresh \union p[n].reads
      /\ DOMAIN tx'[t] = {"op", "id", "worker", "pc", "fresh"}
  BY <1>1 DEF CurrentInv, Typed
<1>3. \A u \in Connections : Program(u)' = Program(u) /\ Formed(u)' = Formed(u)
  BY <1>1, <1>2, ProgramKept
<1>4. /\ ReadsGuarded(p) /\ Len(p) \in Nat
  BY ProgramGuarded DEF CurrentInv, Typed, Tidy
<1>5. n \in 1 .. Len(p)
  BY <1>4 DEF CurrentInv, Typed, Execute
<1>6. Typed'
  <2>1. ASSUME NEW u \in Connections
        PROVE  /\ DOMAIN tx'[u] = {"op", "id", "worker", "pc", "fresh"} /\ Formed(u)'
               /\ tx'[u].pc \in 1 .. Len(Program(u)') + 1
    <3>1. CASE u = t
      BY <1>2, <1>3, <1>4, <1>5, <3>1 DEF CurrentInv, Typed
    <3>2. CASE u # t
      BY <1>1, <1>3, <3>2 DEF CurrentInv, Typed
    <3>3. QED BY <3>1, <3>2
  <2>2. jobStatus' \in [Jobs -> JobStatuses]
    BY <1>1 DEF CurrentInv, Typed
  <2>3. QED BY <1>1, <2>1, <2>2 DEF Typed
<1>7. ExclusiveHeld'
  <2> SUFFICES ASSUME NEW u \in Connections, NEW v \in Connections, NEW row,
                      Holds(u, row, Exclusive)', Holds(v, row, Exclusive)', u # v
               PROVE  FALSE
    BY DEF ExclusiveHeld
  <2>1. \A x \in Connections \ {t} : Holds(x, row, Exclusive)' = Holds(x, row, Exclusive)
    BY <1>1, <1>3 DEF Holds
  <2>2. Holds(t, row, Exclusive)' =>
            Holds(t, row, Exclusive) \/ (p[n].row = row /\ p[n].how \in Exclusive)
    BY <1>2, <1>3, <1>5 DEF Holds
  <2>3. ASSUME NEW x \in Connections \ {t}, Holds(x, row, Exclusive), p[n].row = row,
               p[n].how \in Exclusive
        PROVE  FALSE
    <3>1. Holds(x, row, {"lock", "skip", "share"})
      BY <2>3 DEF Holds, Exclusive
    <3>2. Conflicts(t, x)
      BY <1>4, <1>5, <2>3, <3>1 DEF Conflicts, Statement, Exclusive
    <3>3. QED BY <3>2 DEF Execute
  <2>4. QED BY <2>1, <2>2, <2>3 DEF CurrentInv, ExclusiveHeld
<1>8. Begun'
  <2>1. \A u \in Connections : tx'[u].op = tx[u].op /\ tx'[u].id = tx[u].id
    BY <1>1, <1>2
  <2>2. QED BY <1>1, <2>1 DEF CurrentInv, Begun
<1>9. LiveLatest'
  BY <1>1 DEF CurrentInv, LiveLatest, Live, Latest, Siblings
<1>10. ReadsKept'
  <2> SUFFICES ASSUME NEW u \in Connections, NEW i \in Done(u)', NEW row \in Program(u)'[i].reads,
                      Guarded(Program(u)', row, tx'[u].pc - 1)
               PROVE  row \in tx'[u].fresh \/ Doomed(u, row)'
    BY DEF ReadsKept
  <2>1. CASE u # t
    <3>1. row \in tx[u].fresh \/ Doomed(u, row)
      BY <1>1, <1>3, <2>1 DEF CurrentInv, ReadsKept, Done
    <3>2. QED BY <1>1, <2>1, <3>1 DEF Doomed
  <2>2. CASE u = t
    <3>1. i \in 1 .. n /\ row \in p[i].reads /\ Guarded(p, row, n)
      BY <1>2, <1>3, <1>5, <2>2 DEF Done
    <3>2. CASE row \in p[n].reads
      BY <1>2, <2>2, <3>2
    <3>3. CASE row \notin p[n].reads
      <4>1. Guarded(p, row, n - 1)
        BY <1>4, <1>5, <3>1, <3>3, GuardReads
      <4>2. i \in Done(t)
        BY <1>5, <3>1, <3>3 DEF Done
      <4>3. row \in tx[t].fresh \/ Doomed(t, row)
        BY <3>1, <4>1, <4>2 DEF CurrentInv, ReadsKept
      <4>4. QED BY <1>1, <1>2, <2>2, <4>3 DEF Doomed
    <3>4. QED BY <3>2, <3>3
  <2>3. QED BY <2>1, <2>2
<1>11. QED BY <1>6, <1>7, <1>8, <1>9, <1>10 DEF CurrentInv

\* A commit changes the status of its own job only, and no job is lost.
LEMMA CommitStatus ==
    ASSUME CurrentInv, NEW u \in Connections, CommitTransaction(u)
    PROVE  /\ jobStatus' \in [Jobs -> JobStatuses]
           /\ \A j \in Jobs : jobStatus[j] # "NONE" => jobStatus'[j] # "NONE"
           /\ \A j \in Jobs : jobStatus'[j] # jobStatus[j] =>
                 /\ j = tx[u].id /\ tx[u].op \in JobOps
                 /\ jobStatus'[j] \in StatusAfter(tx[u].op, j)
<1> DEFINE op == tx[u].op
           i == tx[u].id
<1>1. CASE op \notin JobOps
  BY <1>1 DEF CommitTransaction, CurrentInv, Typed
<1>2. CASE op \in JobOps
  <2>1. PICK s \in StatusAfter(op, i) : jobStatus' = [jobStatus EXCEPT ![i] = s]
    BY <1>2 DEF CommitTransaction
  <2>2. i \in Jobs
    BY <1>2 DEF CurrentInv, Typed, Formed
  <2>3. s \in JobStatuses /\ (s = "NONE" => s = jobStatus[i])
    BY <2>1, <2>2 DEF StatusAfter, JobStatuses, CurrentInv, Typed
  <2>4. QED BY <1>2, <2>1, <2>2, <2>3 DEF CurrentInv, Typed
<1>3. QED BY <1>1, <1>2

\* Only the latest version becomes, or stays, waiting or in work.
LEMMA CommitLive ==
    ASSUME CurrentInv, NEW u \in Connections, CommitTransaction(u)
    PROVE  LiveLatest'
<1> DEFINE op == tx[u].op
           i == tx[u].id
<1>1. Admitted(op, i)
  BY DEF CommitTransaction, Ready
<1> SUFFICES ASSUME NEW j \in Jobs, Live(j)' PROVE Latest(j)'
  BY DEF LiveLatest
<1>2. CASE op = "add"
  <2>1. i \in Jobs /\ jobStatus[i] = "NONE"
    BY <1>1, <1>2 DEF CurrentInv, Typed, Formed, JobOps, Admitted
  <2>2. jobStatus' = [jobStatus EXCEPT ![i] = "PENDING"]
    BY <1>2 DEF CommitTransaction, StatusAfter, JobOps
  <2>3. \A k \in Siblings(i) : /\ k < i => jobStatus[k] \in {"INDEXED", "FAILED"}
                               /\ k > i => jobStatus[k] = "NONE"
    BY <1>1, <1>2 DEF Admitted
  <2>4. CASE j = i
    BY <2>1, <2>2, <2>3, <2>4, LocksAssumption DEF Latest, Siblings, CurrentInv, Typed
  <2>5. CASE j # i
    <3>1. Latest(j) /\ Live(j)
      BY <2>1, <2>2, <2>5 DEF Live, CurrentInv, Typed, LiveLatest
    <3>2. ~(i \in Siblings(j) /\ i > j)
      BY <2>1, <2>3, <3>1, LocksAssumption DEF Live, Siblings
    <3>3. \A k \in Jobs \ {i} : jobStatus'[k] = jobStatus[k]
      BY <2>1, <2>2 DEF CurrentInv, Typed
    <3>4. QED BY <2>5, <3>1, <3>2, <3>3 DEF Latest, Siblings
  <2>6. QED BY <2>4, <2>5
<1>3. CASE op # "add"
  <2>1. \A k \in Jobs : jobStatus'[k] = "NONE" <=> jobStatus[k] = "NONE"
    <3> SUFFICES ASSUME NEW k \in Jobs, jobStatus[k] = "NONE", jobStatus'[k] # "NONE" PROVE FALSE
      BY CommitStatus
    <3>1. k = i /\ op \in JobOps \ {"add"}
      BY <1>3, CommitStatus
    <3>2. QED BY <3>1 DEF CurrentInv, Begun
  <2>2. Latest(j)
    <3>1. CASE jobStatus'[j] = jobStatus[j]
      BY <3>1 DEF Live, CurrentInv, LiveLatest
    <3>2. CASE jobStatus'[j] # jobStatus[j]
      <4>1. /\ j = i /\ op \in JobOps /\ jobStatus'[i] \in StatusAfter(op, i)
            /\ jobStatus'[i] # jobStatus[i]
        BY <3>2, CommitStatus
      <4>2. op \in {"claim", "fail", "recover", "retry", "reindex"}
        BY <1>3, <4>1 DEF StatusAfter, Live, JobOps
      <4>3. CASE op \in {"claim", "retry", "reindex", "recover"}
        BY <1>1, <4>1, <4>3 DEF Admitted
      <4>4. CASE op = "fail"
        <5>1. jobStatus[i] = "PROCESSING"
          BY <1>1, <4>4 DEF Admitted
        <5>2. QED BY <4>1, <5>1 DEF CurrentInv, LiveLatest, Live
      <4>5. QED BY <4>2, <4>3, <4>4
    <3>3. QED BY <3>1, <3>2
  <2>3. QED BY <2>1, <2>2 DEF Latest, Siblings
<1>4. QED BY <1>2, <1>3

\* The status of a job that is read for its vectors is the same until the end.
LEMMA DoomedKept ==
    ASSUME CurrentInv, NEW u \in Connections, CommitTransaction(u), NEW t \in Connections,
           t # u, tx[t].op \in {"embed", "complete"}, Done(t) # {}
    PROVE  jobStatus'[tx[t].id] = jobStatus[tx[t].id]
<1> SUFFICES ASSUME jobStatus'[tx[t].id] # jobStatus[tx[t].id] PROVE FALSE
  OBVIOUS
<1>1. tx[t].id \in Jobs
  BY DEF CurrentInv, Typed, Formed, JobOps
<1>2. /\ tx[t].id = tx[u].id /\ tx[u].op \in JobOps
      /\ jobStatus'[tx[u].id] \in StatusAfter(tx[u].op, tx[u].id)
  BY <1>1, CommitStatus
<1>3. Holds(t, Job(tx[t].id), Exclusive)
  BY JobFirst DEF CurrentInv
<1>4. CASE tx[u].op = "add"
  <2>1. jobStatus[tx[u].id] = "NONE"
    BY <1>4 DEF CommitTransaction, Ready, Admitted
  <2>2. jobStatus[tx[t].id] # "NONE"
    BY DEF CurrentInv, Begun, JobOps
  <2>3. QED BY <1>2, <2>1, <2>2
<1>5. CASE tx[u].op # "add"
  <2>1. Holds(u, Job(tx[u].id), Exclusive)
    BY <1>2, <1>5, StatusLocked DEF CommitTransaction, CurrentInv
  <2>2. QED BY <1>2, <1>3, <2>1 DEF CurrentInv, ExclusiveHeld
<1>6. QED BY <1>4, <1>5

\* What one transaction has read and guarded, another does not change, or not
\* without its loss.
LEMMA CommitSpares ==
    ASSUME CurrentInv, NEW u \in Connections, CommitTransaction(u), NEW t \in Connections,
           t # u, NEW n \in Done(t), NEW row \in Program(t)[n].reads,
           Guarded(Program(t), row, tx[t].pc - 1), row \in Writes(tx[u].op, tx[u].id)
    PROVE  Doomed(t, row)
<1> DEFINE op == tx[u].op
           i == tx[u].id
           j == tx[t].id
<1>1. /\ Typed /\ Formed(u) /\ Formed(t) /\ Ready(u) /\ Admitted(op, i) /\ op # "none"
  BY DEF CurrentInv, Typed, CommitTransaction, Ready
<1>2. PICK g \in Guards(row) : Holds(t, g, Exclusive)
  BY GuardedHolds
<1>3. ~Locked(Program(u), g)
  BY <1>1, <1>2, ReadyHolds DEF CurrentInv, ExclusiveHeld
<1>4. Tidy(Program(t), OwnJobs(t), SearchableRead(t))
  BY <1>1, ProgramGuarded
<1>5. Done(t) \subseteq 1 .. Len(Program(t))
  BY <1>1, <1>4 DEF Typed, Tidy, Done
<1>6. CASE op = "add" /\ row \in {Job(i), Version(i)}
  <2>1. g \in {Job(i), Version(i), Document(DocOf[i])}
    BY <1>6, RowGuards
  <2>2. g # Document(DocOf[i])
    <3>1. Program(u) = AddVersion(i)
      BY <1>6 DEF Program
    <3>2. Locked(Program(u), Document(DocOf[i]))
      BY <3>1, LedgerRowsLocked
    <3>3. QED BY <1>3, <3>2
  <2>3. PICK m \in Done(t) : Program(t)[m].row = g
    BY <1>2 DEF Holds, Done
  <2>4. g[1] \in {"job", "version"} /\ g[2] = i
    BY <2>1, <2>2 DEF Job, Version
  <2>5. i \in OwnJobs(t)
    BY <1>4, <1>5, <2>3, <2>4 DEF Tidy
  <2>6. jobStatus[i] # "NONE"
    BY <2>5 DEF OwnJobs, CurrentInv, Begun
  <2>7. jobStatus[i] = "NONE"
    BY <1>1, <1>6 DEF Admitted
  <2>8. QED BY <2>6, <2>7
<1>7. ASSUME NEW d, row = Searchable(d)
      PROVE  tx[t].op \in {"embed", "complete"} /\ DocOf[j] = d /\ row = Searchable(DocOf[j])
  <2>1. row[1] = "searchable" /\ row[2] = d
    BY <1>7 DEF Searchable
  <2>2. row \in SearchableRead(t)
    BY <1>4, <1>5, <2>1 DEF Tidy
  <2>3. tx[t].op \in {"embed", "complete"} /\ row = Searchable(DocOf[j])
    BY <2>2 DEF SearchableRead
  <2>4. QED BY <2>1, <2>3 DEF Searchable
<1>8. CASE op = "vectors" /\ row = Searchable(DocOf[i])
  <2>1. tx[t].op \in {"embed", "complete"} /\ DocOf[j] = DocOf[i] /\ row = Searchable(DocOf[j])
    BY <1>7, <1>8
  <2>2. CASE jobStatus[j] # "PROCESSING"
    BY <2>1, <2>2 DEF Doomed
  <2>3. CASE jobStatus[j] = "PROCESSING"
    <3>1. i \in Jobs /\ j \in Jobs
      BY <1>1, <1>8, <2>1 DEF Formed, JobOps
    <3>2. jobStatus[i] = "PROCESSING"
      BY <1>1, <1>8 DEF Admitted
    <3>3. Latest(i) /\ Latest(j)
      BY <2>3, <3>1, <3>2 DEF CurrentInv, LiveLatest, Live
    <3>4. i = j
      <4>1. i \in Siblings(j) /\ j \in Siblings(i)
        BY <2>1, <3>1 DEF Siblings
      <4>2. ~(j > i) /\ ~(i > j)
        BY <2>3, <3>2, <3>3, <4>1 DEF Latest
      <4>3. i \in Nat /\ j \in Nat
        BY <3>1, LocksAssumption
      <4>4. QED BY <4>2, <4>3
    <3>5. Holds(t, Job(j), Exclusive)
      BY <1>1, <2>1, JobFirst
    <3>6. Holds(u, Job(i), Exclusive)
      <4>1. Program(u) = SaveEmbeddings(i)
        BY <1>8 DEF Program
      <4>2. QED BY <1>1, <4>1, LedgerRowsLocked, ReadyHolds
    <3>7. QED BY <3>4, <3>5, <3>6 DEF CurrentInv, ExclusiveHeld
  <2>4. QED BY <2>2, <2>3
<1>9. CASE op = "deleted" /\ row = Searchable(i)
  <2>1. i \in gone
    BY <1>1, <1>9 DEF Admitted
  <2>2. QED BY <1>7, <1>9, <2>1 DEF Doomed
<1>10. \/ \A h \in Guards(row) : Locked(Program(u), h)
       \/ op = "add" /\ row \in {Job(i), Version(i)}
       \/ op = "vectors" /\ row = Searchable(DocOf[i])
       \/ op = "deleted" /\ row = Searchable(i)
  BY <1>1, WritesGuarded
<1>11. QED BY <1>3, <1>6, <1>8, <1>9, <1>10

LEMMA CommitKeeps ==
    ASSUME CurrentInv, NEW u \in Connections, CommitTransaction(u)
    PROVE  CurrentInv'
<1> DEFINE op == tx[u].op
           i == tx[u].id
<1>1. /\ DOMAIN tx' = Connections /\ tx'[u] = Idle
      /\ \A t \in Connections \ {u} : tx'[t] = [tx[t] EXCEPT !.fresh = tx[t].fresh \ Writes(op, i)]
  BY DEF CommitTransaction
<1>2. /\ tx'[u].pc = 1 /\ tx'[u].op = "none"
      /\ DOMAIN tx'[u] = {"op", "id", "worker", "pc", "fresh"}
  BY <1>1 DEF Idle, Started
<1>3. \A t \in Connections \ {u} :
         /\ tx'[t].op = tx[t].op /\ tx'[t].id = tx[t].id /\ tx'[t].worker = tx[t].worker
         /\ tx'[t].pc = tx[t].pc /\ tx'[t].fresh = tx[t].fresh \ Writes(op, i)
         /\ DOMAIN tx'[t] = {"op", "id", "worker", "pc", "fresh"}
  BY <1>1 DEF CurrentInv, Typed
<1>4. \A t \in Connections \ {u} : Program(t)' = Program(t) /\ Formed(t)' = Formed(t)
  BY <1>3, ProgramKept
<1>5. Typed'
  <2>1. Formed(u)'
    BY <1>2 DEF Formed, JobOps, DocumentOps
  <2>2. Len(Program(u)') \in Nat
    <3>1. Program(u)' = <<>>
      BY <1>2 DEF Program
    <3>2. QED BY <3>1
  <2>3. jobStatus' \in [Jobs -> JobStatuses]
    BY CommitStatus
  <2>4. ASSUME NEW t \in Connections
        PROVE  /\ DOMAIN tx'[t] = {"op", "id", "worker", "pc", "fresh"} /\ Formed(t)'
               /\ tx'[t].pc \in 1 .. Len(Program(t)') + 1
    <3>1. CASE t = u
      BY <1>2, <2>1, <2>2, <3>1
    <3>2. CASE t # u
      BY <1>3, <1>4, <3>2 DEF CurrentInv, Typed
    <3>3. QED BY <3>1, <3>2
  <2>5. QED BY <1>1, <2>3, <2>4 DEF Typed
<1>6. ExclusiveHeld'
  <2>1. \A t \in Connections : \A row : Holds(t, row, Exclusive)' => t # u /\ Holds(t, row, Exclusive)
    BY <1>2, <1>3, <1>4 DEF Holds
  <2>2. QED BY <2>1 DEF CurrentInv, ExclusiveHeld
<1>7. Begun'
  <2> SUFFICES ASSUME NEW t \in Connections, tx'[t].op \in JobOps \ {"add"}
               PROVE  jobStatus'[tx'[t].id] # "NONE"
    BY DEF Begun
  <2>1. t # u
    BY <1>2 DEF JobOps
  <2>2. tx[t].id \in Jobs /\ jobStatus[tx[t].id] # "NONE"
    BY <1>3, <2>1 DEF CurrentInv, Begun, Typed, Formed
  <2>3. jobStatus'[tx[t].id] # "NONE"
    BY <2>2, CommitStatus
  <2>4. QED BY <1>3, <2>1, <2>3
<1>8. LiveLatest'
  BY CommitLive
<1>9. ReadsKept'
  <2> SUFFICES ASSUME NEW t \in Connections, NEW n \in Done(t)', NEW row \in Program(t)'[n].reads,
                      Guarded(Program(t)', row, tx'[t].pc - 1)
               PROVE  row \in tx'[t].fresh \/ Doomed(t, row)'
    BY DEF ReadsKept
  <2>1. t # u
    BY <1>2 DEF Done
  <2>2. /\ n \in Done(t) /\ row \in Program(t)[n].reads
        /\ Guarded(Program(t), row, tx[t].pc - 1)
    BY <1>3, <1>4, <2>1 DEF Done
  <2>3. CASE Doomed(t, row)
    <3>1. jobStatus'[tx[t].id] = jobStatus[tx[t].id]
      BY <2>1, <2>2, <2>3, DoomedKept DEF Doomed
    <3>2. gone \subseteq gone'
      BY DEF CommitTransaction
    <3>3. QED BY <1>3, <2>1, <2>3, <3>1, <3>2 DEF Doomed
  <2>4. CASE ~Doomed(t, row)
    <3>1. row \in tx[t].fresh
      BY <2>2, <2>4 DEF CurrentInv, ReadsKept
    <3>2. row \notin Writes(op, i)
      BY <2>1, <2>2, <2>4, CommitSpares
    <3>3. QED BY <1>3, <2>1, <3>1, <3>2
  <2>5. QED BY <2>3, <2>4
<1>10. QED BY <1>5, <1>6, <1>7, <1>8, <1>9 DEF CurrentInv

LEMMA CurrentInvariant == LocksSpec => []CurrentInv
<1>1. LocksInit => CurrentInv
  <2> SUFFICES ASSUME LocksInit PROVE CurrentInv
    OBVIOUS
  <2>1. \A t \in Connections : /\ DOMAIN tx[t] = {"op", "id", "worker", "pc", "fresh"}
                               /\ tx[t].op = "none" /\ tx[t].pc = 1
    BY DEF LocksInit, Idle, Started
  <2>2. \A t \in Connections : Formed(t) /\ Len(Program(t)) \in Nat
    <3> SUFFICES ASSUME NEW t \in Connections PROVE Formed(t) /\ Len(Program(t)) \in Nat
      OBVIOUS
    <3>1. Formed(t)
      BY <2>1 DEF Formed, JobOps, DocumentOps
    <3>2. QED BY <3>1, ProgramGuarded DEF Tidy
  <2>3. Typed
    BY <2>1, <2>2 DEF Typed, LocksInit, JobStatuses
  <2>4. ExclusiveHeld /\ ReadsKept
    BY <2>1 DEF ExclusiveHeld, ReadsKept, Holds, Done
  <2>5. Begun
    BY <2>1 DEF Begun, JobOps
  <2>6. LiveLatest
    <3> SUFFICES ASSUME NEW j \in Jobs, Live(j) PROVE Latest(j)
      BY DEF LiveLatest
    <3>1. \A k \in Siblings(j) : k > j => jobStatus[k] = "NONE"
      BY LocksAssumption DEF LocksInit, Siblings
    <3>2. QED BY <3>1 DEF Latest, Live
  <2>7. QED BY <2>3, <2>4, <2>5, <2>6 DEF CurrentInv
<1>2. CurrentInv /\ [LocksNext]_locksVars => CurrentInv'
  <2> SUFFICES ASSUME CurrentInv, [LocksNext]_locksVars PROVE CurrentInv'
    OBVIOUS
  <2>1. CASE UNCHANGED locksVars
    <3>1. UNCHANGED <<tx, jobStatus, gone>>
      BY <2>1 DEF locksVars
    <3>2. \A t \in Connections : Program(t)' = Program(t) /\ Formed(t)' = Formed(t)
      BY <3>1, ProgramKept
    <3>3. Typed'
      BY <3>1, <3>2 DEF CurrentInv, Typed
    <3>4. ExclusiveHeld'
      BY <3>1, <3>2 DEF CurrentInv, ExclusiveHeld, Holds
    <3>5. Begun' /\ LiveLatest'
      BY <3>1 DEF CurrentInv, Begun, LiveLatest, Live, Latest, Siblings
    <3>6. ReadsKept'
      BY <3>1, <3>2 DEF CurrentInv, ReadsKept, Doomed, Done
    <3>7. QED BY <3>3, <3>4, <3>5, <3>6 DEF CurrentInv
  <2>2. CASE LocksNext
    BY <2>2, BeginKeeps, ExecuteKeeps, CommitKeeps, RollbackKeeps DEF LocksNext
  <2>3. QED BY <2>1, <2>2
<1>3. QED BY <1>1, <1>2, PTL DEF LocksSpec

\* At the end of its program a transaction has the guard of all it has read, and
\* one that is admitted is not doomed.
LEMMA CurrentAtCommit == CurrentInv => CommitsCurrent
<1> SUFFICES ASSUME CurrentInv, NEW t \in Connections, Ready(t), NEW n \in DOMAIN Program(t),
                    NEW row \in Program(t)[n].reads
             PROVE  row \in tx[t].fresh
  BY DEF CommitsCurrent, ReadBy
<1>1. /\ ReadsGuarded(Program(t)) /\ Tidy(Program(t), OwnJobs(t), SearchableRead(t))
  BY ProgramGuarded DEF CurrentInv, Typed
<1>2. tx[t].pc - 1 = Len(Program(t)) /\ n \in 1 .. Len(Program(t)) /\ Len(Program(t)) \in Nat
  BY <1>1 DEF Tidy, CurrentInv, Typed, Ready
<1>3. Guarded(Program(t), row, Len(Program(t)))
  BY <1>1, <1>2 DEF ReadsGuarded, Guarded
<1>4. row \in tx[t].fresh \/ Doomed(t, row)
  BY <1>2, <1>3 DEF CurrentInv, ReadsKept, Done
<1>5. ~Doomed(t, row)
  BY DEF Doomed, Ready, Admitted, JobOps
<1>6. QED BY <1>4, <1>5

\* Every transaction of the ledgers and of the outbox that commits decided on what
\* is there then: the locks of indexing/ownership.py, processing.py, results.py,
\* recovery.py and documents/core.py, the checks under them, and that only the
\* latest version of a document is in work, make each of them one step.
THEOREM CommitsAlwaysCurrent == LocksSpec => []CommitsCurrent
  BY CurrentInvariant, CurrentAtCommit, PTL
=============================================================================
