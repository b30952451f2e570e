----------------------- MODULE IndexingPromisesProofs -----------------------
(***************************************************************************)
(* What the indexing ledger promises, for every value of the constants:    *)
(* who may work on a job, what a step may never do to it, which version a  *)
(* document serves, and that all of it implements VersionLifecycle.  Every *)
(* step is first shown to be one of eleven events in the life of a version *)
(* or of a document (LedgerStep); what is promised follows from those.     *)
(***************************************************************************)
EXTENDS IndexingLifecycleProofs, LedgerLifecycle

USE ConstantsAssumption, NoneAssumption DEF Doc

-----------------------------------------------------------------------------
(* Events. *)

\* The row of a job, but for its timers.
JobKept(v) ==
    /\ job'[v].status = job[v].status /\ job'[v].owner = job[v].owner
    /\ job'[v].token = job[v].token /\ job'[v].claims = job[v].claims
    /\ job'[v].retries = job[v].retries

RowKept(v) ==
    JobKept(v) /\ attempt'[v] = attempt[v] /\ version'[v].status = version[v].status

VectorsKept(v) == version'[v].vectors = version[v].vectors

\* A claim commits.
Claimed(v) ==
    /\ job[v].status = "PENDING" /\ job'[v].status = "PROCESSING"
    /\ job'[v].claims = job[v].claims + 1 /\ job'[v].token = job'[v].claims
    /\ job'[v].owner \in Workers /\ worker[job'[v].owner].status = "ACTIVE"
    /\ job'[v].retries = job[v].retries
    /\ attempt'[v] = attempt[v] /\ version'[v] = version[v]
    /\ Committable(v)
    /\ document'[Doc(v)] = [document[Doc(v)] EXCEPT
                              !.status = IF @ = "UPLOADED" THEN "INDEXING" ELSE @]

\* The owner works on the job.
Worked(v) ==
    /\ job[v].status = "PROCESSING" /\ job[v].lease # 0 /\ JobKept(v)
    /\ \/ attempt'[v] = attempt[v]
       \/ /\ attempt[v][job[v].token] = "NONE"
          /\ attempt'[v] = [attempt[v] EXCEPT ![job[v].token] = "STARTED"]
    /\ \/ version'[v].status = version[v].status
       \/ version'[v].status \in ActiveStates /\ document[Doc(v)].status # "DELETED"
    /\ VectorsKept(v) \/ version'[v].vectors = "ACTIVE"
    /\ document'[Doc(v)] = document[Doc(v)]

\* The owner ends its attempt.
EndedAs(v, result) ==
    /\ job[v].status = "PROCESSING" /\ job[v].lease # 0
    /\ job[v].token \in Tokens /\ attempt[v][job[v].token] = "STARTED"
    /\ attempt'[v] = [attempt[v] EXCEPT ![job[v].token] = result]

Completed(v) ==
    /\ EndedAs(v, "SUCCESS")
    /\ version[v].status = "EMBEDDING" /\ version[v].vectors = "ACTIVE"
    /\ document[Doc(v)].status \in {"UPLOADED", "INDEXING", "INDEXED"}
    /\ document[Doc(v)].latest = v[2] /\ document[Doc(v)].current <= v[2]
    /\ job'[v].status = "INDEXED" /\ job'[v].token = job[v].token
    /\ job'[v].claims = job[v].claims /\ job'[v].retries = job[v].retries
    /\ version'[v].status = "INDEXED" /\ version'[v].vectors = "ACTIVE"
    /\ document'[Doc(v)] = [document[Doc(v)] EXCEPT !.status = "INDEXED", !.current = v[2]]

GivenUp(v) ==
    /\ job'[v].status = "FAILED" /\ job'[v].token = None
    /\ job'[v].claims = job[v].claims /\ job'[v].retries = job[v].retries
    /\ version'[v].status = "FAILED" /\ version'[v].vectors # "ACTIVE"
    /\ document'[Doc(v)] = [document[Doc(v)] EXCEPT
                              !.status = IF ServedByOther(v) THEN "INDEXED" ELSE "FAILED"]

PutBack(v) ==
    /\ job'[v].status = "PENDING" /\ job'[v].token = None
    /\ job'[v].claims = job[v].claims /\ job'[v].retries = job[v].retries + 1
    /\ version'[v].status \in ActiveStates /\ VectorsKept(v)
    /\ document'[Doc(v)] = document[Doc(v)]

FailedByOwner(v) ==
    /\ EndedAs(v, "FAILED") /\ document[Doc(v)].status # "DELETED"
    /\ version[v].status \in ActiveStates
    /\ GivenUp(v) \/ PutBack(v)

Recovered(v) ==
    /\ job[v].status = "PROCESSING" /\ job[v].lease = 0
    /\ attempt'[v] = attempt[v]
    /\ version[v].status \in ActiveStates /\ Committable(v)
    /\ GivenUp(v) \/ PutBack(v)

Restarted(v) ==
    /\ job[v].status = "FAILED" /\ job'[v].status = "PENDING" /\ job'[v].token = None
    /\ job'[v].claims = job[v].claims /\ job'[v].retries = job[v].retries
    /\ attempt'[v] = attempt[v]
    /\ version[v].status = "FAILED" /\ version'[v].status \in ActiveStates /\ VectorsKept(v)
    /\ Committable(v)
    /\ document'[Doc(v)] = [document[Doc(v)] EXCEPT
                              !.status = IF ServedByOther(v) THEN "INDEXED" ELSE "UPLOADED"]

\* upload or add_version: the next version, after all others have come to an end.
Accepted(v) ==
    /\ job[v].status = "NONE" /\ job'[v].status = "PENDING" /\ job'[v].token = job[v].token
    /\ job'[v].claims = job[v].claims /\ job'[v].retries = job[v].retries
    /\ attempt'[v] = attempt[v]
    /\ version[v].status = "NONE" /\ version'[v].status \in ActiveStates /\ VectorsKept(v)
    /\ v[2] = document[Doc(v)].latest + 1
    /\ \A u \in Versions : Doc(u) = Doc(v) => job[u].status \notin LiveStates
    /\ \/ /\ document[Doc(v)].status \in {"NONE", "FAILED"}
          /\ document'[Doc(v)] = [document[Doc(v)] EXCEPT !.status = "UPLOADED", !.latest = v[2]]
       \/ /\ document[Doc(v)].status = "INDEXED"
          /\ document'[Doc(v)] = [document[Doc(v)] EXCEPT !.latest = v[2]]

VersionEvent(v) ==
    \/ Claimed(v) \/ Worked(v) \/ Completed(v) \/ FailedByOwner(v) \/ Recovered(v)
    \/ Restarted(v) \/ Accepted(v)

\* Nothing else moves; a completed version takes the others out of the searchable set.
OnlyVersion(v) ==
    /\ \A u \in Versions \ {v} :
          /\ RowKept(u)
          /\ \/ VectorsKept(u)
             \/ Completed(v) /\ Doc(u) = Doc(v) /\ version'[u].vectors # "ACTIVE"
    /\ Completed(v) =>
          \A u \in Versions \ {v} : Doc(u) = Doc(v) => version'[u].vectors # "ACTIVE"
    /\ \A d \in Docs \ {Doc(v)} : document'[d] = document[d]
    /\ outbox' = outbox

DocumentDeleted(d) ==
    /\ document[d].status \notin {"NONE", "DELETED"}
    /\ document' = [document EXCEPT ![d].status = "DELETED"]
    /\ outbox' = [outbox EXCEPT ![d] = "PENDING"]
    /\ \A v \in Versions : RowKept(v) /\ VectorsKept(v)

DeletionHandled(d) ==
    /\ outbox[d] = "PENDING" /\ outbox' = [outbox EXCEPT ![d] = "PROCESSED"]
    /\ document' = document
    /\ \A v \in Versions :
          /\ RowKept(v)
          /\ VectorsKept(v) \/ (Doc(v) = d /\ version'[v].vectors # "ACTIVE")

NothingHappens ==
    /\ document' = document /\ outbox' = outbox
    /\ \A v \in Versions : RowKept(v) /\ VectorsKept(v)

LedgerStep ==
    \/ NothingHappens
    \/ \E d \in Docs : DocumentDeleted(d) \/ DeletionHandled(d)
    \/ \E v \in Versions : VersionEvent(v) /\ OnlyVersion(v)

-----------------------------------------------------------------------------
(* Every step is such an event. *)

LEMMA QuietLedger ==
    ASSUME UNCHANGED <<document, version, job, attempt, outbox>>
    PROVE  LedgerStep
  BY DEF LedgerStep, NothingHappens, RowKept, JobKept, VectorsKept

LEMMA TickLedger ==
    ASSUME TypeOK, Tick
    PROVE  LedgerStep
<1>1. ASSUME NEW v \in Versions PROVE JobKept(v)
  <2>1. job'[v] = [job[v] EXCEPT !.lease = Elapsed(@), !.due = Elapsed(@)]
    BY DEF Tick
  <2>2. QED
    BY <2>1 DEF TypeOK, JobRow, JobKept
<1>2. QED
  BY <1>1 DEF Tick, LedgerStep, NothingHappens, RowKept, VectorsKept

\* What _ownership and _started_attempt have established.
LEMMA ClaimOwned ==
    ASSUME TypeOK, NEW s \in Slots, slot[s].pc \in Busy, Owns(s)
    PROVE  /\ slot[s].ver \in Versions /\ slot[s].token \in Tokens
           /\ job[slot[s].ver].status = "PROCESSING" /\ job[slot[s].ver].lease # 0
           /\ job[slot[s].ver].token = slot[s].token
  BY SlotShape DEF Owns, Busy

LEMMA AttemptOwned ==
    ASSUME TypeOK, NEW s \in Slots, slot[s].pc \in Busy, OwnsAttempt(s)
    PROVE  /\ slot[s].ver \in Versions /\ slot[s].token \in Tokens
           /\ job[slot[s].ver].status = "PROCESSING" /\ job[slot[s].ver].lease # 0
           /\ job[slot[s].ver].token = slot[s].token
           /\ attempt[slot[s].ver][slot[s].token] = "STARTED"
  BY ClaimOwned DEF OwnsAttempt

\* A transaction of the owner that writes the version only.
LEMMA ProgressEvent ==
    ASSUME NEW v \in Versions, job[v].status = "PROCESSING", job[v].lease # 0,
           UNCHANGED <<document, job, attempt, outbox>>,
           \A u \in Versions \ {v} : version'[u] = version[u],
           \/ version'[v].status = version[v].status
           \/ version'[v].status \in ActiveStates /\ document[v[1]].status # "DELETED",
           VectorsKept(v) \/ version'[v].vectors = "ACTIVE"
    PROVE  \E u \in Versions : VersionEvent(u) /\ OnlyVersion(u)
<1>1. Worked(v)
  BY DEF Worked, JobKept
<1>2. ~Completed(v)
  BY DEF Completed
<1>3. OnlyVersion(v)
  BY <1>2 DEF OnlyVersion, RowKept, JobKept, VectorsKept
<1>4. QED
  BY <1>1, <1>3 DEF VersionEvent

LEMMA ParseStartedEvent ==
    ASSUME TypeOK, RowsInv, NEW s \in Slots, ParseStarted(s)
    PROVE  \E v \in Versions : VersionEvent(v) /\ OnlyVersion(v)
<1> DEFINE v == slot[s].ver
<1>1. slot[s].pc \in Busy /\ OwnsAttempt(s)
  BY DEF ParseStarted, MayParse, Busy
<1>2. v \in Versions /\ job[v].status = "PROCESSING" /\ job[v].lease # 0
  BY <1>1, AttemptOwned
<1>3. \A u \in Versions \ {v} : version'[u] = version[u]
  BY <1>2 DEF ParseStarted, TypeOK
<1>4. UNCHANGED <<document, job, attempt, outbox>>
  BY DEF ParseStarted
<1>5. /\ \/ version'[v].status = version[v].status
         \/ version'[v].status \in ActiveStates /\ document[v[1]].status # "DELETED"
      /\ VectorsKept(v) \/ version'[v].vectors = "ACTIVE"
  BY <1>2 DEF ParseStarted, MayParse, Committable, TypeOK, VersionRow, VectorsKept, ActiveStates
<1>6. QED
  BY <1>2, <1>3, <1>4, <1>5, ProgressEvent

LEMMA ChunksSavedEvent ==
    ASSUME TypeOK, RowsInv, NEW s \in Slots, ChunksSaved(s)
    PROVE  \E v \in Versions : VersionEvent(v) /\ OnlyVersion(v)
<1> DEFINE v == slot[s].ver
<1>1. slot[s].pc \in Busy /\ OwnsAttempt(s)
  BY DEF ChunksSaved, MayChunk, Busy
<1>2. v \in Versions /\ job[v].status = "PROCESSING" /\ job[v].lease # 0
  BY <1>1, AttemptOwned
<1>3. \A u \in Versions \ {v} : version'[u] = version[u]
  BY <1>2 DEF ChunksSaved, TypeOK
<1>4. UNCHANGED <<document, job, attempt, outbox>>
  BY DEF ChunksSaved
<1>5. /\ \/ version'[v].status = version[v].status
         \/ version'[v].status \in ActiveStates /\ document[v[1]].status # "DELETED"
      /\ VectorsKept(v) \/ version'[v].vectors = "ACTIVE"
  BY <1>2 DEF ChunksSaved, MayChunk, TypeOK, VersionRow, VectorsKept, ActiveStates
<1>6. QED
  BY <1>2, <1>3, <1>4, <1>5, ProgressEvent

LEMMA VectorsReusedEvent ==
    ASSUME TypeOK, RowsInv, NEW s \in Slots, VectorsReused(s)
    PROVE  \E v \in Versions : VersionEvent(v) /\ OnlyVersion(v)
<1> DEFINE v == slot[s].ver
<1>1. slot[s].pc \in Busy /\ OwnsAttempt(s)
  BY DEF VectorsReused, MayReuseVectors, Busy
<1>2. v \in Versions /\ job[v].status = "PROCESSING" /\ job[v].lease # 0
  BY <1>1, AttemptOwned
<1>3. \A u \in Versions \ {v} : version'[u] = version[u]
  BY <1>2 DEF VectorsReused, TypeOK
<1>4. UNCHANGED <<document, job, attempt, outbox>>
  BY DEF VectorsReused
<1>5. /\ \/ version'[v].status = version[v].status
         \/ version'[v].status \in ActiveStates /\ document[v[1]].status # "DELETED"
      /\ VectorsKept(v) \/ version'[v].vectors = "ACTIVE"
  BY <1>2 DEF VectorsReused, MayReuseVectors, Reactivated, Committable, TypeOK, VersionRow, VectorsKept, ActiveStates
<1>6. QED
  BY <1>2, <1>3, <1>4, <1>5, ProgressEvent

LEMMA EmbeddingStartedEvent ==
    ASSUME TypeOK, RowsInv, NEW s \in Slots, EmbeddingStarted(s)
    PROVE  \E v \in Versions : VersionEvent(v) /\ OnlyVersion(v)
<1> DEFINE v == slot[s].ver
<1>1. slot[s].pc \in Busy /\ OwnsAttempt(s)
  BY DEF EmbeddingStarted, MayEmbed, Busy
<1>2. v \in Versions /\ job[v].status = "PROCESSING" /\ job[v].lease # 0
  BY <1>1, AttemptOwned
<1>3. \A u \in Versions \ {v} : version'[u] = version[u]
  BY <1>2 DEF EmbeddingStarted, TypeOK
<1>4. UNCHANGED <<document, job, attempt, outbox>>
  BY DEF EmbeddingStarted
<1>5. /\ \/ version'[v].status = version[v].status
         \/ version'[v].status \in ActiveStates /\ document[v[1]].status # "DELETED"
      /\ VectorsKept(v) \/ version'[v].vectors = "ACTIVE"
  BY <1>2 DEF EmbeddingStarted, MayEmbed, Committable, TypeOK, VersionRow, VectorsKept, ActiveStates
<1>6. QED
  BY <1>2, <1>3, <1>4, <1>5, ProgressEvent

LEMMA VectorsInsertedEvent ==
    ASSUME TypeOK, RowsInv, NEW s \in Slots, VectorsInserted(s)
    PROVE  \E v \in Versions : VersionEvent(v) /\ OnlyVersion(v)
<1> DEFINE v == slot[s].ver
<1>1. slot[s].pc \in Busy /\ OwnsAttempt(s)
  BY DEF VectorsInserted, Busy
<1>2. v \in Versions /\ job[v].status = "PROCESSING" /\ job[v].lease # 0
  BY <1>1, AttemptOwned
<1>3. \A u \in Versions \ {v} : version'[u] = version[u]
  BY <1>2 DEF VectorsInserted, TypeOK
<1>4. UNCHANGED <<document, job, attempt, outbox>>
  BY DEF VectorsInserted
<1>5. /\ \/ version'[v].status = version[v].status
         \/ version'[v].status \in ActiveStates /\ document[v[1]].status # "DELETED"
      /\ VectorsKept(v) \/ version'[v].vectors = "ACTIVE"
  BY <1>2 DEF VectorsInserted, TypeOK, VersionRow, VectorsKept, ActiveStates
<1>6. QED
  BY <1>2, <1>3, <1>4, <1>5, ProgressEvent

LEMMA RenewEvent ==
    ASSUME TypeOK, NEW s \in Slots, Renew(s)
    PROVE  NothingHappens
<1>1. \A v \in Versions : JobKept(v)
  BY DEF Renew, JobKept, TypeOK, JobRow
<1>2. QED
  BY <1>1 DEF Renew, NothingHappens, RowKept, VectorsKept

LEMMA StartAttemptEvent ==
    ASSUME TypeOK, NEW s \in Slots, StartAttempt(s)
    PROVE  \E v \in Versions : VersionEvent(v) /\ OnlyVersion(v)
<1> DEFINE v == slot[s].ver
<1>1. /\ v \in Versions /\ slot[s].token \in Tokens
      /\ job[v].status = "PROCESSING" /\ job[v].lease # 0 /\ job[v].token = slot[s].token
  BY ClaimOwned DEF StartAttempt, Busy
<1>2. /\ UNCHANGED <<document, version, job, outbox>>
      /\ attempt' = [attempt EXCEPT ![v][slot[s].token] = IF @ = "NONE" THEN "STARTED" ELSE @]
  BY DEF StartAttempt
<1>3. attempt \in [Versions -> [Tokens -> AttemptStates]]
  BY DEF TypeOK
<1>4. \/ attempt'[v] = attempt[v]
      \/ /\ attempt[v][job[v].token] = "NONE"
         /\ attempt'[v] = [attempt[v] EXCEPT ![job[v].token] = "STARTED"]
  BY <1>1, <1>2, <1>3
<1>5. \A u \in Versions \ {v} : attempt'[u] = attempt[u]
  BY <1>1, <1>2, <1>3
<1>6. Worked(v) /\ ~Completed(v)
  BY <1>1, <1>2, <1>4 DEF Worked, JobKept, VectorsKept, Completed
<1>7. OnlyVersion(v)
  BY <1>2, <1>5, <1>6 DEF OnlyVersion, RowKept, JobKept, VectorsKept
<1>8. QED
  BY <1>1, <1>6, <1>7 DEF VersionEvent

LEMMA ClaimEvent ==
    ASSUME TypeOK, LocksHeld, NEW s \in Slots, Claim(s)
    PROVE  \E v \in Versions : VersionEvent(v) /\ OnlyVersion(v)
<1> DEFINE v == slot[s].ver
<1>1. v \in Versions /\ job[v].status = "PENDING" /\ job[v] \in JobRow
  BY SlotShape DEF Claim, LocksHeld, TypeOK
<1>2. /\ job' = [job EXCEPT ![v] = [@ EXCEPT !.status = "PROCESSING", !.owner = Host[s],
                    !.token = job[v].claims + 1, !.claims = job[v].claims + 1,
                    !.lease = slot[s].lease]]
      /\ document' = [document EXCEPT ![v[1]].status = IF @ = "UPLOADED" THEN "INDEXING" ELSE @]
      /\ UNCHANGED <<worker, version, attempt, outbox>>
      /\ worker[Host[s]].status = "ACTIVE" /\ Committable(v)
  BY DEF Claim, ClaimAllowed
<1>3. Host[s] \in Workers
  BY DEF ConstantsAssumption
<1>4. /\ job'[v].status = "PROCESSING" /\ job'[v].owner = Host[s]
      /\ job'[v].claims = job[v].claims + 1 /\ job'[v].token = job[v].claims + 1
      /\ job'[v].retries = job[v].retries
  BY <1>1, <1>2 DEF TypeOK, JobRow
<1>5. v[1] \in Docs
  BY <1>1 DEF Versions
<1>6. document'[v[1]] = [document[v[1]] EXCEPT !.status = IF @ = "UPLOADED" THEN "INDEXING" ELSE @]
  BY <1>2, <1>5 DEF TypeOK
<1>7. Claimed(v) /\ ~Completed(v)
  BY <1>1, <1>2, <1>3, <1>4, <1>6 DEF Claimed, Completed, EndedAs
<1>8. OnlyVersion(v)
  BY <1>1, <1>2, <1>7 DEF OnlyVersion, RowKept, JobKept, VectorsKept, TypeOK
<1>9. QED
  BY <1>1, <1>7, <1>8 DEF VersionEvent

LEMMA CompleteEvent ==
    ASSUME TypeOK, NEW s \in Slots, Complete(s)
    PROVE  \E v \in Versions : VersionEvent(v) /\ OnlyVersion(v)
<1> DEFINE v == slot[s].ver
           t == slot[s].token
<1>1. /\ v \in Versions /\ t \in Tokens /\ job[v].status = "PROCESSING" /\ job[v].lease # 0
      /\ job[v].token = t /\ attempt[v][t] = "STARTED"
  BY AttemptOwned DEF Complete, MayComplete, Busy
<1>2. /\ version[v].status = "EMBEDDING" /\ version[v].vectors = "ACTIVE"
      /\ document[v[1]].status \in {"UPLOADED", "INDEXING", "INDEXED"}
      /\ document[v[1]].latest = v[2] /\ document[v[1]].current <= v[2]
  BY DEF Complete, MayComplete
<1>3. /\ version' = [u \in Versions |->
                       IF u = v THEN [version[v] EXCEPT !.status = "INDEXED"]
                       ELSE IF u[1] = v[1] THEN Staled(version[u]) ELSE version[u]]
      /\ document' = [document EXCEPT ![v[1]] = [@ EXCEPT !.status = "INDEXED", !.current = v[2]]]
      /\ job' = [job EXCEPT ![v].status = "INDEXED"]
      /\ attempt' = [attempt EXCEPT ![v][t] = "SUCCESS"]
      /\ outbox' = outbox
  BY DEF Complete
<1>4. v[1] \in Docs
  BY <1>1 DEF Versions
<1>5. Completed(v)
  <2>1. version'[v].status = "INDEXED" /\ version'[v].vectors = "ACTIVE"
    BY <1>1, <1>2, <1>3 DEF TypeOK, VersionRow
  <2>2. /\ job'[v].status = "INDEXED" /\ job'[v].token = job[v].token
        /\ job'[v].claims = job[v].claims /\ job'[v].retries = job[v].retries
    BY <1>1, <1>3 DEF TypeOK, JobRow
  <2>3. attempt'[v] = [attempt[v] EXCEPT ![t] = "SUCCESS"]
    BY <1>1, <1>3 DEF TypeOK
  <2>4. document'[v[1]] = [document[v[1]] EXCEPT !.status = "INDEXED", !.current = v[2]]
    BY <1>3, <1>4 DEF TypeOK
  <2>5. QED
    BY <1>1, <1>2, <2>1, <2>2, <2>3, <2>4 DEF Completed, EndedAs
<1>6. ASSUME NEW u \in Versions \ {v}
      PROVE  /\ RowKept(u)
             /\ u[1] = v[1] => version'[u].vectors # "ACTIVE"
             /\ u[1] # v[1] => VectorsKept(u)
  <2>1. job'[u] = job[u] /\ attempt'[u] = attempt[u]
    BY <1>1, <1>3 DEF TypeOK
  <2>2. /\ version'[u].status = version[u].status
        /\ u[1] = v[1] => version'[u].vectors # "ACTIVE"
        /\ u[1] # v[1] => version'[u] = version[u]
    BY <1>1, <1>3 DEF Staled, TypeOK, VersionRow
  <2>3. QED
    BY <2>1, <2>2 DEF RowKept, JobKept, VectorsKept
<1>7. OnlyVersion(v)
  BY <1>3, <1>5, <1>6 DEF OnlyVersion, TypeOK
<1>8. QED
  BY <1>1, <1>5, <1>7 DEF VersionEvent

\* The two ways in which a job is taken from its owner.
LEMMA FinalFailureGivesUp ==
    ASSUME TypeOK, NEW v \in Versions, FinalFailure(v)
    PROVE  /\ GivenUp(v)
           /\ \A u \in Versions \ {v} : job'[u] = job[u] /\ version'[u] = version[u]
           /\ \A d \in Docs \ {v[1]} : document'[d] = document[d]
<1>1. v[1] \in Docs
  BY DEF Versions
<1>2. /\ job'[v].status = "FAILED" /\ job'[v].token = None
      /\ job'[v].claims = job[v].claims /\ job'[v].retries = job[v].retries
  BY DEF FinalFailure, Released, TypeOK, JobRow
<1>3. version'[v].status = "FAILED" /\ version'[v].vectors # "ACTIVE"
  BY DEF FinalFailure, Staled, TypeOK, VersionRow
<1>4. document'[v[1]] = [document[v[1]] EXCEPT
                           !.status = IF ServedByOther(v) THEN "INDEXED" ELSE "FAILED"]
  BY <1>1 DEF FinalFailure, TypeOK
<1>5. QED
  BY <1>2, <1>3, <1>4 DEF GivenUp, FinalFailure, TypeOK

LEMMA RequeuedPutsBack ==
    ASSUME TypeOK, NEW v \in Versions, NEW delay \in 1..MaxDelay,
           job' = [job EXCEPT ![v] = Requeued(@, delay)], UNCHANGED document,
           version'[v].status \in ActiveStates, VectorsKept(v)
    PROVE  PutBack(v) /\ \A u \in Versions \ {v} : job'[u] = job[u]
<1>1. /\ job'[v].status = "PENDING" /\ job'[v].token = None
      /\ job'[v].claims = job[v].claims /\ job'[v].retries = job[v].retries + 1
  BY DEF Requeued, Released, TypeOK, JobRow
<1>2. QED
  BY <1>1 DEF PutBack, TypeOK

LEMMA FailEvent ==
    ASSUME TypeOK, RowsInv, NEW s \in Slots, NEW retryable \in Reports, Fail(s, retryable)
    PROVE  \E v \in Versions : VersionEvent(v) /\ OnlyVersion(v)
<1> DEFINE v == slot[s].ver
           t == slot[s].token
<1>1. /\ v \in Versions /\ t \in Tokens /\ job[v].status = "PROCESSING" /\ job[v].lease # 0
      /\ job[v].token = t /\ attempt[v][t] = "STARTED"
  BY AttemptOwned DEF Fail, MayFail, Busy
<1>2. /\ version[v].status \in ActiveStates /\ document[v[1]].status # "DELETED"
      /\ attempt' = [attempt EXCEPT ![v][t] = "FAILED"] /\ outbox' = outbox
  BY DEF Fail, MayFail
<1>3. /\ GivenUp(v) \/ PutBack(v)
      /\ \A u \in Versions \ {v} : job'[u] = job[u] /\ version'[u] = version[u]
      /\ \A d \in Docs \ {v[1]} : document'[d] = document[d]
  <2>1. CASE FinalFailure(v)
    BY <1>1, <2>1, FinalFailureGivesUp
  <2>2. ASSUME NEW delay \in 1..MaxDelay, job' = [job EXCEPT ![v] = Requeued(@, delay)],
               UNCHANGED <<document, version>>
        PROVE  /\ PutBack(v)
               /\ \A u \in Versions \ {v} : job'[u] = job[u] /\ version'[u] = version[u]
    BY <1>1, <1>2, <2>2, RequeuedPutsBack DEF VectorsKept
  <2>3. QED
    BY <2>1, <2>2 DEF Fail
<1>4. attempt'[v] = [attempt[v] EXCEPT ![t] = "FAILED"]
      /\ \A u \in Versions \ {v} : attempt'[u] = attempt[u]
  BY <1>1, <1>2 DEF TypeOK
<1>5. FailedByOwner(v) /\ ~Completed(v)
  BY <1>1, <1>2, <1>3, <1>4 DEF FailedByOwner, EndedAs, Completed, GivenUp, PutBack
<1>6. OnlyVersion(v)
  BY <1>2, <1>3, <1>4, <1>5 DEF OnlyVersion, RowKept, JobKept, VectorsKept
<1>7. QED
  BY <1>1, <1>5, <1>6 DEF VersionEvent

LEMMA RecoverEvent ==
    ASSUME TypeOK, RowsInv, NEW v \in Versions, RecoverExpired(v)
    PROVE  VersionEvent(v) /\ OnlyVersion(v)
<1>1. /\ job[v].status = "PROCESSING" /\ job[v].lease = 0 /\ Committable(v)
      /\ UNCHANGED <<attempt, outbox>>
  BY DEF RecoverExpired, LeaseExpired
<1>2. version[v].status \in ActiveStates
  BY <1>1 DEF RowsInv, JobMatchesVersion, LiveStates
<1>3. /\ GivenUp(v) \/ PutBack(v)
      /\ \A u \in Versions \ {v} : job'[u] = job[u] /\ version'[u] = version[u]
      /\ \A d \in Docs \ {v[1]} : document'[d] = document[d]
  <2>1. CASE FinalFailure(v)
    BY <2>1, FinalFailureGivesUp
  <2>2. ASSUME NEW delay \in 1..MaxDelay, job' = [job EXCEPT ![v] = Requeued(@, delay)],
               version' = [version EXCEPT ![v] = Rewound(@)], UNCHANGED document
        PROVE  /\ PutBack(v)
               /\ \A u \in Versions \ {v} : job'[u] = job[u] /\ version'[u] = version[u]
    <3>1. version'[v].status \in ActiveStates /\ VectorsKept(v)
      BY <2>2 DEF Rewound, TypeOK, VersionRow, ActiveStates, VectorsKept
    <3>2. \A u \in Versions \ {v} : version'[u] = version[u]
      BY <2>2 DEF TypeOK
    <3>3. QED
      BY <2>2, <3>1, <3>2, RequeuedPutsBack
  <2>3. QED
    BY <2>1, <2>2 DEF RecoverExpired
<1>4. Recovered(v) /\ ~Completed(v)
  BY <1>1, <1>2, <1>3 DEF Recovered, Completed, GivenUp, PutBack
<1>5. OnlyVersion(v)
  BY <1>1, <1>3, <1>4 DEF OnlyVersion, RowKept, JobKept, VectorsKept
<1>6. QED
  BY <1>4, <1>5 DEF VersionEvent

LEMMA RestartEvent ==
    ASSUME TypeOK, NEW v \in Versions, ManualRetry(v)
    PROVE  VersionEvent(v) /\ OnlyVersion(v)
<1>1. /\ job[v].status = "FAILED" /\ version[v].status = "FAILED" /\ Committable(v)
      /\ UNCHANGED <<attempt, outbox>>
  BY DEF ManualRetry, MayRestart
<1>2. /\ job'[v].status = "PENDING" /\ job'[v].token = None
      /\ job'[v].claims = job[v].claims /\ job'[v].retries = job[v].retries
  BY DEF ManualRetry, Released, TypeOK, JobRow
<1>3. version'[v].status \in ActiveStates /\ VectorsKept(v)
  BY DEF ManualRetry, Rewound, TypeOK, VersionRow, ActiveStates, VectorsKept
<1>4. v[1] \in Docs
  BY DEF Versions
<1>5. document'[v[1]] = [document[v[1]] EXCEPT
                           !.status = IF ServedByOther(v) THEN "INDEXED" ELSE "UPLOADED"]
  BY <1>4 DEF ManualRetry, TypeOK
<1>6. Restarted(v) /\ ~Completed(v)
  BY <1>1, <1>2, <1>3, <1>5 DEF Restarted, Completed
<1>7. OnlyVersion(v)
  BY <1>1, <1>6 DEF ManualRetry, OnlyVersion, RowKept, JobKept, VectorsKept, TypeOK
<1>8. QED
  BY <1>6, <1>7 DEF VersionEvent

\* The rows a new version gets.
LEMMA NewVersionWritten ==
    ASSUME TypeOK, NEW v \in Versions, NewVersion(v)
    PROVE  /\ job'[v].status = "PENDING" /\ job'[v].token = job[v].token
           /\ job'[v].claims = job[v].claims /\ job'[v].retries = job[v].retries
           /\ version'[v].status \in ActiveStates /\ VectorsKept(v)
           /\ \A u \in Versions \ {v} : job'[u] = job[u] /\ version'[u] = version[u]
           /\ attempt' = attempt /\ outbox' = outbox
  BY DEF NewVersion, TypeOK, JobRow, VersionRow, ActiveStates, VectorsKept

LEMMA UploadEvent ==
    ASSUME TypeOK, RowsInv, NEW d \in Docs, Upload(d)
    PROVE  \E v \in Versions : VersionEvent(v) /\ OnlyVersion(v)
<1> DEFINE v == <<d, 1>>
<1>1. v \in Versions /\ document[d].latest = 0 /\ document[d].status = "NONE"
  BY DEF Upload, RowsInv, VersionsNumbered, Versions, ConstantsAssumption
<1>2. ASSUME NEW u \in Versions, u[1] = d
      PROVE  version[u].status = "NONE" /\ job[u].status = "NONE"
  <2>1. u[2] \in 1..MaxVersions
    BY DEF Versions
  <2>2. u[2] > document[u[1]].latest
    BY <1>1, <1>2, <2>1
  <2>3. QED
    BY <2>2 DEF RowsInv, VersionsNumbered, JobMatchesVersion
<1>3. document'[d] = [document[d] EXCEPT !.status = "UPLOADED", !.latest = 1]
      /\ \A c \in Docs \ {d} : document'[c] = document[c]
  BY DEF Upload, TypeOK
<1>4. Accepted(v) /\ ~Completed(v)
  BY <1>1, <1>2, <1>3, NewVersionWritten DEF Upload, Accepted, Completed, LiveStates
<1>5. OnlyVersion(v)
  BY <1>1, <1>3, <1>4, NewVersionWritten DEF Upload, OnlyVersion, RowKept, JobKept, VectorsKept
<1>6. QED
  BY <1>1, <1>4, <1>5 DEF VersionEvent

LEMMA AddVersionEvent ==
    ASSUME TypeOK, RowsInv, NEW d \in Docs, AddVersion(d)
    PROVE  \E v \in Versions : VersionEvent(v) /\ OnlyVersion(v)
<1> DEFINE n == document[d].latest + 1
           v == <<d, n>>
<1>1. document[d] \in DocumentRow /\ n \in 1..MaxVersions /\ v \in Versions
  BY DEF AddVersion, TypeOK, DocumentRow, Versions, ConstantsAssumption
<1>2. /\ document[d].status \in {"INDEXED", "FAILED"}
      /\ \A u \in Versions : u[1] = d => job[u].status \notin LiveStates
  BY DEF AddVersion, MayAddVersion, RowsInv, JobMatchesVersion
<1>3. version[v].status = "NONE" /\ job[v].status = "NONE"
  BY <1>1 DEF DocumentRow, RowsInv, VersionsNumbered, JobMatchesVersion
<1>4. /\ document'[d] = Extended(document[d], n)
      /\ \A c \in Docs \ {d} : document'[c] = document[c]
  BY DEF AddVersion, TypeOK
<1>5. /\ document[d].status = "FAILED" =>
            document'[d] = [document[d] EXCEPT !.status = "UPLOADED", !.latest = n]
      /\ document[d].status = "INDEXED" => document'[d] = [document[d] EXCEPT !.latest = n]
  BY <1>1, <1>4 DEF Extended, DocumentRow
<1>6. NewVersion(v)
  BY DEF AddVersion
<1>7. Accepted(v) /\ ~Completed(v)
  BY <1>1, <1>2, <1>3, <1>5, <1>6, NewVersionWritten DEF Accepted, Completed
<1>8. OnlyVersion(v)
  BY <1>1, <1>4, <1>6, <1>7, NewVersionWritten DEF OnlyVersion, RowKept, JobKept, VectorsKept
<1>9. QED
  BY <1>1, <1>7, <1>8 DEF VersionEvent

LEMMA DeleteEvents ==
    ASSUME TypeOK, NEW d \in Docs
    PROVE  /\ Delete(d) => DocumentDeleted(d)
           /\ DispatchDeleted(d) => DeletionHandled(d)
<1>1. Delete(d) => DocumentDeleted(d)
  BY DEF Delete, DocumentDeleted, RowKept, JobKept, VectorsKept
<1>2. ASSUME DispatchDeleted(d), NEW v \in Versions
      PROVE  RowKept(v) /\ (VectorsKept(v) \/ (v[1] = d /\ version'[v].vectors # "ACTIVE"))
  BY <1>2 DEF DispatchDeleted, Staled, TypeOK, VersionRow, RowKept, JobKept, VectorsKept
<1>3. DispatchDeleted(d) => DeletionHandled(d)
  BY <1>2 DEF DispatchDeleted, DeletionHandled
<1>4. QED
  BY <1>1, <1>3

LEMMA StepsAreEvents ==
    ASSUME TypeOK, RowsInv, LocksHeld, [Next]_vars
    PROVE  LedgerStep
<1>1. CASE UNCHANGED vars
  BY <1>1, QuietLedger DEF vars
<1>2. CASE Tick
  BY <1>2, TickLedger
<1>3. ASSUME NEW w \in Workers, RegisterWorker(w) PROVE LedgerStep
  BY <1>3, QuietLedger DEF RegisterWorker, ledger
<1>4. ASSUME NEW w \in Workers, Heartbeat(w) PROVE LedgerStep
  BY <1>4, QuietLedger DEF Heartbeat, ledger
<1>5. ASSUME NEW w \in Workers, StopWorker(w) PROVE LedgerStep
  BY <1>5, QuietLedger DEF StopWorker, ledger
<1>6. ASSUME NEW w \in Workers, Crash(w) PROVE LedgerStep
  BY <1>6, QuietLedger DEF Crash, ledger
<1>7. ASSUME NEW w \in Workers, MarkDead(w) PROVE LedgerStep
  BY <1>7, QuietLedger DEF MarkDead, ledger
<1>8. ASSUME NEW s \in Slots, NEW v \in Versions, LockNextPendingJob(s, v) PROVE LedgerStep
  BY <1>8, QuietLedger DEF LockNextPendingJob, ledger
<1>9. ASSUME NEW s \in Slots, ClaimRolledBack(s) PROVE LedgerStep
  BY <1>9, QuietLedger DEF ClaimRolledBack, ledger
<1>10. ASSUME NEW s \in Slots, RenewRejected(s) PROVE LedgerStep
  BY <1>10, QuietLedger DEF RenewRejected, ledger
<1>11. ASSUME NEW s \in Slots, StartRejected(s) PROVE LedgerStep
  BY <1>11, QuietLedger DEF StartRejected, ledger
<1>12. ASSUME NEW s \in Slots, ChunksReplayed(s) PROVE LedgerStep
  BY <1>12, QuietLedger DEF ChunksReplayed, ledger
<1>13. ASSUME NEW s \in Slots, ChunksRejected(s) PROVE LedgerStep
  BY <1>13, QuietLedger DEF ChunksRejected, Raised, ledger
<1>14. ASSUME NEW s \in Slots, EmbeddingsRejected(s) PROVE LedgerStep
  BY <1>14, QuietLedger DEF EmbeddingsRejected, Raised, ledger
<1>15. ASSUME NEW s \in Slots, CompleteRejected(s) PROVE LedgerStep
  BY <1>15, QuietLedger DEF CompleteRejected, Raised, ledger
<1>16. ASSUME NEW s \in Slots, FailRejected(s) PROVE LedgerStep
  BY <1>16, QuietLedger DEF FailRejected, ledger
<1>17. ASSUME NEW s \in Slots, Withdraw(s) PROVE LedgerStep
  BY <1>17, QuietLedger DEF Withdraw, ledger
<1>18. ASSUME NEW s \in Slots, CallFails(s) PROVE LedgerStep
  BY <1>18, QuietLedger DEF CallFails, ledger
<1>19. ASSUME NEW s \in Slots, Renew(s) PROVE LedgerStep
  BY <1>19, RenewEvent DEF LedgerStep
<1>20. ASSUME NEW s \in Slots, Claim(s) PROVE LedgerStep
  BY <1>20, ClaimEvent DEF LedgerStep
<1>21. ASSUME NEW s \in Slots, StartAttempt(s) PROVE LedgerStep
  BY <1>21, StartAttemptEvent DEF LedgerStep
<1>22. ASSUME NEW s \in Slots, ParseStarted(s) PROVE LedgerStep
  BY <1>22, ParseStartedEvent DEF LedgerStep
<1>23. ASSUME NEW s \in Slots, ChunksSaved(s) PROVE LedgerStep
  BY <1>23, ChunksSavedEvent DEF LedgerStep
<1>24. ASSUME NEW s \in Slots, VectorsReused(s) PROVE LedgerStep
  BY <1>24, VectorsReusedEvent DEF LedgerStep
<1>25. ASSUME NEW s \in Slots, EmbeddingStarted(s) PROVE LedgerStep
  BY <1>25, EmbeddingStartedEvent DEF LedgerStep
<1>26. ASSUME NEW s \in Slots, VectorsInserted(s) PROVE LedgerStep
  BY <1>26, VectorsInsertedEvent DEF LedgerStep
<1>27. ASSUME NEW s \in Slots, Complete(s) PROVE LedgerStep
  BY <1>27, CompleteEvent DEF LedgerStep
<1>28. ASSUME NEW s \in Slots, NEW retryable \in Reports, Fail(s, retryable) PROVE LedgerStep
  BY <1>28, FailEvent DEF LedgerStep
<1>29. ASSUME NEW v \in Versions, RecoverExpired(v) PROVE LedgerStep
  BY <1>29, RecoverEvent DEF LedgerStep
<1>30. ASSUME NEW v \in Versions, ManualRetry(v) PROVE LedgerStep
  BY <1>30, RestartEvent DEF LedgerStep
<1>31. ASSUME NEW d \in Docs, Upload(d) PROVE LedgerStep
  BY <1>31, UploadEvent DEF LedgerStep
<1>32. ASSUME NEW d \in Docs, AddVersion(d) PROVE LedgerStep
  BY <1>32, AddVersionEvent DEF LedgerStep
<1>33. ASSUME NEW d \in Docs, Delete(d) PROVE LedgerStep
  BY <1>33, DeleteEvents DEF LedgerStep
<1>34. ASSUME NEW d \in Docs, DispatchDeleted(d) PROVE LedgerStep
  BY <1>34, DeleteEvents DEF LedgerStep
<1>35. QED
  BY <1>1, <1>2, <1>3, <1>4, <1>5, <1>6, <1>7, <1>8, <1>9, <1>10, <1>11, <1>12,
     <1>13, <1>14, <1>15, <1>16, <1>17, <1>18, <1>19, <1>20, <1>21, <1>22,
     <1>23, <1>24, <1>25, <1>26, <1>27, <1>28, <1>29, <1>30, <1>31, <1>32,
     <1>33, <1>34
     DEF Next, SlotStep, ClaimStep, ExecuteStep, RenewStep, WorkerStep, DocumentStep

-----------------------------------------------------------------------------
(* Who owns a job. *)

\* No slot begins to execute a claim.
ClaimsKept ==
    \A r \in Slots :
        slot'[r].pc \in Busy =>
            slot[r].pc \in Busy /\ slot'[r].ver = slot[r].ver /\ slot'[r].token = slot[r].token

LEMMA SlotWritten ==
    ASSUME TypeOK, NEW s \in Slots, NEW pc \in Busy,
           \/ slot' = [slot EXCEPT ![s] = IdleSlot]
           \/ slot' = [slot EXCEPT ![s].pc = pc] /\ slot[s].pc \in Busy
           \/ slot' = [slot EXCEPT ![s].interrupted = TRUE] /\ slot[s].pc \in Busy
    PROVE  ClaimsKept
<1>1. \A r \in Slots \ {s} : slot'[r] = slot[r]
  BY DEF TypeOK
<1>2. CASE slot' = [slot EXCEPT ![s] = IdleSlot]
  BY <1>1, <1>2 DEF ClaimsKept, TypeOK, IdleSlot, Busy
<1>3. CASE slot' = [slot EXCEPT ![s].pc = pc] /\ slot[s].pc \in Busy
  BY <1>1, <1>3, SlotShape DEF ClaimsKept, TypeOK, BusySlot
<1>4. CASE slot' = [slot EXCEPT ![s].interrupted = TRUE] /\ slot[s].pc \in Busy
  BY <1>1, <1>4, SlotShape DEF ClaimsKept, TypeOK, BusySlot
<1>5. QED
  BY <1>2, <1>3, <1>4

LEMMA AnsweredKept ==
    ASSUME TypeOK, NEW s \in Slots, NEW next \in Busy, Answered(s, next), slot[s].pc \in Busy
    PROVE  ClaimsKept
  BY SlotWritten, "report" \in Busy DEF Answered, Busy

LEMMA ClaimsStep ==
    ASSUME TypeOK, [Next]_vars, ~\E s \in Slots : Claim(s)
    PROVE  ClaimsKept
<1>1. CASE UNCHANGED vars
  BY <1>1 DEF vars, ClaimsKept
<1>2. CASE Tick
  <2>1. ASSUME NEW r \in Slots
        PROVE  /\ slot'[r].pc = slot[r].pc /\ slot'[r].ver = slot[r].ver
               /\ slot'[r].token = slot[r].token
    <3>1. slot'[r] = [slot[r] EXCEPT !.lease = Elapsed(@)] /\ slot[r] \in SlotRow
      BY <1>2 DEF Tick, TypeOK
    <3>2. QED
      BY <3>1 DEF SlotRow, IdleSlot, LockedSlot, BusySlot
  <2>2. QED
    BY <2>1 DEF ClaimsKept
<1>3. ASSUME NEW w \in Workers, RegisterWorker(w) PROVE ClaimsKept
  BY <1>3 DEF RegisterWorker, ClaimsKept
<1>4. ASSUME NEW w \in Workers, Heartbeat(w) PROVE ClaimsKept
  BY <1>4 DEF Heartbeat, ClaimsKept
<1>5. ASSUME NEW w \in Workers, MarkDead(w) PROVE ClaimsKept
  BY <1>5 DEF MarkDead, ClaimsKept
<1>6. ASSUME NEW w \in Workers, Crash(w) PROVE ClaimsKept
  BY <1>6 DEF Crash, ClaimsKept, IdleSlot, Busy
<1>7. ASSUME NEW w \in Workers, StopWorker(w) PROVE ClaimsKept
  <2>1. ASSUME NEW r \in Slots, slot'[r] = [slot[r] EXCEPT !.interrupted = TRUE],
               slot[r] \in BusySlot
        PROVE  slot'[r].ver = slot[r].ver /\ slot'[r].token = slot[r].token
    BY <2>1 DEF BusySlot
  <2>2. QED
    BY <1>7, <2>1, SlotShape DEF StopWorker, ClaimsKept
<1>8. ASSUME NEW s \in Slots, NEW v \in Versions, LockNextPendingJob(s, v) PROVE ClaimsKept
  BY <1>8 DEF LockNextPendingJob, ClaimsKept, IdleSlot, Busy, TypeOK
<1>9. ASSUME NEW s \in Slots, ClaimRolledBack(s) PROVE ClaimsKept
  BY <1>9, SlotWritten, "report" \in Busy DEF ClaimRolledBack, Busy
<1>10. ASSUME NEW s \in Slots, StartRejected(s) PROVE ClaimsKept
  BY <1>10, SlotWritten, "report" \in Busy DEF StartRejected, Busy
<1>11. ASSUME NEW s \in Slots, FailRejected(s) PROVE ClaimsKept
  BY <1>11, SlotWritten, "report" \in Busy DEF FailRejected, Busy
<1>12. ASSUME NEW s \in Slots, Withdraw(s) PROVE ClaimsKept
  BY <1>12, SlotWritten, "report" \in Busy DEF Withdraw, Busy
<1>13. ASSUME NEW s \in Slots, RenewRejected(s) PROVE ClaimsKept
  BY <1>13, SlotWritten, "report" \in Busy DEF RenewRejected, Busy
<1>14. ASSUME NEW s \in Slots, ChunksRejected(s) PROVE ClaimsKept
  BY <1>14, SlotWritten, "report" \in Busy DEF ChunksRejected, Raised, Busy
<1>15. ASSUME NEW s \in Slots, EmbeddingsRejected(s) PROVE ClaimsKept
  BY <1>15, SlotWritten, "report" \in Busy DEF EmbeddingsRejected, Raised, Busy
<1>16. ASSUME NEW s \in Slots, CompleteRejected(s) PROVE ClaimsKept
  BY <1>16, SlotWritten, "report" \in Busy DEF CompleteRejected, Raised, Busy
<1>17. ASSUME NEW s \in Slots, CallFails(s) PROVE ClaimsKept
  <2>1. \/ slot' = [slot EXCEPT ![s] = IdleSlot]
        \/ slot' = [slot EXCEPT ![s].pc = "report"] /\ slot[s].pc \in Busy
    BY <1>17, SlotShape DEF CallFails
  <2>2. QED
    BY <2>1, SlotWritten, "report" \in Busy DEF Busy
<1>18. ASSUME NEW s \in Slots, Renew(s) PROVE ClaimsKept
  BY <1>18 DEF Renew, ClaimsKept
<1>19. ASSUME NEW s \in Slots, StartAttempt(s) PROVE ClaimsKept
  BY <1>19, SlotWritten, "parse" \in Busy DEF StartAttempt, Busy
<1>20. ASSUME NEW s \in Slots, ChunksReplayed(s) PROVE ClaimsKept
  BY <1>20, AnsweredKept, "embed" \in Busy DEF ChunksReplayed, Busy
<1>21. ASSUME NEW s \in Slots, ParseStarted(s) PROVE ClaimsKept
  BY <1>21, AnsweredKept, "chunk" \in Busy DEF ParseStarted, Busy
<1>22. ASSUME NEW s \in Slots, ChunksSaved(s) PROVE ClaimsKept
  BY <1>22, AnsweredKept, "embed" \in Busy DEF ChunksSaved, Busy
<1>23. ASSUME NEW s \in Slots, VectorsReused(s) PROVE ClaimsKept
  BY <1>23, AnsweredKept, "finish" \in Busy DEF VectorsReused, Busy
<1>24. ASSUME NEW s \in Slots, EmbeddingStarted(s) PROVE ClaimsKept
  BY <1>24, AnsweredKept, "insert" \in Busy DEF EmbeddingStarted, Busy
<1>25. ASSUME NEW s \in Slots, VectorsInserted(s) PROVE ClaimsKept
  BY <1>25, AnsweredKept, "finish" \in Busy DEF VectorsInserted, Busy
<1>26. ASSUME NEW s \in Slots, Complete(s) PROVE ClaimsKept
  BY <1>26, SlotWritten, "report" \in Busy DEF Complete, Busy
<1>27. ASSUME NEW s \in Slots, NEW retryable \in Reports, Fail(s, retryable) PROVE ClaimsKept
  BY <1>27, SlotWritten, "report" \in Busy DEF Fail, Busy
<1>28. ASSUME NEW v \in Versions, RecoverExpired(v) PROVE ClaimsKept
  BY <1>28 DEF RecoverExpired, ClaimsKept
<1>29. ASSUME NEW v \in Versions, ManualRetry(v) PROVE ClaimsKept
  BY <1>29 DEF ManualRetry, ClaimsKept
<1>30. ASSUME NEW d \in Docs, Upload(d) PROVE ClaimsKept
  BY <1>30 DEF Upload, NewVersion, ClaimsKept
<1>31. ASSUME NEW d \in Docs, AddVersion(d) PROVE ClaimsKept
  BY <1>31 DEF AddVersion, NewVersion, ClaimsKept
<1>32. ASSUME NEW d \in Docs, Delete(d) PROVE ClaimsKept
  BY <1>32 DEF Delete, ClaimsKept
<1>33. ASSUME NEW d \in Docs, DispatchDeleted(d) PROVE ClaimsKept
  BY <1>33 DEF DispatchDeleted, ClaimsKept
<1>34. QED
  BY <1>1, <1>2, <1>3, <1>4, <1>5, <1>6, <1>7, <1>8, <1>9, <1>10, <1>11, <1>12,
     <1>13, <1>14, <1>15, <1>16, <1>17, <1>18, <1>19, <1>20, <1>21, <1>22,
     <1>23, <1>24, <1>25, <1>26, <1>27, <1>28, <1>29, <1>30, <1>31, <1>32, <1>33
     DEF Next, SlotStep, ClaimStep, ExecuteStep, RenewStep, WorkerStep, DocumentStep

\* Claims are only counted up, and the token of a job is that of its last claim.
LEMMA TokenOfLastClaim ==
    ASSUME TypeOK, LedgerStep, NEW v \in Versions, job[v].token \in {None, job[v].claims}
    PROVE  job'[v].token \in {None, job'[v].claims} /\ job'[v].claims >= job[v].claims
<1>1. job[v].claims \in Nat
  BY DEF TypeOK, JobRow
<1>2. CASE RowKept(v)
  BY <1>1, <1>2 DEF RowKept, JobKept
<1>3. CASE VersionEvent(v)
  BY <1>1, <1>3, SMTT(20) DEF VersionEvent, Claimed, Worked, JobKept, Completed, FailedByOwner, Recovered,
                    GivenUp, PutBack, Restarted, Accepted
<1>4. QED
  BY <1>2, <1>3 DEF LedgerStep, NothingHappens, DocumentDeleted, DeletionHandled, OnlyVersion

LEMMA TokensStep ==
    ASSUME TypeOK, TypeOK', RowsInv, LocksHeld, TokensFresh, [Next]_vars
    PROVE  TokensFresh'
<1>1. \A v \in Versions : job'[v].token \in {None, job'[v].claims} /\ job'[v].claims >= job[v].claims
  BY StepsAreEvents, TokenOfLastClaim DEF TokensFresh
<1>2. \A v \in Versions : job[v].claims \in Nat /\ job'[v].claims \in Nat
  BY DEF TypeOK, JobRow
<1>3. ASSUME NEW s \in Slots, slot[s].pc \in Busy
      PROVE  slot[s].ver \in Versions /\ slot[s].token \in Nat
  <2>1. slot[s].pc # "idle"
    BY <1>3 DEF Busy
  <2>2. slot[s].ver \in Versions /\ slot[s].token \in Tokens
    BY <1>3, <2>1, SlotShape
  <2>3. QED
    BY <2>2 DEF Tokens, ConstantsAssumption
<1>4. CASE ClaimsKept
  BY <1>1, <1>2, <1>3, <1>4 DEF ClaimsKept, TokensFresh
<1>5. ASSUME NEW s \in Slots, Claim(s) PROVE TokensFresh'
  <2> DEFINE v == slot[s].ver
  <2>1. slot[s].pc = "locked" /\ slot[s] \in LockedSlot /\ v \in Versions
    BY <1>5, SlotShape DEF Claim
  <2>2. job'[v].claims = job[v].claims + 1
    <3>1. job[v] \in JobRow /\ v \in DOMAIN job
      BY <2>1 DEF TypeOK
    <3>2. job' = [job EXCEPT ![v] =
                    [@ EXCEPT !.status = "PROCESSING", !.owner = Host[s], !.token = job[v].claims + 1,
                              !.claims = job[v].claims + 1, !.lease = slot[s].lease]]
      BY <1>5 DEF Claim
    <3>3. QED
      BY <3>1, <3>2 DEF JobRow
  <2>3. /\ \A r \in Slots \ {s} : slot'[r] = slot[r]
        /\ slot'[s].pc \in Busy => slot'[s].ver = v /\ slot'[s].token = job[v].claims + 1
    BY <1>5, <2>1 DEF Claim, TypeOK, LockedSlot, IdleSlot, Busy
  <2>4. QED
    BY <1>1, <1>2, <1>3, <2>1, <2>2, <2>3 DEF TokensFresh
<1>6. QED
  BY <1>4, <1>5, ClaimsStep

LEMMA SuccessStep ==
    ASSUME TypeOK, TypeOK', OneSuccessfulAttempt, LedgerStep
    PROVE  OneSuccessfulAttempt'
<1> SUFFICES ASSUME NEW v \in Versions, NEW t \in Tokens
             PROVE  (attempt'[v][t] = "SUCCESS") <=> (job'[v].status = "INDEXED" /\ job'[v].token = t)
  BY DEF OneSuccessfulAttempt
<1>1. (attempt[v][t] = "SUCCESS") <=> (job[v].status = "INDEXED" /\ job[v].token = t)
  BY DEF OneSuccessfulAttempt
<1>2. attempt[v] \in [Tokens -> AttemptStates]
  BY DEF TypeOK
<1>3. CASE RowKept(v)
  BY <1>1, <1>3 DEF RowKept, JobKept
<1>4. CASE Claimed(v)
  BY <1>1, <1>4 DEF Claimed
<1>5. CASE Worked(v)
  BY <1>1, <1>2, <1>5 DEF Worked, JobKept
<1>6. CASE Completed(v)
  BY <1>1, <1>2, <1>6 DEF Completed, EndedAs
<1>7. CASE FailedByOwner(v)
  BY <1>1, <1>2, <1>7 DEF FailedByOwner, EndedAs, GivenUp, PutBack
<1>8. CASE Recovered(v)
  BY <1>1, <1>8 DEF Recovered, GivenUp, PutBack
<1>9. CASE Restarted(v) \/ Accepted(v)
  BY <1>1, <1>9 DEF Restarted, Accepted
<1>10. QED
  BY <1>3, <1>4, <1>5, <1>6, <1>7, <1>8, <1>9
     DEF LedgerStep, NothingHappens, DocumentDeleted, DeletionHandled, VersionEvent, OnlyVersion

-----------------------------------------------------------------------------
(* What a document serves. *)

\* Of the versions of its document, the served one has no part in an event of v
\* unless it is the completion of v.
LEMMA ServedUndisturbed ==
    ASSUME TypeOK, RowsInv, ServedVersionIntact, NEW v \in Versions, VersionEvent(v), OnlyVersion(v),
           ~Completed(v), document[v[1]].status \notin {"NONE", "DELETED"},
           document[v[1]].current # 0
    PROVE  LET u == <<v[1], document[v[1]].current>> IN
           /\ u # v /\ version'[u].status = "INDEXED" /\ version'[u].vectors = "ACTIVE"
<1> DEFINE u == <<v[1], document[v[1]].current>>
<1>1. u \in Versions
  BY DEF TypeOK, DocumentRow, Versions
<1>2. version[u].status = "INDEXED" /\ version[u].vectors = "ACTIVE"
  BY DEF ServedVersionIntact, Versions
<1>3. version[v].status # "INDEXED" \/ Claimed(v)
  BY DEF VersionEvent, Worked, FailedByOwner, Recovered, Restarted, Accepted, RowsInv,
         JobMatchesVersion, LiveStates, ActiveStates
<1>4. Claimed(v) => version[v].status # "INDEXED"
  BY DEF Claimed, RowsInv, JobMatchesVersion, LiveStates, ActiveStates
<1>5. u # v
  BY <1>2, <1>3, <1>4
<1>6. QED
  BY <1>1, <1>2, <1>5 DEF OnlyVersion, RowKept, VectorsKept

\* How an event of a version that is not its completion writes its document.
LEMMA DocumentOfEvent ==
    ASSUME TypeOK, RowsInv, UploadedFirst, ServedVersionIntact,
           NEW v \in Versions, VersionEvent(v), ~Completed(v),
           document[v[1]].status # "DELETED"
    PROVE  /\ document'[v[1]].status \notin {"NONE", "DELETED"} /\ document'[v[1]].latest # 0
           /\ document'[v[1]].current = document[v[1]].current
           /\ (document'[v[1]].status = "INDEXED") <=> (document'[v[1]].current # 0)
<1> DEFINE d == v[1]
           old == document[d]
           new == document'[d]
<1>1. d \in Docs /\ v[2] \in 1..MaxVersions /\ v = <<d, v[2]>>
  BY DEF Versions
<1>2. old \in DocumentRow
  BY <1>1 DEF TypeOK
<1>3. /\ old.status = "NONE" => old.current = 0 /\ old.latest = 0
      /\ old.status # "NONE" => old.latest # 0 /\ ((old.status = "INDEXED") <=> (old.current # 0))
  BY <1>1 DEF UploadedFirst, RowsInv, VersionsNumbered, ServedVersionIntact
<1>4. version[v].status # "NONE" => old.latest # 0
  BY <1>1, <1>2 DEF RowsInv, VersionsNumbered, DocumentRow
<1>5. version[v].status # "INDEXED" => (ServedByOther(v) <=> (old.status # "NONE" /\ old.current # 0))
  <2>1. CASE old.status = "NONE" \/ old.current = 0
    BY <1>3, <2>1 DEF ServedByOther
  <2>2. CASE old.status # "NONE" /\ old.current # 0
    <3>1. version[<<d, old.current>>].status = "INDEXED"
      BY <1>1, <2>2 DEF ServedVersionIntact
    <3>2. QED
      BY <1>1, <2>2, <3>1 DEF ServedByOther
  <2>3. QED
    BY <2>1, <2>2
<1>6. CASE Claimed(v)
  <2>1. old.latest = v[2] /\ old.status # "NONE"
    BY <1>1, <1>3, <1>6 DEF Claimed, Committable
  <2>2. QED
    BY <1>2, <1>3, <1>6, <2>1 DEF Claimed, DocumentRow
<1>7. CASE Worked(v)
  BY <1>3, <1>4, <1>7 DEF Worked, RowsInv, JobMatchesVersion
<1>8. CASE FailedByOwner(v) \/ Recovered(v)
  <2>1. version[v].status \in ActiveStates /\ old.latest # 0 /\ old.status # "NONE"
    BY <1>3, <1>4, <1>8 DEF FailedByOwner, Recovered, ActiveStates
  <2>2. CASE PutBack(v)
    BY <1>3, <2>1, <2>2 DEF PutBack
  <2>3. CASE GivenUp(v)
    BY <1>2, <1>3, <1>5, <2>1, <2>3 DEF GivenUp, DocumentRow, ActiveStates
  <2>4. QED
    BY <1>8, <2>2, <2>3 DEF FailedByOwner, Recovered
<1>9. CASE Restarted(v)
  <2>1. version[v].status = "FAILED" /\ old.latest # 0 /\ old.status # "NONE"
    BY <1>3, <1>4, <1>9 DEF Restarted
  <2>2. QED
    BY <1>2, <1>3, <1>5, <1>9, <2>1 DEF Restarted, DocumentRow
<1>10. CASE Accepted(v)
  <2>1. v[2] # 0 /\ old.current \in 0..MaxVersions
    BY <1>1, <1>2 DEF DocumentRow
  <2>2. CASE /\ old.status \in {"NONE", "FAILED"}
             /\ new = [old EXCEPT !.status = "UPLOADED", !.latest = v[2]]
    BY <1>2, <1>3, <2>1, <2>2 DEF DocumentRow
  <2>3. CASE /\ old.status = "INDEXED" /\ new = [old EXCEPT !.latest = v[2]]
    BY <1>2, <1>3, <2>1, <2>3 DEF DocumentRow
  <2>4. QED
    BY <1>10, <2>2, <2>3 DEF Accepted
<1>11. QED
  BY <1>6, <1>7, <1>8, <1>9, <1>10 DEF VersionEvent

LEMMA ServedStep ==
    ASSUME TypeOK, RowsInv, ServedVersionIntact, DeletionAnnounced, UploadedFirst, LedgerStep
    PROVE  ServedVersionIntact'
<1> SUFFICES ASSUME NEW d \in Docs, document'[d].status \notin {"NONE", "DELETED"}
             PROVE  /\ (document'[d].status = "INDEXED") <=> (document'[d].current # 0)
                    /\ document'[d].current # 0 =>
                          /\ version'[<<d, document'[d].current>>].status = "INDEXED"
                          /\ version'[<<d, document'[d].current>>].vectors = "ACTIVE"
  BY DEF ServedVersionIntact
<1> DEFINE c == <<d, document[d].current>>
<1>1. document[d].current # 0 => c \in Versions
  BY DEF TypeOK, DocumentRow, Versions
<1>2. CASE /\ document'[d] = document[d]
           /\ c \in Versions => RowKept(c) /\ VectorsKept(c)
  BY <1>1, <1>2 DEF ServedVersionIntact, RowKept, VectorsKept
<1>3. CASE NothingHappens
  BY <1>2, <1>3 DEF NothingHappens
<1>4. ASSUME NEW e \in Docs, DocumentDeleted(e)
      PROVE  document'[d] = document[d] /\ \A v \in Versions : RowKept(v) /\ VectorsKept(v)
  BY <1>4 DEF DocumentDeleted, TypeOK, DocumentRow
<1>5. ASSUME NEW e \in Docs, DeletionHandled(e)
      PROVE  /\ document'[d] = document[d]
             /\ \A v \in Versions : v[1] = d => RowKept(v) /\ VectorsKept(v)
  <2>1. document[e].status = "DELETED" /\ document'[d] = document[d]
    BY <1>5 DEF DeletionHandled, DeletionAnnounced
  <2>2. d # e
    BY <2>1
  <2>3. QED
    BY <1>5, <2>1, <2>2 DEF DeletionHandled
<1>6. ASSUME NEW v \in Versions, VersionEvent(v), OnlyVersion(v), v[1] # d
      PROVE  /\ document'[d] = document[d]
             /\ \A u \in Versions : u[1] = d => RowKept(u) /\ VectorsKept(u)
  BY <1>6 DEF OnlyVersion
<1>7. ASSUME NEW v \in Versions, Completed(v), v[1] = d
      PROVE  /\ document'[d].status = "INDEXED" /\ document'[d].current = v[2] /\ v[2] # 0
             /\ v = <<d, v[2]>>
             /\ version'[v].status = "INDEXED" /\ version'[v].vectors = "ACTIVE"
  <2>1. v = <<d, v[2]>> /\ v[2] # 0
    BY <1>7 DEF Versions
  <2>2. document'[d] = [document[d] EXCEPT !.status = "INDEXED", !.current = v[2]]
    BY <1>7 DEF Completed
  <2>3. document'[d].status = "INDEXED" /\ document'[d].current = v[2]
    BY <2>2 DEF TypeOK, DocumentRow
  <2>4. QED
    BY <1>7, <2>1, <2>3 DEF Completed
<1>8. ASSUME NEW v \in Versions, VersionEvent(v), OnlyVersion(v), ~Completed(v), v[1] = d
      PROVE  /\ (document'[d].status = "INDEXED") <=> (document'[d].current # 0)
             /\ document'[d].current # 0 =>
                   /\ version'[<<d, document'[d].current>>].status = "INDEXED"
                   /\ version'[<<d, document'[d].current>>].vectors = "ACTIVE"
  <2>1. document[d].status # "DELETED"
    <3>1. CASE Worked(v)
      BY <1>8, <3>1 DEF Worked
    <3>2. CASE ~Worked(v)
      BY <1>8, <3>2 DEF VersionEvent, Claimed, FailedByOwner, Recovered, Restarted, Accepted,
                        Committable
    <3>3. QED
      BY <3>1, <3>2
  <2>2. /\ document'[d].current = document[d].current
        /\ (document'[d].status = "INDEXED") <=> (document'[d].current # 0)
    BY <1>8, <2>1, DocumentOfEvent
  <2>3. document[d].current # 0 => document[d].status # "NONE"
    BY DEF UploadedFirst
  <2>4. QED
    BY <1>8, <2>1, <2>2, <2>3, ServedUndisturbed
<1>9. QED
  BY <1>2, <1>3, <1>4, <1>5, <1>6, <1>7, <1>8 DEF LedgerStep

LEMMA UploadedStep ==
    ASSUME TypeOK, RowsInv, ServedVersionIntact, UploadedFirst, LedgerStep
    PROVE  UploadedFirst'
<1> SUFFICES ASSUME NEW d \in Docs
             PROVE  IF document'[d].status = "NONE" THEN document'[d].current = 0
                                                    ELSE document'[d].latest # 0
  BY DEF UploadedFirst
<1>1. CASE document'[d] = document[d]
  BY <1>1 DEF UploadedFirst
<1>2. ASSUME NEW e \in Docs, DocumentDeleted(e), d = e
      PROVE  document'[d].status = "DELETED" /\ document'[d].latest # 0
  BY <1>2 DEF DocumentDeleted, TypeOK, DocumentRow, UploadedFirst
<1>3. ASSUME NEW v \in Versions, Completed(v), v[1] = d
      PROVE  document'[d].status # "NONE" /\ document'[d].latest # 0
  <2>1. Doc(v) = d /\ v[2] # 0
    BY <1>3 DEF Doc, Versions
  <2>2. document[d].latest = v[2]
    BY <1>3, <2>1 DEF Completed
  <2>3. document'[d] = [document[d] EXCEPT !.status = "INDEXED", !.current = v[2]]
    BY <1>3, <2>1 DEF Completed
  <2>4. document[d] \in DocumentRow
    BY DEF TypeOK
  <2>5. document'[d].status = "INDEXED" /\ document'[d].latest = document[d].latest
    BY <2>3, <2>4 DEF DocumentRow
  <2>6. QED
    BY <2>1, <2>2, <2>5
<1>4. ASSUME NEW v \in Versions, VersionEvent(v), ~Completed(v), v[1] = d,
             document[d].status # "DELETED"
      PROVE  document'[d].status # "NONE" /\ document'[d].latest # 0
  BY <1>4, DocumentOfEvent
<1>5. ASSUME NEW v \in Versions, VersionEvent(v), ~Completed(v), v[1] = d,
             document[d].status = "DELETED"
      PROVE  document'[d] = document[d]
  BY <1>5 DEF VersionEvent, Claimed, Worked, FailedByOwner, Recovered, Restarted, Accepted,
              Committable
<1>6. QED
  BY <1>1, <1>2, <1>3, <1>4, <1>5
     DEF LedgerStep, NothingHappens, DocumentDeleted, DeletionHandled, OnlyVersion, TypeOK

LEMMA AnnouncedStep ==
    ASSUME TypeOK, DeletionAnnounced, LedgerStep
    PROVE  DeletionAnnounced'
<1>1. ASSUME NEW v \in Versions, VersionEvent(v), OnlyVersion(v), NEW d \in Docs,
             document[d].status = "DELETED"
      PROVE  document'[d].status = "DELETED" /\ outbox' = outbox
  BY <1>1 DEF OnlyVersion, VersionEvent, Claimed, Worked, Completed, FailedByOwner, Recovered,
              Restarted, Accepted, Committable
<1>2. CASE NothingHappens
  BY <1>2 DEF NothingHappens, DeletionAnnounced
<1>3. ASSUME NEW e \in Docs, DocumentDeleted(e) PROVE DeletionAnnounced'
  BY <1>3 DEF DocumentDeleted, DeletionAnnounced, TypeOK, DocumentRow
<1>4. ASSUME NEW e \in Docs, DeletionHandled(e) PROVE DeletionAnnounced'
  BY <1>4 DEF DeletionHandled, DeletionAnnounced, TypeOK
<1>5. ASSUME NEW v \in Versions, VersionEvent(v), OnlyVersion(v) PROVE DeletionAnnounced'
  <2>1. outbox' = outbox
    BY <1>5 DEF OnlyVersion
  <2>2. QED
    BY <1>1, <1>5, <2>1 DEF DeletionAnnounced
<1>6. QED
  BY <1>2, <1>3, <1>4, <1>5 DEF LedgerStep

LEMMA SearchableStep ==
    ASSUME TypeOK, OnlyCurrentSearchable, LedgerStep
    PROVE  OnlyCurrentSearchable'
<1> SUFFICES ASSUME NEW u \in Versions, version'[u].vectors = "ACTIVE"
             PROVE  \/ u[2] = document'[u[1]].current
                    \/ job'[u].status = "PENDING" \/ job'[u].status = "PROCESSING"
  BY DEF OnlyCurrentSearchable
<1>0. u[1] \in Docs
  BY DEF Versions
<1>1. CASE /\ RowKept(u) /\ VectorsKept(u)
           /\ document'[u[1]].current = document[u[1]].current
  BY <1>1 DEF OnlyCurrentSearchable, RowKept, JobKept, VectorsKept
<1>2. CASE NothingHappens
  BY <1>1, <1>2 DEF NothingHappens
<1>3. ASSUME NEW e \in Docs, DocumentDeleted(e)
      PROVE  document'[u[1]].current = document[u[1]].current
  BY <1>0, <1>3 DEF DocumentDeleted, TypeOK, DocumentRow
<1>4. ASSUME NEW e \in Docs, DocumentDeleted(e) \/ DeletionHandled(e)
      PROVE  /\ RowKept(u) /\ VectorsKept(u)
             /\ document'[u[1]].current = document[u[1]].current
  BY <1>3, <1>4 DEF DocumentDeleted, DeletionHandled
<1>5. ASSUME NEW v \in Versions, VersionEvent(v), ~Completed(v)
      PROVE  document'[v[1]].current = document[v[1]].current
  <2>1. v[1] \in Docs
    BY DEF Versions
  <2>2. document[v[1]] \in DocumentRow
    BY <2>1 DEF TypeOK
  <2>3. QED
    BY <1>5, <2>2 DEF DocumentRow, VersionEvent, Claimed, Worked, FailedByOwner, Recovered, GivenUp,
                      PutBack, Restarted, Accepted
<1>6. ASSUME NEW v \in Versions, VersionEvent(v), OnlyVersion(v), u # v
      PROVE  /\ RowKept(u) /\ VectorsKept(u)
             /\ document'[u[1]].current = document[u[1]].current
  <2>1. CASE u[1] = v[1]
    BY <1>5, <1>6, <2>1 DEF OnlyVersion
  <2>2. CASE u[1] # v[1]
    BY <1>0, <1>6, <2>2 DEF OnlyVersion
  <2>3. QED
    BY <2>1, <2>2
<1>7. ASSUME VersionEvent(u), ~Completed(u)
      PROVE  job'[u].status \in {"PENDING", "PROCESSING"}
  BY <1>7 DEF VersionEvent, Claimed, Worked, JobKept, FailedByOwner, Recovered, GivenUp, PutBack,
              Restarted, Accepted
<1>8. ASSUME Completed(u) PROVE u[2] = document'[u[1]].current
  BY <1>0, <1>8 DEF Completed, TypeOK, DocumentRow
<1>9. QED
  BY <1>1, <1>2, <1>4, <1>6, <1>7, <1>8 DEF LedgerStep

-----------------------------------------------------------------------------
(* The inductive invariant. *)

LEMMA InitPromises == Init => ServingInv /\ OwnershipInv
<1> SUFFICES ASSUME Init PROVE ServingInv /\ OwnershipInv
  OBVIOUS
<1>1. \A s \in Slots : slot[s].pc \notin Busy
  BY DEF Init, IdleSlot, Busy
<1>2. TokensFresh
  BY <1>1 DEF Init, TokensFresh
<1>3. OneSuccessfulAttempt
  BY DEF Init, OneSuccessfulAttempt
<1>4. ServedVersionIntact /\ DeletionAnnounced /\ UploadedFirst
  BY DEF Init, ServedVersionIntact, DeletionAnnounced, UploadedFirst
<1>5. OnlyCurrentSearchable
  BY DEF Init, OnlyCurrentSearchable
<1>6. QED
  BY <1>2, <1>3, <1>4, <1>5 DEF ServingInv, OwnershipInv

\* The inductive invariant of the ledger: rows and life cycle of the versions, what
\* documents serve and who owns the jobs.
THEOREM LedgerInvariant == Spec => []IInv
<1>1. Init => IInv
  BY InitLifecycle, InitPromises DEF IInv
<1>2. IInv /\ [Next]_vars => IInv'
  <2> SUFFICES ASSUME IInv, [Next]_vars PROVE IInv'
    OBVIOUS
  <2>1. TypeOK /\ TypeOK' /\ RowsInv /\ LocksHeld /\ ServingInv /\ OwnershipInv
    BY StepTyped DEF IInv, LifecycleInv, RowsInv
  <2>2. LedgerStep
    BY <2>1, StepsAreEvents
  <2>3. LifecycleInv'
    BY <2>1, StepTyped, RowsStep, LocksStep DEF LifecycleInv, RowsInv
  <2>4. ServingInv'
    BY <2>1, <2>2, ServedStep, UploadedStep, AnnouncedStep, SearchableStep DEF ServingInv
  <2>5. OwnershipInv'
    BY <2>1, <2>2, TokensStep, SuccessStep DEF OwnershipInv
  <2>6. QED
    BY <2>3, <2>4, <2>5 DEF IInv
<1>3. QED
  BY <1>1, <1>2, PTL DEF Spec

\* A document keeps being served while a newer version is indexed, fails and is
\* retried: its current version stays INDEXED with ACTIVE vectors.
THEOREM ServedAlwaysIntact == Spec => []ServedVersionIntact
  BY LedgerInvariant, PTL DEF IInv, ServingInv

\* Besides the current version only one that is being indexed is searchable.
THEOREM OnlyCurrentIsSearchable == Spec => []OnlyCurrentSearchable
  BY LedgerInvariant, PTL DEF IInv, ServingInv

LEMMA OwnerIsUnique ==
    ASSUME TypeOK, TokensFresh
    PROVE  AtMostOneOwner
  BY DEF AtMostOneOwner, TokensFresh, Owns

\* However often a job is claimed, lost and reclaimed, at most one slot passes
\* _ownership for it and at most one attempt is its success.
THEOREM OwnedOnceAlways == Spec => []OwnedOnce
<1>1. IInv => OwnedOnce
  BY OwnerIsUnique DEF IInv, LifecycleInv, OwnershipInv, OwnedOnce
<1>2. QED
  BY <1>1, LedgerInvariant, PTL

-----------------------------------------------------------------------------
(* What a step may never do. *)

LEMMA EventOfVersion ==
    ASSUME LedgerStep, NEW v \in Versions
    PROVE  RowKept(v) \/ VersionEvent(v)
  BY DEF LedgerStep, NothingHappens, DocumentDeleted, DeletionHandled, OnlyVersion

\* Recovery never takes a live lease, and a worker that lost its claim never ends the
\* work of the next owner.
THEOREM LeaseProtocolKept == Spec => LeaseProtocol
<1>1. IInv /\ [Next]_vars =>
         \A v \in Versions : LeaseKept(v) /\ \A t \in Tokens : SettledByOwner(v, t)
  <2> SUFFICES ASSUME IInv, [Next]_vars, NEW v \in Versions
               PROVE  LeaseKept(v) /\ \A t \in Tokens : SettledByOwner(v, t)
    OBVIOUS
  <2>1. attempt[v] \in [Tokens -> AttemptStates]
    BY DEF IInv, LifecycleInv, TypeOK
  <2>2. RowKept(v) \/ VersionEvent(v)
    BY StepsAreEvents, EventOfVersion DEF IInv, LifecycleInv, RowsInv
  <2>3. CASE RowKept(v)
    BY <2>3 DEF RowKept, JobKept, LeaseKept, SettledByOwner
  <2>4. CASE Claimed(v) \/ Restarted(v) \/ Accepted(v)
    BY <2>4 DEF Claimed, Restarted, Accepted, LeaseKept, SettledByOwner
  <2>5. CASE Worked(v)
    BY <2>1, <2>5 DEF Worked, JobKept, LeaseKept, SettledByOwner
  <2>6. CASE Completed(v) \/ FailedByOwner(v)
    <3>1. PICK result \in {"SUCCESS", "FAILED"} : EndedAs(v, result)
      BY <2>6 DEF Completed, FailedByOwner
    <3>2. /\ \A t \in Tokens \ {job[v].token} : attempt'[v][t] = attempt[v][t]
          /\ attempt'[v][job[v].token] = result
      BY <2>1, <3>1 DEF EndedAs
    <3>3. QED
      BY <3>1, <3>2 DEF EndedAs, LeaseKept, SettledByOwner
  <2>7. CASE Recovered(v)
    BY <2>7 DEF Recovered, LeaseKept, SettledByOwner
  <2>8. QED
    BY <2>2, <2>3, <2>4, <2>5, <2>6, <2>7 DEF VersionEvent
<1>2. QED
  BY <1>1, LedgerInvariant, PTL DEF Spec, LeaseProtocol

\* A worker recorded DEAD or STOPPED when the claim commits gets no job.
THEOREM ClaimsByActiveWorkers == Spec => DeadWorkerGetsNoJob
<1>1. IInv /\ [Next]_vars =>
         \A v \in Versions :
            job'[v].claims # job[v].claims => worker[job'[v].owner].status = "ACTIVE"
  <2> SUFFICES ASSUME IInv, [Next]_vars, NEW v \in Versions, job'[v].claims # job[v].claims
               PROVE  worker[job'[v].owner].status = "ACTIVE"
    OBVIOUS
  <2>1. RowKept(v) \/ VersionEvent(v)
    BY StepsAreEvents, EventOfVersion DEF IInv, LifecycleInv, RowsInv
  <2>2. Claimed(v)
    BY <2>1 DEF RowKept, JobKept, VersionEvent, Worked, Completed, FailedByOwner, Recovered,
                GivenUp, PutBack, Restarted, Accepted
  <2>3. QED
    BY <2>2 DEF Claimed
<1>2. QED
  BY <1>1, LedgerInvariant, PTL DEF Spec, DeadWorkerGetsNoJob

\* No status of a deleted document, of its versions or of its jobs changes again.
THEOREM DeletionIsFinal == Spec => DeletionFreezes
<1>1. IInv /\ [Next]_vars =>
         \A v \in Versions :
            document[Doc(v)].status = "DELETED" =>
               /\ document'[Doc(v)] = document[Doc(v)]
               /\ version'[v].status = version[v].status
               /\ job'[v].status = job[v].status
  <2> SUFFICES ASSUME IInv, [Next]_vars, NEW v \in Versions, document[v[1]].status = "DELETED"
               PROVE  /\ document'[v[1]] = document[v[1]]
                      /\ version'[v].status = version[v].status
                      /\ job'[v].status = job[v].status
    OBVIOUS
  <2>1. LedgerStep /\ (RowKept(v) \/ VersionEvent(v)) /\ v[1] \in Docs /\ TypeOK
    BY StepsAreEvents, EventOfVersion DEF IInv, LifecycleInv, RowsInv, Versions
  <2>2. version'[v].status = version[v].status /\ job'[v].status = job[v].status
    BY <2>1 DEF RowKept, JobKept, VersionEvent, Claimed, Worked, Completed, FailedByOwner, Recovered,
                Restarted, Accepted, Committable
  <2>3. ASSUME NEW u \in Versions, VersionEvent(u), u[1] = v[1]
        PROVE  document'[v[1]] = document[v[1]]
    BY <2>3 DEF VersionEvent, Claimed, Worked, Completed, FailedByOwner, Recovered, Restarted,
                Accepted, Committable
  <2>4. document'[v[1]] = document[v[1]]
    BY <2>1, <2>3
       DEF LedgerStep, NothingHappens, DocumentDeleted, DeletionHandled, OnlyVersion, TypeOK
  <2>5. QED
    BY <2>2, <2>4
<1>2. QED
  BY <1>1, LedgerInvariant, PTL DEF Spec, DeletionFreezes

\* retry_count never falls and grows by one exactly when a claimed job is requeued.
THEOREM RetriesAlwaysAccounted == Spec => RetriesAccounted
<1>1. IInv /\ [Next]_vars =>
         \A v \in Versions :
            job'[v].retries - job[v].retries =
               IF job[v].status = "PROCESSING" /\ job'[v].status = "PENDING" THEN 1 ELSE 0
  <2> SUFFICES ASSUME IInv, [Next]_vars, NEW v \in Versions
               PROVE  job'[v].retries - job[v].retries =
                        IF job[v].status = "PROCESSING" /\ job'[v].status = "PENDING" THEN 1 ELSE 0
    OBVIOUS
  <2>1. RowKept(v) \/ VersionEvent(v)
    BY StepsAreEvents, EventOfVersion DEF IInv, LifecycleInv, RowsInv
  <2>2. job[v].retries \in Int
    BY DEF IInv, LifecycleInv, TypeOK, JobRow, ConstantsAssumption
  <2>3. \/ /\ job'[v].retries = job[v].retries
           /\ ~(job[v].status = "PROCESSING" /\ job'[v].status = "PENDING")
        \/ /\ job'[v].retries = job[v].retries + 1
           /\ job[v].status = "PROCESSING" /\ job'[v].status = "PENDING"
    BY <2>1 DEF RowKept, JobKept, VersionEvent, Claimed, Worked, Completed, EndedAs, FailedByOwner,
                Recovered, GivenUp, PutBack, Restarted, Accepted
  <2>4. QED
    BY <2>2, <2>3
<1>2. QED
  BY <1>1, LedgerInvariant, PTL DEF Spec, RetriesAccounted

-----------------------------------------------------------------------------
(* The refinement. *)

LEMMA LifecycleVersions ==
    /\ Versions = Lifecycle!Versions /\ Lifecycle!Numbers = 1..MaxVersions
    /\ \A v \in Versions : v[1] \in Docs /\ v[2] \in 1..MaxVersions /\ v = <<v[1], v[2]>>
    /\ \A d \in Docs, n \in 1..MaxVersions : <<d, n>> \in Versions
  BY DEF Versions, Lifecycle!Versions, Lifecycle!Numbers

\* The phase of a version, by the status of its job.
LEMMA PhaseOfJob ==
    ASSUME TypeOK, NEW v \in Versions
    PROVE  /\ (phase[v] = "none") <=> (job[v].status = "NONE")
           /\ (phase[v] = "indexing") <=> (job[v].status \in LiveStates)
           /\ (phase[v] = "indexed") <=> (job[v].status = "INDEXED")
           /\ (phase[v] = "failed") <=> (job[v].status = "FAILED")
           /\ phase[v] \in {"none", "indexing", "indexed", "failed"}
<1>1. job[v].status \in {"NONE", "PENDING", "PROCESSING", "INDEXED", "FAILED"}
  BY DEF TypeOK, JobRow, LiveStates
<1>2. QED
  BY <1>1 DEF phase, LiveStates

LEMMA PhaseIsFunction ==
    ASSUME TypeOK, TypeOK'
    PROVE  /\ phase \in [Versions -> {"none", "indexing", "indexed", "failed"}]
           /\ phase' \in [Versions -> {"none", "indexing", "indexed", "failed"}]
<1>1. \A v \in Versions :
         /\ job[v].status \in {"NONE", "PENDING", "PROCESSING", "INDEXED", "FAILED"}
         /\ job'[v].status \in {"NONE", "PENDING", "PROCESSING", "INDEXED", "FAILED"}
  BY DEF TypeOK, JobRow, LiveStates
<1>2. QED
  BY <1>1 DEF phase, LiveStates

LEMMA PhaseKept ==
    ASSUME TypeOK, NEW v \in Versions, job'[v].status = job[v].status
    PROVE  phase'[v] = phase[v]
<1>1. job[v].status \in {"NONE", "PENDING", "PROCESSING", "INDEXED", "FAILED"}
  BY DEF TypeOK, JobRow, LiveStates
<1>2. QED
  BY <1>1 DEF phase, LiveStates

\* The newest version of the refinement is the latest one of the ledger.
LEMMA LatestIsNewest ==
    ASSUME TypeOK, RowsInv, NEW v \in Versions, document[v[1]].latest = v[2]
    PROVE  Lifecycle!Newest(v)
<1>1. \A u \in Versions : (phase[u] = "none") <=> (u[2] > document[u[1]].latest)
  BY PhaseOfJob DEF RowsInv, JobMatchesVersion, VersionsNumbered
<1>2. phase[v] # "none"
  BY <1>1, LifecycleVersions
<1>3. ASSUME NEW n \in 1..MaxVersions, n > v[2] PROVE phase[<<v[1], n>>] = "none"
  BY <1>1, <1>3, LifecycleVersions
<1>4. QED
  BY <1>2, <1>3, LifecycleVersions DEF Lifecycle!Newest, Lifecycle!Doc

\* Rows and documents that keep what users see are a stutter of the refinement.
LEMMA NothingSeen ==
    ASSUME TypeOK, TypeOK',
           \A v \in Versions : phase'[v] = phase[v],
           \A d \in Docs : /\ document'[d].current = document[d].current
                           /\ (document'[d].status = "DELETED") <=> (document[d].status = "DELETED")
    PROVE  UNCHANGED Lifecycle!vars
<1>1. phase' = phase
  BY PhaseIsFunction
<1>2. served' = served /\ deleted' = deleted
  BY DEF served, deleted
<1>3. QED
  BY <1>1, <1>2 DEF Lifecycle!vars

\* Every event of a version is a step of its life, or invisible.
LEMMA EventImplements ==
    ASSUME IInv, TypeOK', NEW v \in Versions, VersionEvent(v), OnlyVersion(v)
    PROVE  [Lifecycle!Next]_(Lifecycle!vars)
<1> DEFINE d == v[1]
<1>0. /\ TypeOK /\ RowsInv /\ ServedVersionIntact /\ UploadedFirst
      /\ d \in Docs /\ v[2] \in 1..MaxVersions /\ v = <<d, v[2]>>
      /\ document[d] \in DocumentRow
  BY LifecycleVersions DEF IInv, LifecycleInv, RowsInv, ServingInv, TypeOK
<1>1. \A u \in Versions \ {v} : phase'[u] = phase[u]
  BY <1>0, PhaseKept DEF OnlyVersion, RowKept, JobKept
<1>2. \A e \in Docs \ {d} : document'[e] = document[e]
  BY DEF OnlyVersion
<1>3. phase' = [phase EXCEPT ![v] = phase'[v]]
  BY <1>0, <1>1, PhaseIsFunction
<1>4. ASSUME document'[d].current = document[d].current, document[d].status # "DELETED",
             document'[d].status # "DELETED"
      PROVE  UNCHANGED <<served, deleted>> /\ d \notin deleted
  BY <1>2, <1>4 DEF served, deleted
<1>5. /\ (phase[v] = "none") <=> (job[v].status = "NONE")
      /\ (phase[v] = "indexing") <=> (job[v].status \in LiveStates)
      /\ (phase[v] = "failed") <=> (job[v].status = "FAILED")
      /\ (phase'[v] = "indexing") <=> (job'[v].status \in LiveStates)
      /\ (phase'[v] = "indexed") <=> (job'[v].status = "INDEXED")
      /\ (phase'[v] = "failed") <=> (job'[v].status = "FAILED")
  <2>1. job'[v].status \in {"NONE", "PENDING", "PROCESSING", "INDEXED", "FAILED"}
    BY DEF TypeOK, JobRow, LiveStates
  <2>2. /\ (phase'[v] = "indexing") <=> (job'[v].status \in LiveStates)
        /\ (phase'[v] = "indexed") <=> (job'[v].status = "INDEXED")
        /\ (phase'[v] = "failed") <=> (job'[v].status = "FAILED")
    BY <2>1 DEF phase, LiveStates
  <2>3. QED
    BY <1>0, <2>2, PhaseOfJob
<1>6. CASE Worked(v)
  <2>1. phase'[v] = phase[v] /\ document'[d] = document[d]
    BY <1>0, <1>6, PhaseKept DEF Worked, JobKept
  <2>2. QED
    BY <1>0, <1>1, <1>2, <2>1, NothingSeen
<1>7. CASE Claimed(v) \/ (PutBack(v) /\ (FailedByOwner(v) \/ Recovered(v)))
  <2>1. phase'[v] = phase[v]
    BY <1>5, <1>7 DEF Claimed, PutBack, FailedByOwner, EndedAs, Recovered, LiveStates
  <2>2. /\ document'[d].current = document[d].current
        /\ (document'[d].status = "DELETED") <=> (document[d].status = "DELETED")
    BY <1>0, <1>7 DEF Claimed, PutBack, DocumentRow
  <2>3. QED
    BY <1>0, <1>1, <1>2, <2>1, <2>2, NothingSeen
<1>8. CASE GivenUp(v) /\ (FailedByOwner(v) \/ Recovered(v))
  <2>1. phase[v] = "indexing" /\ phase'[v] = "failed"
    BY <1>5, <1>8 DEF GivenUp, FailedByOwner, EndedAs, Recovered, LiveStates
  <2>2. UNCHANGED <<served, deleted>> /\ d \notin deleted
    BY <1>0, <1>4, <1>8 DEF GivenUp, FailedByOwner, Recovered, Committable, DocumentRow
  <2>3. Lifecycle!GiveUp(v)
    BY <1>3, <2>1, <2>2 DEF Lifecycle!GiveUp, Lifecycle!Doc
  <2>4. QED
    BY <2>3, LifecycleVersions DEF Lifecycle!Next
<1>9. CASE Restarted(v)
  <2>1. phase[v] = "failed" /\ phase'[v] = "indexing"
    BY <1>5, <1>9 DEF Restarted, LiveStates
  <2>2. UNCHANGED <<served, deleted>> /\ d \notin deleted
    BY <1>0, <1>4, <1>9 DEF Restarted, Committable, DocumentRow
  <2>3. Lifecycle!Newest(v)
    BY <1>0, <1>9, LatestIsNewest DEF Restarted, Committable
  <2>4. Lifecycle!Restart(v)
    BY <1>3, <2>1, <2>2, <2>3 DEF Lifecycle!Restart, Lifecycle!Doc
  <2>5. QED
    BY <2>4, LifecycleVersions DEF Lifecycle!Next
<1>10. CASE Completed(v)
  <2>1. phase[v] = "indexing" /\ phase'[v] = "indexed"
    BY <1>5, <1>10 DEF Completed, EndedAs, LiveStates
  <2>2. d \notin deleted /\ deleted' = deleted /\ served' = [served EXCEPT ![d] = v[2]]
    <3>1. document'[d].status = "INDEXED" /\ document'[d].current = v[2]
      BY <1>0, <1>10 DEF Completed, DocumentRow
    <3>2. document[d].status # "DELETED"
      BY <1>10 DEF Completed
    <3>3. d \notin deleted
      BY <3>2 DEF deleted
    <3>4. ASSUME NEW e \in Docs PROVE (document'[e].status = "DELETED") <=> (document[e].status = "DELETED")
      BY <1>2, <3>1, <3>2
    <3>5. deleted' = deleted
      BY <3>4 DEF deleted
    <3>6. ASSUME NEW e \in Docs PROVE document'[e].current = [served EXCEPT ![d] = v[2]][e]
      BY <1>2, <3>1 DEF served
    <3>7. served' = [served EXCEPT ![d] = v[2]]
      BY <3>6 DEF served
    <3>8. QED
      BY <3>3, <3>5, <3>7
  <2>3. served[d] < v[2]
    <3>1. document[d].current # v[2]
      BY <1>0, <1>10 DEF Completed, ServedVersionIntact
    <3>2. document[d].current <= v[2] /\ document[d].current \in Int /\ v[2] \in Int
      BY <1>0, <1>10 DEF Completed, DocumentRow
    <3>3. QED
      BY <1>0, <3>1, <3>2 DEF served
  <2>4. Lifecycle!Newest(v)
    BY <1>0, <1>10, LatestIsNewest DEF Completed
  <2>5. Lifecycle!Publish(v)
    BY <1>3, <2>1, <2>2, <2>3, <2>4 DEF Lifecycle!Publish, Lifecycle!Doc
  <2>6. QED
    BY <2>5, LifecycleVersions DEF Lifecycle!Next
<1>11. CASE Accepted(v)
  <2>1. phase[v] = "none" /\ phase'[v] = "indexing"
    BY <1>5, <1>11 DEF Accepted, LiveStates
  <2>2. UNCHANGED <<served, deleted>> /\ d \notin deleted
    BY <1>0, <1>4, <1>11 DEF Accepted, DocumentRow
  <2>3. ASSUME NEW n \in 1..MaxVersions
        PROVE  /\ n < v[2] => phase[<<d, n>>] \in {"indexed", "failed"}
               /\ n > v[2] => phase[<<d, n>>] = "none"
    <3> DEFINE u == <<d, n>>
    <3>1. u \in Versions /\ v[2] = document[d].latest + 1 /\ document[d].latest \in Int
      BY <1>0, <1>11, LifecycleVersions DEF Accepted, DocumentRow
    <3>2. (job[u].status = "NONE") <=> (n > document[d].latest)
      BY <1>0, <3>1 DEF RowsInv, JobMatchesVersion, VersionsNumbered
    <3>3. job[u].status \notin LiveStates
      BY <1>11, <3>1 DEF Accepted
    <3>4. QED
      BY <1>0, <3>1, <3>2, <3>3, PhaseOfJob
  <2>4. Lifecycle!Submit(v)
    BY <1>3, <2>1, <2>2, <2>3, LifecycleVersions DEF Lifecycle!Submit, Lifecycle!Doc
  <2>5. QED
    BY <2>4, LifecycleVersions DEF Lifecycle!Next
<1>12. QED
  BY <1>6, <1>7, <1>8, <1>9, <1>10, <1>11 DEF VersionEvent, FailedByOwner, Recovered

LEMMA DeletionImplements ==
    ASSUME IInv, TypeOK', NEW d \in Docs, DocumentDeleted(d)
    PROVE  Lifecycle!Delete(d)
<1>0. TypeOK /\ RowsInv /\ UploadedFirst /\ document[d] \in DocumentRow
  BY DEF IInv, LifecycleInv, RowsInv, ServingInv, TypeOK
<1>1. phase' = phase
  BY <1>0, PhaseKept, PhaseIsFunction DEF DocumentDeleted, RowKept, JobKept
<1>2. served' = served /\ d \notin deleted /\ deleted' = deleted \cup {d}
  <2>1. /\ \A e \in Docs : document'[e].current = document[e].current
        /\ document'[d].status = "DELETED"
        /\ \A e \in Docs \ {d} : document'[e] = document[e]
    BY <1>0 DEF DocumentDeleted, TypeOK, DocumentRow
  <2>2. QED
    BY <2>1 DEF DocumentDeleted, served, deleted
<1>3. phase[<<d, 1>>] # "none"
  <2>1. document[d].latest # 0 /\ <<d, 1>> \in Versions
    BY <1>0, LifecycleVersions DEF DocumentDeleted, UploadedFirst, ConstantsAssumption
  <2>2. ~(1 > document[d].latest)
    BY <1>0, <2>1 DEF DocumentRow
  <2>3. job[<<d, 1>>].status # "NONE"
    BY <1>0, <2>1, <2>2 DEF RowsInv, JobMatchesVersion, VersionsNumbered
  <2>4. QED
    BY <1>0, <2>1, <2>3, PhaseOfJob
<1>4. QED
  BY <1>1, <1>2, <1>3 DEF Lifecycle!Delete

\* The ledger implements the promised life of a version: workers, leases, attempts,
\* recoveries and faults are invisible, versions are submitted, published, given up
\* and restarted as VersionLifecycle says. (The run jobs_settle checks that every
\* accepted version comes to an end.)
THEOREM LedgerImplementsLifecycle == Spec => ImplementsLifecycle
<1>1. Init => Lifecycle!Init
  <2> SUFFICES ASSUME Init PROVE Lifecycle!Init
    OBVIOUS
  <2>1. phase = [v \in Versions |-> "none"]
    <3>1. \A v \in Versions : job[v].status = "NONE"
      BY DEF Init
    <3>2. QED
      BY <3>1 DEF phase, LiveStates
  <2>2. served = [d \in Docs |-> 0] /\ deleted = {}
    BY DEF Init, served, deleted
  <2>3. QED
    BY <2>1, <2>2, LifecycleVersions DEF Lifecycle!Init
<1>2. IInv /\ IInv' /\ [Next]_vars => [Lifecycle!Next]_(Lifecycle!vars)
  <2> SUFFICES ASSUME IInv, IInv', [Next]_vars
               PROVE  [Lifecycle!Next]_(Lifecycle!vars)
    OBVIOUS
  <2>1. TypeOK /\ TypeOK' /\ LedgerStep
    BY StepsAreEvents DEF IInv, LifecycleInv, RowsInv
  <2>2. CASE NothingHappens
    <3>1. \A v \in Versions : phase'[v] = phase[v]
      BY <2>1, <2>2, PhaseKept DEF NothingHappens, RowKept, JobKept
    <3>2. QED
      BY <2>1, <2>2, <3>1, NothingSeen DEF NothingHappens
  <2>3. ASSUME NEW d \in Docs, DocumentDeleted(d) PROVE [Lifecycle!Next]_(Lifecycle!vars)
    BY <2>1, <2>3, DeletionImplements DEF Lifecycle!Next
  <2>4. ASSUME NEW d \in Docs, DeletionHandled(d) PROVE [Lifecycle!Next]_(Lifecycle!vars)
    <3>1. \A v \in Versions : phase'[v] = phase[v]
      BY <2>1, <2>4, PhaseKept DEF DeletionHandled, RowKept, JobKept
    <3>2. QED
      BY <2>1, <2>4, <3>1, NothingSeen DEF DeletionHandled
  <2>5. ASSUME NEW v \in Versions, VersionEvent(v), OnlyVersion(v)
        PROVE  [Lifecycle!Next]_(Lifecycle!vars)
    BY <2>1, <2>5, EventImplements
  <2>6. QED
    BY <2>1, <2>2, <2>3, <2>4, <2>5 DEF LedgerStep
<1>3. QED
  BY <1>1, <1>2, LedgerInvariant, PTL DEF Spec, ImplementsLifecycle, Lifecycle!Spec

=============================================================================
