---------------------- MODULE IndexingLifecycleProofs ----------------------
(***************************************************************************)
(* Theorems about IndexingJobs, for every number of documents, versions,   *)
(* workers, slots, retries, claims and faults: its types, and that the     *)
(* job, version and document rows of the ledger agree.  The rows are       *)
(* looked at through what a step does to them (StatusKept, NumberingKept,  *)
(* LocksKept), so that the many steps that leave them alone share one      *)
(* argument.                                                               *)
(***************************************************************************)
EXTENDS IndexingJobs, TLAPS

USE ConstantsAssumption, NoneAssumption DEF Doc

-----------------------------------------------------------------------------
(* Types. *)

LEMMA InitTyped == Init => TypeOK
  BY DEF Init, TypeOK, WorkerRow, DocumentRow, VersionRow, JobRow, AttemptStates,
         Versions, Tokens, SlotRow, ActiveStates, LiveStates

\* What slots hold, by their step.
LEMMA SlotShape ==
    ASSUME TypeOK, NEW s \in Slots
    PROVE  /\ slot[s] \in SlotRow
           /\ slot[s].pc = "locked" => slot[s] \in LockedSlot
           /\ slot[s].pc \in Busy => slot[s] \in BusySlot
           /\ slot[s].pc \notin {"idle", "locked"} => slot[s].pc \in Busy
           /\ slot[s].pc # "idle" => slot[s].ver \in Versions
           /\ slot[s].pc \in Busy => slot[s].token \in Tokens
<1>1. slot[s] \in SlotRow
  BY DEF TypeOK
<1>2. CASE slot[s] = IdleSlot
  BY <1>1, <1>2 DEF IdleSlot, Busy
<1>3. CASE slot[s] \in LockedSlot
  BY <1>1, <1>3 DEF LockedSlot, Busy
<1>4. CASE slot[s] \in BusySlot
  BY <1>1, <1>4 DEF BusySlot, Busy
<1>5. QED
  BY <1>1, <1>2, <1>3, <1>4 DEF SlotRow

\* The rows the operations write are rows of their tables.
LEMMA SlotWrites ==
    /\ IdleSlot \in SlotRow
    /\ \A v \in Versions :
          [IdleSlot EXCEPT !.pc = "locked", !.ver = v, !.lease = LeaseDuration] \in SlotRow
    /\ \A row \in LockedSlot, t \in Tokens :
          [row EXCEPT !.pc = "start", !.token = t, !.lease = 0] \in SlotRow
    /\ \A row \in BusySlot, next \in Busy : [row EXCEPT !.pc = next] \in SlotRow
    /\ \A row \in BusySlot : [row EXCEPT !.interrupted = TRUE] \in SlotRow
    /\ \A row \in SlotRow : [row EXCEPT !.lease = Elapsed(@)] \in SlotRow
<1>1. LeaseDuration \in 0..LeaseDuration
  BY DEF ConstantsAssumption
<1>2. \A v \in Versions :
         [IdleSlot EXCEPT !.pc = "locked", !.ver = v, !.lease = LeaseDuration] \in LockedSlot
  BY <1>1 DEF IdleSlot, LockedSlot
<1>3. \A row \in LockedSlot, t \in Tokens :
         [row EXCEPT !.pc = "start", !.token = t, !.lease = 0] \in BusySlot
  BY DEF LockedSlot, BusySlot, Busy
<1>4. \A row \in BusySlot, next \in Busy : [row EXCEPT !.pc = next] \in BusySlot
  BY DEF BusySlot
<1>5. \A row \in BusySlot : [row EXCEPT !.interrupted = TRUE] \in BusySlot
  BY DEF BusySlot
<1>6. ASSUME NEW row \in SlotRow
      PROVE  [row EXCEPT !.lease = Elapsed(@)] \in SlotRow
  <2>1. CASE row = IdleSlot
    BY <2>1 DEF IdleSlot, SlotRow, Elapsed
  <2>2. CASE row \in LockedSlot
    <3>1. Elapsed(row.lease) \in 0..LeaseDuration
      BY <2>2 DEF LockedSlot, Elapsed, ConstantsAssumption
    <3>2. [row EXCEPT !.lease = Elapsed(@)] \in LockedSlot
      BY <2>2, <3>1 DEF LockedSlot
    <3>3. QED
      BY <3>2 DEF SlotRow
  <2>3. CASE row \in BusySlot
    <3>1. [row EXCEPT !.lease = Elapsed(@)] \in BusySlot
      BY <2>3 DEF BusySlot, Elapsed
    <3>2. QED
      BY <3>1 DEF SlotRow
  <2>4. QED
    BY <2>1, <2>2, <2>3 DEF SlotRow
<1>7. QED
  BY <1>2, <1>3, <1>4, <1>5, <1>6 DEF SlotRow

VersionStates == ActiveStates \cup {"NONE", "INDEXED", "FAILED"}

LEMMA VersionWrites ==
    /\ \A row \in VersionRow : Rewound(row) \in VersionRow /\ Staled(row) \in VersionRow
    /\ \A row \in VersionRow, status \in ActiveStates \cup {"INDEXED", "FAILED"} :
          [row EXCEPT !.status = status] \in VersionRow
    /\ \A row \in VersionRow, vectors \in {"NONE", "ACTIVE", "STALE"} :
          [row EXCEPT !.vectors = vectors] \in VersionRow
    /\ \A row \in VersionRow, status \in VersionStates, vectors \in {"NONE", "ACTIVE", "STALE"} :
          [row EXCEPT !.vectors = vectors, !.status = status] \in VersionRow
    /\ \A row \in VersionRow : row.status \in VersionStates /\ row.vectors \in {"NONE", "ACTIVE", "STALE"}
    /\ \A row \in VersionRow : [row EXCEPT !.status = "CHUNKED", !.chunks = TRUE] \in VersionRow
  BY DEF VersionRow, Rewound, Staled, ActiveStates, VersionStates

DocumentStates == {"NONE", "UPLOADED", "INDEXING", "INDEXED", "FAILED", "DELETED"}

LEMMA DocumentWrites ==
    \A row \in DocumentRow :
        /\ row.status \in DocumentStates /\ row.latest \in 0..MaxVersions
        /\ \A status \in DocumentStates : [row EXCEPT !.status = status] \in DocumentRow
        /\ \A n \in 0..MaxVersions :
              /\ [row EXCEPT !.status = "INDEXED", !.current = n] \in DocumentRow
              /\ [row EXCEPT !.status = "UPLOADED", !.latest = n] \in DocumentRow
              /\ \A status \in DocumentStates :
                    [row EXCEPT !.latest = n, !.status = status] \in DocumentRow
  BY DEF DocumentRow, DocumentStates

LEMMA JobWrites ==
    /\ \A row \in JobRow : Released(row) \in JobRow
    /\ \A row \in JobRow, status \in LiveStates \cup {"INDEXED", "FAILED"} :
          [row EXCEPT !.status = status] \in JobRow
    /\ \A row \in JobRow, status \in LiveStates \cup {"INDEXED", "FAILED"} :
          [row EXCEPT !.status = status, !.due = 0] \in JobRow
    /\ \A row \in JobRow, id \in Nat : [row EXCEPT !.status = "PENDING", !.id = id] \in JobRow
    /\ \A row \in JobRow : [row EXCEPT !.lease = LeaseDuration] \in JobRow
    /\ \A row \in JobRow : [row EXCEPT !.lease = Elapsed(@), !.due = Elapsed(@)] \in JobRow
    /\ \A row \in JobRow, w \in Workers, t \in Tokens, lease \in 0..LeaseDuration :
          [row EXCEPT !.status = "PROCESSING", !.owner = w, !.token = t, !.claims = t,
                      !.lease = lease] \in JobRow
<1>0. 0 \in 0..MaxDelay /\ LeaseDuration \in 0..LeaseDuration
  BY DEF ConstantsAssumption
<1>1. ASSUME NEW row \in JobRow PROVE Released(row) \in JobRow
  BY DEF Released, JobRow
<1>2. ASSUME NEW row \in JobRow, NEW status \in LiveStates \cup {"INDEXED", "FAILED"}
      PROVE  [row EXCEPT !.status = status] \in JobRow
  BY DEF JobRow
<1>3. ASSUME NEW row \in JobRow, NEW status \in LiveStates \cup {"INDEXED", "FAILED"}
      PROVE  [row EXCEPT !.status = status, !.due = 0] \in JobRow
  BY <1>0 DEF JobRow
<1>4. ASSUME NEW row \in JobRow, NEW id \in Nat
      PROVE  [row EXCEPT !.status = "PENDING", !.id = id] \in JobRow
  BY DEF JobRow, LiveStates
<1>5. ASSUME NEW row \in JobRow PROVE [row EXCEPT !.lease = LeaseDuration] \in JobRow
  BY <1>0 DEF JobRow
<1>6. ASSUME NEW row \in JobRow
      PROVE  [row EXCEPT !.lease = Elapsed(@), !.due = Elapsed(@)] \in JobRow
  <2>1. /\ Elapsed(row.lease) \in (0..LeaseDuration) \cup {None}
        /\ Elapsed(row.due) \in 0..MaxDelay
    BY DEF JobRow, Elapsed, ConstantsAssumption, NoneAssumption
  <2>2. QED
    BY <2>1 DEF JobRow
<1>7. ASSUME NEW row \in JobRow, NEW w \in Workers, NEW t \in Tokens,
             NEW lease \in 0..LeaseDuration
      PROVE  [row EXCEPT !.status = "PROCESSING", !.owner = w, !.token = t, !.claims = t,
                         !.lease = lease] \in JobRow
  <2>1. t \in 0..MaxClaims
    BY DEF Tokens, ConstantsAssumption
  <2>2. QED
    BY <1>0, <2>1 DEF JobRow, LiveStates
<1>8. QED
  BY <1>1, <1>2, <1>3, <1>4, <1>5, <1>6, <1>7

LEMMA RequeuedTyped ==
    ASSUME NEW row \in JobRow, NEW delay \in 1..MaxDelay, row.retries < MaxRetries
    PROVE  Requeued(row, delay) \in JobRow
<1> DEFINE counted == [row EXCEPT !.status = "PENDING", !.retries = @ + 1,
                                  !.due = delay]
<1>1. row.retries + 1 \in 0..MaxRetries /\ delay \in 0..MaxDelay
  BY DEF JobRow, ConstantsAssumption
<1>2. counted \in JobRow
  BY <1>1 DEF JobRow, LiveStates
<1>3. QED
  BY <1>2, JobWrites DEF Requeued

LEMMA WorkerWrites ==
    /\ [status |-> "ACTIVE", beat |-> DeadThreshold, running |-> TRUE] \in WorkerRow
    /\ \A row \in WorkerRow :
          /\ [row EXCEPT !.beat = DeadThreshold] \in WorkerRow
          /\ [row EXCEPT !.beat = Elapsed(@)] \in WorkerRow
          /\ [row EXCEPT !.status = "DEAD"] \in WorkerRow
          /\ [row EXCEPT !.running = FALSE] \in WorkerRow
          /\ [row EXCEPT !.status = "STOPPED", !.running = FALSE] \in WorkerRow
<1>1. ASSUME NEW row \in WorkerRow
      PROVE  Elapsed(row.beat) \in 0..DeadThreshold
  BY DEF WorkerRow, Elapsed, ConstantsAssumption
<1>2. DeadThreshold \in 0..DeadThreshold
  BY DEF ConstantsAssumption
<1>3. QED
  BY <1>1, <1>2 DEF WorkerRow

\* Every way a slot changes keeps the slots typed.
LEMMA SlotMoves ==
    ASSUME TypeOK, NEW s \in Slots
    PROVE  /\ [slot EXCEPT ![s] = IdleSlot] \in [Slots -> SlotRow]
           /\ \A v \in Versions :
                 [slot EXCEPT ![s] = [IdleSlot EXCEPT !.pc = "locked", !.ver = v,
                                                      !.lease = LeaseDuration]]
                     \in [Slots -> SlotRow]
           /\ slot[s].pc = "locked" =>
                 \A t \in Tokens :
                    [slot EXCEPT ![s].pc = "start", ![s].token = t, ![s].lease = 0]
                        \in [Slots -> SlotRow]
           /\ slot[s].pc \in Busy =>
                 /\ \A pc \in Busy : [slot EXCEPT ![s].pc = pc] \in [Slots -> SlotRow]
                 /\ [slot EXCEPT ![s].interrupted = TRUE] \in [Slots -> SlotRow]
<1>1. slot \in [Slots -> SlotRow]
  BY DEF TypeOK
<1>2. slot[s].pc = "locked" =>
        \A t \in Tokens :
           [slot EXCEPT ![s].pc = "start", ![s].token = t, ![s].lease = 0]
               \in [Slots -> SlotRow]
  BY <1>1, SlotShape, SlotWrites
<1>3. slot[s].pc \in Busy =>
        /\ \A pc \in Busy : [slot EXCEPT ![s].pc = pc] \in [Slots -> SlotRow]
        /\ [slot EXCEPT ![s].interrupted = TRUE] \in [Slots -> SlotRow]
  BY <1>1, SlotShape, SlotWrites
<1>4. QED
  BY <1>1, <1>2, <1>3, SlotWrites

\* The steps in which a slot only moves on keep slots and faults typed.
LEMMA AnsweredTyped ==
    ASSUME TypeOK, NEW s \in Slots, slot[s].pc \in Busy, NEW next \in Busy, Answered(s, next)
    PROVE  slot' \in [Slots -> SlotRow] /\ faults' \in 0..MaxFaults
<1>1. "report" \in Busy /\ slot[s] \in BusySlot
  BY SlotShape DEF Busy
<1>2. slot \in [Slots -> SlotRow] /\ slot[s] \in BusySlot
  BY <1>1 DEF TypeOK
<1>3. \A pc \in Busy : [slot EXCEPT ![s].pc = pc] \in [Slots -> SlotRow]
  BY <1>2, SlotWrites
<1>4. slot' \in [Slots -> SlotRow]
  BY <1>1, <1>3 DEF Answered
<1>5. faults' \in 0..MaxFaults
  BY DEF Answered, TypeOK, ConstantsAssumption
<1>6. QED
  BY <1>4, <1>5

LEMMA RaisedTyped ==
    ASSUME TypeOK, NEW s \in Slots, slot[s].pc \in Busy, Raised(s)
    PROVE  TypeOK'
<1>1. "report" \in Busy /\ slot[s] \in BusySlot
  BY SlotShape DEF Busy
<1>2. slot' \in [Slots -> SlotRow]
  BY <1>1, SlotWrites DEF Raised, TypeOK
<1>3. QED
  BY <1>2 DEF Raised, ledger, TypeOK

LEMMA FinalFailureTyped ==
    ASSUME TypeOK, NEW v \in Versions, FinalFailure(v)
    PROVE  /\ job' \in [Versions -> JobRow]
           /\ version' \in [Versions -> VersionRow]
           /\ document' \in [Docs -> DocumentRow]
<1>1. job' \in [Versions -> JobRow]
  BY JobWrites DEF FinalFailure, TypeOK
<1>2. version' \in [Versions -> VersionRow]
  BY VersionWrites DEF FinalFailure, TypeOK
<1>3. document' \in [Docs -> DocumentRow]
  BY DocumentWrites DEF FinalFailure, TypeOK, Versions, DocumentStates
<1>4. QED
  BY <1>1, <1>2, <1>3

LEMMA NewVersionTyped ==
    ASSUME TypeOK, NEW v \in Versions, NewVersion(v), document' \in [Docs -> DocumentRow]
    PROVE  TypeOK'
<1>1. job' \in [Versions -> JobRow]
  <2>1. lastJob + 1 \in Nat
    BY DEF TypeOK
  <2>2. QED
    BY <2>1, JobWrites DEF NewVersion, TypeOK
<1>2. version' \in [Versions -> VersionRow]
  BY VersionWrites DEF NewVersion, TypeOK, ActiveStates
<1>3. lastJob' \in Nat
  BY DEF NewVersion, TypeOK
<1>4. QED
  BY <1>1, <1>2, <1>3 DEF NewVersion, TypeOK

LEMMA StepTyped == TypeOK /\ [Next]_vars => TypeOK'
<1> SUFFICES ASSUME TypeOK, [Next]_vars PROVE TypeOK'
  OBVIOUS
<1>1. CASE UNCHANGED vars
  BY <1>1 DEF vars, TypeOK
<1>2. CASE Tick
  BY <1>2, WorkerWrites, JobWrites, SlotWrites DEF Tick, TypeOK
<1>3. ASSUME NEW w \in Workers, RegisterWorker(w) PROVE TypeOK'
  BY <1>3, WorkerWrites DEF RegisterWorker, ledger, TypeOK
<1>4. ASSUME NEW w \in Workers, Heartbeat(w) PROVE TypeOK'
  BY <1>4, WorkerWrites DEF Heartbeat, ledger, TypeOK
<1>5. ASSUME NEW w \in Workers, StopWorker(w) PROVE TypeOK'
  BY <1>5, WorkerWrites, SlotWrites, SlotShape DEF StopWorker, ledger, TypeOK
<1>6. ASSUME NEW w \in Workers, Crash(w) PROVE TypeOK'
  BY <1>6, WorkerWrites, SlotWrites, SlotShape DEF Crash, ledger, TypeOK
<1>7. ASSUME NEW w \in Workers, MarkDead(w) PROVE TypeOK'
  BY <1>7, WorkerWrites DEF MarkDead, ledger, TypeOK
<1>8. ASSUME NEW s \in Slots, NEW v \in Versions, LockNextPendingJob(s, v) PROVE TypeOK'
  BY <1>8, SlotMoves DEF LockNextPendingJob, ledger, TypeOK
<1>9. ASSUME NEW s \in Slots, ClaimRolledBack(s) PROVE TypeOK'
  BY <1>9, SlotMoves DEF ClaimRolledBack, TypeOK, ledger
<1>10. ASSUME NEW s \in Slots, Claim(s) PROVE TypeOK'
  <2> DEFINE v == slot[s].ver
             t == job[v].claims + 1
  <2>1. v \in Versions /\ t \in Tokens /\ slot[s].pc = "locked" /\ Host[s] \in Workers
    BY <1>10, SlotShape DEF Claim, ConstantsAssumption
  <2>2. job' \in [Versions -> JobRow]
    <3>1. slot[s].lease \in 0..LeaseDuration
      BY <2>1, SlotShape DEF LockedSlot
    <3>2. QED
      BY <1>10, <2>1, <3>1, JobWrites DEF Claim, TypeOK
  <2>3. document' \in [Docs -> DocumentRow]
    <3>1. document[v[1]] \in DocumentRow /\ v[1] \in Docs
      BY <2>1 DEF TypeOK, Versions
    <3>2. (IF document[v[1]].status = "UPLOADED" THEN "INDEXING" ELSE document[v[1]].status)
             \in DocumentStates
      BY <3>1, DocumentWrites DEF DocumentStates
    <3>3. QED
      BY <1>10, <3>1, <3>2, DocumentWrites DEF Claim, TypeOK
  <2>4. slot' \in [Slots -> SlotRow]
    <3>1. /\ [slot EXCEPT ![s] = IdleSlot] \in [Slots -> SlotRow]
          /\ [slot EXCEPT ![s].pc = "start", ![s].token = t, ![s].lease = 0]
                 \in [Slots -> SlotRow]
      BY <2>1, SlotMoves
    <3>2. QED
      BY <1>10, <3>1 DEF Claim
  <2>5. faults' \in 0..MaxFaults
    BY <1>10 DEF Claim, TypeOK, ConstantsAssumption
  <2>6. QED
    BY <1>10, <2>2, <2>3, <2>4, <2>5 DEF Claim, TypeOK
<1>11. ASSUME NEW s \in Slots, Renew(s) PROVE TypeOK'
  BY <1>11, SlotShape, JobWrites DEF Renew, TypeOK, Renewing
<1>12. ASSUME NEW s \in Slots, RenewRejected(s) PROVE TypeOK'
  BY <1>12, SlotMoves DEF RenewRejected, TypeOK, ledger
<1>13. ASSUME NEW s \in Slots, StartAttempt(s) PROVE TypeOK'
  <2>1. "parse" \in Busy /\ slot[s].pc \in Busy
    BY <1>13 DEF StartAttempt, Busy
  <2>2. slot' \in [Slots -> SlotRow]
    <3>1. /\ [slot EXCEPT ![s] = IdleSlot] \in [Slots -> SlotRow]
          /\ [slot EXCEPT ![s].pc = "parse"] \in [Slots -> SlotRow]
      BY <2>1, SlotMoves
    <3>2. QED
      BY <1>13, <3>1 DEF StartAttempt
  <2>3. attempt' \in [Versions -> [Tokens -> AttemptStates]]
    BY <1>13, <2>1, SlotShape DEF StartAttempt, TypeOK, AttemptStates
  <2>4. faults' \in 0..MaxFaults
    BY <1>13 DEF StartAttempt, TypeOK, ConstantsAssumption
  <2>5. QED
    BY <1>13, <2>2, <2>3, <2>4 DEF StartAttempt, TypeOK
<1>14. ASSUME NEW s \in Slots, StartRejected(s) PROVE TypeOK'
  BY <1>14, SlotMoves DEF StartRejected, TypeOK, ledger
<1>15. ASSUME NEW s \in Slots, ChunksReplayed(s) PROVE TypeOK'
  <2>1. "embed" \in Busy /\ slot[s].pc \in Busy
    BY <1>15 DEF ChunksReplayed, Busy
  <2>2. slot' \in [Slots -> SlotRow] /\ faults' \in 0..MaxFaults
    BY <1>15, <2>1, AnsweredTyped DEF ChunksReplayed
  <2>3. QED
    BY <1>15, <2>2 DEF ChunksReplayed, ledger, TypeOK
<1>16. ASSUME NEW s \in Slots, ParseStarted(s) PROVE TypeOK'
  BY <1>16, AnsweredTyped, SlotShape, VersionWrites DEF ParseStarted, TypeOK, Busy, ActiveStates
<1>17. ASSUME NEW s \in Slots, ChunksSaved(s) PROVE TypeOK'
  BY <1>17, AnsweredTyped, SlotShape, VersionWrites DEF ChunksSaved, TypeOK, Busy, ActiveStates
<1>18. ASSUME NEW s \in Slots, VectorsReused(s) PROVE TypeOK'
  <2>1. "finish" \in Busy /\ slot[s].pc \in Busy
    BY <1>18 DEF VectorsReused, Busy
  <2>2. slot' \in [Slots -> SlotRow] /\ faults' \in 0..MaxFaults
    BY <1>18, <2>1, AnsweredTyped DEF VectorsReused
  <2>3. version' \in [Versions -> VersionRow]
    <3> DEFINE v == slot[s].ver
    <3>1. v \in Versions /\ version[v] \in VersionRow
      BY <2>1, SlotShape DEF TypeOK, Busy
    <3>2. (IF version[v].status = "CHUNKED" THEN "EMBEDDING" ELSE version[v].status)
             \in VersionStates
      BY <3>1, VersionWrites DEF VersionStates, ActiveStates
    <3>3. Reactivated(version[v]) \in VersionRow
      BY <3>1, <3>2, VersionWrites DEF Reactivated
    <3>4. QED
      BY <1>18, <3>1, <3>3 DEF VectorsReused, TypeOK
  <2>4. QED
    BY <1>18, <2>2, <2>3 DEF VectorsReused, TypeOK
<1>19. ASSUME NEW s \in Slots, EmbeddingStarted(s) PROVE TypeOK'
  BY <1>19, AnsweredTyped, SlotShape, VersionWrites DEF EmbeddingStarted, TypeOK, Busy, ActiveStates
<1>20. ASSUME NEW s \in Slots, VectorsInserted(s) PROVE TypeOK'
  <2>1. "finish" \in Busy /\ slot[s].pc \in Busy
    BY <1>20 DEF VectorsInserted, Busy
  <2>2. slot' \in [Slots -> SlotRow] /\ faults' \in 0..MaxFaults
    BY <1>20, <2>1, AnsweredTyped DEF VectorsInserted
  <2>3. version' \in [Versions -> VersionRow]
    <3> DEFINE v == slot[s].ver
    <3>1. v \in Versions /\ version[v] \in VersionRow
      BY <2>1, SlotShape DEF TypeOK, Busy
    <3>2. (IF version[v].vectors = "NONE" THEN "ACTIVE" ELSE version[v].vectors)
             \in {"NONE", "ACTIVE", "STALE"}
      BY <3>1, VersionWrites DEF VersionStates, ActiveStates
    <3>3. QED
      BY <1>20, <3>1, <3>2, VersionWrites DEF VectorsInserted, TypeOK
  <2>4. QED
    BY <1>20, <2>2, <2>3 DEF VectorsInserted, TypeOK
<1>21. ASSUME NEW s \in Slots, ChunksRejected(s) PROVE TypeOK'
  BY <1>21, RaisedTyped DEF ChunksRejected, TypeOK, Busy
<1>22. ASSUME NEW s \in Slots, EmbeddingsRejected(s) PROVE TypeOK'
  BY <1>22, RaisedTyped DEF EmbeddingsRejected, TypeOK, Busy
<1>23. ASSUME NEW s \in Slots, CompleteRejected(s) PROVE TypeOK'
  BY <1>23, RaisedTyped DEF CompleteRejected, TypeOK, Busy
<1>24. ASSUME NEW s \in Slots, Complete(s) PROVE TypeOK'
  <2> DEFINE v == slot[s].ver
  <2>1. "report" \in Busy /\ slot[s].pc \in Busy
    BY <1>24 DEF Complete, Busy
  <2>2. v \in Versions /\ v[1] \in Docs /\ v[2] \in 0..MaxVersions /\ slot[s].token \in Tokens
    <3>1. v \in Versions /\ slot[s].token \in Tokens
      BY <2>1, SlotShape DEF Busy
    <3>2. QED
      BY <3>1 DEF Versions
  <2>3. slot' \in [Slots -> SlotRow]
    <3>1. /\ [slot EXCEPT ![s] = IdleSlot] \in [Slots -> SlotRow]
          /\ [slot EXCEPT ![s].pc = "report"] \in [Slots -> SlotRow]
      BY <2>1, SlotMoves
    <3>2. QED
      BY <1>24, <3>1 DEF Complete
  <2>4. version' \in [Versions -> VersionRow]
    BY <1>24, <2>2, VersionWrites DEF Complete, TypeOK
  <2>5. document' \in [Docs -> DocumentRow]
    BY <1>24, <2>2, DocumentWrites DEF Complete, TypeOK
  <2>6. job' \in [Versions -> JobRow]
    BY <1>24, <2>2, JobWrites DEF Complete, TypeOK
  <2>7. attempt' \in [Versions -> [Tokens -> AttemptStates]]
    BY <1>24, <2>2 DEF Complete, TypeOK, AttemptStates
  <2>8. faults' \in 0..MaxFaults
    BY <1>24 DEF Complete, TypeOK, ConstantsAssumption
  <2>9. QED
    BY <1>24, <2>3, <2>4, <2>5, <2>6, <2>7, <2>8 DEF Complete, TypeOK
<1>25. ASSUME NEW s \in Slots, FailRejected(s) PROVE TypeOK'
  BY <1>25, SlotMoves DEF FailRejected, TypeOK, ledger
<1>26. ASSUME NEW s \in Slots, Withdraw(s) PROVE TypeOK'
  BY <1>26, SlotMoves DEF Withdraw, TypeOK, ledger
<1>27. ASSUME NEW s \in Slots, CallFails(s) PROVE TypeOK'
  <2>1. slot[s].pc \notin {"idle", "locked"} => slot[s].pc \in Busy /\ "report" \in Busy
    BY SlotShape DEF Busy
  <2>2. slot' \in [Slots -> SlotRow]
    BY <1>27, <2>1, SlotMoves DEF CallFails
  <2>3. faults' \in 0..MaxFaults
    BY <1>27 DEF CallFails, TypeOK, ConstantsAssumption
  <2>4. QED
    BY <1>27, <2>2, <2>3 DEF CallFails, ledger, TypeOK
<1>28. ASSUME NEW s \in Slots, NEW retryable \in Reports, Fail(s, retryable) PROVE TypeOK'
  <2> DEFINE v == slot[s].ver
  <2>1. v \in Versions /\ slot[s].token \in Tokens
    BY <1>28, SlotShape DEF Fail, Busy
  <2>2. slot' \in [Slots -> SlotRow]
    BY <1>28, SlotMoves DEF Fail
  <2>3. attempt' \in [Versions -> [Tokens -> AttemptStates]]
    BY <1>28, <2>1 DEF Fail, TypeOK, AttemptStates
  <2>4. CASE FinalFailure(v)
    BY <1>28, <2>1, <2>2, <2>3, <2>4, FinalFailureTyped DEF Fail, TypeOK
  <2>5. ASSUME NEW delay \in 1..MaxDelay, MayRetry(v), UNCHANGED <<document, version>>,
               job' = [job EXCEPT ![v] = Requeued(@, delay)]
        PROVE  TypeOK'
    <3>1. job' \in [Versions -> JobRow]
      BY <2>1, <2>5, RequeuedTyped DEF MayRetry, TypeOK
    <3>2. QED
      BY <1>28, <2>2, <2>3, <2>5, <3>1 DEF Fail, TypeOK
  <2>6. QED
    BY <1>28, <2>4, <2>5 DEF Fail
<1>29. ASSUME NEW v \in Versions, RecoverExpired(v) PROVE TypeOK'
  <2>1. CASE FinalFailure(v)
    BY <1>29, <2>1, FinalFailureTyped DEF RecoverExpired, TypeOK
  <2>2. ASSUME NEW delay \in 1..MaxDelay, MayRetry(v), UNCHANGED document,
               job' = [job EXCEPT ![v] = Requeued(@, delay)],
               version' = [version EXCEPT ![v] = Rewound(@)]
        PROVE  TypeOK'
    <3>1. job' \in [Versions -> JobRow]
      BY <2>2, RequeuedTyped DEF MayRetry, TypeOK
    <3>2. version' \in [Versions -> VersionRow]
      BY <2>2, VersionWrites DEF TypeOK
    <3>3. QED
      BY <1>29, <2>2, <3>1, <3>2 DEF RecoverExpired, TypeOK
  <2>3. QED
    BY <1>29, <2>1, <2>2 DEF RecoverExpired
<1>30. ASSUME NEW v \in Versions, ManualRetry(v) PROVE TypeOK'
  <2>1. job' \in [Versions -> JobRow]
    BY <1>30, JobWrites DEF ManualRetry, TypeOK, LiveStates
  <2>2. version' \in [Versions -> VersionRow]
    BY <1>30, VersionWrites DEF ManualRetry, TypeOK
  <2>3. document' \in [Docs -> DocumentRow]
    BY <1>30, DocumentWrites DEF ManualRetry, TypeOK, Versions, DocumentStates
  <2>4. QED
    BY <1>30, <2>1, <2>2, <2>3 DEF ManualRetry, TypeOK
<1>31. ASSUME NEW d \in Docs, Upload(d) PROVE TypeOK'
  <2>1. <<d, 1>> \in Versions /\ 1 \in 0..MaxVersions
    BY DEF Versions, ConstantsAssumption
  <2>2. document' \in [Docs -> DocumentRow]
    BY <1>31, <2>1, DocumentWrites DEF Upload, TypeOK
  <2>3. QED
    BY <1>31, <2>1, <2>2, NewVersionTyped DEF Upload
<1>32. ASSUME NEW d \in Docs, AddVersion(d) PROVE TypeOK'
  <2> DEFINE n == document[d].latest + 1
  <2>1. n \in 1..MaxVersions /\ n \in 0..MaxVersions
    BY <1>32 DEF AddVersion, TypeOK, DocumentRow, ConstantsAssumption
  <2>2. <<d, n>> \in Versions
    BY <2>1 DEF Versions
  <2>3. document' \in [Docs -> DocumentRow]
    <3>1. (IF document[d].status = "FAILED" THEN "UPLOADED" ELSE document[d].status)
             \in DocumentStates
      BY DocumentWrites DEF TypeOK, DocumentStates
    <3>2. Extended(document[d], n) \in DocumentRow
      BY <2>1, <3>1, DocumentWrites DEF Extended, TypeOK
    <3>3. QED
      BY <1>32, <3>2 DEF AddVersion, TypeOK
  <2>4. QED
    BY <1>32, <2>2, <2>3, NewVersionTyped DEF AddVersion
<1>33. ASSUME NEW d \in Docs, Delete(d) PROVE TypeOK'
  BY <1>33, DocumentWrites DEF Delete, TypeOK, DocumentStates
<1>34. ASSUME NEW d \in Docs, DispatchDeleted(d) PROVE TypeOK'
  BY <1>34, VersionWrites DEF DispatchDeleted, TypeOK
<1>35. QED
  BY <1>1, <1>2, <1>3, <1>4, <1>5, <1>6, <1>7, <1>8, <1>9, <1>10, <1>11, <1>12, <1>13, <1>14, <1>15, <1>16, <1>17, <1>18, <1>19, <1>20, <1>21, <1>22, <1>23, <1>24, <1>25, <1>26, <1>27, <1>28, <1>29, <1>30, <1>31, <1>32, <1>33, <1>34
     DEF Next, SlotStep, ClaimStep, ExecuteStep, RenewStep, WorkerStep, DocumentStep

\* Every reachable state of the ledger, the workers and the slots is typed, in
\* particular retry_count never exceeds max_retries and a slot that executes a
\* claim always has the job and the token of one.
THEOREM TypeCorrect == Spec => []TypeOK
<1>1. Init => TypeOK
  BY InitTyped
<1>2. TypeOK /\ [Next]_vars => TypeOK'
  BY StepTyped
<1>3. QED
  BY <1>1, <1>2, PTL DEF Spec

-----------------------------------------------------------------------------
(* The life of a version. *)

RowsInv == JobMatchesVersion /\ LiveIsLatest /\ VersionsNumbered

\* A step keeps the rows of v in agreement: statuses stay or stay live.
StatusKept(v) ==
    /\ \/ job'[v].status = job[v].status
       \/ job[v].status \in LiveStates /\ job'[v].status \in LiveStates
    /\ \/ version'[v].status = version[v].status
       \/ version[v].status \in ActiveStates /\ version'[v].status \in ActiveStates

NumberingKept(d) ==
    /\ document'[d].latest = document[d].latest
    /\ document'[d].status = "NONE" => document[d].status = "NONE"

LEMMA KeptRows ==
    ASSUME RowsInv,
           \A v \in Versions : StatusKept(v), \A d \in Docs : NumberingKept(d)
    PROVE  RowsInv'
<1> USE DEF RowsInv, StatusKept, NumberingKept
<1>0. \A v \in Versions : v[1] \in Docs
  BY DEF Versions
<1>1. JobMatchesVersion'
  BY DEF JobMatchesVersion, LiveStates, ActiveStates
<1>2. LiveIsLatest'
  BY <1>0 DEF LiveIsLatest, LiveStates
<1>3. VersionsNumbered'
  BY <1>0 DEF VersionsNumbered, ActiveStates
<1>4. QED
  BY <1>1, <1>2, <1>3

\* A live version comes to its end.
LEMMA SettledRows ==
    ASSUME RowsInv, NEW v \in Versions, job[v].status \in LiveStates,
           job'[v].status = version'[v].status, job'[v].status \in {"INDEXED", "FAILED"},
           \A u \in Versions \ {v} : StatusKept(u), \A d \in Docs : NumberingKept(d)
    PROVE  RowsInv'
<1> USE DEF RowsInv, StatusKept, NumberingKept
<1>0. \A u \in Versions : u[1] \in Docs
  BY DEF Versions
<1>1. JobMatchesVersion'
  BY DEF JobMatchesVersion, LiveStates, ActiveStates
<1>2. LiveIsLatest'
  BY <1>0 DEF LiveIsLatest, LiveStates
<1>3. VersionsNumbered'
  BY <1>0 DEF VersionsNumbered, ActiveStates, JobMatchesVersion, LiveStates
<1>4. QED
  BY <1>1, <1>2, <1>3

\* The latest version is taken up again.
LEMMA RestartedRows ==
    ASSUME RowsInv, NEW v \in Versions, job[v].status = "FAILED",
           document[v[1]].latest = v[2],
           job'[v].status \in LiveStates, version'[v].status \in ActiveStates,
           \A u \in Versions \ {v} : StatusKept(u), \A d \in Docs : NumberingKept(d)
    PROVE  RowsInv'
<1> USE DEF RowsInv, StatusKept, NumberingKept
<1>0. \A u \in Versions : u[1] \in Docs
  BY DEF Versions
<1>1. JobMatchesVersion'
  BY DEF JobMatchesVersion, LiveStates, ActiveStates
<1>2. LiveIsLatest'
  BY <1>0 DEF LiveIsLatest, LiveStates
<1>3. VersionsNumbered'
  BY <1>0 DEF VersionsNumbered, ActiveStates, JobMatchesVersion, LiveStates
<1>4. QED
  BY <1>1, <1>2, <1>3

\* A document gets its next version while none of its versions is live.
LEMMA ExtendedRows ==
    ASSUME RowsInv, NEW d \in Docs, NEW n \in 1..MaxVersions,
           document[d].latest \in Nat, n = document[d].latest + 1,
           \A m \in 1..MaxVersions : job[<<d, m>>].status \notin LiveStates,
           job'[<<d, n>>].status \in LiveStates, version'[<<d, n>>].status \in ActiveStates,
           \A u \in Versions \ {<<d, n>>} : StatusKept(u),
           document'[d].latest = n, document'[d].status # "NONE",
           \A c \in Docs \ {d} : NumberingKept(c)
    PROVE  RowsInv'
<1> USE DEF RowsInv, StatusKept, NumberingKept
<1>0. /\ \A u \in Versions : u[1] \in Docs /\ u[2] \in 1..MaxVersions /\ u = <<u[1], u[2]>>
      /\ <<d, n>> \in Versions
  BY DEF Versions
<1>1. JobMatchesVersion'
  BY <1>0 DEF JobMatchesVersion, LiveStates, ActiveStates
<1>2. LiveIsLatest'
  <2>1. ASSUME NEW u \in Versions, job'[u].status \in LiveStates
        PROVE  document'[u[1]].latest = u[2]
    <3>1. CASE u = <<d, n>>
      BY <3>1
    <3>2. CASE u # <<d, n>>
      <4>1. job[u].status \in LiveStates
        BY <2>1, <3>2 DEF LiveStates
      <4>2. u[1] # d
        BY <4>1, <1>0
      <4>3. QED
        BY <4>1, <4>2, <1>0 DEF LiveIsLatest
    <3>3. QED
      BY <3>1, <3>2
  <2>2. QED
    BY <2>1 DEF LiveIsLatest
<1>3. VersionsNumbered'
  <2>1. ASSUME NEW u \in Versions
        PROVE  (version'[u].status = "NONE") <=> (u[2] > document'[u[1]].latest)
    <3>1. CASE u = <<d, n>>
      BY <3>1 DEF ActiveStates
    <3>2. CASE u # <<d, n>>
      <4>1. (version'[u].status = "NONE") <=> (version[u].status = "NONE")
        BY <3>2 DEF ActiveStates
      <4>2. (version[u].status = "NONE") <=> (u[2] > document[u[1]].latest)
        BY DEF VersionsNumbered
      <4>3. CASE u[1] = d
        <5>1. u[2] # n
          BY <3>2, <4>3, <1>0
        <5>2. QED
          BY <4>1, <4>2, <4>3, <5>1, <1>0
      <4>4. CASE u[1] # d
        BY <4>1, <4>2, <4>4, <1>0
      <4>5. QED
        BY <4>3, <4>4
    <3>3. QED
      BY <3>1, <3>2
  <2>2. \A c \in Docs : document'[c].status = "NONE" => document'[c].latest = 0
    BY DEF VersionsNumbered
  <2>3. QED
    BY <2>1, <2>2 DEF VersionsNumbered
<1>4. QED
  BY <1>1, <1>2, <1>3

-----------------------------------------------------------------------------
(* What the operations do to the rows. *)

LEMMA LedgerKept ==
    ASSUME UNCHANGED <<document, version>>,
           \A v \in Versions : job'[v].status = job[v].status
    PROVE  (\A v \in Versions : StatusKept(v)) /\ (\A d \in Docs : NumberingKept(d))
  BY DEF StatusKept, NumberingKept

LEMMA FinalFailureRows ==
    ASSUME TypeOK, NEW v \in Versions, FinalFailure(v)
    PROVE  /\ job'[v].status = "FAILED" /\ version'[v].status = "FAILED"
           /\ \A u \in Versions \ {v} : StatusKept(u)
           /\ \A d \in Docs : NumberingKept(d)
<1>1. job'[v].status = "FAILED" /\ version'[v].status = "FAILED"
  BY DEF FinalFailure, Released, Staled, TypeOK, JobRow, VersionRow
<1>2. \A u \in Versions \ {v} : StatusKept(u)
  BY DEF FinalFailure, StatusKept, TypeOK
<1>3. \A d \in Docs : NumberingKept(d)
  BY DEF FinalFailure, NumberingKept, TypeOK, DocumentRow
<1>4. QED
  BY <1>1, <1>2, <1>3

LEMMA NewVersionRows ==
    ASSUME TypeOK, NEW v \in Versions, NewVersion(v)
    PROVE  /\ job'[v].status \in LiveStates /\ version'[v].status \in ActiveStates
           /\ \A u \in Versions \ {v} : StatusKept(u)
<1>1. job'[v].status \in LiveStates /\ version'[v].status \in ActiveStates
  BY DEF NewVersion, TypeOK, JobRow, VersionRow, LiveStates, ActiveStates
<1>2. \A u \in Versions \ {v} : StatusKept(u)
  BY DEF NewVersion, StatusKept, TypeOK
<1>3. QED
  BY <1>1, <1>2

\* An owner works on a job that is being processed, so on an active version.
LEMMA OwnedIsLive ==
    ASSUME TypeOK, RowsInv, NEW s \in Slots, slot[s].pc \in Busy, Owns(s)
    PROVE  /\ slot[s].ver \in Versions
           /\ job[slot[s].ver].status = "PROCESSING"
           /\ version[slot[s].ver].status \in ActiveStates
<1>1. slot[s].ver \in Versions
  BY SlotShape DEF Busy
<1>2. QED
  BY <1>1 DEF Owns, RowsInv, JobMatchesVersion, LiveStates

LEMMA RowsStep ==
    ASSUME TypeOK, RowsInv, LocksHeld, [Next]_vars
    PROVE  RowsInv'
<1>1. CASE UNCHANGED vars
  BY <1>1, LedgerKept, KeptRows DEF vars
<1>2. CASE Tick
  <2>1. ASSUME NEW v \in Versions PROVE job'[v].status = job[v].status
    <3>1. job'[v] = [job[v] EXCEPT !.lease = Elapsed(@), !.due = Elapsed(@)]
      BY <1>2 DEF Tick
    <3>2. QED
      BY <3>1 DEF TypeOK, JobRow
  <2>2. QED
    BY <1>2, <2>1, LedgerKept, KeptRows DEF Tick
<1>3. ASSUME NEW w \in Workers, RegisterWorker(w) PROVE RowsInv'
  BY <1>3, LedgerKept, KeptRows DEF RegisterWorker, ledger
<1>4. ASSUME NEW w \in Workers, Heartbeat(w) PROVE RowsInv'
  BY <1>4, LedgerKept, KeptRows DEF Heartbeat, ledger
<1>5. ASSUME NEW w \in Workers, StopWorker(w) PROVE RowsInv'
  BY <1>5, LedgerKept, KeptRows DEF StopWorker, ledger
<1>6. ASSUME NEW w \in Workers, Crash(w) PROVE RowsInv'
  BY <1>6, LedgerKept, KeptRows DEF Crash, ledger
<1>7. ASSUME NEW w \in Workers, MarkDead(w) PROVE RowsInv'
  BY <1>7, LedgerKept, KeptRows DEF MarkDead, ledger
<1>8. ASSUME NEW s \in Slots, NEW v \in Versions, LockNextPendingJob(s, v) PROVE RowsInv'
  BY <1>8, LedgerKept, KeptRows DEF LockNextPendingJob, ledger
<1>9. ASSUME NEW s \in Slots, ClaimRolledBack(s) PROVE RowsInv'
  BY <1>9, LedgerKept, KeptRows DEF ClaimRolledBack, ledger
<1>10. ASSUME NEW s \in Slots, RenewRejected(s) PROVE RowsInv'
  BY <1>10, LedgerKept, KeptRows DEF RenewRejected, ledger
<1>11. ASSUME NEW s \in Slots, StartRejected(s) PROVE RowsInv'
  BY <1>11, LedgerKept, KeptRows DEF StartRejected, ledger
<1>12. ASSUME NEW s \in Slots, ChunksReplayed(s) PROVE RowsInv'
  BY <1>12, LedgerKept, KeptRows DEF ChunksReplayed, ledger
<1>13. ASSUME NEW s \in Slots, FailRejected(s) PROVE RowsInv'
  BY <1>13, LedgerKept, KeptRows DEF FailRejected, ledger
<1>14. ASSUME NEW s \in Slots, Withdraw(s) PROVE RowsInv'
  BY <1>14, LedgerKept, KeptRows DEF Withdraw, ledger
<1>15. ASSUME NEW s \in Slots, CallFails(s) PROVE RowsInv'
  BY <1>15, LedgerKept, KeptRows DEF CallFails, ledger
<1>16. ASSUME NEW s \in Slots, ChunksRejected(s) PROVE RowsInv'
  BY <1>16, LedgerKept, KeptRows DEF ChunksRejected, Raised, ledger
<1>17. ASSUME NEW s \in Slots, EmbeddingsRejected(s) PROVE RowsInv'
  BY <1>17, LedgerKept, KeptRows DEF EmbeddingsRejected, Raised, ledger
<1>18. ASSUME NEW s \in Slots, CompleteRejected(s) PROVE RowsInv'
  BY <1>18, LedgerKept, KeptRows DEF CompleteRejected, Raised, ledger
<1>19. ASSUME NEW s \in Slots, StartAttempt(s) PROVE RowsInv'
  BY <1>19, LedgerKept, KeptRows DEF StartAttempt
<1>20. ASSUME NEW s \in Slots, Renew(s) PROVE RowsInv'
  <2>1. \A v \in Versions : job'[v].status = job[v].status
    BY <1>20 DEF Renew, TypeOK, JobRow
  <2>2. QED
    BY <1>20, <2>1, LedgerKept, KeptRows DEF Renew
<1>21. ASSUME NEW s \in Slots, Claim(s) PROVE RowsInv'
  <2>1. slot[s].ver \in Versions /\ job[slot[s].ver].status = "PENDING"
    BY <1>21, SlotShape DEF Claim, LocksHeld
  <2>2. \A v \in Versions : StatusKept(v)
    BY <1>21, <2>1 DEF Claim, StatusKept, TypeOK, JobRow, LiveStates
  <2>3. \A d \in Docs : NumberingKept(d)
    BY <1>21 DEF Claim, NumberingKept, TypeOK, DocumentRow
  <2>4. QED
    BY <2>2, <2>3, KeptRows
<1>22. ASSUME NEW s \in Slots, ParseStarted(s) PROVE RowsInv'
  <2>1. slot[s].pc \in Busy /\ Owns(s)
    BY <1>22 DEF ParseStarted, MayParse, OwnsAttempt, Busy
  <2>2. \A v \in Versions : StatusKept(v)
    BY <1>22, <2>1, OwnedIsLive DEF ParseStarted, StatusKept, TypeOK, VersionRow, ActiveStates
  <2>3. \A d \in Docs : NumberingKept(d)
    BY <1>22 DEF ParseStarted, NumberingKept
  <2>4. QED
    BY <2>2, <2>3, KeptRows
<1>23. ASSUME NEW s \in Slots, ChunksSaved(s) PROVE RowsInv'
  <2>1. slot[s].pc \in Busy /\ Owns(s)
    BY <1>23 DEF ChunksSaved, MayChunk, OwnsAttempt, Busy
  <2>2. \A v \in Versions : StatusKept(v)
    BY <1>23, <2>1, OwnedIsLive DEF ChunksSaved, StatusKept, TypeOK, VersionRow, ActiveStates
  <2>3. \A d \in Docs : NumberingKept(d)
    BY <1>23 DEF ChunksSaved, NumberingKept
  <2>4. QED
    BY <2>2, <2>3, KeptRows
<1>24. ASSUME NEW s \in Slots, VectorsReused(s) PROVE RowsInv'
  <2>1. slot[s].pc \in Busy /\ Owns(s)
    BY <1>24 DEF VectorsReused, MayReuseVectors, Reactivated, OwnsAttempt, Busy
  <2>2. \A v \in Versions : StatusKept(v)
    BY <1>24, <2>1, OwnedIsLive DEF VectorsReused, Reactivated, StatusKept, TypeOK, VersionRow, ActiveStates
  <2>3. \A d \in Docs : NumberingKept(d)
    BY <1>24 DEF VectorsReused, NumberingKept
  <2>4. QED
    BY <2>2, <2>3, KeptRows
<1>25. ASSUME NEW s \in Slots, EmbeddingStarted(s) PROVE RowsInv'
  <2>1. slot[s].pc \in Busy /\ Owns(s)
    BY <1>25 DEF EmbeddingStarted, MayEmbed, OwnsAttempt, Busy
  <2>2. \A v \in Versions : StatusKept(v)
    BY <1>25, <2>1, OwnedIsLive DEF EmbeddingStarted, StatusKept, TypeOK, VersionRow, ActiveStates
  <2>3. \A d \in Docs : NumberingKept(d)
    BY <1>25 DEF EmbeddingStarted, NumberingKept
  <2>4. QED
    BY <2>2, <2>3, KeptRows
<1>26. ASSUME NEW s \in Slots, VectorsInserted(s) PROVE RowsInv'
  <2>1. slot[s].pc \in Busy /\ Owns(s)
    BY <1>26 DEF VectorsInserted, OwnsAttempt, Busy
  <2>2. \A v \in Versions : StatusKept(v)
    BY <1>26, <2>1, OwnedIsLive DEF VectorsInserted, StatusKept, TypeOK, VersionRow, ActiveStates
  <2>3. \A d \in Docs : NumberingKept(d)
    BY <1>26 DEF VectorsInserted, NumberingKept
  <2>4. QED
    BY <2>2, <2>3, KeptRows
<1>27. ASSUME NEW s \in Slots, Complete(s) PROVE RowsInv'
  <2> DEFINE v == slot[s].ver
  <2>1. slot[s].pc \in Busy /\ Owns(s)
    BY <1>27 DEF Complete, MayComplete, OwnsAttempt, Busy
  <2>2. v \in Versions /\ job[v].status \in LiveStates
    BY <2>1, OwnedIsLive DEF LiveStates
  <2>3. job'[v].status = "INDEXED" /\ version'[v].status = "INDEXED"
    BY <1>27, <2>2 DEF Complete, TypeOK, JobRow, VersionRow
  <2>4. \A u \in Versions \ {v} : StatusKept(u)
    BY <1>27 DEF Complete, StatusKept, Staled, TypeOK, VersionRow
  <2>5. \A d \in Docs : NumberingKept(d)
    BY <1>27 DEF Complete, NumberingKept, TypeOK, DocumentRow
  <2>6. QED
    BY <2>2, <2>3, <2>4, <2>5, SettledRows
<1>28. ASSUME NEW s \in Slots, NEW retryable \in Reports, Fail(s, retryable) PROVE RowsInv'
  <2> DEFINE v == slot[s].ver
  <2>1. slot[s].pc \in Busy /\ Owns(s)
    BY <1>28 DEF Fail, MayFail, OwnsAttempt, Busy
  <2>2. v \in Versions /\ job[v].status = "PROCESSING"
    BY <2>1, OwnedIsLive
  <2>3. CASE FinalFailure(v)
    BY <2>2, <2>3, FinalFailureRows, SettledRows DEF LiveStates
  <2>4. ASSUME NEW delay \in 1..MaxDelay, UNCHANGED <<document, version>>,
               job' = [job EXCEPT ![v] = Requeued(@, delay)]
        PROVE  RowsInv'
    <3>1. \A u \in Versions : StatusKept(u)
      BY <2>2, <2>4 DEF StatusKept, Requeued, Released, TypeOK, JobRow, LiveStates
    <3>2. \A d \in Docs : NumberingKept(d)
      BY <2>4 DEF NumberingKept
    <3>3. QED
      BY <3>1, <3>2, KeptRows
  <2>5. QED
    BY <1>28, <2>3, <2>4 DEF Fail
<1>29. ASSUME NEW v \in Versions, RecoverExpired(v) PROVE RowsInv'
  <2>1. job[v].status = "PROCESSING" /\ version[v].status \in ActiveStates
    BY <1>29 DEF RecoverExpired, RowsInv, JobMatchesVersion, LiveStates
  <2>2. CASE FinalFailure(v)
    BY <2>1, <2>2, FinalFailureRows, SettledRows DEF LiveStates
  <2>3. ASSUME NEW delay \in 1..MaxDelay, UNCHANGED document,
               job' = [job EXCEPT ![v] = Requeued(@, delay)],
               version' = [version EXCEPT ![v] = Rewound(@)]
        PROVE  RowsInv'
    <3>1. \A u \in Versions : StatusKept(u)
      BY <2>1, <2>3 DEF StatusKept, Requeued, Released, Rewound, TypeOK, JobRow,
                        VersionRow, LiveStates, ActiveStates
    <3>2. \A d \in Docs : NumberingKept(d)
      BY <2>3 DEF NumberingKept
    <3>3. QED
      BY <3>1, <3>2, KeptRows
  <2>4. QED
    BY <1>29, <2>2, <2>3 DEF RecoverExpired
<1>30. ASSUME NEW v \in Versions, ManualRetry(v) PROVE RowsInv'
  <2>1. job[v].status = "FAILED" /\ document[v[1]].latest = v[2]
    BY <1>30 DEF ManualRetry, MayRestart, Committable
  <2>2. job'[v].status \in LiveStates /\ version'[v].status \in ActiveStates
    BY <1>30 DEF ManualRetry, Released, Rewound, TypeOK, JobRow, VersionRow, LiveStates,
                ActiveStates
  <2>3. \A u \in Versions \ {v} : StatusKept(u)
    BY <1>30 DEF ManualRetry, StatusKept, TypeOK
  <2>4. \A d \in Docs : NumberingKept(d)
    BY <1>30 DEF ManualRetry, NumberingKept, TypeOK, DocumentRow
  <2>5. QED
    BY <2>1, <2>2, <2>3, <2>4, RestartedRows
<1>31. ASSUME NEW d \in Docs, Upload(d) PROVE RowsInv'
  <2> DEFINE n == 1
  <2>1. /\ n \in 1..MaxVersions /\ n = document[d].latest + 1
        /\ document[d].latest \in Nat /\ <<d, n>> \in Versions
    BY <1>31 DEF Upload, RowsInv, VersionsNumbered, TypeOK, DocumentRow, Versions, ConstantsAssumption
  <2>2. \A m \in 1..MaxVersions : job[<<d, m>>].status \notin LiveStates
    <3>1. \A m \in 1..MaxVersions : <<d, m>> \in Versions /\ m > document[d].latest
      BY <2>1 DEF Versions
    <3>2. \A m \in 1..MaxVersions : version[<<d, m>>].status = "NONE"
      BY <3>1 DEF RowsInv, VersionsNumbered
    <3>3. QED
      BY <3>1, <3>2 DEF RowsInv, JobMatchesVersion, ActiveStates
  <2>3. /\ job'[<<d, n>>].status \in LiveStates /\ version'[<<d, n>>].status \in ActiveStates
        /\ \A u \in Versions \ {<<d, n>>} : StatusKept(u)
    BY <1>31, <2>1, NewVersionRows DEF Upload
  <2>4. document'[d].latest = n /\ document'[d].status # "NONE"
    BY <1>31, <2>1 DEF Upload, TypeOK, DocumentRow
  <2>5. \A c \in Docs \ {d} : NumberingKept(c)
    BY <1>31 DEF Upload, NumberingKept, TypeOK
  <2> HIDE DEF n
  <2>6. QED
    BY <2>1, <2>2, <2>3, <2>4, <2>5, ExtendedRows
<1>32. ASSUME NEW d \in Docs, AddVersion(d) PROVE RowsInv'
  <2> DEFINE n == document[d].latest + 1
  <2>1. /\ n \in 1..MaxVersions /\ n = document[d].latest + 1
        /\ document[d].latest \in Nat /\ <<d, n>> \in Versions
    BY <1>32 DEF AddVersion, RowsInv, VersionsNumbered, TypeOK, DocumentRow, Versions, ConstantsAssumption
  <2>2. \A m \in 1..MaxVersions : job[<<d, m>>].status \notin LiveStates
    BY <1>32 DEF AddVersion, MayAddVersion, RowsInv, JobMatchesVersion, Versions
  <2>3. /\ job'[<<d, n>>].status \in LiveStates /\ version'[<<d, n>>].status \in ActiveStates
        /\ \A u \in Versions \ {<<d, n>>} : StatusKept(u)
    BY <1>32, <2>1, NewVersionRows DEF AddVersion
  <2>4. document'[d].latest = n /\ document'[d].status # "NONE"
    BY <1>32, <2>1 DEF AddVersion, Extended, MayAddVersion, TypeOK, DocumentRow
  <2>5. \A c \in Docs \ {d} : NumberingKept(c)
    BY <1>32 DEF AddVersion, NumberingKept, TypeOK
  <2> HIDE DEF n
  <2>6. QED
    BY <2>1, <2>2, <2>3, <2>4, <2>5, ExtendedRows
<1>33. ASSUME NEW d \in Docs, Delete(d) PROVE RowsInv'
  <2>1. \A v \in Versions : StatusKept(v)
    BY <1>33 DEF Delete, StatusKept
  <2>2. \A c \in Docs : NumberingKept(c)
    BY <1>33 DEF Delete, NumberingKept, TypeOK, DocumentRow
  <2>3. QED
    BY <2>1, <2>2, KeptRows
<1>34. ASSUME NEW d \in Docs, DispatchDeleted(d) PROVE RowsInv'
  <2>1. \A v \in Versions : StatusKept(v)
    BY <1>34 DEF DispatchDeleted, StatusKept, Staled, TypeOK, VersionRow
  <2>2. \A c \in Docs : NumberingKept(c)
    BY <1>34 DEF DispatchDeleted, NumberingKept
  <2>3. QED
    BY <2>1, <2>2, KeptRows
<1>35. QED
  BY <1>1, <1>2, <1>3, <1>4, <1>5, <1>6, <1>7, <1>8, <1>9, <1>10, <1>11, <1>12,
     <1>13, <1>14, <1>15, <1>16, <1>17, <1>18, <1>19, <1>20, <1>21, <1>22,
     <1>23, <1>24, <1>25, <1>26, <1>27, <1>28, <1>29, <1>30, <1>31, <1>32,
     <1>33, <1>34
     DEF Next, SlotStep, ClaimStep, ExecuteStep, RenewStep, WorkerStep, DocumentStep

-----------------------------------------------------------------------------
(* The row lock of claim. *)

\* No slot takes a lock, and no job stops being PENDING.
LocksKept ==
    /\ \A s \in Slots : slot'[s].pc = "locked" =>
          slot[s].pc = "locked" /\ slot'[s].ver = slot[s].ver
    /\ \A v \in Versions : job[v].status = "PENDING" => job'[v].status = "PENDING"

LEMMA KeptLocks ==
    ASSUME TypeOK, LocksHeld, LocksKept
    PROVE  LocksHeld'
<1>1. ASSUME NEW s \in Slots, slot'[s].pc = "locked"
      PROVE  /\ slot[s].pc = "locked" /\ slot'[s].ver = slot[s].ver
             /\ job'[slot'[s].ver].status = "PENDING"
  <2>1. slot[s].pc = "locked" /\ slot'[s].ver = slot[s].ver
    BY <1>1 DEF LocksKept
  <2>2. slot[s].ver \in Versions /\ job[slot[s].ver].status = "PENDING"
    BY <1>1, <2>1, SlotShape DEF LocksHeld
  <2>3. QED
    BY <1>1, <2>1, <2>2 DEF LocksKept
<1>2. QED
  BY <1>1 DEF LocksHeld

\* A slot that becomes idle or executes a claim holds no lock.
LEMMA SlotLocks ==
    ASSUME TypeOK, NEW s \in Slots, NEW pc \in Busy
    PROVE  /\ slot' = [slot EXCEPT ![s] = IdleSlot] =>
                 \A r \in Slots : slot'[r].pc = "locked" => slot'[r] = slot[r]
           /\ slot' = [slot EXCEPT ![s].pc = pc] =>
                 \A r \in Slots : slot'[r].pc = "locked" => slot'[r] = slot[r]
           /\ slot' = [slot EXCEPT ![s].interrupted = TRUE] /\ slot[s].pc \in Busy =>
                 \A r \in Slots : slot'[r].pc = "locked" => slot'[r] = slot[r]
<1>1. \A r \in Slots : slot[r] \in SlotRow
  BY DEF TypeOK
<1>2. slot \in [Slots -> SlotRow] /\ IdleSlot.pc # "locked" /\ pc # "locked"
  BY DEF TypeOK, IdleSlot, Busy
<1>3. slot' = [slot EXCEPT ![s] = IdleSlot] =>
         \A r \in Slots : slot'[r].pc = "locked" => slot'[r] = slot[r]
  BY <1>2
<1>4. slot' = [slot EXCEPT ![s].pc = pc] =>
         \A r \in Slots : slot'[r].pc = "locked" => slot'[r] = slot[r]
  BY <1>1, <1>2 DEF SlotRow, IdleSlot, LockedSlot, BusySlot
<1>5. slot' = [slot EXCEPT ![s].interrupted = TRUE] /\ slot[s].pc \in Busy =>
         \A r \in Slots : slot'[r].pc = "locked" => slot'[r] = slot[r]
  BY <1>1, <1>2 DEF SlotRow, IdleSlot, LockedSlot, BusySlot, Busy
<1>6. QED
  BY <1>3, <1>4, <1>5

LEMMA AnsweredLocks ==
    ASSUME TypeOK, NEW s \in Slots, NEW next \in Busy, Answered(s, next),
           \A v \in Versions : job[v].status = "PENDING" => job'[v].status = "PENDING"
    PROVE  LocksKept
  BY SlotLocks, "report" \in Busy DEF Answered, LocksKept, Busy

LEMMA FinalFailureLocks ==
    ASSUME TypeOK, NEW v \in Versions, job[v].status = "PROCESSING", FinalFailure(v)
    PROVE  \A u \in Versions : job[u].status = "PENDING" => job'[u].status = "PENDING"
  BY DEF FinalFailure, TypeOK

LEMMA LocksStep ==
    ASSUME TypeOK, RowsInv, LocksHeld, [Next]_vars
    PROVE  LocksHeld'
<1>1. CASE UNCHANGED vars
  BY <1>1, KeptLocks DEF vars, LocksKept
<1>2. CASE Tick
  <2>1. ASSUME NEW v \in Versions PROVE job'[v].status = job[v].status
    <3>1. job'[v] = [job[v] EXCEPT !.lease = Elapsed(@), !.due = Elapsed(@)]
      BY <1>2 DEF Tick
    <3>2. QED
      BY <3>1 DEF TypeOK, JobRow
  <2>2. ASSUME NEW s \in Slots
        PROVE  slot'[s].pc = slot[s].pc /\ slot'[s].ver = slot[s].ver
    <3>1. slot'[s] = [slot[s] EXCEPT !.lease = Elapsed(@)] /\ slot[s] \in SlotRow
      BY <1>2 DEF Tick, TypeOK
    <3>2. QED
      BY <3>1 DEF SlotRow, IdleSlot, LockedSlot, BusySlot
  <2>3. QED
    BY <2>1, <2>2, KeptLocks DEF LocksKept
<1>3. ASSUME NEW w \in Workers, RegisterWorker(w) PROVE LocksHeld'
  BY <1>3, KeptLocks DEF RegisterWorker, ledger, LocksKept
<1>4. ASSUME NEW w \in Workers, Heartbeat(w) PROVE LocksHeld'
  BY <1>4, KeptLocks DEF Heartbeat, ledger, LocksKept
<1>5. ASSUME NEW w \in Workers, MarkDead(w) PROVE LocksHeld'
  BY <1>5, KeptLocks DEF MarkDead, ledger, LocksKept
<1>6. ASSUME NEW w \in Workers, Crash(w) PROVE LocksHeld'
  BY <1>6, KeptLocks DEF Crash, ledger, IdleSlot, LocksKept
<1>7. ASSUME NEW w \in Workers, StopWorker(w) PROVE LocksHeld'
  <2>1. \A s \in Slots : slot'[s].pc = "locked" => slot'[s] = slot[s]
    <3>1. ASSUME NEW s \in Slots, slot'[s] = [slot[s] EXCEPT !.interrupted = TRUE],
                 slot[s] \in BusySlot
          PROVE  slot'[s].pc # "locked"
      BY <3>1 DEF BusySlot, Busy
    <3>2. QED
      BY <1>7, <3>1, SlotShape DEF StopWorker
  <2>2. QED
    BY <1>7, <2>1, KeptLocks DEF StopWorker, ledger, LocksKept
<1>8. ASSUME NEW s \in Slots, NEW v \in Versions, LockNextPendingJob(s, v) PROVE LocksHeld'
  <2>1. slot'[s].pc = "locked" /\ slot'[s].ver = v /\ job[v].status = "PENDING"
    BY <1>8 DEF LockNextPendingJob, Claimable, TypeOK, IdleSlot
  <2>2. \A r \in Slots \ {s} : slot'[r] = slot[r] /\ (slot[r].pc = "locked" => slot[r].ver # v)
    BY <1>8 DEF LockNextPendingJob, Claimable, TypeOK
  <2>3. UNCHANGED job
    BY <1>8 DEF LockNextPendingJob, ledger
  <2>4. QED
    BY <2>1, <2>2, <2>3 DEF LocksHeld
<1>9. ASSUME NEW s \in Slots, ClaimRolledBack(s) PROVE LocksHeld'
  BY <1>9, KeptLocks, SlotLocks, "start" \in Busy DEF ClaimRolledBack, ledger, LocksKept, Busy
<1>10. ASSUME NEW s \in Slots, StartRejected(s) PROVE LocksHeld'
  BY <1>10, KeptLocks, SlotLocks, "start" \in Busy DEF StartRejected, ledger, LocksKept, Busy
<1>11. ASSUME NEW s \in Slots, FailRejected(s) PROVE LocksHeld'
  BY <1>11, KeptLocks, SlotLocks, "start" \in Busy DEF FailRejected, ledger, LocksKept, Busy
<1>12. ASSUME NEW s \in Slots, Withdraw(s) PROVE LocksHeld'
  BY <1>12, KeptLocks, SlotLocks, "start" \in Busy DEF Withdraw, ledger, LocksKept, Busy
<1>13. ASSUME NEW s \in Slots, RenewRejected(s) PROVE LocksHeld'
  BY <1>13, KeptLocks, SlotLocks, "start" \in Busy DEF RenewRejected, ledger, LocksKept, Busy
<1>14. ASSUME NEW s \in Slots, ChunksRejected(s) PROVE LocksHeld'
  BY <1>14, KeptLocks, SlotLocks, "report" \in Busy DEF ChunksRejected, Raised, ledger, LocksKept, Busy
<1>15. ASSUME NEW s \in Slots, EmbeddingsRejected(s) PROVE LocksHeld'
  BY <1>15, KeptLocks, SlotLocks, "report" \in Busy DEF EmbeddingsRejected, Raised, ledger, LocksKept, Busy
<1>16. ASSUME NEW s \in Slots, CompleteRejected(s) PROVE LocksHeld'
  BY <1>16, KeptLocks, SlotLocks, "report" \in Busy DEF CompleteRejected, Raised, ledger, LocksKept, Busy
<1>17. ASSUME NEW s \in Slots, CallFails(s) PROVE LocksHeld'
  <2>1. slot' = [slot EXCEPT ![s] = IdleSlot] \/ slot' = [slot EXCEPT ![s].pc = "report"]
    BY <1>17 DEF CallFails
  <2>2. QED
    BY <1>17, <2>1, KeptLocks, SlotLocks, "report" \in Busy DEF CallFails, ledger, LocksKept, Busy
<1>18. ASSUME NEW s \in Slots, StartAttempt(s) PROVE LocksHeld'
  BY <1>18, KeptLocks, SlotLocks, "parse" \in Busy DEF StartAttempt, LocksKept, Busy
<1>19. ASSUME NEW s \in Slots, Renew(s) PROVE LocksHeld'
  <2>1. \A v \in Versions : job[v].status = "PENDING" => job'[v].status = "PENDING"
    BY <1>19 DEF Renew, TypeOK, JobRow
  <2>2. QED
    BY <1>19, <2>1, KeptLocks DEF Renew, LocksKept
<1>20. ASSUME NEW s \in Slots, Claim(s) PROVE LocksHeld'
  <2> DEFINE v == slot[s].ver
  <2>1. v \in Versions /\ slot[s].pc = "locked"
    BY <1>20, SlotShape DEF Claim
  <2>2. \A u \in Versions \ {v} : job'[u] = job[u]
    BY <1>20 DEF Claim, TypeOK
  <2>3. slot'[s].pc # "locked"
    <3>1. slot[s] \in LockedSlot
      BY <2>1, SlotShape
    <3>2. QED
      BY <1>20, <3>1 DEF Claim, TypeOK, IdleSlot, LockedSlot
  <2>4. \A r \in Slots \ {s} : slot'[r] = slot[r]
    BY <1>20 DEF Claim, TypeOK
  <2>5. \A r \in Slots \ {s} : slot[r].pc = "locked" => slot[r].ver \in Versions \ {v}
    BY <2>1, SlotShape DEF LocksHeld
  <2>6. QED
    BY <2>2, <2>3, <2>4, <2>5 DEF LocksHeld
<1>21. ASSUME NEW s \in Slots, ParseStarted(s) PROVE LocksHeld'
  BY <1>21, AnsweredLocks, KeptLocks, "chunk" \in Busy DEF ParseStarted, Busy
<1>22. ASSUME NEW s \in Slots, ChunksSaved(s) PROVE LocksHeld'
  BY <1>22, AnsweredLocks, KeptLocks, "embed" \in Busy DEF ChunksSaved, Busy
<1>23. ASSUME NEW s \in Slots, ChunksReplayed(s) PROVE LocksHeld'
  BY <1>23, AnsweredLocks, KeptLocks, "embed" \in Busy DEF ChunksReplayed, Busy, ledger
<1>24. ASSUME NEW s \in Slots, VectorsReused(s) PROVE LocksHeld'
  BY <1>24, AnsweredLocks, KeptLocks, "finish" \in Busy DEF VectorsReused, Busy
<1>25. ASSUME NEW s \in Slots, EmbeddingStarted(s) PROVE LocksHeld'
  BY <1>25, AnsweredLocks, KeptLocks, "insert" \in Busy DEF EmbeddingStarted, Busy
<1>26. ASSUME NEW s \in Slots, VectorsInserted(s) PROVE LocksHeld'
  BY <1>26, AnsweredLocks, KeptLocks, "finish" \in Busy DEF VectorsInserted, Busy
<1>27. ASSUME NEW s \in Slots, Complete(s) PROVE LocksHeld'
  <2>1. job[slot[s].ver].status = "PROCESSING"
    BY <1>27 DEF Complete, MayComplete, OwnsAttempt, Owns
  <2>2. \A u \in Versions : job[u].status = "PENDING" => job'[u].status = "PENDING"
    BY <1>27, <2>1 DEF Complete, TypeOK
  <2>3. QED
    BY <1>27, <2>2, SlotLocks, KeptLocks, "report" \in Busy DEF Complete, LocksKept, Busy
<1>28. ASSUME NEW s \in Slots, NEW retryable \in Reports, Fail(s, retryable) PROVE LocksHeld'
  <2> DEFINE v == slot[s].ver
  <2>1. v \in Versions /\ job[v].status = "PROCESSING"
    BY <1>28, OwnedIsLive DEF Fail, MayFail, OwnsAttempt, Busy
  <2>2. ASSUME NEW delay \in 1..MaxDelay, job' = [job EXCEPT ![v] = Requeued(@, delay)]
        PROVE  \A u \in Versions : job[u].status = "PENDING" => job'[u].status = "PENDING"
    BY <2>1, <2>2 DEF TypeOK
  <2>3. \A u \in Versions : job[u].status = "PENDING" => job'[u].status = "PENDING"
    BY <1>28, <2>1, <2>2, FinalFailureLocks DEF Fail
  <2>4. QED
    BY <1>28, <2>3, SlotLocks, KeptLocks, "report" \in Busy DEF Fail, LocksKept, Busy
<1>29. ASSUME NEW v \in Versions, RecoverExpired(v) PROVE LocksHeld'
  <2>1. job[v].status = "PROCESSING"
    BY <1>29 DEF RecoverExpired
  <2>2. ASSUME NEW delay \in 1..MaxDelay, job' = [job EXCEPT ![v] = Requeued(@, delay)]
        PROVE  \A u \in Versions : job[u].status = "PENDING" => job'[u].status = "PENDING"
    BY <2>1, <2>2 DEF TypeOK
  <2>3. \A u \in Versions : job[u].status = "PENDING" => job'[u].status = "PENDING"
    BY <1>29, <2>1, <2>2, FinalFailureLocks DEF RecoverExpired
  <2>4. QED
    BY <1>29, <2>3, KeptLocks DEF RecoverExpired, LocksKept
<1>30. ASSUME NEW v \in Versions, ManualRetry(v) PROVE LocksHeld'
  <2>1. \A u \in Versions : job[u].status = "PENDING" => job'[u].status = "PENDING"
    BY <1>30 DEF ManualRetry, MayRestart, TypeOK
  <2>2. QED
    BY <1>30, <2>1, KeptLocks DEF ManualRetry, LocksKept
<1>31. ASSUME NEW d \in Docs, Upload(d) PROVE LocksHeld'
  <2>1. \A u \in Versions : job[u].status = "PENDING" => job'[u].status = "PENDING"
    BY <1>31, ZenonT(40) DEF Upload, NewVersion, TypeOK, JobRow
  <2>2. QED
    BY <1>31, <2>1, KeptLocks DEF Upload, NewVersion, LocksKept
<1>32. ASSUME NEW d \in Docs, AddVersion(d) PROVE LocksHeld'
  <2>1. \A u \in Versions : job[u].status = "PENDING" => job'[u].status = "PENDING"
    BY <1>32, ZenonT(40) DEF AddVersion, NewVersion, TypeOK, JobRow
  <2>2. QED
    BY <1>32, <2>1, KeptLocks DEF AddVersion, NewVersion, LocksKept
<1>33. ASSUME NEW d \in Docs, Delete(d) PROVE LocksHeld'
  BY <1>33, KeptLocks DEF Delete, LocksKept
<1>34. ASSUME NEW d \in Docs, DispatchDeleted(d) PROVE LocksHeld'
  BY <1>34, KeptLocks DEF DispatchDeleted, LocksKept
<1>35. QED
  BY <1>1, <1>2, <1>3, <1>4, <1>5, <1>6, <1>7, <1>8, <1>9, <1>10, <1>11, <1>12,
     <1>13, <1>14, <1>15, <1>16, <1>17, <1>18, <1>19, <1>20, <1>21, <1>22,
     <1>23, <1>24, <1>25, <1>26, <1>27, <1>28, <1>29, <1>30, <1>31, <1>32,
     <1>33, <1>34
     DEF Next, SlotStep, ClaimStep, ExecuteStep, RenewStep, WorkerStep, DocumentStep

-----------------------------------------------------------------------------
(* The theorem. *)

LEMMA InitLifecycle == Init => LifecycleInv
<1> SUFFICES ASSUME Init PROVE LifecycleInv
  OBVIOUS
<1>1. \A v \in Versions : job[v].status = "NONE" /\ version[v].status = "NONE"
  BY DEF Init
<1>2. \A v \in Versions : document[v[1]].latest = 0 /\ v[2] \in 1..MaxVersions
  BY DEF Init, Versions
<1>3. \A s \in Slots : slot[s].pc # "locked"
  BY DEF Init, IdleSlot
<1>4. JobMatchesVersion /\ LiveIsLatest
  BY <1>1 DEF JobMatchesVersion, LiveIsLatest, LiveStates, ActiveStates
<1>5. VersionsNumbered
  BY <1>1, <1>2 DEF VersionsNumbered, Init
<1>6. LocksHeld
  BY <1>3 DEF LocksHeld
<1>7. QED
  BY <1>4, <1>5, <1>6, InitTyped DEF LifecycleInv

\* The rows of a version agree, only the newest version of a document is being
\* indexed, versions are numbered without gaps and claim keeps its row lock.
THEOREM LifecycleCorrect == Spec => []LifecycleInv
<1>1. Init => LifecycleInv
  BY InitLifecycle
<1>2. LifecycleInv /\ [Next]_vars => LifecycleInv'
  BY StepTyped, RowsStep, LocksStep DEF LifecycleInv, RowsInv
<1>3. QED
  BY <1>1, <1>2, PTL DEF Spec

\* The eight transactions of four actors keep the job and the version row in step.
THEOREM JobMatchesVersionAlways == Spec => []JobMatchesVersion
  BY LifecycleCorrect, PTL DEF LifecycleInv

\* add_version, manual_retry and recovery leave at most one version of a document
\* to become current, the newest.
THEOREM LiveIsLatestAlways == Spec => []LiveIsLatest
  BY LifecycleCorrect, PTL DEF LifecycleInv

=============================================================================
