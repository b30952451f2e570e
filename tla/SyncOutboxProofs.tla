-------------------------- MODULE SyncOutboxProofs --------------------------
(***************************************************************************)
(* Theorems about SyncOutbox: types, the row lock that keeps an event with *)
(* its dispatcher until the commit, effects that happen once, retries that *)
(* are granted exactly, and the refinement of EventDelivery.               *)
(***************************************************************************)
EXTENDS SyncOutbox, FiniteSetTheorems, SequenceTheorems, TLAPS

-----------------------------------------------------------------------------
(* What the operations write into a row. *)

\* A dispatcher that is not idle has the event and the token of a claim.
LEMMA DispatcherShape ==
    ASSUME TypeOK, NEW p \in Dispatchers
    PROVE  /\ dispatcher[p].pc \in {"idle", "handling", "holding", "failing"}
           /\ dispatcher[p].pc # "idle" =>
                 /\ dispatcher[p] \in BusyDispatcher
                 /\ dispatcher[p].ev \in Events
                 /\ dispatcher[p].token \in Nat \ {0}
           /\ dispatcher[p].ev \in Events => dispatcher[p].pc # "idle"
<1>1. CASE dispatcher[p] = IdleDispatcher
  BY <1>1, OutboxAssumption DEF IdleDispatcher, OutboxAssumption
<1>2. CASE dispatcher[p] \in BusyDispatcher
  BY <1>2 DEF BusyDispatcher
<1>3. QED
  BY <1>1, <1>2 DEF TypeOK

\* Going to another step, or back to idle, keeps a dispatcher well formed.
LEMMA DispatcherGoes ==
    ASSUME TypeOK, NEW p \in Dispatchers, dispatcher[p].pc # "idle",
           NEW pc \in {"handling", "holding", "failing"}, Goes(p, pc)
    PROVE  dispatcher' \in [Dispatchers -> {IdleDispatcher} \cup BusyDispatcher]
<1>1. dispatcher[p] \in BusyDispatcher
  BY DispatcherShape
<1>2. [dispatcher[p] EXCEPT !.pc = pc] \in BusyDispatcher
  BY <1>1 DEF BusyDispatcher
<1>3. QED
  BY <1>2 DEF Goes, TypeOK

LEMMA DispatcherLeaves ==
    ASSUME TypeOK, NEW p \in Dispatchers, Leaves(p)
    PROVE  dispatcher' \in [Dispatchers -> {IdleDispatcher} \cup BusyDispatcher]
  BY DEF Leaves, TypeOK

\* A failure of an event that is not given up yet is another row of the table.
LEMMA FailureTyped ==
    ASSUME NEW row \in EventRow, row.failures <= row.limit
    PROVE  FailureOf(row) \in EventRow
<1>1. row.failures + 1 \in 1..(MaxLimit + 1) /\ row.failures + 1 \in 0..(MaxLimit + 1)
  BY OutboxAssumption DEF EventRow, OutboxAssumption
<1>2. RetryDelay(row.failures + 1) \in 1..RetryMax
  BY <1>1, DelayAssumption
<1>3. (IF Retriable(row) THEN RetryDelay(row.failures + 1) ELSE 0) \in 0..RetryMax
  BY <1>2, OutboxAssumption DEF OutboxAssumption
<1>4. QED
  BY <1>1, <1>3 DEF FailureOf, Released, EventRow

\* Ending an attempt keeps the attempt rows well formed.
LEMMA AttemptsTyped ==
    ASSUME TypeOK, NEW e \in Events, NEW status \in {"STARTED", "SUCCEEDED", "FAILED"}
    PROVE  [attempts[e] EXCEPT ![Len(attempts[e])] = status]
              \in Seq({"STARTED", "SUCCEEDED", "FAILED"})
<1> DEFINE S == {"STARTED", "SUCCEEDED", "FAILED"}
           s == attempts[e]
           r == [s EXCEPT ![Len(s)] = status]
<1>1. s \in Seq(S) /\ s \in [1..Len(s) -> S] /\ Len(s) \in Nat
  BY DEF TypeOK
<1>2. r \in [1..Len(s) -> S]
  BY <1>1
<1>3. QED
  BY <1>1, <1>2

-----------------------------------------------------------------------------
(* What a step does to one event. *)

Kept(e) ==
    /\ event'[e].status = event[e].status
    /\ event'[e].token = event[e].token
    /\ event'[e].failures = event[e].failures
    /\ event'[e].limit = event[e].limit
    /\ attempts'[e] = attempts[e]
    /\ applied'[e] = applied[e]

Published(e) ==
    /\ event[e].status = "NONE"
    /\ event'[e] = [event[e] EXCEPT !.status = "PENDING"]
    /\ attempts'[e] = attempts[e]
    /\ applied'[e] = applied[e]

Claimed(e) ==
    /\ event[e].status = "PENDING"
    /\ \E left \in 0..LeaseDuration :
          event'[e] = [event[e] EXCEPT !.status = "PROCESSING",
                                       !.token = Len(attempts[e]) + 1, !.lease = left]
    /\ attempts'[e] = Append(attempts[e], "STARTED")
    /\ applied'[e] = applied[e]

Committed(e) ==
    /\ ~RowFree(e)
    /\ event'[e] = Released([event[e] EXCEPT !.status = "PROCESSED"])
    /\ attempts'[e] = [attempts[e] EXCEPT ![Len(attempts[e])] = "SUCCEEDED"]
    /\ applied'[e] = applied[e] + 1

FailedOnce(e) ==
    /\ RowFree(e)
    /\ event[e].status = "PROCESSING"
    /\ event'[e] = FailureOf(event[e])
    /\ attempts'[e] = [attempts[e] EXCEPT ![Len(attempts[e])] = "FAILED"]
    /\ applied'[e] = applied[e]

Regranted(e) ==
    /\ event[e].status = "FAILED" /\ event[e].limit < MaxLimit
    /\ event'[e] = Regrant(event[e])
    /\ attempts'[e] = attempts[e]
    /\ applied'[e] = applied[e]

\* A step of the event other than the passing of time.
Stepped(e) ==
    Published(e) \/ Claimed(e) \/ Committed(e) \/ FailedOnce(e) \/ Regranted(e)

EventStep(e) == Kept(e) \/ Stepped(e)

\* The other events and their attempts stay as they are.
Only(f) ==
    /\ event' = [event EXCEPT ![f] = event'[f]]
    /\ attempts' = [attempts EXCEPT ![f] = attempts'[f]]
    /\ applied' = [applied EXCEPT ![f] = applied'[f]]

\* _record_failure is a step of its event.
LEMMA FailedStep ==
    ASSUME TypeOK, NEW f \in Events, Failed(f), event[f].status = "PROCESSING",
           RowFree(f), UNCHANGED applied
    PROVE  Stepped(f) /\ Only(f)
<1>1. FailedOnce(f)
  BY DEF Failed, EndAttempt, FailedOnce, TypeOK
<1>2. Only(f)
  BY DEF Failed, EndAttempt, Only, TypeOK
<1>3. QED
  BY <1>1, <1>2 DEF Stepped

\* Every step of the outbox is one step of one event, at most.
LEMMA OneEvent ==
    ASSUME TypeOK, [Next]_vars
    PROVE  \/ UNCHANGED <<event, attempts, applied>>
           \/ Tick
           \/ \E f \in Events : Stepped(f) /\ Only(f)
<1>1. ASSUME NEW f \in Events, Publish(f) PROVE Stepped(f) /\ Only(f)
  BY <1>1 DEF Publish, Published, Stepped, Only, TypeOK
<1>2. ASSUME NEW f \in Events, RecoverExpired(f) PROVE Stepped(f) /\ Only(f)
  BY <1>2, FailedStep DEF RecoverExpired, Expired
<1>3. ASSUME NEW f \in Events, RetryFailed(f) PROVE Stepped(f) /\ Only(f)
  BY <1>3 DEF RetryFailed, Regranted, Stepped, Only, TypeOK
<1>4. ASSUME NEW p \in Dispatchers, NEW f \in Events, Claim(p, f)
      PROVE  Stepped(f) /\ Only(f)
  BY <1>4 DEF Claim, Claimed, Stepped, Only, TypeOK
<1>5. ASSUME NEW p \in Dispatchers, Commit(p)
      PROVE  \E f \in Events : Stepped(f) /\ Only(f)
  <2> DEFINE f == dispatcher[p].ev
  <2>1. f \in Events /\ ~RowFree(f)
    BY <1>5, DispatcherShape DEF Commit, RowFree
  <2>2. Committed(f)
    BY <1>5, <2>1 DEF Commit, EndAttempt, Committed, TypeOK
  <2>3. Only(f)
    BY <1>5, <2>1 DEF Commit, EndAttempt, Only, TypeOK
  <2>4. QED
    BY <2>1, <2>2, <2>3 DEF Stepped
<1>6. ASSUME NEW p \in Dispatchers, RecordFailure(p)
      PROVE  \/ UNCHANGED <<event, attempts, applied>>
             \/ \E f \in Events : Stepped(f) /\ Only(f)
  <2>1. CASE Owns(p)
    <3>1. dispatcher[p].ev \in Events /\ event[dispatcher[p].ev].status = "PROCESSING"
      BY <1>6, <2>1, DispatcherShape DEF RecordFailure, Owns
    <3>2. QED
      BY <1>6, <2>1, <3>1, FailedStep DEF RecordFailure
  <2>2. CASE ~Owns(p)
    BY <1>6, <2>2 DEF RecordFailure
  <2>3. QED
    BY <2>1, <2>2
<1>7. ASSUME NEW p \in Dispatchers,
             HandlerFails(p) \/ Complete(p) \/ CommitFails(p) \/ Crash(p)
      PROVE  UNCHANGED <<event, attempts, applied>>
  BY <1>7 DEF HandlerFails, Complete, CommitFails, Crash
<1>8. QED
  BY <1>1, <1>2, <1>3, <1>4, <1>5, <1>6, <1>7 DEF Next, DispatchStep, vars

\* The same from the point of view of any event.
LEMMA StepsOfEvents ==
    ASSUME TypeOK, [Next]_vars, NEW e \in Events
    PROVE  EventStep(e)
<1>1. CASE UNCHANGED <<event, attempts, applied>>
  BY <1>1 DEF EventStep, Kept
<1>2. CASE Tick
  BY <1>2 DEF Tick, EventStep, Kept, TypeOK, EventRow
<1>3. ASSUME NEW f \in Events, Stepped(f), Only(f) PROVE EventStep(e)
  <2>1. CASE e = f
    BY <1>3, <2>1 DEF EventStep
  <2>2. CASE e # f
    BY <1>3, <2>2 DEF Only, EventStep, Kept, TypeOK
  <2>3. QED
    BY <2>1, <2>2
<1>4. QED
  BY <1>1, <1>2, <1>3, OneEvent

-----------------------------------------------------------------------------
(* The invariants of one event. *)

\* Whoever commits the completion of an event holds it.
LEMMA CommitHeld ==
    ASSUME HeldUntilCommit, NEW e \in Events, ~RowFree(e)
    PROVE  event[e].status = "PROCESSING"
  BY DEF HeldUntilCommit, RowFree

Granted(e) ==
    /\ event[e].failures <= event[e].limit + 1
    /\ (event[e].status = "FAILED") <=> (event[e].failures = event[e].limit + 1)
    /\ (event[e].status = "PROCESSING") <=> (event[e].token # None)

\* Failures are counted against the retries granted in every step of an event.
LEMMA GrantedStep ==
    ASSUME TypeOK, HeldUntilCommit, NEW e \in Events, Granted(e), EventStep(e)
    PROVE  Granted(e)'
<1> USE DEF Granted
<1>0. event[e] \in EventRow /\ event[e].failures \in Nat /\ event[e].limit \in Nat
  BY OutboxAssumption DEF TypeOK, EventRow, OutboxAssumption
<1>1. CASE Kept(e)
  BY <1>1 DEF Kept
<1>2. CASE Published(e)
  BY <1>0, <1>2 DEF Published, EventRow
<1>3. CASE Claimed(e)
  <2>1. Len(attempts[e]) + 1 # None
    BY OutboxAssumption DEF OutboxAssumption, TypeOK
  <2>2. QED
    BY <1>0, <1>3, <2>1 DEF Claimed, EventRow
<1>4. CASE Committed(e)
  <2>1. event[e].status = "PROCESSING"
    BY <1>4, CommitHeld DEF Committed
  <2>2. QED
    BY <1>0, <1>4, <2>1 DEF Committed, Released, EventRow
<1>5. CASE FailedOnce(e)
  BY <1>0, <1>5 DEF FailedOnce, FailureOf, Retriable, Released, EventRow
<1>6. CASE Regranted(e)
  BY <1>0, <1>6 DEF Regranted, Regrant, Released, EventRow
<1>7. QED
  BY <1>1, <1>2, <1>3, <1>4, <1>5, <1>6 DEF EventStep, Stepped

Once(e) == applied[e] = IF event[e].status = "PROCESSED" THEN 1 ELSE 0

\* The effects of a handler commit with the end of its event.
LEMMA OnceStep ==
    ASSUME TypeOK, HeldUntilCommit, NEW e \in Events, Once(e), EventStep(e)
    PROVE  Once(e)'
<1> USE DEF Once
<1>0. event[e] \in EventRow
  BY DEF TypeOK
<1>1. CASE Kept(e)
  BY <1>1 DEF Kept
<1>2. CASE Published(e)
  BY <1>0, <1>2 DEF Published, EventRow
<1>3. CASE Claimed(e)
  BY <1>0, <1>3 DEF Claimed, EventRow
<1>4. CASE Committed(e)
  <2>1. event[e].status = "PROCESSING"
    BY <1>4, CommitHeld DEF Committed
  <2>2. QED
    BY <1>0, <1>4, <2>1 DEF Committed, Released, EventRow
<1>5. CASE FailedOnce(e)
  BY <1>0, <1>5 DEF FailedOnce, FailureOf, Released, EventRow
<1>6. CASE Regranted(e)
  BY <1>0, <1>6 DEF Regranted, Regrant, Released, EventRow
<1>7. QED
  BY <1>1, <1>2, <1>3, <1>4, <1>5, <1>6 DEF EventStep, Stepped

-----------------------------------------------------------------------------
(* The row lock. *)

\* Only the commit of its holder changes the claim of a held event.
LEMMA HolderKept ==
    ASSUME TypeOK, HeldUntilCommit, [Next]_vars, UNCHANGED applied,
           NEW p \in Dispatchers, dispatcher[p].pc = "holding"
    PROVE  LET e == dispatcher[p].ev
           IN  event'[e].status = "PROCESSING" /\ event'[e].token = dispatcher[p].token
<1> DEFINE e == dispatcher[p].ev
<1>1. /\ e \in Events /\ ~RowFree(e)
      /\ event[e].status = "PROCESSING" /\ event[e].token = dispatcher[p].token
  BY DispatcherShape DEF HeldUntilCommit, RowFree
<1>2. EventStep(e)
  BY <1>1, StepsOfEvents
<1>3. ~Committed(e)
  BY <1>1 DEF Committed, TypeOK
<1>4. Kept(e)
  BY <1>1, <1>2, <1>3 DEF EventStep, Stepped, Published, Claimed, FailedOnce,
                              Regranted
<1>5. QED
  BY <1>1, <1>4 DEF Kept

\* A dispatcher comes to hold a row by completing its event, and in no other way.
LEMMA HoldersBefore ==
    ASSUME TypeOK, [Next]_vars, NEW p \in Dispatchers, dispatcher'[p].pc = "holding"
    PROVE  dispatcher'[p] = dispatcher[p] \/ (Complete(p) /\ Owns(p))
<1>1. CASE UNCHANGED vars
  BY <1>1 DEF vars
<1>2. ASSUME NEW f \in Events, Publish(f) \/ RecoverExpired(f) \/ RetryFailed(f)
      PROVE  dispatcher'[p] = dispatcher[p]
  BY <1>2 DEF Publish, RecoverExpired, RetryFailed
<1>3. ASSUME NEW q \in Dispatchers, NEW f \in Events, Claim(q, f)
      PROVE  dispatcher'[p] = dispatcher[p]
  BY <1>3 DEF Claim, TypeOK
<1>4. ASSUME NEW q \in Dispatchers, HandlerFails(q) \/ Commit(q) \/ CommitFails(q)
      PROVE  dispatcher'[p] = dispatcher[p]
  <2>1. dispatcher[q] \in BusyDispatcher
    BY <1>4, DispatcherShape DEF HandlerFails, Commit, CommitFails
  <2>2. QED
    BY <1>4, <2>1 DEF HandlerFails, Commit, CommitFails, Goes, Leaves, IdleDispatcher,
                      BusyDispatcher, TypeOK
<1>5. ASSUME NEW q \in Dispatchers, RecordFailure(q) \/ Crash(q)
      PROVE  dispatcher'[p] = dispatcher[p]
  BY <1>5 DEF RecordFailure, Crash, Leaves, IdleDispatcher, TypeOK
<1>6. ASSUME NEW q \in Dispatchers, Complete(q)
      PROVE  dispatcher'[p] = dispatcher[p] \/ (Complete(p) /\ Owns(p))
  <2>1. dispatcher[q] \in BusyDispatcher
    BY <1>6, DispatcherShape DEF Complete
  <2>2. CASE q = p
    BY <1>6, <2>1, <2>2 DEF Complete, Goes, BusyDispatcher, TypeOK
  <2>3. CASE q # p
    BY <1>6, <2>3 DEF Complete, Goes, TypeOK
  <2>4. QED
    BY <2>2, <2>3
<1>7. CASE Tick
  BY <1>7 DEF Tick
<1>8. QED
  BY <1>1, <1>2, <1>3, <1>4, <1>5, <1>6, <1>7 DEF Next, DispatchStep

\* Holding a row excludes the others, step by step.
LEMMA HeldStep ==
    ASSUME TypeOK, HeldUntilCommit, [Next]_vars
    PROVE  HeldUntilCommit'
<1>1. CASE UNCHANGED applied
  <2> SUFFICES
        ASSUME NEW p \in Dispatchers, dispatcher'[p].pc = "holding"
        PROVE  /\ event'[dispatcher'[p].ev].status = "PROCESSING"
               /\ event'[dispatcher'[p].ev].token = dispatcher'[p].token
               /\ \A q \in Dispatchers \ {p} :
                     dispatcher'[q].pc = "holding" =>
                         dispatcher'[q].ev # dispatcher'[p].ev
    BY DEF HeldUntilCommit
  <2>1. ASSUME NEW q \in Dispatchers, NEW r \in Dispatchers, q # r,
               Complete(q), dispatcher'[q].pc = "holding",
               dispatcher'[r].pc = "holding"
        PROVE  dispatcher'[r].ev # dispatcher'[q].ev
    <3>1. dispatcher'[r] = dispatcher[r] /\ dispatcher[q] \in BusyDispatcher
      BY <2>1, DispatcherShape DEF Complete, Goes, TypeOK
    <3>2. dispatcher'[q].ev = dispatcher[q].ev
      BY <2>1, <3>1 DEF Complete, Goes, BusyDispatcher, TypeOK
    <3>3. QED
      BY <2>1, <3>1, <3>2 DEF Complete, RowFree
  <2>2. CASE Complete(p) /\ Owns(p)
    <3>1. dispatcher[p] \in BusyDispatcher
      BY <2>2, DispatcherShape DEF Complete
    <3>2. /\ dispatcher'[p].ev = dispatcher[p].ev
          /\ dispatcher'[p].token = dispatcher[p].token
          /\ event' = event
      BY <2>2, <3>1 DEF Complete, Goes, BusyDispatcher, TypeOK
    <3>3. QED
      BY <2>1, <2>2, <3>2 DEF Owns
  <2>3. CASE dispatcher'[p] = dispatcher[p]
    <3>1. /\ event'[dispatcher[p].ev].status = "PROCESSING"
          /\ event'[dispatcher[p].ev].token = dispatcher[p].token
      BY <1>1, <2>3, HolderKept
    <3>2. ASSUME NEW q \in Dispatchers \ {p}, dispatcher'[q].pc = "holding"
          PROVE  dispatcher'[q].ev # dispatcher'[p].ev
      <4>1. CASE dispatcher'[q] = dispatcher[q]
        BY <2>3, <3>2, <4>1 DEF HeldUntilCommit
      <4>2. CASE Complete(q)
        BY <2>1, <3>2, <4>2
      <4>3. QED
        BY <3>2, <4>1, <4>2, HoldersBefore
    <3>3. QED
      BY <2>3, <3>1, <3>2
  <2>4. QED
    BY <2>2, <2>3, HoldersBefore
<1>2. ASSUME NEW r \in Dispatchers, Commit(r) PROVE HeldUntilCommit'
  <2>1. ASSUME NEW p \in Dispatchers, dispatcher'[p].pc = "holding"
        PROVE  /\ p # r /\ dispatcher'[p] = dispatcher[p]
               /\ event'[dispatcher[p].ev] = event[dispatcher[p].ev]
    <3>1. dispatcher[r] \in BusyDispatcher
      BY <1>2, DispatcherShape DEF Commit
    <3>2. p # r /\ dispatcher'[p] = dispatcher[p]
      BY <1>2, <2>1, <3>1 DEF Commit, Goes, Leaves, IdleDispatcher, BusyDispatcher, TypeOK
    <3>3. dispatcher[p].ev # dispatcher[r].ev
      BY <1>2, <2>1, <3>2 DEF Commit, HeldUntilCommit
    <3>4. dispatcher[p].ev \in Events
      BY <2>1, <3>2, DispatcherShape
    <3>5. QED
      BY <1>2, <3>2, <3>3, <3>4 DEF Commit, TypeOK
  <2>2. QED
    BY <2>1 DEF HeldUntilCommit
<1>3. UNCHANGED applied \/ \E r \in Dispatchers : Commit(r)
  BY DEF Next, vars, Publish, RecoverExpired, RetryFailed, Claim, DispatchStep,
         HandlerFails, Complete, CommitFails, RecordFailure, Crash, Tick
<1>4. QED
  BY <1>1, <1>2, <1>3

-----------------------------------------------------------------------------
(* The attempt rows. *)

\* The attempts of e that have this status.
Of(e, status) == {i \in 1..Len(attempts[e]) : attempts[e][i] = status}

Told(e) ==
    /\ Cardinality(Of(e, "FAILED")) = event[e].failures
    /\ Of(e, "STARTED") = IF event[e].status = "PROCESSING" THEN {Len(attempts[e])} ELSE {}
    /\ Of(e, "SUCCEEDED") = IF event[e].status = "PROCESSED" THEN {Len(attempts[e])} ELSE {}

LEMMA AttemptsTold == AttemptsAccounted <=> \A e \in Events : Told(e)
  BY DEF AttemptsAccounted, Told, Of

\* A claim appends the only attempt that is STARTED.
LEMMA ToldClaimed ==
    ASSUME TypeOK, NEW e \in Events, Told(e), Claimed(e)
    PROVE  Told(e)'
<1> DEFINE S == {"STARTED", "SUCCEEDED", "FAILED"}
           n == Len(attempts[e])
<1>1. event[e] \in EventRow /\ attempts[e] \in Seq(S) /\ n \in Nat
  BY DEF TypeOK
<1>2. /\ Len(attempts'[e]) = n + 1
      /\ \A i \in 1..n : attempts'[e][i] = attempts[e][i]
      /\ attempts'[e][n + 1] = "STARTED"
  BY <1>1 DEF Claimed
<1>3. /\ event[e].status = "PENDING"
      /\ event'[e].status = "PROCESSING" /\ event'[e].failures = event[e].failures
  BY <1>1 DEF Claimed, EventRow
<1>4. Of(e, "STARTED") = {} /\ Of(e, "SUCCEEDED") = {}
  BY <1>3 DEF Told
<1>5. Of(e, "FAILED")' = Of(e, "FAILED")
  BY <1>1, <1>2 DEF Of
<1>6. Of(e, "STARTED")' = {n + 1}
  BY <1>1, <1>2, <1>4 DEF Of
<1>7. Of(e, "SUCCEEDED")' = {}
  BY <1>1, <1>2, <1>4, SMTT(20) DEF Of
<1>8. QED
  BY <1>2, <1>3, <1>5, <1>6, <1>7 DEF Told

\* The attempt that ends is the last one, and was the only one STARTED.
LEMMA ToldEnded ==
    ASSUME TypeOK, NEW e \in Events, Told(e), event[e].status = "PROCESSING",
           NEW status \in {"SUCCEEDED", "FAILED"},
           attempts'[e] = [attempts[e] EXCEPT ![Len(attempts[e])] = status]
    PROVE  /\ Len(attempts'[e]) = Len(attempts[e])
           /\ Len(attempts[e]) \notin Of(e, "FAILED")
           /\ Of(e, "STARTED")' = {}
           /\ Of(e, "FAILED")' =
                Of(e, "FAILED") \cup (IF status = "FAILED" THEN {Len(attempts[e])} ELSE {})
           /\ Of(e, "SUCCEEDED")' =
                IF status = "SUCCEEDED" THEN {Len(attempts[e])} ELSE {}
<1> DEFINE S == {"STARTED", "SUCCEEDED", "FAILED"}
           n == Len(attempts[e])
<1>1. attempts[e] \in Seq(S) /\ n \in Nat
  BY DEF TypeOK
<1>2. Of(e, "STARTED") = {n} /\ Of(e, "SUCCEEDED") = {}
  BY DEF Told
<1>3. n \in 1..n /\ attempts[e][n] = "STARTED"
  BY <1>2 DEF Of
<1>4. /\ Len(attempts'[e]) = n
      /\ \A i \in 1..n : attempts'[e][i] = IF i = n THEN status ELSE attempts[e][i]
  BY <1>1, <1>3
<1>5. n \notin Of(e, "FAILED")
  BY <1>3 DEF Of
<1>6. Of(e, "STARTED")' = {}
  BY <1>2, <1>4 DEF Of
<1>7. Of(e, "FAILED")' = Of(e, "FAILED") \cup (IF status = "FAILED" THEN {n} ELSE {})
  BY <1>3, <1>4 DEF Of
<1>8. Of(e, "SUCCEEDED")' = IF status = "SUCCEEDED" THEN {n} ELSE {}
  BY <1>2, <1>3, <1>4 DEF Of
<1>9. QED
  BY <1>4, <1>5, <1>6, <1>7, <1>8

\* The attempt rows tell the story of the event after every step of it.
LEMMA ToldStep ==
    ASSUME TypeOK, HeldUntilCommit, NEW e \in Events, Told(e), EventStep(e)
    PROVE  Told(e)'
<1>1. event[e] \in EventRow /\ event[e].failures \in Nat /\ Len(attempts[e]) \in Nat
  BY OutboxAssumption DEF TypeOK, EventRow, OutboxAssumption
<1>2. CASE Kept(e)
  BY <1>2 DEF Kept, Told, Of
<1>3. CASE Published(e)
  <2>1. event'[e].status = "PENDING" /\ event'[e].failures = event[e].failures
    BY <1>1, <1>3 DEF Published, EventRow
  <2>2. QED
    BY <1>3, <2>1 DEF Published, Told, Of
<1>4. CASE Claimed(e)
  BY <1>4, ToldClaimed
<1>5. CASE Committed(e)
  <2>1. event[e].status = "PROCESSING"
    BY <1>5, CommitHeld DEF Committed
  <2>2. event'[e].status = "PROCESSED" /\ event'[e].failures = event[e].failures
    BY <1>1, <1>5 DEF Committed, Released, EventRow
  <2>3. /\ Len(attempts'[e]) = Len(attempts[e])
        /\ Of(e, "STARTED")' = {}
        /\ Of(e, "FAILED")' = Of(e, "FAILED")
        /\ Of(e, "SUCCEEDED")' = {Len(attempts[e])}
    BY <1>5, <2>1, ToldEnded DEF Committed
  <2>4. QED
    BY <2>2, <2>3 DEF Told
<1>6. CASE FailedOnce(e)
  <2>1. event[e].status = "PROCESSING"
    BY <1>6 DEF FailedOnce
  <2>2. /\ event'[e].status \in {"PENDING", "FAILED"}
        /\ event'[e].failures = event[e].failures + 1
    BY <1>1, <1>6 DEF FailedOnce, FailureOf, Released, EventRow
  <2>3. /\ Len(attempts[e]) \notin Of(e, "FAILED")
        /\ Of(e, "STARTED")' = {}
        /\ Of(e, "FAILED")' = Of(e, "FAILED") \cup {Len(attempts[e])}
        /\ Of(e, "SUCCEEDED")' = {}
    BY <1>6, <2>1, ToldEnded DEF FailedOnce
  <2>4. IsFiniteSet(Of(e, "FAILED"))
    <3>1. IsFiniteSet(1..Len(attempts[e]))
      BY <1>1, FS_Interval
    <3>2. Of(e, "FAILED") \in SUBSET (1..Len(attempts[e]))
      BY DEF Of
    <3>3. QED
      BY <3>1, <3>2, FS_Subset
  <2>5. Cardinality(Of(e, "FAILED"))' = Cardinality(Of(e, "FAILED")) + 1
    BY <2>3, <2>4, FS_AddElement
  <2>6. QED
    BY <2>2, <2>3, <2>5 DEF Told
<1>7. CASE Regranted(e)
  <2>1. /\ event[e].status = "FAILED" /\ event'[e].status = "PENDING"
        /\ event'[e].failures = event[e].failures
    BY <1>1, <1>7 DEF Regranted, Regrant, Released, EventRow
  <2>2. QED
    BY <1>7, <2>1 DEF Regranted, Told, Of
<1>8. QED
  BY <1>2, <1>3, <1>4, <1>5, <1>6, <1>7 DEF EventStep, Stepped

-----------------------------------------------------------------------------
(* The types. *)

\* The row an operation writes is a row of the table.
LEMMA RowTyped ==
    ASSUME TypeOK, GivenUpAfterRetries, NEW e \in Events, Stepped(e)
    PROVE  event'[e] \in EventRow
<1>1. /\ event[e] \in EventRow /\ event[e].failures \in Nat /\ event[e].limit \in Nat
      /\ 0 \in 0..RetryMax
      /\ Len(attempts[e]) + 1 \in Nat \ {0}
  BY OutboxAssumption DEF TypeOK, EventRow, OutboxAssumption
<1>2. CASE Published(e)
  BY <1>1, <1>2 DEF Published, EventRow
<1>3. CASE Claimed(e)
  BY <1>1, <1>3 DEF Claimed, EventRow
<1>4. CASE Committed(e)
  BY <1>1, <1>4 DEF Committed, Released, EventRow
<1>5. CASE FailedOnce(e)
  <2>1. event[e].failures <= event[e].limit
    BY <1>1, <1>5 DEF FailedOnce, GivenUpAfterRetries
  <2>2. QED
    BY <1>1, <1>5, <2>1, FailureTyped DEF FailedOnce
<1>6. CASE Regranted(e)
  <2>1. event[e].limit + 1 \in 0..MaxLimit
    BY <1>1, <1>6, OutboxAssumption DEF Regranted, OutboxAssumption
  <2>2. QED
    BY <1>1, <1>6, <2>1 DEF Regranted, Regrant, Released, EventRow
<1>7. QED
  BY <1>2, <1>3, <1>4, <1>5, <1>6 DEF Stepped

\* The attempts and the effects an operation writes are well formed.
LEMMA AttemptRowTyped ==
    ASSUME TypeOK, NEW e \in Events, Stepped(e)
    PROVE  /\ attempts'[e] \in Seq({"STARTED", "SUCCEEDED", "FAILED"})
           /\ applied'[e] \in Nat
<1> DEFINE S == {"STARTED", "SUCCEEDED", "FAILED"}
           s == attempts[e]
<1>1. s \in Seq(S) /\ applied[e] \in Nat
  BY DEF TypeOK
<1>2. \A status \in S : [s EXCEPT ![Len(s)] = status] \in Seq(S)
  BY AttemptsTyped
<1>3. Append(s, "STARTED") \in Seq(S)
  BY <1>1
<1>4. attempts'[e] \in Seq(S)
  BY <1>1, <1>2, <1>3
     DEF Stepped, Published, Claimed, Committed, FailedOnce, Regranted
<1>5. applied'[e] = applied[e] \/ applied'[e] = applied[e] + 1
  BY DEF Stepped, Published, Claimed, Committed, FailedOnce, Regranted
<1>6. QED
  BY <1>1, <1>4, <1>5

\* The clock keeps the rows well formed.
LEMMA TickTyped ==
    ASSUME TypeOK, Tick
    PROVE  event' \in [Events -> EventRow]
<1> SUFFICES ASSUME NEW e \in Events
             PROVE  [event[e] EXCEPT !.lease = Elapsed(@), !.due = Elapsed(@)] \in EventRow
  BY DEF Tick
<1>1. event[e] \in EventRow
  BY DEF TypeOK
<1>2. Elapsed(event[e].lease) \in (0..LeaseDuration) \cup {None}
  BY <1>1, OutboxAssumption DEF Elapsed, EventRow, OutboxAssumption
<1>3. Elapsed(event[e].due) \in 0..RetryMax
  BY <1>1, OutboxAssumption DEF Elapsed, EventRow, OutboxAssumption
<1>4. QED
  BY <1>1, <1>2, <1>3 DEF EventRow

\* A dispatcher has an event and the token of its claim, or nothing.
LEMMA DispatchersTyped ==
    ASSUME TypeOK, [Next]_vars
    PROVE  dispatcher' \in [Dispatchers -> {IdleDispatcher} \cup BusyDispatcher]
<1>1. CASE UNCHANGED dispatcher
  BY <1>1 DEF TypeOK
<1>2. ASSUME NEW p \in Dispatchers, NEW f \in Events, Claim(p, f)
      PROVE  dispatcher' \in [Dispatchers -> {IdleDispatcher} \cup BusyDispatcher]
  <2>1. Len(attempts[f]) + 1 \in Nat \ {0}
    BY DEF TypeOK
  <2>2. [pc |-> "handling", ev |-> f, token |-> Len(attempts[f]) + 1] \in BusyDispatcher
    BY <2>1 DEF BusyDispatcher
  <2>3. QED
    BY <1>2, <2>2 DEF Claim, TypeOK
<1>3. ASSUME NEW p \in Dispatchers, DispatchStep(p) \/ Crash(p)
      PROVE  dispatcher' \in [Dispatchers -> {IdleDispatcher} \cup BusyDispatcher]
  <2>1. /\ dispatcher[p].pc # "idle"
        /\ Leaves(p) \/ \E pc \in {"handling", "holding", "failing"} : Goes(p, pc)
    BY <1>3 DEF DispatchStep, HandlerFails, Complete, Commit, CommitFails, RecordFailure,
                Crash
  <2>2. QED
    BY <2>1, DispatcherGoes, DispatcherLeaves
<1>4. QED
  BY <1>1, <1>2, <1>3 DEF Next, vars, Publish, RecoverExpired, RetryFailed, Tick

\* Faults are counted up to their bound.
LEMMA FaultsTyped ==
    ASSUME TypeOK, [Next]_vars
    PROVE  faults' \in 0..MaxFaults
<1>1. UNCHANGED faults \/ Faulty
  BY DEF Next, vars, Publish, RecoverExpired, RetryFailed, Claim, DispatchStep, HandlerFails,
         Complete, Commit, CommitFails, RecordFailure, Crash, Tick
<1>2. QED
  BY <1>1, OutboxAssumption DEF Faulty, TypeOK, OutboxAssumption

LEMMA TypeStep ==
    ASSUME TypeOK, GivenUpAfterRetries, [Next]_vars
    PROVE  TypeOK'
<1>1. CASE UNCHANGED <<event, attempts, applied>>
  BY <1>1, DispatchersTyped, FaultsTyped DEF TypeOK
<1>2. CASE Tick
  BY <1>2, TickTyped DEF Tick, TypeOK
<1>3. ASSUME NEW f \in Events, Stepped(f), Only(f) PROVE TypeOK'
  <2>1. event' \in [Events -> EventRow]
    BY <1>3, RowTyped DEF Only, TypeOK
  <2>2. /\ attempts' \in [Events -> Seq({"STARTED", "SUCCEEDED", "FAILED"})]
        /\ applied' \in [Events -> Nat]
    BY <1>3, AttemptRowTyped DEF Only, TypeOK
  <2>3. QED
    BY <2>1, <2>2, DispatchersTyped, FaultsTyped DEF TypeOK
<1>4. QED
  BY <1>1, <1>2, <1>3, OneEvent

-----------------------------------------------------------------------------
(* The inductive invariant. *)

\* The invariants need each other: a failure is counted in bounds because the
\* event is not given up yet, and the effect of a commit is the first one because
\* the holder of the row still owns the event.
OutboxInv ==
    /\ TypeOK
    /\ GivenUpAfterRetries
    /\ HeldUntilCommit
    /\ EffectWithProcessed
    /\ AttemptsAccounted

LEMMA OutboxInit == Init => OutboxInv
<1> SUFFICES ASSUME Init PROVE OutboxInv
  OBVIOUS
<1>1. TypeOK
  BY OutboxAssumption DEF Init, TypeOK, EventRow, OutboxAssumption
<1>2. GivenUpAfterRetries
  BY OutboxAssumption DEF Init, GivenUpAfterRetries, OutboxAssumption
<1>3. HeldUntilCommit /\ EffectWithProcessed
  BY DEF Init, IdleDispatcher, HeldUntilCommit, EffectWithProcessed
<1>4. ASSUME NEW e \in Events PROVE Told(e)
  <2>1. \A status : Of(e, status) = {}
    BY DEF Init, Of
  <2>2. QED
    BY <2>1, FS_EmptySet DEF Init, Told
<1>5. QED
  BY <1>1, <1>2, <1>3, <1>4, AttemptsTold DEF OutboxInv

LEMMA OutboxStep == OutboxInv /\ [Next]_vars => OutboxInv'
<1> SUFFICES ASSUME OutboxInv, [Next]_vars PROVE OutboxInv'
  OBVIOUS
<1> USE DEF OutboxInv
<1>1. TypeOK'
  BY TypeStep
<1>2. HeldUntilCommit'
  BY HeldStep
<1>3. \A e \in Events : EventStep(e)
  BY StepsOfEvents
<1>4. GivenUpAfterRetries'
  <2>1. \A e \in Events : Granted(e)
    BY DEF GivenUpAfterRetries, Granted
  <2>2. \A e \in Events : Granted(e)'
    BY <1>3, <2>1, GrantedStep
  <2>3. QED
    BY <2>2 DEF GivenUpAfterRetries, Granted
<1>5. EffectWithProcessed'
  <2>1. \A e \in Events : Once(e)
    BY DEF EffectWithProcessed, Once
  <2>2. \A e \in Events : Once(e)'
    BY <1>3, <2>1, OnceStep
  <2>3. QED
    BY <2>2 DEF EffectWithProcessed, Once
<1>6. AttemptsAccounted'
  <2>1. \A e \in Events : Told(e)'
    BY <1>3, AttemptsTold, ToldStep
  <2>2. AttemptsAccounted' <=> \A e \in Events : Told(e)'
    BY AttemptsTold DEF AttemptsAccounted, Told, Of
  <2>3. QED
    BY <2>1, <2>2
<1>7. QED
  BY <1>1, <1>2, <1>4, <1>5, <1>6

-----------------------------------------------------------------------------
(* The theorems. *)

LEMMA OutboxInvariant == Spec => []OutboxInv
<1>1. QED
  BY OutboxInit, OutboxStep, PTL DEF Spec

\* Counters, leases and delays stay in the range their columns and constraints
\* allow, and a busy dispatcher always has an event and a token.
THEOREM OutboxTypeCorrect == Spec => []TypeOK
<1>1. OutboxInv => TypeOK
  BY DEF OutboxInv
<1>2. QED
  BY <1>1, OutboxInvariant, PTL

\* The handler of an event takes effect once, however many dispatchers, losses of
\* the claim and retries there are.
THEOREM EffectOnce == Spec => []EffectWithProcessed
<1>1. OutboxInv => EffectWithProcessed
  BY DEF OutboxInv
<1>2. QED
  BY <1>1, OutboxInvariant, PTL

\* An event is given up exactly when its last granted retry has failed.
THEOREM RetriesGranted == Spec => []GivenUpAfterRetries
<1>1. OutboxInv => GivenUpAfterRetries
  BY DEF OutboxInv
<1>2. QED
  BY <1>1, OutboxInvariant, PTL

\* The row lock keeps a completed event with its dispatcher until the commit.
THEOREM HeldAlways == Spec => []HeldUntilCommit
<1>1. OutboxInv => HeldUntilCommit
  BY DEF OutboxInv
<1>2. QED
  BY <1>1, OutboxInvariant, PTL

\* The attempt rows account for every claim, failure and effect of an event.
THEOREM AttemptsAlways == Spec => []AttemptsAccounted
<1>1. OutboxInv => AttemptsAccounted
  BY DEF OutboxInv
<1>2. QED
  BY <1>1, OutboxInvariant, PTL

\* Counters, attempts and status of an event agree after every transaction.
THEOREM RowsAlwaysAccounted == Spec => []RowsAccounted
<1>1. OutboxInv => RowsAccounted
  BY DEF OutboxInv, RowsAccounted
<1>2. QED
  BY <1>1, OutboxInvariant, PTL

-----------------------------------------------------------------------------
(* The refinement. *)

\* Every step of one event is a step of its delivery, or none at all.
LEMMA StageStep ==
    ASSUME TypeOK, HeldUntilCommit, TypeOK', NEW f \in Events, Stepped(f), Only(f)
    PROVE  [Delivery!Next]_(Delivery!vars)
<1> DEFINE Becomes(s) == stage' = [stage EXCEPT ![f] = s]
<1>1. event[f] \in EventRow /\ event'[f] \in EventRow /\ event \in [Events -> EventRow]
  BY DEF TypeOK
<1>2. \A e \in Events \ {f} : event'[e].status = event[e].status
  BY DEF Only, TypeOK
<1>3. /\ stage \in [Events -> {"absent", "queued", "delivered", "abandoned"}]
      /\ stage' = [stage EXCEPT ![f] = stage'[f]]
  BY <1>1, <1>2, ZenonT(40) DEF stage, TypeOK, EventRow
<1>4. applied' = [applied EXCEPT ![f] = applied'[f]] /\ applied \in [Events -> Nat]
  BY DEF Only, TypeOK
<1>5. CASE Published(f)
  <2>1. event[f].status = "NONE" /\ event'[f].status = "PENDING" /\ applied' = applied
    BY <1>1, <1>4, <1>5 DEF Published, EventRow
  <2>2. stage[f] = "absent" /\ stage'[f] = "queued"
    BY <2>1 DEF stage
  <2>3. QED
    BY <1>3, <2>1, <2>2 DEF Delivery!Next, Delivery!Publish
<1>6. CASE Claimed(f)
  <2>1. event[f].status = "PENDING" /\ event'[f].status = "PROCESSING" /\ applied' = applied
    BY <1>1, <1>4, <1>6 DEF Claimed, EventRow
  <2>2. stage[f] = "queued" /\ stage'[f] = "queued"
    BY <2>1 DEF stage
  <2>3. QED
    BY <1>3, <2>1, <2>2 DEF Delivery!vars
<1>7. CASE Committed(f)
  <2>1. /\ event[f].status = "PROCESSING" /\ event'[f].status = "PROCESSED"
        /\ applied'[f] = applied[f] + 1
    BY <1>1, <1>7, CommitHeld DEF Committed, Released, EventRow
  <2>2. stage[f] = "queued" /\ stage'[f] = "delivered"
    BY <2>1 DEF stage
  <2>3. QED
    BY <1>3, <1>4, <2>1, <2>2 DEF Delivery!Next, Delivery!Deliver
<1>8. CASE FailedOnce(f)
  <2>1. /\ event[f].status = "PROCESSING" /\ event'[f].status \in {"PENDING", "FAILED"}
        /\ applied' = applied
    BY <1>1, <1>4, <1>8 DEF FailedOnce, FailureOf, Released, EventRow
  <2>2. stage[f] = "queued" /\ stage'[f] \in {"queued", "abandoned"}
    BY <2>1 DEF stage
  <2>3. QED
    BY <1>3, <2>1, <2>2 DEF Delivery!Next, Delivery!Abandon, Delivery!vars
<1>9. CASE Regranted(f)
  <2>1. event[f].status = "FAILED" /\ event'[f].status = "PENDING" /\ applied' = applied
    BY <1>1, <1>4, <1>9 DEF Regranted, Regrant, Released, EventRow
  <2>2. stage[f] = "abandoned" /\ stage'[f] = "queued"
    BY <2>1 DEF stage
  <2>3. QED
    BY <1>3, <2>1, <2>2 DEF Delivery!Next, Delivery!Requeue
<1>10. QED
  BY <1>5, <1>6, <1>7, <1>8, <1>9 DEF Stepped

\* Time delivers nothing.
LEMMA TickKeepsStage ==
    ASSUME TypeOK, Tick
    PROVE  stage' = stage /\ applied' = applied
<1>1. ASSUME NEW e \in Events PROVE event'[e].status = event[e].status
  <2>1. event[e] \in EventRow
    BY DEF TypeOK
  <2>2. event'[e] = [event[e] EXCEPT !.lease = Elapsed(@), !.due = Elapsed(@)]
    BY DEF Tick
  <2>3. QED
    BY <2>1, <2>2 DEF EventRow
<1>2. /\ stage \in [Events -> {"absent", "queued", "delivered", "abandoned"}]
      /\ stage' \in [Events -> {"absent", "queued", "delivered", "abandoned"}]
  BY TickTyped DEF TypeOK, EventRow, stage
<1>3. ASSUME NEW e \in Events PROVE stage'[e] = stage[e]
  <2>1. event[e].status \in {"NONE", "PENDING", "PROCESSING", "PROCESSED", "FAILED"}
    BY DEF TypeOK, EventRow
  <2>2. QED
    BY <1>1, <2>1 DEF stage
<1>4. stage' = stage
  BY <1>2, <1>3
<1>5. QED
  BY <1>4 DEF Tick

\* The outbox implements the delivery it promises: claims, leases, crashes and
\* recoveries are invisible, the commit of the handler is the delivery. (The run
\* outbox_passages checks the liveness of the promise too.)
THEOREM ImplementsDelivery == Spec => Delivery!Spec
<1>1. Init => Delivery!Init
  BY DEF Init, stage, Delivery!Init
<1>2. OutboxInv /\ OutboxInv' /\ [Next]_vars => [Delivery!Next]_(Delivery!vars)
  <2> SUFFICES ASSUME OutboxInv, OutboxInv', [Next]_vars
               PROVE  [Delivery!Next]_(Delivery!vars)
    OBVIOUS
  <2>1. CASE UNCHANGED <<event, attempts, applied>>
    BY <2>1 DEF stage, Delivery!vars
  <2>2. CASE Tick
    BY <2>2, TickKeepsStage DEF OutboxInv, Delivery!vars
  <2>3. ASSUME NEW f \in Events, Stepped(f), Only(f)
        PROVE  [Delivery!Next]_(Delivery!vars)
    BY <2>3, StageStep DEF OutboxInv
  <2>4. QED
    BY <2>1, <2>2, <2>3, OneEvent DEF OutboxInv
<1>3. QED
  BY <1>1, <1>2, OutboxInvariant, PTL DEF Spec, Delivery!Spec

-----------------------------------------------------------------------------
(* Leases. *)

\* What ends the claim of an event with time left on its lease.
EndedByOwner(e) ==
    \E p \in Dispatchers : /\ dispatcher[p].ev = e /\ dispatcher[p].token = event[e].token
                           /\ dispatcher'[p] # dispatcher[p]

LEMMA LeaseStep ==
    ASSUME OutboxInv, [Next]_vars, NEW e \in Events,
           event[e].status = "PROCESSING", event'[e].status # "PROCESSING"
    PROVE  event[e].lease = 0 \/ EndedByOwner(e)
<1>0. TypeOK /\ HeldUntilCommit /\ event[e] \in EventRow
  BY DEF OutboxInv, TypeOK
<1>1. CASE UNCHANGED vars
  BY <1>1 DEF vars
<1>2. CASE Tick
  BY <1>0, <1>2 DEF Tick, EventRow
<1>3. ASSUME NEW f \in Events, Publish(f) \/ RecoverExpired(f) \/ RetryFailed(f)
      PROVE  event[e].lease = 0
  <2>1. e = f
    BY <1>0, <1>3 DEF Publish, RecoverExpired, Failed, RetryFailed, TypeOK
  <2>2. QED
    BY <1>3, <2>1 DEF Publish, RecoverExpired, Expired, RetryFailed
<1>4. ASSUME NEW p \in Dispatchers, NEW f \in Events, Claim(p, f) PROVE FALSE
  BY <1>0, <1>4 DEF Claim, TypeOK, EventRow
<1>5. ASSUME NEW p \in Dispatchers, Commit(p) PROVE EndedByOwner(e)
  <2>1. dispatcher[p] \in BusyDispatcher /\ dispatcher[p].pc = "holding"
    BY <1>0, <1>5, DispatcherShape DEF Commit
  <2>2. e = dispatcher[p].ev
    BY <1>0, <1>5 DEF Commit, TypeOK
  <2>3. event[e].token = dispatcher[p].token
    BY <1>0, <2>1, <2>2 DEF HeldUntilCommit
  <2>4. dispatcher'[p].pc # "holding"
    BY <1>0, <1>5, <2>1 DEF Commit, Leaves, Goes, IdleDispatcher, BusyDispatcher, TypeOK
  <2>5. QED
    BY <2>1, <2>2, <2>3, <2>4 DEF EndedByOwner
<1>6. ASSUME NEW p \in Dispatchers, RecordFailure(p) PROVE EndedByOwner(e)
  <2>1. dispatcher[p].pc = "failing" /\ dispatcher'[p].pc = "idle"
    BY <1>0, <1>6 DEF RecordFailure, Leaves, IdleDispatcher, TypeOK
  <2>2. Owns(p) /\ e = dispatcher[p].ev
    BY <1>0, <1>6 DEF RecordFailure, Failed, TypeOK
  <2>3. QED
    BY <2>1, <2>2 DEF Owns, EndedByOwner
<1>7. ASSUME NEW p \in Dispatchers, HandlerFails(p) \/ Complete(p) \/ CommitFails(p) \/ Crash(p)
      PROVE  FALSE
  BY <1>7 DEF HandlerFails, Complete, CommitFails, Crash
<1>8. QED
  BY <1>1, <1>2, <1>3, <1>4, <1>5, <1>6, <1>7 DEF Next, DispatchStep

\* No dispatcher, recovery or administrator takes an event from the dispatcher that
\* has claimed it while time is left on its lease, for any number of each.
\* sync/core.py:130-388.
THEOREM LeaseAlwaysRespected == Spec => LeaseRespected
<1>1. OutboxInv /\ [Next]_vars =>
         [\A e \in Events :
            event[e].status = "PROCESSING" /\ event'[e].status # "PROCESSING" =>
               \/ event[e].lease = 0
               \/ \E p \in Dispatchers :
                     /\ dispatcher[p].ev = e /\ dispatcher[p].token = event[e].token
                     /\ dispatcher'[p] # dispatcher[p]]_vars
  BY LeaseStep DEF EndedByOwner
<1>2. QED
  BY <1>1, OutboxInvariant, PTL DEF Spec, LeaseRespected

=============================================================================
