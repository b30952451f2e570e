----------------------------- MODULE SyncOutbox -----------------------------
(***************************************************************************)
(* The sync outbox of VectorShelf (src/src/sync): events are published in  *)
(* the transaction of a business change and dispatched later, one at a     *)
(* time per process, to a handler whose effects commit together with the   *)
(* completion of the event.                                                *)
(*                                                                         *)
(* dispatch_one runs in three transactions: claim, then handler and        *)
(* _complete together, then record_failure if the second one failed.  The  *)
(* second locks the event row only when the handler calls mark_processed,  *)
(* at its end: until then ("handling") recovery may take the event away,   *)
(* from then until the commit ("holding") the row is locked, others skip   *)
(* it or wait for it.                                                      *)
(*                                                                         *)
(* All dispatchers claim under the same name (dispatcher_name), so only    *)
(* the claim token tells them apart; the token of a claim is represented   *)
(* by the number of the attempt row the claim inserts.  Instants are the   *)
(* ticks left until them, 0 when reached.                                  *)
(***************************************************************************)
EXTENDS Integers, Sequences, FiniteSets

CONSTANTS
    Events,          \* idempotency keys
    Dispatchers,     \* dispatcher threads, one per process
    None,            \* SQL NULL
    MaxRetries,      \* default_max_retries
    MaxLimit,        \* bound on max_retries (limits retry_failed)
    LeaseDuration,   \* ticks a lease lasts
    RetryInitial,    \* ticks until the first retry
    RetryMax,        \* the longest delay of a retry
    MaxFaults        \* bound on crashes and lost answers

ASSUME OutboxAssumption ==
    /\ MaxRetries \in Nat
    /\ MaxLimit \in Nat /\ MaxRetries <= MaxLimit
    /\ LeaseDuration \in Nat \ {0}
    /\ RetryInitial \in Nat \ {0}
    /\ RetryMax \in Nat /\ RetryInitial <= RetryMax
    /\ MaxFaults \in Nat
    /\ None \notin Nat
    /\ None \notin Events

VARIABLES
    event,         \* sync_events
    attempts,      \* sync_delivery_attempts of an event, by attempt_no
    applied,       \* how often the handler's effects of an event committed
    dispatcher,    \* the dispatch each thread is in
    faults         \* faults spent, at most MaxFaults

vars == <<event, attempts, applied, dispatcher, faults>>

-----------------------------------------------------------------------------
(* Rows. *)

EventRow == [status : {"NONE", "PENDING", "PROCESSING", "PROCESSED", "FAILED"},
             token : (Nat \ {0}) \cup {None},
             lease : (0..LeaseDuration) \cup {None},
             due : 0..RetryMax, failures : 0..(MaxLimit + 1), limit : 0..MaxLimit]

IdleDispatcher == [pc |-> "idle", ev |-> None, token |-> None]
BusyDispatcher == [pc : {"handling", "holding", "failing"},
                   ev : Events, token : Nat \ {0}]

TypeOK ==
    /\ event \in [Events -> EventRow]
    /\ attempts \in [Events -> Seq({"STARTED", "SUCCEEDED", "FAILED"})]
    /\ applied \in [Events -> Nat]
    /\ dispatcher \in [Dispatchers -> {IdleDispatcher} \cup BusyDispatcher]
    /\ faults \in 0..MaxFaults

Init ==
    /\ event = [e \in Events |->
                  [status |-> "NONE", token |-> None, lease |-> None,
                   due |-> 0, failures |-> 0, limit |-> MaxRetries]]
    /\ attempts = [e \in Events |-> <<>>]
    /\ applied = [e \in Events |-> 0]
    /\ dispatcher = [p \in Dispatchers |-> IdleDispatcher]
    /\ faults = 0

-----------------------------------------------------------------------------
(* Predicates and row updates shared by the operations. *)

\* Mutant of RowFree: the row is read without waiting for its lock.
RowRead(e) == TRUE

\* Nobody holds the row lock of e in an open transaction.
RowFree(e) ==
    \A p \in Dispatchers : ~(dispatcher[p].pc = "holding" /\ dispatcher[p].ev = e)

\* Mutant of Owns: dispatchers are told apart by their name, which they share.
OwnsByName(p) ==
    event[dispatcher[p].ev].status = "PROCESSING" /\ event[dispatcher[p].ev].lease # 0

\* _owned
Owns(p) ==
    LET e == dispatcher[p].ev IN
    /\ event[e].status = "PROCESSING"
    /\ event[e].token = dispatcher[p].token
    /\ event[e].lease # 0

\* _clear_owner
Released(row) == [row EXCEPT !.token = None, !.lease = None]

\* _retry_delay: the initial delay, doubled by every further failure up to a cap.
RetryDelay(n) ==
    LET d == RetryInitial * 2 ^ (n - 1) IN IF d < RetryMax THEN d ELSE RetryMax

\* Powers are beyond the provers: TLC evaluates this for the retries there are.
ASSUME DelayAssumption == \A n \in 1..(MaxLimit + 1) : RetryDelay(n) \in 1..RetryMax

\* Mutant of Retriable: one retry too few.
RetriableLess(row) == row.failures + 1 < row.limit

\* Mutant of Retriable: retries never end.
RetriableAlways(row) == row.failures <= row.limit

\* Another failure of this event is followed by a retry.
Retriable(row) == row.failures + 1 <= row.limit

\* Mutant of FailureOf: the failure is not counted.
FailureUncounted(row) == Released([row EXCEPT !.status = "PENDING", !.due = RetryInitial])

\* The event row after _record_failure.
FailureOf(row) ==
    Released([row EXCEPT
        !.failures = @ + 1,
        !.status = IF Retriable(row) THEN "PENDING" ELSE "FAILED",
        !.due = IF Retriable(row) THEN RetryDelay(row.failures + 1) ELSE 0])

\* The event row after retry_failed: one more try, due at once.
Regrant(row) ==
    Released([row EXCEPT !.status = "PENDING", !.limit = @ + 1, !.due = 0])

\* The attempt row of the claim ends with status.
EndAttempt(e, status) == [attempts EXCEPT ![e][Len(attempts[e])] = status]

\* _record_failure
Failed(e) ==
    /\ event' = [event EXCEPT ![e] = FailureOf(@)]
    /\ attempts' = EndAttempt(e, "FAILED")

Goes(p, pc) == dispatcher' = [dispatcher EXCEPT ![p].pc = pc]
Leaves(p) == dispatcher' = [dispatcher EXCEPT ![p] = IdleDispatcher]

Faulty == faults < MaxFaults /\ faults' = faults + 1

-----------------------------------------------------------------------------
(* Publication. *)

\* publish: the row is inserted once per idempotency key; a second publication
\* of the key finds it and changes nothing.
Publish(e) ==
    /\ event[e].status = "NONE"
    /\ event' = [event EXCEPT ![e].status = "PENDING"]
    /\ UNCHANGED <<attempts, applied, dispatcher, faults>>

-----------------------------------------------------------------------------
(* dispatch_one. *)

\* claim: the lease counts from the instant dispatch_one began, some of it may be
\* over. If the answer of the commit is lost the exception ends the thread, which
\* is started anew.
Claim(p, e) ==
    /\ dispatcher[p].pc = "idle"
    /\ event[e].status = "PENDING" /\ event[e].due = 0
    /\ LET t == Len(attempts[e]) + 1 IN
       /\ \E left \in 0..LeaseDuration :
             event' = [event EXCEPT ![e] =
                         [@ EXCEPT !.status = "PROCESSING", !.token = t, !.lease = left]]
       /\ attempts' = [attempts EXCEPT ![e] = Append(@, "STARTED")]
       /\ \/ /\ dispatcher' = [dispatcher EXCEPT ![p] =
                                 [pc |-> "handling", ev |-> e, token |-> t]]
             /\ UNCHANGED faults
          \/ Faulty /\ UNCHANGED dispatcher
    /\ UNCHANGED applied

\* The handler raises, for good or for now: its effects are rolled back.
HandlerFails(p) ==
    /\ dispatcher[p].pc = "handling"
    /\ Goes(p, "failing")
    /\ UNCHANGED <<event, attempts, applied, faults>>

\* _complete, called by the handler at the end of its effects, waits for the row.
\* Its clock is read just before: what settles a late call is the token.
Complete(p) ==
    /\ dispatcher[p].pc = "handling" /\ RowFree(dispatcher[p].ev)
    /\ Goes(p, IF Owns(p) THEN "holding" ELSE "failing")
    /\ UNCHANGED <<event, attempts, applied, faults>>

\* The effects of the handler and the completion of the event commit.  If the
\* answer is lost, dispatch_one goes on to record a failure.
Commit(p) ==
    LET e == dispatcher[p].ev IN
    /\ dispatcher[p].pc = "holding"
    /\ event' = [event EXCEPT ![e] = Released([@ EXCEPT !.status = "PROCESSED"])]
    /\ attempts' = EndAttempt(e, "SUCCEEDED")
    /\ applied' = [applied EXCEPT ![e] = @ + 1]
    /\ \/ Leaves(p) /\ UNCHANGED faults
       \/ Faulty /\ Goes(p, "failing")

\* The commit fails and everything is rolled back.
CommitFails(p) ==
    /\ dispatcher[p].pc = "holding"
    /\ Faulty /\ Goes(p, "failing")
    /\ UNCHANGED <<event, attempts, applied>>

\* record_failure; the loss of the claim is swallowed.
RecordFailure(p) ==
    /\ dispatcher[p].pc = "failing" /\ RowFree(dispatcher[p].ev)
    /\ IF Owns(p) THEN Failed(dispatcher[p].ev) ELSE UNCHANGED <<event, attempts>>
    /\ Leaves(p)
    /\ UNCHANGED <<applied, faults>>

\* The process dies, or an exception of the database ends its dispatcher thread:
\* the open transaction is rolled back and the thread is started anew.
Crash(p) ==
    /\ dispatcher[p].pc # "idle"
    /\ Faulty /\ Leaves(p)
    /\ UNCHANGED <<event, attempts, applied>>

-----------------------------------------------------------------------------
(* recover_expired, retry_failed and the clock. *)

\* Mutants of Expired: a tick early; only while a retry is left.
NearlyExpired(e) == event[e].status = "PROCESSING" /\ event[e].lease \in {0, 1}
ExpiredRetriable(e) ==
    event[e].status = "PROCESSING" /\ event[e].lease = 0 /\ Retriable(event[e])

Expired(e) == event[e].status = "PROCESSING" /\ event[e].lease = 0

\* SKIP LOCKED: an event whose completion is about to commit is left alone.
RecoverExpired(e) ==
    /\ Expired(e) /\ RowFree(e)
    /\ Failed(e)
    /\ UNCHANGED <<applied, dispatcher, faults>>

\* An administrator grants one more try.
RetryFailed(e) ==
    /\ event[e].status = "FAILED" /\ event[e].limit < MaxLimit
    /\ event' = [event EXCEPT ![e] = Regrant(@)]
    /\ UNCHANGED <<attempts, applied, dispatcher, faults>>

Elapsed(t) == IF t \in Nat \ {0} THEN t - 1 ELSE t

Tick ==
    /\ event' = [e \in Events |->
                   [event[e] EXCEPT !.lease = Elapsed(@), !.due = Elapsed(@)]]
    /\ UNCHANGED <<attempts, applied, dispatcher, faults>>

-----------------------------------------------------------------------------
(* Specification. *)

DispatchStep(p) ==
    \/ HandlerFails(p) \/ Complete(p) \/ Commit(p) \/ CommitFails(p)
    \/ RecordFailure(p)

Next ==
    \/ \E e \in Events : Publish(e) \/ RecoverExpired(e) \/ RetryFailed(e)
    \/ \E p \in Dispatchers, e \in Events : Claim(p, e)
    \/ \E p \in Dispatchers : DispatchStep(p) \/ Crash(p)
    \/ Tick

Spec == Init /\ [][Next]_vars

\* A dispatcher thread goes on and its handler returns; run recovers at a fixed
\* interval; claim takes the due events in the order in which they became due, so
\* an event that is due again and again is claimed in the end.
Fairness ==
    /\ WF_vars(Tick)
    /\ \A p \in Dispatchers : WF_vars(DispatchStep(p))
    /\ \A e \in Events : /\ WF_vars(RecoverExpired(e))
                         /\ SF_vars(\E p \in Dispatchers : Claim(p, e))

FairSpec == Spec /\ Fairness

-----------------------------------------------------------------------------
(* Properties. *)

\* However often an event is claimed, lost, recovered and retried, its handler
\* takes effect once, exactly when the event is PROCESSED.
EffectWithProcessed ==
    \A e \in Events : applied[e] = IF event[e].status = "PROCESSED" THEN 1 ELSE 0

\* The attempt rows tell the story of the event: as many FAILED ones as counted
\* failures, a STARTED one exactly while it is PROCESSING, always the last one,
\* and a SUCCEEDED one exactly when it is PROCESSED.  _attempt relies on it: the
\* claim, the failure and the recovery of an event end the same attempt.
AttemptsAccounted ==
    \A e \in Events :
        LET n == Len(attempts[e])
            Of(status) == {i \in 1..n : attempts[e][i] = status}
        IN /\ Cardinality(Of("FAILED")) = event[e].failures
           /\ Of("STARTED") = IF event[e].status = "PROCESSING" THEN {n} ELSE {}
           /\ Of("SUCCEEDED") = IF event[e].status = "PROCESSED" THEN {n} ELSE {}

\* The row constraints of sync_events on counters and owner, which would end a
\* dispatcher thread if a transaction broke them, and their meaning: an event is
\* FAILED exactly when every retry it was granted is used up.
GivenUpAfterRetries ==
    \A e \in Events :
        /\ event[e].failures <= event[e].limit + 1
        /\ (event[e].status = "FAILED") <=> (event[e].failures = event[e].limit + 1)
        /\ (event[e].status = "PROCESSING") <=> (event[e].token # None)

\* The rows of the outbox are well formed and account for each other: every claim,
\* failure, expiry and administrator's retry leaves counters, attempts and status
\* in the only combination from which the next transaction can go on.
RowsAccounted == TypeOK /\ AttemptsAccounted /\ GivenUpAfterRetries

\* An event whose completion waits for its commit stays with its dispatcher,
\* even if its lease runs out meanwhile, and with that one only.
HeldUntilCommit ==
    \A p \in Dispatchers :
        dispatcher[p].pc = "holding" =>
            /\ event[dispatcher[p].ev].status = "PROCESSING"
            /\ event[dispatcher[p].ev].token = dispatcher[p].token
            /\ \A q \in Dispatchers \ {p} :
                  dispatcher[q].pc = "holding" => dispatcher[q].ev # dispatcher[p].ev

\* An event is taken from its dispatcher only when its lease has run out: any
\* other end is reached by the dispatcher of its token.
LeaseRespected ==
    [][\A e \in Events :
          event[e].status = "PROCESSING" /\ event'[e].status # "PROCESSING" =>
              \/ event[e].lease = 0
              \/ \E p \in Dispatchers :
                    /\ dispatcher[p].ev = e /\ dispatcher[p].token = event[e].token
                    /\ dispatcher'[p] # dispatcher[p]]_vars

-----------------------------------------------------------------------------
(* The refinement of EventDelivery. *)

stage ==
    [e \in Events |->
        CASE event[e].status = "NONE" -> "absent"
          [] event[e].status \in {"PENDING", "PROCESSING"} -> "queued"
          [] event[e].status = "PROCESSED" -> "delivered"
          [] event[e].status = "FAILED" -> "abandoned"]

Delivery == INSTANCE EventDelivery WITH effects <- applied

\* Every event is delivered at most once and none is forgotten: it ends PROCESSED,
\* or FAILED where an administrator sees it.
DeliversEvents == Delivery!FairSpec

=============================================================================
