--------------------------- MODULE WorkerRuntime ---------------------------
(***************************************************************************)
(* One process of src/src/worker/: the poll loop that fills the slots, the *)
(* threads that execute claims, the thread per claim that renews its lease *)
(* and the shutdown; Startup and Dashboard model the application around it.*)
(* IndexingJobs models what the calls of the backend do to the ledger;     *)
(* here they have only their answers.  The delays between polls are left   *)
(* out: a poll may come at any time.  So are the events that interrupt an  *)
(* execution: it ends when it will, told to or not.  A thread may fail to  *)
(* start in two places: the executor's, after it has queued the work, and  *)
(* that of a renewal, after it has been registered.                        *)
(***************************************************************************)
EXTENDS Naturals, FiniteSets

CONSTANTS MaxClaims,       \* claims in the life of the process
          Jobs,
          MaxConcurrency,  \* indexing.worker.max-concurrency
          NoJob

ASSUME RuntimeAssumption ==
    MaxClaims \in Nat /\ MaxConcurrency \in Nat \ {0} /\ NoJob \notin Jobs

Claims == 1 .. MaxClaims
NoClaim == 0

VARIABLES claim,        \* the claims this process was given
          slots,        \* free permits of _slots, a BoundedSemaphore
          poll,         \* the poll thread: where it is and the claim in its hands
          futures,      \* _futures
          renewals,     \* _renewals: job -> the claim whose entry it is
          accepting,    \* _accepting
          pool,         \* the executor takes work
          poolThreads,  \* the threads it has started; they end with the process
          shutdown,     \* the thread in shutdown()
          pending,      \* the futures it waits for
          joins         \* the claims whose renewals it has still to join

runtimeVars == <<claim, slots, poll, futures, renewals, accepting, pool, poolThreads,
                 shutdown, pending, joins>>

\* What only shutdown() changes.
closingVars == <<accepting, pool, shutdown, pending, joins>>

RuntimeInit ==
    /\ claim = [c \in Claims |-> [at |-> "none", job |-> NoJob, tracked |-> TRUE,
                                  renewal |-> "none", stop |-> FALSE]]
    /\ slots = MaxConcurrency
    /\ poll = [at |-> "idle", claim |-> NoClaim]
    /\ futures = {}
    /\ renewals = [j \in Jobs |-> NoClaim]
    /\ accepting = TRUE /\ pool = TRUE /\ poolThreads = 0
    /\ shutdown = "up" /\ pending = {} /\ joins = {}

ClaimsAt(places) == {c \in Claims : claim[c].at \in places}

\* _slots.release(), which raises at the initial value and leaves it there.
GivenBack == IF slots < MaxConcurrency THEN slots + 1 ELSE slots

----------------------------------------------------------------------------
(* poll_tick *)

TakeSlot ==
    /\ poll.at = "idle" /\ accepting /\ slots > 0
    /\ slots' = slots - 1
    /\ poll' = [poll EXCEPT !.at = "slot"]
    /\ UNCHANGED <<claim, futures, renewals, poolThreads, closingVars>>

\* The second look at _accepting, after the slot was taken.
LookAgain ==
    /\ poll.at = "slot"
    /\ IF accepting THEN slots' = slots /\ poll' = [poll EXCEPT !.at = "asking"]
                    ELSE slots' = GivenBack /\ poll' = [poll EXCEPT !.at = "idle"]
    /\ UNCHANGED <<claim, futures, renewals, poolThreads, closingVars>>

\* 204, an error, or an answer that is neither.
NoClaimAnswered ==
    /\ poll.at = "asking"
    /\ slots' = GivenBack
    /\ poll' = [poll EXCEPT !.at = "idle"]
    /\ UNCHANGED <<claim, futures, renewals, poolThreads, closingVars>>

\* The job may be one that an older claim of this process still executes:
\* its lease ran out and somebody recovered it.
ClaimAnswered ==
    /\ poll.at = "asking"
    /\ \E c \in Claims, j \in Jobs :
          /\ claim[c].at = "none" /\ \A b \in 1 .. c - 1 : claim[b].at # "none"
          /\ claim' = [claim EXCEPT ![c].at = "given", ![c].job = j]
          /\ poll' = [at |-> "submit", claim |-> c]
    /\ UNCHANGED <<slots, futures, renewals, poolThreads, closingVars>>

\* The executor takes the claim: an idle thread is there for it, or a new one starts.
Accepted ==
    /\ pool
    /\ claim' = [claim EXCEPT ![poll.claim].at = "queued"]
    /\ poll' = [poll EXCEPT !.at = "track"]
    /\ \/ poolThreads > 0 /\ poolThreads' = poolThreads
       \/ poolThreads < MaxConcurrency /\ poolThreads' = poolThreads + 1
    /\ slots' = slots

\* It is shut down and refuses: the job is left to recovery.
TurnedAway ==
    /\ ~pool
    /\ claim' = [claim EXCEPT ![poll.claim].at = "ended"]
    /\ poll' = [at |-> "idle", claim |-> NoClaim]
    /\ slots' = GivenBack /\ poolThreads' = poolThreads

\* It has queued the claim when its new thread cannot be started, which raises as
\* well: the slot is given back and nobody keeps the future, but a thread that runs
\* already, or one that a later claim starts, will take the claim from the queue.
ThreadNotStarted ==
    /\ pool /\ poolThreads < MaxConcurrency
    /\ claim' = [claim EXCEPT ![poll.claim].at = "queued", ![poll.claim].tracked = FALSE]
    /\ poll' = [at |-> "idle", claim |-> NoClaim]
    /\ slots' = GivenBack /\ poolThreads' = poolThreads

\* Mutant of Submit: a refused claim keeps its slot.
SubmitKeepsSlot ==
    /\ poll.at = "submit"
    /\ \/ Accepted \/ ThreadNotStarted
       \/ /\ ~pool
          /\ claim' = [claim EXCEPT ![poll.claim].at = "ended"]
          /\ poll' = [at |-> "idle", claim |-> NoClaim]
          /\ UNCHANGED <<slots, poolThreads>>
    /\ UNCHANGED <<futures, renewals, closingVars>>

\* executor.submit, and what is done about the RuntimeError it may raise.
Submit ==
    /\ poll.at = "submit"
    /\ Accepted \/ TurnedAway \/ ThreadNotStarted
    /\ UNCHANGED <<futures, renewals, closingVars>>

\* The callback of a future that is done already runs at once.
Track ==
    /\ poll.at = "track"
    /\ futures' = IF claim[poll.claim].at = "ended" THEN futures
                  ELSE futures \union {poll.claim}
    /\ poll' = [at |-> "idle", claim |-> NoClaim]
    /\ UNCHANGED <<claim, slots, renewals, poolThreads, closingVars>>

----------------------------------------------------------------------------
(* _run_claim, in a thread of the executor *)

Running == ClaimsAt({"starting", "registered", "executing", "stopping", "releasing", "released"})

RunClaim(c) ==
    /\ claim[c].at = "queued" /\ Cardinality(Running) < poolThreads
    /\ claim' = [claim EXCEPT ![c].at = "starting"]
    /\ UNCHANGED <<slots, poll, futures, renewals, poolThreads, closingVars>>

MayRenew(c) == renewals[claim[c].job] = NoClaim

\* The renewal is registered before its thread is started.  Refused: the answer
\* is malformed, or the job has a renewal in this process.
StartRenewal(c) ==
    /\ claim[c].at = "starting"
    /\ \/ /\ MayRenew(c)
          /\ renewals' = [renewals EXCEPT ![claim[c].job] = c]
          /\ claim' = [claim EXCEPT ![c].at = "registered", ![c].renewal = "unstarted"]
       \/ /\ claim' = [claim EXCEPT ![c].at = "releasing"]
          /\ UNCHANGED renewals
    /\ UNCHANGED <<slots, poll, futures, poolThreads, closingVars>>

\* The thread of the renewal starts, or cannot and is taken off the register.
StartThread(c) ==
    /\ claim[c].at = "registered"
    /\ \/ /\ claim' = [claim EXCEPT ![c].at = "executing", ![c].renewal = "waiting"]
          /\ UNCHANGED renewals
       \/ /\ claim' = [claim EXCEPT ![c].at = "releasing"]
          /\ renewals' = [renewals EXCEPT ![claim[c].job] = NoClaim]
    /\ UNCHANGED <<slots, poll, futures, poolThreads, closingVars>>

\* execute_claim returns or raises, and the renewal is told to stop.
EndExecution(c) ==
    /\ claim[c].at = "executing"
    /\ claim' = [claim EXCEPT ![c].at = "stopping", ![c].stop = TRUE]
    /\ UNCHANGED <<slots, poll, futures, renewals, poolThreads, closingVars>>

\* After the join of the renewal thread, which has no timeout.
StopRenewal(c) ==
    /\ claim[c].at = "stopping" /\ claim[c].renewal = "ended"
    /\ claim' = [claim EXCEPT ![c].at = "releasing"]
    /\ renewals' = [renewals EXCEPT ![claim[c].job] = IF @ = c THEN NoClaim ELSE @]
    /\ UNCHANGED <<slots, poll, futures, poolThreads, closingVars>>

ReleaseSlot(c) ==
    /\ claim[c].at = "releasing"
    /\ claim' = [claim EXCEPT ![c].at = "released"]
    /\ slots' = GivenBack
    /\ UNCHANGED <<poll, futures, renewals, poolThreads, closingVars>>

ForgetFuture(c) ==
    /\ claim[c].at = "released"
    /\ claim' = [claim EXCEPT ![c].at = "ended"]
    /\ futures' = futures \ {c}
    /\ UNCHANGED <<slots, poll, renewals, poolThreads, closingVars>>

----------------------------------------------------------------------------
(* _renewal_loop, a thread per claim *)

\* The wait for the stop event timed out.
CallRenew(c) ==
    /\ claim[c].renewal = "waiting" /\ ~claim[c].stop
    /\ claim' = [claim EXCEPT ![c].renewal = "calling"]
    /\ UNCHANGED <<slots, poll, futures, renewals, poolThreads, closingVars>>

\* Renewed, or an error that says nothing of the claim.
RenewAnswered(c) ==
    /\ claim[c].renewal = "calling"
    /\ claim' = [claim EXCEPT ![c].renewal = "waiting"]
    /\ UNCHANGED <<slots, poll, futures, renewals, poolThreads, closingVars>>

\* The backend says that the claim is no longer this worker's: the execution is told.
LoseClaim(c) ==
    /\ claim[c].renewal = "calling"
    /\ claim' = [claim EXCEPT ![c].renewal = "ended"]
    /\ UNCHANGED <<slots, poll, futures, renewals, poolThreads, closingVars>>

StopNoticed(c) ==
    /\ claim[c].renewal = "waiting" /\ claim[c].stop
    /\ claim' = [claim EXCEPT ![c].renewal = "ended"]
    /\ UNCHANGED <<slots, poll, futures, renewals, poolThreads, closingVars>>

----------------------------------------------------------------------------
(* stop of the application, and shutdown *)

\* What the steps of shutdown() leave alone.
heldVars == <<slots, poll, renewals, poolThreads>>

\* The application has waited a second for each of its tasks, and shuts the worker down.
Stop ==
    /\ shutdown = "up"
    /\ shutdown' = "stopping"
    /\ UNCHANGED <<claim, futures, accepting, pool, pending, joins, heldVars>>

StopAccepting ==
    /\ shutdown = "stopping"
    /\ accepting' = FALSE
    /\ shutdown' = "closing"
    /\ UNCHANGED <<claim, futures, pool, pending, joins, heldVars>>

ClosePool ==
    /\ shutdown = "closing"
    /\ pool' = FALSE
    /\ shutdown' = "joining"
    /\ UNCHANGED <<claim, futures, accepting, pending, joins, heldVars>>

\* After a tenth of a second for each scheduler thread, which may still be in
\* a poll: a future it adds later is not waited for.
LookAtFutures ==
    /\ shutdown = "joining"
    /\ pending' = futures
    /\ shutdown' = "draining"
    /\ UNCHANGED <<claim, futures, accepting, pool, joins, heldVars>>

Unfinished == pending \ ClaimsAt({"ended"})

\* The futures it saw are done, or the grace period is over: what runs is told
\* to stop and what waits is cancelled.
Drained ==
    /\ shutdown = "draining" /\ Unfinished = {}
    /\ shutdown' = "drained"
    /\ UNCHANGED <<claim, futures, accepting, pool, pending, joins, heldVars>>

\* Mutant of GraceOver: the grace period is not looked at.
GraceWithoutEnd == FALSE /\ UNCHANGED runtimeVars

GraceOver ==
    /\ shutdown = "draining" /\ Unfinished # {}
    /\ claim' = [c \in Claims |->
          IF c \in Unfinished /\ claim[c].at = "queued" THEN [claim[c] EXCEPT !.at = "cancelled"]
          ELSE claim[c]]
    /\ futures' = futures \ (Unfinished \intersect ClaimsAt({"queued"}))
    /\ shutdown' = "drained"
    /\ UNCHANGED <<accepting, pool, pending, joins, heldVars>>

\* The renewals registered at this moment are told to stop; one registered
\* later goes on until its claim ends.
CancelRenewals ==
    /\ shutdown = "drained"
    /\ joins' = {c \in Claims : \E j \in Jobs : renewals[j] = c}
    /\ claim' = [c \in Claims |-> [claim[c] EXCEPT !.stop = @ \/ c \in joins']]
    /\ shutdown' = "cancelling"
    /\ UNCHANGED <<futures, accepting, pool, pending, heldVars>>

\* Each is joined without a timeout: its thread may be in a call.
JoinRenewal ==
    /\ shutdown = "cancelling"
    /\ \E c \in joins : claim[c].renewal = "ended" /\ joins' = joins \ {c}
    /\ UNCHANGED <<claim, futures, accepting, pool, shutdown, pending, heldVars>>

\* The join of a thread that was not started raises, and with it shutdown() and
\* stop(): the worker is neither recorded as stopped nor closed.
JoinUnstarted ==
    /\ shutdown = "cancelling"
    /\ \E c \in joins : claim[c].renewal = "unstarted"
    /\ shutdown' = "raised"
    /\ UNCHANGED <<claim, futures, accepting, pool, pending, joins, heldVars>>

\* stop_worker, whose failure is only logged.
RecordStopped ==
    /\ shutdown = "cancelling" /\ joins = {}
    /\ shutdown' = "closed"
    /\ UNCHANGED <<claim, futures, accepting, pool, pending, joins, heldVars>>

----------------------------------------------------------------------------

PollStep == TakeSlot \/ LookAgain \/ NoClaimAnswered \/ ClaimAnswered \/ Submit \/ Track

ClaimStep(c) == \/ RunClaim(c) \/ StartRenewal(c) \/ StartThread(c) \/ EndExecution(c)
                \/ StopRenewal(c) \/ ReleaseSlot(c) \/ ForgetFuture(c)

\* The renewal goes on from a call or from the event that tells it to stop.
RenewalEnds(c) == RenewAnswered(c) \/ LoseClaim(c) \/ StopNoticed(c)
RenewalStep(c) == CallRenew(c) \/ RenewalEnds(c)

ShutdownStep == \/ StopAccepting \/ ClosePool \/ LookAtFutures \/ Drained \/ GraceOver
                \/ CancelRenewals \/ JoinRenewal \/ JoinUnstarted \/ RecordStopped

RuntimeNext ==
    \/ PollStep \/ ShutdownStep \/ Stop
    \/ \E c \in Claims : ClaimStep(c) \/ RenewalStep(c)

RuntimeSpec == RuntimeInit /\ [][RuntimeNext]_runtimeVars

----------------------------------------------------------------------------
(* Properties *)

RuntimeTypeOK ==
    /\ claim \in [Claims ->
          [at : {"none", "given", "queued", "starting", "registered", "executing", "stopping",
                 "releasing", "released", "ended", "cancelled"},
           job : Jobs \union {NoJob}, tracked : BOOLEAN,
           renewal : {"none", "unstarted", "waiting", "calling", "ended"},
           stop : BOOLEAN]]
    /\ slots \in 0 .. MaxConcurrency /\ poolThreads \in 0 .. MaxConcurrency
    /\ poll \in [at : {"idle", "slot", "asking", "submit", "track"}, claim : 0 .. MaxClaims]
    /\ futures \subseteq Claims /\ pending \subseteq Claims /\ joins \subseteq Claims
    /\ renewals \in [Jobs -> 0 .. MaxClaims]
    /\ accepting \in BOOLEAN /\ pool \in BOOLEAN
    /\ shutdown \in {"up", "stopping", "closing", "joining", "draining", "drained",
                     "cancelling", "closed", "raised"}

\* Who holds a permit: the poll thread until it has submitted, and every claim
\* whose future is kept from then to its release; a cancelled one keeps it.
Holders == {c \in ClaimsAt({"given", "queued", "starting", "registered", "executing",
                            "stopping", "releasing", "cancelled"}) : claim[c].tracked}
PollHolds == IF poll.at \in {"slot", "asking"} THEN 1 ELSE 0
Permits == slots + PollHolds + Cardinality(Holders)

\* The claims that gave their permit back twice, in the poll and in their thread.
GivenTwice == {c \in ClaimsAt({"released", "ended"}) : ~claim[c].tracked}

\* No way through a poll and a claim, refusals and failures included, loses a
\* permit, which would shrink the worker for good.  One is given back too often
\* only by a claim that was queued when the executor could not start a thread.
SlotsBalance == /\ Permits >= MaxConcurrency
                /\ Permits <= MaxConcurrency + Cardinality(GivenTwice)

RenewalAlive(c) == claim[c].renewal \in {"waiting", "calling"}

\* No process executes a job twice at a time, though it may claim it again
\* while an older thread of its own is still busy with it or with its last
\* renewal, and a renewal thread never outlives its claim.
OneExecutionPerJob ==
    /\ \A b, c \in ClaimsAt({"executing", "stopping"}) : claim[b].job = claim[c].job => b = c
    /\ \A c \in Claims : RenewalAlive(c) => claim[c].at \in {"executing", "stopping"}

\* Slots, executions and renewals of one process agree at every moment.
\* worker/core.py:270-388, worker/renewal.py:33-117.
WorkerSound == RuntimeTypeOK /\ SlotsBalance /\ OneExecutionPerJob

\* A stop always ends, however long the claims go on, provided that each call
\* that renews a lease ends.  It ends with a worker that is closed, unless it
\* finds a renewal that was registered and not started.
\* worker/core.py:402-438, worker/renewal.py:105-111.
StopCompletes ==
    /\ (shutdown # "up") ~> (shutdown \in {"closed", "raised"})
    /\ [][shutdown' = "raised" /\ shutdown # "raised" =>
             \E c \in joins : claim[c].renewal = "unstarted" /\ claim[c].stop]_runtimeVars
=============================================================================
