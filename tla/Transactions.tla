---------------------------- MODULE Transactions ----------------------------
(***************************************************************************)
(* src/src/infra/postgres/transaction.py: the transaction of a thread.     *)
(* Stores open it again inside each other (transaction, operation); they   *)
(* share the connection of the outermost block, which alone commits.  A    *)
(* block may fail, and the code around it may let the exception pass or    *)
(* swallow it.                                                             *)
(***************************************************************************)
EXTENDS Naturals

CONSTANTS MaxDepth,   \* blocks inside each other
          MaxWrites   \* statements of one transaction

ASSUME TxAssumption == MaxDepth \in Nat \ {0} /\ MaxWrites \in Nat

VARIABLES depth,         \* open blocks; 0: no ambient transaction
          rollbackOnly,
          raising,       \* an exception is on its way out of the current block
          failed,        \* a block inside the outermost one has failed
          writes,        \* statements executed on the connection
          applied,       \* statements of the transaction the database has committed
          verdict        \* what the outermost block told its caller

txVars == <<depth, rollbackOnly, raising, failed, writes, applied, verdict>>

TxInit ==
    /\ depth = 0 /\ rollbackOnly = FALSE /\ raising = FALSE /\ failed = FALSE
    /\ writes = 0 /\ applied = 0 /\ verdict = "none"

\* The factory fails, or SET TRANSACTION ends the block before its body.
OpenConnection ==
    /\ depth = 0
    /\ rollbackOnly' = FALSE /\ failed' = FALSE /\ writes' = 0 /\ applied' = 0
    /\ \/ depth' = 0 /\ raising' = FALSE /\ verdict' = "error"
       \/ depth' = 1 /\ raising' \in BOOLEAN /\ verdict' = "none"

EnterNested ==
    /\ depth \in 1 .. MaxDepth - 1 /\ ~raising
    /\ depth' = depth + 1
    /\ UNCHANGED <<rollbackOnly, raising, failed, writes, applied, verdict>>

Write ==
    /\ depth > 0 /\ ~raising /\ writes < MaxWrites
    /\ writes' = writes + 1
    /\ UNCHANGED <<depth, rollbackOnly, raising, failed, applied, verdict>>

Raise ==
    /\ depth > 0 /\ ~raising
    /\ raising' = TRUE
    /\ UNCHANGED <<depth, rollbackOnly, failed, writes, applied, verdict>>

\* Mutant of Poisoned: a nested failure does not mark the transaction.
PoisonedNever == rollbackOnly

\* What a nested block leaves behind when an exception passes through it.
Poisoned == rollbackOnly \/ raising

\* The code around a block that fails may swallow the exception.
LeaveNested ==
    /\ depth > 1
    /\ depth' = depth - 1
    /\ rollbackOnly' = Poisoned
    /\ raising' \in IF raising THEN BOOLEAN ELSE {FALSE}
    /\ failed' = (failed \/ raising)
    /\ UNCHANGED <<writes, applied, verdict>>

Close(told, effect) ==
    /\ depth' = 0 /\ raising' = FALSE
    /\ verdict' = told /\ applied' = effect
    /\ UNCHANGED <<rollbackOnly, failed, writes>>

\* The answer of COMMIT, and what became of it: a lost connection leaves it
\* open, any other error is followed by a rollback.
CommitOutcomes == {<<"returned", writes>>, <<"error", 0>>,
                   <<"unknown", 0>>, <<"unknown", writes>>}

\* The outermost block ends: by the exception of its body, by a failure that
\* was swallowed further in, or by the commit.
LeaveOuter ==
    /\ depth = 1
    /\ IF raising \/ rollbackOnly
       THEN Close("error", 0)
       ELSE \E outcome \in CommitOutcomes : Close(outcome[1], outcome[2])

TxNext == OpenConnection \/ EnterNested \/ Write \/ Raise \/ LeaveNested \/ LeaveOuter

TxSpec == TxInit /\ [][TxNext]_txVars

----------------------------------------------------------------------------
(* Properties *)

TxTypeOK ==
    /\ depth \in 0 .. MaxDepth /\ failed \in BOOLEAN
    /\ writes \in 0 .. MaxWrites /\ applied \in 0 .. MaxWrites
    /\ rollbackOnly \in BOOLEAN /\ raising \in BOOLEAN
    /\ verdict \in {"none", "returned", "error", "unknown"}

\* What the caller is told is what happened: a transaction that returns has
\* committed every statement and none of its blocks failed, even where the
\* failure was swallowed; one that raises has committed nothing, unless it
\* says that it does not know.  The upload cleans its candidate up by this.
VerdictHolds ==
    /\ verdict = "returned" => applied = writes /\ ~failed
    /\ verdict \in {"none", "error"} => applied = 0
    /\ applied \in {0, writes}
=============================================================================
