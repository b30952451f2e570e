---------------------------- MODULE Migrations -----------------------------
(***************************************************************************)
(* src/src/infra/postgres/migrate.py: processes that start together and    *)
(* bring one database to the migrations of their packages, under a session *)
(* advisory lock.  A migration is its digest; its SQL and its row of the   *)
(* history commit together, and the version is the primary key of the      *)
(* history.  A COMMIT whose connection breaks goes on at the server, in a  *)
(* backend that holds the lock until it ends.                              *)
(***************************************************************************)
EXTENDS Naturals, Sequences, SequencesExt

CONSTANTS Runners,
          Package,        \* Package[r]: the digests of its files, in order
          MaxBreaks       \* statements and connections that fail

\* The digests of all files.
Digests == UNION {{Package[r][i] : i \in DOMAIN Package[r]} : r \in Runners}

ASSUME MigrationAssumption ==
    /\ MaxBreaks \in Nat
    /\ Runners # {}
    /\ Package \in [Runners -> Seq(Digests)]

VARIABLES schema,         \* the history table
          runner,         \* run_migrations in each process
          advisory,       \* who holds the advisory lock: a session or a broken one
          orphan,         \* what the broken session of a process is committing
          breaks

migrationVars == <<schema, runner, advisory, orphan, breaks>>

NoHolder == <<>>
Session(r) == <<r, "session">>
BrokenSession(r) == <<r, "broken">>
Nothing == <<>>

MigrationInit ==
    /\ schema = <<>>
    /\ runner = [r \in Runners |->
          [at |-> "open", known |-> <<>>, first |-> 0, index |-> 1,
           applied |-> <<>>, already |-> <<>>, recovered |-> {}, excused |-> FALSE]]
    /\ advisory = NoHolder
    /\ orphan = [r \in Runners |-> Nothing]
    /\ breaks = 0

Release(r) == advisory' = IF advisory = Session(r) THEN NoHolder ELSE advisory

\* run_migrations raises: the finally clause unlocks and closes.
EndRun(r, outcome, excused) ==
    /\ runner' = [runner EXCEPT ![r].at = outcome, ![r].excused = @ \/ excused]
    /\ Release(r)

\* What can go wrong with a statement or a connection.
Fault == breaks < MaxBreaks /\ breaks' = breaks + 1

----------------------------------------------------------------------------

Open(r) ==
    /\ runner[r].at = "open"
    /\ runner' = [runner EXCEPT ![r].at = "lock"]
    /\ UNCHANGED <<schema, advisory, orphan, breaks>>

\* Mutant of LockFree: the lock is not asked for.
LockAlwaysFree(r) == TRUE

LockFree(r) == advisory = NoHolder

AcquireLock(r) ==
    /\ runner[r].at \in {"lock", "relock"} /\ LockFree(r)
    /\ advisory' = Session(r)
    /\ runner' = [runner EXCEPT ![r].at = IF @ = "lock" THEN "history" ELSE "rehistory"]
    /\ UNCHANGED <<schema, orphan, breaks>>

\* _validate_history
ValidHistory(r) == IsPrefix(schema, Package[r])

ReadHistory(r) ==
    /\ runner[r].at = "history"
    /\ IF ValidHistory(r)
       THEN /\ runner' = [runner EXCEPT ![r].at = "loop", ![r].known = schema,
                                        ![r].first = Len(schema)]
            /\ UNCHANGED advisory
       ELSE EndRun(r, "failed", TRUE)
    /\ UNCHANGED <<schema, orphan, breaks>>

MoreFiles(r) == runner[r].index <= Len(Package[r])
IsRecorded(r) == runner[r].index <= Len(runner[r].known)

SkipRecorded(r) ==
    /\ runner[r].at = "loop" /\ MoreFiles(r) /\ IsRecorded(r)
    /\ LET i == runner[r].index IN
       runner' = [runner EXCEPT
          ![r].index = i + 1,
          ![r].already = IF i <= runner[r].first THEN Append(@, i) ELSE @,
          ![r].applied = IF i > runner[r].first /\ ~Contains(@, i) THEN Append(@, i) ELSE @]
    /\ UNCHANGED <<schema, advisory, orphan, breaks>>

\* The SQL and the history row, which meets the primary key when another
\* process has applied the version.
Apply(r) ==
    /\ runner[r].at = "loop" /\ MoreFiles(r) /\ ~IsRecorded(r)
    /\ IF runner[r].index <= Len(schema) THEN EndRun(r, "failed", FALSE)
       ELSE /\ runner' = [runner EXCEPT ![r].at = "commit"]
            /\ UNCHANGED advisory
    /\ UNCHANGED <<schema, orphan, breaks>>

Commit(r) ==
    /\ runner[r].at = "commit"
    /\ LET i == runner[r].index IN
       /\ schema' = Append(schema, Package[r][i])
       /\ runner' = [runner EXCEPT ![r].at = "loop", ![r].index = i + 1,
                        ![r].known = Append(@, Package[r][i]),
                        ![r].applied = Append(@, i)]
    /\ UNCHANGED <<advisory, orphan, breaks>>

\* The connection breaks in the COMMIT.
CommitBreaks(r) ==
    /\ runner[r].at = "commit" /\ Fault
    /\ orphan' = [orphan EXCEPT ![r] = <<Package[r][runner[r].index]>>]
    /\ advisory' = BrokenSession(r)
    /\ runner' = [runner EXCEPT ![r].at = "reopen", ![r].excused = TRUE]
    /\ UNCHANGED schema

\* The server ends it: the transaction took effect or it did not.
OrphanEnds(r) ==
    /\ orphan[r] # Nothing
    /\ \/ schema' = schema \o orphan[r]
       \/ UNCHANGED schema
    /\ orphan' = [orphan EXCEPT ![r] = Nothing]
    /\ advisory' = IF advisory = BrokenSession(r) THEN NoHolder ELSE advisory
    /\ UNCHANGED <<runner, breaks>>

Reopen(r) ==
    /\ runner[r].at = "reopen"
    /\ runner' = [runner EXCEPT ![r].at = "relock"]
    /\ UNCHANGED <<schema, advisory, orphan, breaks>>

\* The outcome of the commit is read back; a migration that is not there is
\* tried once more.
ReadBack(r) ==
    /\ runner[r].at = "rehistory"
    /\ LET i == runner[r].index IN
       \/ /\ ~ValidHistory(r)
          /\ EndRun(r, "unknown", TRUE)
       \/ /\ ValidHistory(r) /\ i <= Len(schema)
          /\ runner' = [runner EXCEPT ![r].at = "loop", ![r].known = schema,
                           ![r].applied = Append(@, i), ![r].index = i + 1]
          /\ UNCHANGED advisory
       \/ /\ ValidHistory(r) /\ i > Len(schema) /\ i \notin runner[r].recovered
          /\ runner' = [runner EXCEPT ![r].at = "loop", ![r].known = schema,
                           ![r].recovered = @ \union {i}]
          /\ UNCHANGED advisory
       \/ /\ ValidHistory(r) /\ i > Len(schema) /\ i \in runner[r].recovered
          /\ EndRun(r, "unknown", TRUE)
    /\ UNCHANGED <<schema, orphan, breaks>>

Finish(r) ==
    /\ runner[r].at = "loop" /\ ~MoreFiles(r)
    /\ EndRun(r, "reported", FALSE)
    /\ UNCHANGED <<schema, orphan, breaks>>

\* A connection that cannot be opened, a statement that fails, a commit that is
\* refused, or the death of the process.
StatementFails(r) ==
    /\ \/ runner[r].at \in {"open", "lock", "history", "commit", "reopen", "relock", "rehistory"}
       \/ runner[r].at = "loop" /\ MoreFiles(r) /\ ~IsRecorded(r)
    /\ Fault
    /\ EndRun(r, IF runner[r].at \in {"reopen", "relock", "rehistory"} THEN "unknown" ELSE "failed", TRUE)
    /\ UNCHANGED <<schema, orphan>>

RunnerStep(r) ==
    \/ Open(r) \/ AcquireLock(r) \/ ReadHistory(r) \/ SkipRecorded(r) \/ Apply(r) \/ Commit(r)
    \/ CommitBreaks(r) \/ OrphanEnds(r) \/ Reopen(r) \/ ReadBack(r) \/ Finish(r)
    \/ StatementFails(r)

MigrationNext == \E r \in Runners : RunnerStep(r)

MigrationSpec == MigrationInit /\ [][MigrationNext]_migrationVars

----------------------------------------------------------------------------

\* However the processes and their broken commits interleave: the database
\* follows one package; a report lists every file once, as applied or as there
\* before, and all of it is in the database; and a process fails only for a
\* fault of its own or a package that does not fit, never because another one
\* works at the same migration.  infra/postgres/migrate.py:240-343.
MigrationsTruthful ==
    /\ \E r \in Runners : IsPrefix(schema, Package[r])
    /\ \A r \in Runners :
          /\ runner[r].at = "reported" =>
                /\ IsPrefix(Package[r], schema)
                /\ runner[r].already \o runner[r].applied = [i \in 1 .. Len(Package[r]) |-> i]
          /\ runner[r].at \in {"failed", "unknown"} => runner[r].excused
=============================================================================
