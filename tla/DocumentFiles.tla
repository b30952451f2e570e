--------------------------- MODULE DocumentFiles ---------------------------
(***************************************************************************)
(* The files of documents: src/src/documents/core.py puts a candidate into *)
(* the object storage before the transaction that adopts it, and cleans it *)
(* up afterwards; src/src/sync/consistency/ deletes the candidates that a  *)
(* crash or an unknown commit left behind.  Storage and database are two   *)
(* systems: every call of either is a step of its own.                     *)
(*                                                                         *)
(* An object is named by the upload that put it (its key is two fresh      *)
(* UUIDs).  Uploads are numbered in the order of their keys, which is the  *)
(* order in which the storage lists them.  A new version of a document     *)
(* goes the way of an upload; the checks it adds are the step Reject.      *)
(***************************************************************************)
EXTENDS Naturals, FiniteSets, FiniteSetsExt

CONSTANTS NumUploads,     \* upload requests
          Contents,       \* (digest, size) of a file
          Detectors,      \* processes that reconcile
          Modes,          \* [Detectors -> SUBSET {"DRY_RUN", "REPAIR"}]
          BatchLimit,     \* sync.reconciliation.batch-size
          GraceOutlasts   \* no upload is under way longer than the orphan grace

Uploads == 1 .. NumUploads
NoObject == 0

ASSUME FilesAssumption ==
    /\ NumUploads \in Nat
    /\ BatchLimit \in Nat \ {0}
    /\ GraceOutlasts \in BOOLEAN
    /\ Modes \in [Detectors -> SUBSET {"DRY_RUN", "REPAIR"}]

VARIABLES stored,    \* objects in the storage
          aged,      \* objects last modified before the grace period
          files,     \* file_objects: content -> the object of its row
          versions,  \* uploads whose document and version rows are committed
          upload,    \* the requests
          reconcile, \* the reconciliation under way in each process
          run,       \* status of the latest row of reconciliation_runs of a process
          issue      \* consistency_issues: the ORPHANED_DATA issue of an object

filesVars == <<stored, aged, files, versions, upload, reconcile, run, issue>>

Asleep == [at |-> "idle", mode |-> "DRY_RUN", todo |-> {}, processed |-> 0,
           found |-> {}, settled |-> {}]

FilesInit ==
    /\ stored = {} /\ aged = {} /\ versions = {}
    /\ files = [c \in Contents |-> NoObject]
    /\ upload \in [Uploads -> [at : {"new"}, content : Contents,
                               candidate : {FALSE}, adopted : {FALSE}]]
    /\ reconcile = [d \in Detectors |-> Asleep]
    /\ run = [d \in Detectors |-> "NONE"]
    /\ issue = [u \in Uploads |-> "NONE"]

----------------------------------------------------------------------------
(* Uploads *)

At(u, place) == upload[u].at = place
Goto(u, place) == upload' = [upload EXCEPT ![u].at = place]

\* find_file: the committed row of the content.
FileFor(u) == files[upload[u].content]

\* What an error does with the candidate: cleaned up if one was put.
AfterError(u) == IF upload[u].candidate THEN "cleanup" ELSE "ended"

FindFile(u) ==
    /\ At(u, "new")
    /\ Goto(u, IF FileFor(u) = NoObject THEN "put" ELSE "ready")
    /\ UNCHANGED <<stored, aged, files, versions, reconcile, run, issue>>

\* A put that reports an error may have stored the object all the same, and a
\* delete may have removed it.
PutResults(u) == {<<stored \union {u}, TRUE>>, <<stored \union {u}, FALSE>>, <<stored, FALSE>>}
DeleteResults(u) == {<<stored \ {u}, TRUE>>, <<stored \ {u}, FALSE>>, <<stored, FALSE>>}

PutCandidate(u) ==
    /\ At(u, "put")
    /\ \E result \in PutResults(u) :
          /\ stored' = result[1]
          /\ upload' = [upload EXCEPT ![u].at = IF result[2] THEN "ready" ELSE "ended",
                                      ![u].candidate = result[2]]
    /\ UNCHANGED <<aged, files, versions, reconcile, run, issue>>

\* The transaction fails before the file is adopted: a document that no longer
\* takes a version, a lost connection, the forced failure of the tests.
Reject(u) ==
    /\ At(u, "ready")
    /\ Goto(u, AfterError(u))
    /\ UNCHANGED <<stored, aged, files, versions, reconcile, run, issue>>

\* A transaction that has inserted the row of the content holds the unique key
\* until it ends; another insert waits for it.
Inserting(u) == At(u, "commit") /\ upload[u].adopted
KeyFree(u) == \A v \in Uploads \ {u} :
                  Inserting(v) => upload[v].content # upload[u].content

AdoptFile(u) ==
    /\ At(u, "ready")
    /\ \/ /\ upload[u].candidate /\ FileFor(u) = NoObject
          /\ KeyFree(u)
          /\ upload' = [upload EXCEPT ![u].at = "commit", ![u].adopted = TRUE]
       \/ /\ upload[u].candidate => FileFor(u) # NoObject
          /\ Goto(u, "commit")
    /\ UNCHANGED <<stored, aged, files, versions, reconcile, run, issue>>

TakeEffect(u) ==
    /\ versions' = versions \union {u}
    /\ files' = IF upload[u].adopted
                THEN [files EXCEPT ![upload[u].content] = u] ELSE files

NoEffect == UNCHANGED <<files, versions>>

\* The candidate goes when the file of another upload was adopted.
AfterCommit(u) ==
    IF upload[u].candidate /\ ~upload[u].adopted THEN "cleanup" ELSE "ended"

\* Mutant of AfterUnknown: an unknown outcome is taken for a failure.
AfterUnknownAsError(u) == AfterError(u)

\* An outcome nobody knows must not clean up: the commit may have taken effect.
AfterUnknown(u) == "ended"

CommitUpload(u) ==
    /\ At(u, "commit")
    /\ \/ TakeEffect(u) /\ Goto(u, AfterCommit(u))
       \/ TakeEffect(u) /\ Goto(u, AfterUnknown(u))
       \/ NoEffect /\ Goto(u, AfterUnknown(u))
       \/ NoEffect /\ Goto(u, AfterError(u))
    /\ UNCHANGED <<stored, aged, reconcile, run, issue>>

\* _cleanup swallows the failure of the delete.
Cleanup(u) ==
    /\ At(u, "cleanup")
    /\ \E result \in DeleteResults(u) : stored' = result[1]
    /\ Goto(u, "ended")
    /\ UNCHANGED <<aged, files, versions, reconcile, run, issue>>

\* The process of the request dies; its transaction is rolled back.
Crash(u) ==
    /\ upload[u].at \notin {"new", "ended"}
    /\ Goto(u, "ended")
    /\ UNCHANGED <<stored, aged, files, versions, reconcile, run, issue>>

\* The clock passes the grace period of an object.
Age(u) ==
    /\ u \in stored \ aged
    /\ GraceOutlasts => At(u, "ended")
    /\ aged' = aged \union {u}
    /\ UNCHANGED <<stored, files, versions, upload, reconcile, run, issue>>

----------------------------------------------------------------------------
(* Reconciliation *)

IsAt(d, place) == reconcile[d].at = place
KeepUploads == UNCHANGED <<aged, files, versions, upload>>

\* What the listing of the storage gives, but for the objects that are too young.
Candidates == stored \intersect aged

\* Mutant of Start: the cutoff is compared the wrong way round.
StartWithTheYoung(d) ==
    /\ IsAt(d, "idle")
    /\ \E mode \in Modes[d] :
          reconcile' = [reconcile EXCEPT ![d] =
              [Asleep EXCEPT !.at = "check", !.mode = mode, !.todo = stored \ aged]]
    /\ run' = [run EXCEPT ![d] = "RUNNING"]
    /\ KeepUploads /\ UNCHANGED <<stored, issue>>

\* The row of a run, its cutoff and the listing of the candidates.
Start(d) ==
    /\ IsAt(d, "idle")
    /\ \E mode \in Modes[d] :
          reconcile' = [reconcile EXCEPT ![d] =
              [Asleep EXCEPT !.at = "check", !.mode = mode, !.todo = Candidates]]
    /\ run' = [run EXCEPT ![d] = "RUNNING"]
    /\ KeepUploads /\ UNCHANGED <<stored, issue>>

\* is_referenced: a committed row of file_objects names the object.
IsReferenced(u) == \E c \in Contents : files[c] = u

Item(d) == Min(reconcile[d].todo)
More(d) == reconcile[d].todo # {} /\ reconcile[d].processed < BatchLimit

Settle(d) == [reconcile[d] EXCEPT !.at = "check", !.todo = @ \ {Item(d)},
                                  !.settled = @ \union {Item(d)}]
Report(d) == [reconcile[d] EXCEPT !.todo = @ \ {Item(d)}, !.found = @ \union {Item(d)},
                                  !.processed = @ + 1]

Check(d) ==
    /\ IsAt(d, "check") /\ More(d)
    /\ \/ /\ IsReferenced(Item(d))
          /\ reconcile' = [reconcile EXCEPT ![d] = Settle(d)]
       \/ /\ ~IsReferenced(Item(d)) /\ reconcile[d].mode = "DRY_RUN"
          /\ reconcile' = [reconcile EXCEPT ![d] = Report(d)]
       \/ /\ ~IsReferenced(Item(d)) /\ reconcile[d].mode = "REPAIR"
          /\ reconcile' = [reconcile EXCEPT ![d].at = "recheck"]
    /\ KeepUploads /\ UNCHANGED <<stored, run, issue>>

Recheck(d) ==
    /\ IsAt(d, "recheck")
    /\ reconcile' = [reconcile EXCEPT ![d] =
          IF IsReferenced(Item(d)) THEN Settle(d) ELSE [@ EXCEPT !.at = "delete"]]
    /\ KeepUploads /\ UNCHANGED <<stored, run, issue>>

Deleted(d) == [Settle(d) EXCEPT !.processed = @ + 1]

\* Mutant of DeleteOrphan: a delete that fails is taken for done.
DeleteOrphanUnheard(d) ==
    /\ IsAt(d, "delete")
    /\ \E result \in DeleteResults(Item(d)) : stored' = result[1]
    /\ reconcile' = [reconcile EXCEPT ![d] = Deleted(d)]
    /\ KeepUploads /\ UNCHANGED <<run, issue>>

DeleteOrphan(d) ==
    /\ IsAt(d, "delete")
    /\ \E result \in DeleteResults(Item(d)) : result[2] /\ stored' = result[1]
    /\ reconcile' = [reconcile EXCEPT ![d] = Deleted(d)]
    /\ KeepUploads /\ UNCHANGED <<run, issue>>

\* The storage or the database fails, perhaps after the delete was carried
\* out; what was found so far is forgotten.
Fail(d) ==
    /\ ~IsAt(d, "idle")
    /\ \/ stored' = stored
       \/ /\ IsAt(d, "delete")
          /\ \E result \in DeleteResults(Item(d)) : ~result[2] /\ stored' = result[1]
    /\ run' = [run EXCEPT ![d] = "FAILED"]
    /\ reconcile' = [reconcile EXCEPT ![d] = Asleep]
    /\ KeepUploads /\ UNCHANGED issue

\* The findings are returned when the listing or the limit is exhausted.
EndDetection(d) ==
    /\ IsAt(d, "check") /\ ~More(d)
    /\ reconcile' = [reconcile EXCEPT ![d].at = "apply", ![d].todo = {}]
    /\ KeepUploads /\ UNCHANGED <<stored, run, issue>>

\* _resolve_finding and add_issue, each in a transaction of its own.
Resolve(d) ==
    /\ IsAt(d, "apply")
    /\ \E u \in reconcile[d].settled :
          /\ issue' = [issue EXCEPT ![u] = IF @ \in {"OPEN", "REPAIRING"} THEN "RESOLVED" ELSE @]
          /\ reconcile' = [reconcile EXCEPT ![d].settled = @ \ {u}]
    /\ KeepUploads /\ UNCHANGED <<stored, run>>

AddIssue(d) ==
    /\ IsAt(d, "apply")
    /\ \E u \in reconcile[d].found :
          /\ issue' = [issue EXCEPT ![u] = IF @ = "NONE" THEN "OPEN" ELSE @]
          /\ reconcile' = [reconcile EXCEPT ![d].found = @ \ {u}]
    /\ KeepUploads /\ UNCHANGED <<stored, run>>

Complete(d) ==
    /\ IsAt(d, "apply") /\ reconcile[d].settled = {} /\ reconcile[d].found = {}
    /\ run' = [run EXCEPT ![d] = "COMPLETED"]
    /\ reconcile' = [reconcile EXCEPT ![d] = Asleep]
    /\ KeepUploads /\ UNCHANGED <<stored, issue>>

\* The row of the run stays RUNNING.
CrashDetector(d) ==
    /\ ~IsAt(d, "idle")
    /\ reconcile' = [reconcile EXCEPT ![d] = Asleep]
    /\ KeepUploads /\ UNCHANGED <<stored, run, issue>>

\* An administrator.  repair_issue refuses every issue of this type: the
\* detector never calls one safe to repair.
IgnoreIssue(u) ==
    /\ issue[u] = "OPEN"
    /\ issue' = [issue EXCEPT ![u] = "IGNORED"]
    /\ KeepUploads /\ UNCHANGED <<stored, reconcile, run>>

----------------------------------------------------------------------------

UploadStep(u) ==
    \/ FindFile(u) \/ PutCandidate(u) \/ Reject(u) \/ AdoptFile(u)
    \/ CommitUpload(u) \/ Cleanup(u) \/ Crash(u)

DetectorStep(d) ==
    \/ Start(d) \/ Check(d) \/ Recheck(d) \/ DeleteOrphan(d)
    \/ EndDetection(d) \/ Resolve(d) \/ AddIssue(d) \/ Complete(d)

FilesNext ==
    \/ \E u \in Uploads : UploadStep(u) \/ Age(u) \/ IgnoreIssue(u)
    \/ \E d \in Detectors : DetectorStep(d) \/ Fail(d) \/ CrashDetector(d)

FilesSpec == FilesInit /\ [][FilesNext]_filesVars

----------------------------------------------------------------------------
(* Properties *)

FilesTypeOK ==
    /\ stored \subseteq Uploads /\ aged \subseteq Uploads /\ versions \subseteq Uploads
    /\ files \in [Contents -> Uploads \union {NoObject}]
    /\ upload \in [Uploads -> [at : {"new", "put", "ready", "commit", "cleanup", "ended"},
                               content : Contents, candidate : BOOLEAN, adopted : BOOLEAN]]
    /\ reconcile \in [Detectors ->
          [at : {"idle", "check", "recheck", "delete", "apply"},
           mode : {"DRY_RUN", "REPAIR"}, todo : SUBSET Uploads,
           processed : 0 .. BatchLimit, found : SUBSET Uploads, settled : SUBSET Uploads]]
    /\ run \in [Detectors -> {"NONE", "RUNNING", "COMPLETED", "FAILED"}]
    /\ issue \in [Uploads -> {"NONE", "OPEN", "RESOLVED", "IGNORED"}]

\* Every committed version can be downloaded: its content has a row and the
\* object of the row is in the storage, whatever was cleaned up, lost at a
\* commit or deleted as an orphan meanwhile.
FileKept ==
    /\ \A c \in Contents : files[c] # NoObject => files[c] \in stored
    /\ \A u \in versions : FileFor(u) # NoObject

\* An orphan issue is RESOLVED only when its object is gone or referenced.
ResolvedIsSettled ==
    \A u \in Uploads : issue[u] = "RESOLVED" => u \notin stored \/ IsReferenced(u)

Orphan(u) == u \in stored /\ ~IsReferenced(u) /\ At(u, "ended")

\* An object that nobody refers to and whose upload has ended, by a crash, an
\* unknown commit or a failed cleanup, is deleted in the end.
OrphansDeleted == \A u \in Uploads : Orphan(u) ~> ~Orphan(u)
=============================================================================
