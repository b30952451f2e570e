--------------------------- MODULE LedgerLifecycle ---------------------------
(***************************************************************************)
(* The refinement mapping from the indexing ledger to VersionLifecycle: the*)
(* phase of a version is the status of its job, the served version is the  *)
(* current version pointer of the document.                                *)
(***************************************************************************)
EXTENDS IndexingJobs

phase ==
    [v \in Versions |->
        CASE job[v].status = "NONE" -> "none"
          [] job[v].status \in LiveStates -> "indexing"
          [] job[v].status = "INDEXED" -> "indexed"
          [] job[v].status = "FAILED" -> "failed"]

served == [d \in Docs |-> document[d].current]

deleted == {d \in Docs : document[d].status = "DELETED"}

Lifecycle == INSTANCE VersionLifecycle

\* The ledger implements the promised life of a version: every one of its steps
\* is a step of VersionLifecycle or changes nothing a user of a document sees.
ImplementsLifecycle == Lifecycle!Spec

\* Under the fairness of its schedulers it also keeps the promise that every
\* accepted version comes to an end.
KeepsPromises == Lifecycle!FairSpec

=============================================================================
