-------------------------- MODULE VersionLifecycle --------------------------
(***************************************************************************)
(* What the indexing ledger promises to the users of a document, without   *)
(* workers, leases, attempts, retries or transactions: the versions of a   *)
(* document are indexed one at a time, in order; a version becomes the     *)
(* served one in a single step, when its index is complete; what is served *)
(* is never taken back by a later version that fails; and nothing about a  *)
(* deleted document changes again.  IndexingJobs is shown to implement it. *)
(***************************************************************************)
EXTENDS Integers

CONSTANTS
    Docs,          \* documents
    MaxVersions    \* bound on the versions of a document

VARIABLES
    phase,       \* how far each version is
    served,      \* the number of the served version of a document, 0 if none
    deleted      \* the documents that are deleted

vars == <<phase, served, deleted>>

Numbers == 1..MaxVersions
Versions == Docs \X Numbers
Doc(v) == v[1]

TypeOK ==
    /\ phase \in [Versions -> {"none", "indexing", "indexed", "failed"}]
    /\ served \in [Docs -> 0..MaxVersions]
    /\ deleted \in SUBSET Docs

Init ==
    /\ phase = [v \in Versions |-> "none"]
    /\ served = [d \in Docs |-> 0]
    /\ deleted = {}

\* v is the newest version of its document.
Newest(v) ==
    /\ phase[v] # "none"
    /\ \A n \in Numbers : n > v[2] => phase[<<Doc(v), n>>] = "none"

\* A new version is accepted once every earlier one has come to an end.
Submit(v) ==
    /\ Doc(v) \notin deleted
    /\ phase[v] = "none"
    /\ \A n \in Numbers :
          /\ n < v[2] => phase[<<Doc(v), n>>] \in {"indexed", "failed"}
          /\ n > v[2] => phase[<<Doc(v), n>>] = "none"
    /\ phase' = [phase EXCEPT ![v] = "indexing"]
    /\ UNCHANGED <<served, deleted>>

\* The index of the newest version is complete and replaces the served one.
Publish(v) ==
    /\ Doc(v) \notin deleted
    /\ phase[v] = "indexing" /\ Newest(v)
    /\ served[Doc(v)] < v[2]
    /\ phase' = [phase EXCEPT ![v] = "indexed"]
    /\ served' = [served EXCEPT ![Doc(v)] = v[2]]
    /\ UNCHANGED deleted

\* The ledger gives up on a version; what is served stays served.
GiveUp(v) ==
    /\ Doc(v) \notin deleted
    /\ phase[v] = "indexing"
    /\ phase' = [phase EXCEPT ![v] = "failed"]
    /\ UNCHANGED <<served, deleted>>

\* A failed version is taken up again while no newer one has replaced it.
Restart(v) ==
    /\ Doc(v) \notin deleted
    /\ phase[v] = "failed" /\ Newest(v)
    /\ phase' = [phase EXCEPT ![v] = "indexing"]
    /\ UNCHANGED <<served, deleted>>

Delete(d) ==
    /\ d \notin deleted
    /\ phase[<<d, 1>>] # "none"
    /\ deleted' = deleted \cup {d}
    /\ UNCHANGED <<phase, served>>

Next ==
    \/ \E v \in Versions : Submit(v) \/ Publish(v) \/ GiveUp(v) \/ Restart(v)
    \/ \E d \in Docs : Delete(d)

Spec == Init /\ [][Next]_vars

\* Every accepted version comes to an end.
FairSpec == Spec /\ \A v \in Versions : WF_vars(Publish(v) \/ GiveUp(v))

=============================================================================
