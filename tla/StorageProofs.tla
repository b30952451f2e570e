--------------------------- MODULE StorageProofs ---------------------------
(***************************************************************************)
(* Theorems about the files of documents, which uploads put and adopt and  *)
(* detectors look for and delete (DocumentFiles), and about the answers of *)
(* a search, its cache and its generator (Search), and what a request      *)
(* reads (Reading): for any number of uploads, detectors, requests,        *)
(* documents and permissions.                                              *)
(***************************************************************************)
EXTENDS DocumentFiles, Search, Reading, FiniteSetTheorems, WellFoundedInduction, TLAPS

\* A set of naturals that is not empty has a least one, and Min finds it.
LEMMA MinIsLeast ==
    ASSUME NEW S \in SUBSET Nat, S # {}
    PROVE  Min(S) \in S
<1> DEFINE R == {ss \in Nat \X Nat : ss[1] < ss[2]}
<1>1. OpToRel(<, Nat) = R
  BY Zenon DEF OpToRel
<1>2. IsWellFoundedOn(R, Nat)
  BY ONLY <1>1, NatLessThanWellFounded, Zenon
<1>3. \E x \in S : \A y \in S : ~ (<<y, x>> \in R)
  BY <1>2, WFMin, Zenon
<1>4. PICK x \in S : \A y \in S : ~ (<<y, x>> \in R)
  BY ONLY <1>3
<1>5. \A y \in S : x <= y
  <2> SUFFICES ASSUME NEW y \in S, ~(x <= y) PROVE FALSE
    OBVIOUS
  <2>1. x \in Nat /\ y \in Nat /\ y < x
    OBVIOUS
  <2>2. <<y, x>> \in R
    BY <2>1
  <2>3. QED BY <1>4, <2>2
<1>6. QED BY <1>5 DEF Min

----------------------------------------------------------------------------
(* Files: what is adopted, kept and deleted                                 *)

\* What an upload is at its place, and what the rows say of its content.
UploadFormed(u) ==
    /\ upload[u].adopted => upload[u].candidate
    /\ upload[u].at \in {"new", "put"} => ~upload[u].candidate
    /\ upload[u].at \in {"new", "put", "ready"} => ~upload[u].adopted
    /\ At(u, "ready") /\ ~upload[u].candidate => FileFor(u) # NoObject
    /\ At(u, "commit") /\ ~upload[u].adopted => FileFor(u) # NoObject
    /\ Inserting(u) => FileFor(u) = NoObject
    /\ IsReferenced(u) => At(u, "ended")
    /\ u \in stored \union aged => upload[u].at \notin {"new", "put"}

\* One transaction at a time has inserted the row of a content.
KeyHeldOnce ==
    \A u, v \in Uploads :
        Inserting(u) /\ Inserting(v) /\ upload[u].content = upload[v].content => u = v

UploadsInv == /\ \A u \in Uploads : UploadFormed(u)
              /\ KeyHeldOnce
              /\ \A u \in versions : FileFor(u) # NoObject

\* What reconciliation has found is so for good: an aged object is not put again.
Settled(u) == u \in aged /\ (u \notin stored \/ IsReferenced(u))
DetectorFormed(d) ==
    /\ reconcile[d].todo \subseteq aged
    /\ reconcile[d].at \in {"recheck", "delete"} =>
          reconcile[d].todo # {} /\ reconcile[d].processed < BatchLimit
    /\ \A u \in reconcile[d].settled : Settled(u)

DetectorsInv == /\ \A d \in Detectors : DetectorFormed(d)
                /\ \A u \in Uploads : issue[u] = "RESOLVED" => Settled(u)

FilesInv == FilesTypeOK /\ UploadsInv /\ DetectorsInv

\* With the grace period: what an upload may still adopt is not deleted, and
\* neither is what a row refers to.
KeptInv ==
    /\ \A u \in aged : At(u, "ended")
    /\ \A u \in Uploads : upload[u].candidate /\ upload[u].at \in {"ready", "commit"} => u \in stored
    /\ \A c \in Contents : files[c] # NoObject => files[c] \in stored
    /\ \A d \in Detectors : IsAt(d, "delete") => ~IsReferenced(Item(d))

\* The item under way is one of those to do.
LEMMA ItemToDo ==
    ASSUME FilesTypeOK, NEW d \in Detectors, reconcile[d].todo # {}
    PROVE  Item(d) \in reconcile[d].todo /\ Item(d) \in Uploads
<1>1. reconcile[d].todo \in SUBSET Uploads
  BY DEF FilesTypeOK
<1>2. reconcile[d].todo \in SUBSET Nat
  BY <1>1, FilesAssumption DEF Uploads
<1>3. QED BY <1>1, <1>2, MinIsLeast DEF Item

Places == {"new", "put", "ready", "commit", "cleanup", "ended"}
UploadRows == [at : Places, content : Contents, candidate : BOOLEAN, adopted : BOOLEAN]
RunPlaces == {"idle", "check", "recheck", "delete", "apply"}
RunRows == [at : RunPlaces, mode : {"DRY_RUN", "REPAIR"}, todo : SUBSET Uploads,
            processed : 0 .. BatchLimit, found : SUBSET Uploads, settled : SUBSET Uploads]

LEMMA UploadRowChanges ==
    ASSUME NEW row \in UploadRows, NEW place \in Places, NEW b \in BOOLEAN
    PROVE  /\ [row EXCEPT !.at = place] \in UploadRows
           /\ [row EXCEPT !.at = place, !.candidate = b] \in UploadRows
           /\ [row EXCEPT !.at = place, !.adopted = b] \in UploadRows
  BY DEF UploadRows

LEMMA RunRowChanges ==
    ASSUME NEW row \in RunRows, NEW W \in SUBSET Uploads
    PROVE  /\ \A place \in RunPlaces : /\ [row EXCEPT !.at = place] \in RunRows
                                       /\ [row EXCEPT !.at = place, !.todo = W] \in RunRows
           /\ \A V \in SUBSET Uploads :
                 [row EXCEPT !.at = "check", !.todo = W, !.settled = V] \in RunRows
           /\ \A V \in SUBSET Uploads, n \in 0 .. BatchLimit :
                 [row EXCEPT !.todo = W, !.found = V, !.processed = n] \in RunRows
           /\ \A n \in 0 .. BatchLimit : [row EXCEPT !.processed = n] \in RunRows
           /\ \A mode \in {"DRY_RUN", "REPAIR"} :
                 [row EXCEPT !.at = "check", !.mode = mode, !.todo = W] \in RunRows
           /\ [row EXCEPT !.settled = W] \in RunRows
           /\ [row EXCEPT !.found = W] \in RunRows
  BY DEF RunRows, RunPlaces

\* What an operation on an object did, and what it says it did.
LEMMA Outcome ==
    ASSUME NEW done, NEW before, NEW result,
           result \in {<<done, TRUE>>, <<done, FALSE>>, <<before, FALSE>>}
    PROVE  \/ result[1] = done /\ result[2] \in BOOLEAN
           \/ result[1] = before /\ result[2] = FALSE
<1>1. \/ result = <<done, TRUE>> \/ result = <<done, FALSE>> \/ result = <<before, FALSE>>
  BY Zenon
<1>2. CASE result = <<done, TRUE>>
  <2>1. result[1] = done /\ result[2] = TRUE
    BY <1>2
  <2>2. QED BY <2>1
<1>3. CASE result = <<done, FALSE>>
  <2>1. result[1] = done /\ result[2] = FALSE
    BY <1>3
  <2>2. QED BY <2>1
<1>4. CASE result = <<before, FALSE>>
  <2>1. result[1] = before /\ result[2] = FALSE
    BY <1>4
  <2>2. QED BY <2>1
<1>5. QED BY <1>1, <1>2, <1>3, <1>4

LEMMA PutOutcome ==
    ASSUME NEW u, NEW result \in PutResults(u)
    PROVE  \/ result[1] = stored \union {u} /\ result[2] \in BOOLEAN
           \/ result[1] = stored /\ result[2] = FALSE
  BY Outcome, ZenonT(30) DEF PutResults

LEMMA DeleteOutcome ==
    ASSUME NEW u, NEW result \in DeleteResults(u)
    PROVE  \/ result[1] = stored \ {u} /\ result[2] \in BOOLEAN
           \/ result[1] = stored /\ result[2] = FALSE
  BY Outcome, ZenonT(30) DEF DeleteResults

LEMMA UploadTypes ==
    ASSUME FilesTypeOK, NEW u \in Uploads, UploadStep(u) \/ Age(u) \/ IgnoreIssue(u)
    PROVE  FilesTypeOK'
<1> USE DEF Goto, At
<1>1. upload \in [Uploads -> UploadRows] /\ upload[u] \in UploadRows
  BY DEF FilesTypeOK, UploadRows, Places
<1>2. ASSUME NEW row \in UploadRows, upload' = [upload EXCEPT ![u] = row]
      PROVE  upload' \in [Uploads -> UploadRows]
  BY <1>1, <1>2
<1>3. upload' \in [Uploads -> UploadRows]
  <2>1. \A place \in Places, b \in BOOLEAN :
           /\ [upload[u] EXCEPT !.at = place] \in UploadRows
           /\ [upload[u] EXCEPT !.at = place, !.candidate = b] \in UploadRows
           /\ [upload[u] EXCEPT !.at = place, !.adopted = b] \in UploadRows
    BY <1>1, UploadRowChanges
  <2>2. CASE \E place \in Places : Goto(u, place)
    BY <1>1, <2>1, <2>2
  <2>3. CASE PutCandidate(u)
    <3>1. PICK place \in Places, b \in BOOLEAN :
             upload' = [upload EXCEPT ![u] = [upload[u] EXCEPT !.at = place, !.candidate = b]]
      <4>1. PICK result \in PutResults(u) :
               upload' = [upload EXCEPT ![u].at = IF result[2] THEN "ready" ELSE "ended",
                                        ![u].candidate = result[2]]
        BY <2>3 DEF PutCandidate
      <4>2. result[2] \in BOOLEAN
        BY <4>1, PutOutcome
      <4>3. (IF result[2] THEN "ready" ELSE "ended") \in Places
        BY DEF Places
      <4>4. QED BY <4>1, <4>2, <4>3
    <3>2. QED BY <1>2, <2>1, <3>1
  <2>4. CASE upload' = [upload EXCEPT ![u].at = "commit", ![u].adopted = TRUE]
    <3>1. upload' = [upload EXCEPT ![u] = [upload[u] EXCEPT !.at = "commit", !.adopted = TRUE]]
      BY <2>4
    <3>2. [upload[u] EXCEPT !.at = "commit", !.adopted = TRUE] \in UploadRows
      BY <2>1 DEF Places
    <3>3. QED BY <1>2, <3>1, <3>2
  <2>5. CASE UNCHANGED upload
    BY <1>1, <2>5
  <2>6. CASE CommitUpload(u)
    BY <2>2, <2>6 DEF CommitUpload, AfterCommit, AfterUnknown, AfterError, Places
  <2>7. CASE FindFile(u) \/ Reject(u) \/ Cleanup(u) \/ Crash(u)
    BY <2>2, <2>7 DEF FindFile, Reject, Cleanup, Crash, AfterError, Places
  <2>8. CASE AdoptFile(u)
    BY <2>2, <2>4, <2>8 DEF AdoptFile, Places
  <2>9. CASE Age(u) \/ IgnoreIssue(u)
    BY <2>5, <2>9 DEF Age, IgnoreIssue, KeepUploads
  <2>10. QED
    BY <2>3, <2>6, <2>7, <2>8, <2>9 DEF UploadStep
<1>4. /\ stored' \subseteq Uploads /\ aged' \subseteq Uploads /\ versions' \subseteq Uploads
      /\ files' \in [Contents -> Uploads \union {NoObject}]
  BY DEF FilesTypeOK, UploadStep, FindFile, PutCandidate, PutResults, Reject, AdoptFile,
         CommitUpload, TakeEffect, NoEffect, Cleanup, DeleteResults, Crash, Age, IgnoreIssue,
         KeepUploads
<1>5. /\ reconcile' = reconcile /\ run' = run
      /\ issue' \in [Uploads -> {"NONE", "OPEN", "RESOLVED", "IGNORED"}]
  BY DEF FilesTypeOK, UploadStep, FindFile, PutCandidate, Reject, AdoptFile,
         CommitUpload, Cleanup, Crash, Age, IgnoreIssue, KeepUploads
<1>6. QED BY <1>3, <1>4, <1>5 DEF FilesTypeOK, UploadRows, Places

LEMMA DetectorTypes ==
    ASSUME FilesTypeOK, DetectorsInv, NEW d \in Detectors,
           DetectorStep(d) \/ Fail(d) \/ CrashDetector(d)
    PROVE  FilesTypeOK'
<1> USE FilesAssumption DEF IsAt
<1>1. reconcile \in [Detectors -> RunRows] /\ reconcile[d] \in RunRows
  BY DEF FilesTypeOK, RunRows, RunPlaces
<1>2. ASSUME NEW row \in RunRows, reconcile' = [reconcile EXCEPT ![d] = row]
      PROVE  reconcile' \in [Detectors -> RunRows]
  BY <1>1, <1>2
<1>3. ASSUME \/ IsAt(d, "recheck") \/ IsAt(d, "delete")
             \/ IsAt(d, "check") /\ More(d)
      PROVE  /\ Item(d) \in Uploads /\ reconcile[d].processed + 1 \in 0 .. BatchLimit
             /\ reconcile[d].todo \ {Item(d)} \in SUBSET Uploads
             /\ reconcile[d].settled \union {Item(d)} \in SUBSET Uploads
             /\ reconcile[d].found \union {Item(d)} \in SUBSET Uploads
  <2>1. reconcile[d].todo # {} /\ reconcile[d].processed < BatchLimit
    BY <1>3 DEF More, DetectorsInv, DetectorFormed
  <2>2. Item(d) \in Uploads
    BY <2>1, ItemToDo
  <2>3. QED BY <1>1, <2>1, <2>2 DEF RunRows
<1>4. Asleep \in RunRows
  BY DEF Asleep, RunRows, RunPlaces
<1>5. reconcile' \in [Detectors -> RunRows]
  <2>1. CASE Start(d)
    <3>1. PICK mode \in Modes[d] : reconcile' = [reconcile EXCEPT ![d] =
              [Asleep EXCEPT !.at = "check", !.mode = mode, !.todo = Candidates]]
      BY <2>1 DEF Start
    <3>2. [Asleep EXCEPT !.at = "check", !.mode = mode, !.todo = Candidates] \in RunRows
      <4>1. Candidates \in SUBSET Uploads /\ mode \in {"DRY_RUN", "REPAIR"}
        BY DEF Candidates, FilesTypeOK
      <4>2. QED BY <1>4, <4>1, RunRowChanges
    <3>3. QED BY <1>2, <3>1, <3>2
  <2>2. ASSUME \/ IsAt(d, "recheck") \/ IsAt(d, "delete")
               \/ IsAt(d, "check") /\ More(d)
        PROVE  Settle(d) \in RunRows /\ Report(d) \in RunRows /\ Deleted(d) \in RunRows
    <3>0. /\ reconcile[d].todo \ {Item(d)} \in SUBSET Uploads
          /\ reconcile[d].settled \union {Item(d)} \in SUBSET Uploads
          /\ reconcile[d].found \union {Item(d)} \in SUBSET Uploads
          /\ reconcile[d].processed + 1 \in 0 .. BatchLimit
      BY <1>3, <2>2
    <3>1. Settle(d) \in RunRows /\ Report(d) \in RunRows
      BY <1>1, <3>0, RunRowChanges DEF Settle, Report
    <3>2. Settle(d).processed = reconcile[d].processed
      BY <1>1 DEF Settle, RunRows
    <3>3. QED BY <3>0, <3>1, <3>2, RunRowChanges DEF Deleted
  <2>3. \A place \in RunPlaces : [reconcile[d] EXCEPT !.at = place] \in RunRows
    BY <1>1, RunRowChanges
  <2>4. CASE Check(d)
    <3>1. CASE reconcile' = [reconcile EXCEPT ![d].at = "recheck"]
      BY <1>2, <2>3, <3>1 DEF RunPlaces
    <3>2. QED BY <1>2, <2>2, <2>4, <3>1 DEF Check
  <2>5. CASE Recheck(d)
    <3>1. \/ reconcile' = [reconcile EXCEPT ![d] = Settle(d)]
          \/ reconcile' = [reconcile EXCEPT ![d] = [reconcile[d] EXCEPT !.at = "delete"]]
      BY <2>5 DEF Recheck
    <3>2. QED BY <1>2, <2>2, <2>3, <2>5, <3>1 DEF Recheck, RunPlaces
  <2>6. CASE DeleteOrphan(d)
    BY <1>2, <2>2, <2>6 DEF DeleteOrphan
  <2>7. CASE EndDetection(d)
    <3>1. reconcile' = [reconcile EXCEPT ![d] = [reconcile[d] EXCEPT !.at = "apply", !.todo = {}]]
      BY <2>7 DEF EndDetection
    <3>2. [reconcile[d] EXCEPT !.at = "apply", !.todo = {}] \in RunRows
      BY <1>1, RunRowChanges DEF RunPlaces
    <3>3. QED BY <1>2, <3>1, <3>2
  <2>8. CASE Resolve(d)
    <3>1. PICK u : reconcile' = [reconcile EXCEPT ![d] =
                      [reconcile[d] EXCEPT !.settled = reconcile[d].settled \ {u}]]
      BY <2>8 DEF Resolve
    <3>2. reconcile[d].settled \ {u} \in SUBSET Uploads
      BY <1>1 DEF RunRows
    <3>3. QED BY <1>1, <1>2, <3>1, <3>2, RunRowChanges
  <2>9. CASE AddIssue(d)
    <3>1. PICK u : reconcile' = [reconcile EXCEPT ![d] =
                      [reconcile[d] EXCEPT !.found = reconcile[d].found \ {u}]]
      BY <2>9 DEF AddIssue
    <3>2. reconcile[d].found \ {u} \in SUBSET Uploads
      BY <1>1 DEF RunRows
    <3>3. QED BY <1>1, <1>2, <3>1, <3>2, RunRowChanges
  <2>10. CASE Complete(d) \/ Fail(d) \/ CrashDetector(d)
    BY <1>2, <1>4, <2>10 DEF Complete, Fail, CrashDetector
  <2>11. QED
    BY <2>1, <2>4, <2>5, <2>6, <2>7, <2>8, <2>9, <2>10 DEF DetectorStep
<1>6. UNCHANGED <<aged, files, versions, upload>>
  BY DEF DetectorStep, Start, Check, Recheck, DeleteOrphan, EndDetection, Resolve, AddIssue,
         Complete, Fail, CrashDetector, KeepUploads
<1>7. stored' \subseteq Uploads
  <2>1. stored' \subseteq stored
    <3>1. CASE \E result \in DeleteResults(Item(d)) : stored' = result[1]
      BY <3>1, DeleteOutcome
    <3>2. CASE UNCHANGED stored
      BY <3>2
    <3>3. QED BY <3>1, <3>2 DEF DetectorStep, Start, Check, Recheck, DeleteOrphan, EndDetection,
                 Resolve, AddIssue, Complete, Fail, CrashDetector
  <2>2. QED BY <2>1 DEF FilesTypeOK
<1>8. /\ run' \in [Detectors -> {"NONE", "RUNNING", "COMPLETED", "FAILED"}]
      /\ issue' \in [Uploads -> {"NONE", "OPEN", "RESOLVED", "IGNORED"}]
  <2>1. CASE Start(d) \/ Fail(d) \/ Complete(d)
    BY <2>1 DEF FilesTypeOK, Start, Fail, Complete
  <2>2. CASE Resolve(d)
    BY <2>2 DEF FilesTypeOK, Resolve
  <2>3. CASE AddIssue(d)
    BY <2>3 DEF FilesTypeOK, AddIssue
  <2>4. CASE Check(d) \/ Recheck(d) \/ DeleteOrphan(d) \/ EndDetection(d) \/ CrashDetector(d)
    BY <2>4 DEF FilesTypeOK, Check, Recheck, DeleteOrphan, EndDetection, CrashDetector
  <2>5. QED BY <2>1, <2>2, <2>3, <2>4 DEF DetectorStep
<1>9. QED BY <1>5, <1>6, <1>7, <1>8 DEF FilesTypeOK, RunRows, RunPlaces

\* A step of one upload leaves the others as they are.
LEMMA OthersUploads ==
    ASSUME FilesTypeOK, UploadsInv, NEW u \in Uploads, UNCHANGED <<files, versions>>,
           \A v \in Uploads \ {u} : upload'[v] = upload[v],
           upload'[u].content = upload[u].content,
           UploadFormed(u)', Inserting(u)' => Inserting(u) \/ KeyFree(u),
           aged' \subseteq aged \union {u}, stored' \subseteq stored \union {u}
    PROVE  UploadsInv'
<1>1. \A v \in Uploads : /\ FileFor(v)' = FileFor(v)
                         /\ upload'[v].content = upload[v].content
  BY DEF FileFor
<1>2. ASSUME NEW v \in Uploads PROVE UploadFormed(v)'
  <2>1. CASE v = u
    BY <2>1
  <2>2. CASE v # u
    BY <1>1, <2>2 DEF UploadsInv, UploadFormed, At, Inserting, IsReferenced
  <2>3. QED BY <2>1, <2>2
<1>3. KeyHeldOnce'
  <2> SUFFICES ASSUME NEW v \in Uploads, NEW w \in Uploads, Inserting(v)', Inserting(w)',
                      upload'[v].content = upload'[w].content, v # w
               PROVE  FALSE
    BY DEF KeyHeldOnce
  <2>1. \A x \in Uploads \ {u} : Inserting(x)' => Inserting(x)
    BY DEF Inserting, At
  <2>2. upload[v].content = upload[w].content
    BY <1>1
  <2>3. CASE v # u /\ w # u
    BY <2>1, <2>2, <2>3 DEF UploadsInv, KeyHeldOnce
  <2>4. CASE v = u
    BY <2>1, <2>2, <2>4 DEF UploadsInv, KeyHeldOnce, KeyFree
  <2>5. CASE w = u
    BY <2>1, <2>2, <2>5 DEF UploadsInv, KeyHeldOnce, KeyFree
  <2>6. QED BY <2>3, <2>4, <2>5
<1>4. \A v \in versions' : FileFor(v)' # NoObject
  BY <1>1 DEF UploadsInv, FilesTypeOK
<1>5. QED BY <1>2, <1>3, <1>4 DEF UploadsInv

\* The row of an upload that goes to another place.
LEMMA Went ==
    ASSUME FilesTypeOK, NEW u \in Uploads, NEW place, Goto(u, place)
    PROVE  /\ \A v \in Uploads \ {u} : upload'[v] = upload[v]
           /\ upload'[u].at = place /\ upload'[u].content = upload[u].content
           /\ upload'[u].candidate = upload[u].candidate /\ upload'[u].adopted = upload[u].adopted
  BY DEF FilesTypeOK, Goto

\* A commit that takes effect: the file of the content is this one if it was adopted,
\* and was there already if it was not.
LEMMA CommitsFiled ==
    ASSUME FilesTypeOK, UploadsInv, NEW u \in Uploads, At(u, "commit"), TakeEffect(u),
           Goto(u, AfterCommit(u)) \/ Goto(u, AfterUnknown(u)), UNCHANGED <<stored, aged>>
    PROVE  UploadsInv'
<1>1. PICK place \in {"cleanup", "ended"} :
         Goto(u, place) /\ (upload[u].adopted => place = "ended")
  BY DEF AfterCommit, AfterUnknown
<1>2. /\ \A v \in Uploads \ {u} : upload'[v] = upload[v]
      /\ upload'[u].at = place /\ upload'[u].content = upload[u].content
      /\ upload'[u].candidate = upload[u].candidate /\ upload'[u].adopted = upload[u].adopted
  BY <1>1, Went
<1>3. \A c \in Contents : \/ files'[c] = files[c]
                          \/ upload[u].adopted /\ files[c] = NoObject /\ files'[c] = u
  BY DEF TakeEffect, FilesTypeOK, UploadsInv, UploadFormed, Inserting, At, FileFor
<1>4. u # NoObject
  BY FilesAssumption DEF Uploads, NoObject
<1>5. \A v \in Uploads : FileFor(v) # NoObject => FileFor(v)' # NoObject
  BY <1>2, <1>3, <1>4 DEF FileFor, FilesTypeOK
<1>6. FileFor(u)' # NoObject
  <2>1. CASE upload[u].adopted
    BY <1>2, <1>4, <2>1 DEF TakeEffect, FileFor, FilesTypeOK
  <2>2. CASE ~upload[u].adopted
    BY <1>5, <2>2 DEF UploadsInv, UploadFormed
  <2>3. QED BY <2>1, <2>2
<1>7. ASSUME NEW v \in Uploads \ {u}, Inserting(v)
      PROVE  FileFor(v)' = NoObject
  <2>1. FileFor(v) = NoObject
    BY <1>7 DEF UploadsInv, UploadFormed
  <2>2. CASE upload[u].adopted
    <3>1. upload[v].content # upload[u].content
      BY <1>7, <2>2 DEF UploadsInv, KeyHeldOnce, Inserting
    <3>2. QED BY <1>2, <2>1, <3>1 DEF TakeEffect, FileFor, FilesTypeOK
  <2>3. CASE ~upload[u].adopted
    BY <1>2, <2>1, <2>3 DEF TakeEffect, FileFor
  <2>4. QED BY <2>2, <2>3
<1>8. ASSUME NEW v \in Uploads PROVE UploadFormed(v)'
  <2>1. CASE v = u
    BY <1>1, <1>2, <1>3, <2>1 DEF UploadsInv, UploadFormed, At, Inserting, IsReferenced
  <2>2. CASE v # u
    <3>1. upload'[v] = upload[v] /\ (IsReferenced(v)' => IsReferenced(v))
      BY <1>2, <1>3, <2>2 DEF IsReferenced
    <3>2. QED BY <1>5, <1>7, <2>2, <3>1 DEF UploadsInv, UploadFormed, At, Inserting
  <2>3. QED BY <2>1, <2>2
<1>9. KeyHeldOnce'
  <2>1. \A v \in Uploads : Inserting(v)' => v # u /\ Inserting(v)
    BY <1>1, <1>2 DEF Inserting, At
  <2>2. QED BY <1>2, <2>1 DEF UploadsInv, KeyHeldOnce
<1>10. \A v \in versions' : FileFor(v)' # NoObject
  BY <1>5, <1>6 DEF UploadsInv, TakeEffect, FilesTypeOK
<1>11. QED BY <1>8, <1>9, <1>10 DEF UploadsInv

LEMMA UploadKeepsUploads ==
    ASSUME FilesTypeOK, UploadsInv, NEW u \in Uploads, UploadStep(u) \/ Age(u) \/ IgnoreIssue(u)
    PROVE  UploadsInv'
<1> USE DEF At
<1>1. UploadFormed(u)
  BY DEF UploadsInv
<1>2. ASSUME NEW place \in Places, Goto(u, place), UNCHANGED <<files, versions, aged>>, stored' \subseteq stored,
             place \in {"put", "ready"} => upload[u].at = "new",
             place = "ready" => FileFor(u) # NoObject,
             place = "commit" =>
                FileFor(u) # NoObject /\ ~upload[u].adopted,
             IsReferenced(u) => place = "ended", place # "new"
      PROVE  UploadsInv'
  <2>1. /\ \A v \in Uploads \ {u} : upload'[v] = upload[v]
        /\ upload'[u].at = place /\ upload'[u].content = upload[u].content
        /\ upload'[u].candidate = upload[u].candidate /\ upload'[u].adopted = upload[u].adopted
    BY <1>2, Went
  <2>2. UploadFormed(u)'
    BY <1>1, <1>2, <2>1 DEF UploadFormed, Inserting, IsReferenced, FileFor
  <2>3. ~Inserting(u)'
    BY <1>2, <2>1 DEF Inserting
  <2>4. QED BY <1>2, <2>1, <2>2, <2>3, OthersUploads
<1>3. CASE FindFile(u)
  BY <1>1, <1>2, <1>3 DEF FindFile, UploadFormed, Places
<1>4. CASE PutCandidate(u)
  <2>1. PICK result \in PutResults(u) :
           /\ stored' = result[1]
           /\ upload' = [upload EXCEPT ![u].at = IF result[2] THEN "ready" ELSE "ended",
                                    ![u].candidate = result[2]]
    BY <1>4 DEF PutCandidate
  <2>2. result[2] \in BOOLEAN /\ stored' \subseteq stored \union {u}
    BY <2>1, PutOutcome
  <2>3. /\ \A v \in Uploads \ {u} : upload'[v] = upload[v]
        /\ upload'[u].at = IF result[2] THEN "ready" ELSE "ended"
        /\ upload'[u].content = upload[u].content
        /\ upload'[u].candidate = result[2] /\ upload'[u].adopted = upload[u].adopted
    BY <2>1 DEF FilesTypeOK
  <2>4. UNCHANGED <<aged, files, versions>> /\ upload[u].at = "put"
    BY <1>4 DEF PutCandidate
  <2>5. UploadFormed(u)' /\ ~Inserting(u)'
    BY <1>1, <2>2, <2>3, <2>4 DEF UploadFormed, Inserting, IsReferenced, FileFor
  <2>6. QED BY <2>2, <2>3, <2>4, <2>5, OthersUploads
<1>5. CASE Reject(u)
  BY <1>1, <1>2, <1>5 DEF Reject, AfterError, UploadFormed, Places
<1>6. CASE AdoptFile(u)
  <2>1. CASE upload[u].candidate /\ FileFor(u) = NoObject /\ KeyFree(u)
             /\ upload' = [upload EXCEPT ![u].at = "commit", ![u].adopted = TRUE]
    <3>1. /\ \A v \in Uploads \ {u} : upload'[v] = upload[v]
          /\ upload'[u].at = "commit" /\ upload'[u].content = upload[u].content
          /\ upload'[u].candidate = upload[u].candidate /\ upload'[u].adopted = TRUE
      BY <2>1, ZenonT(40) DEF FilesTypeOK
    <3>2. UNCHANGED <<stored, aged, files, versions>> /\ upload[u].at = "ready"
      BY <1>6 DEF AdoptFile
    <3>3. UploadFormed(u)'
      BY <1>1, <2>1, <3>1, <3>2 DEF UploadFormed, Inserting, IsReferenced, FileFor
    <3>4. QED BY <2>1, <3>1, <3>2, <3>3, OthersUploads
  <2>2. CASE (upload[u].candidate => FileFor(u) # NoObject) /\ Goto(u, "commit")
    BY <1>1, <1>2, <1>6, <2>2 DEF AdoptFile, UploadFormed, Places
  <2>3. QED BY <1>6, <2>1, <2>2 DEF AdoptFile
<1>7. CASE CommitUpload(u)
  <2>1. CASE TakeEffect(u)
    <3>1. CASE Goto(u, AfterCommit(u)) \/ Goto(u, AfterUnknown(u))
      BY <1>7, <2>1, <3>1, CommitsFiled DEF CommitUpload
    <3>2. CASE NoEffect
      BY <1>1, <1>2, <1>7, <3>2 DEF CommitUpload, NoEffect, AfterUnknown, AfterError, AfterCommit,
             UploadFormed, Places
    <3>3. QED BY <1>7, <3>1, <3>2 DEF CommitUpload
  <2>2. CASE NoEffect
    BY <1>1, <1>2, <1>7, <2>2, CommitsFiled
       DEF CommitUpload, NoEffect, AfterUnknown, AfterError, UploadFormed, Places
  <2>3. QED BY <1>7, <2>1, <2>2 DEF CommitUpload
<1>8. CASE Cleanup(u)
  <2>1. stored' \subseteq stored
    BY <1>8, DeleteOutcome DEF Cleanup
  <2>2. QED BY <1>1, <1>2, <1>8, <2>1 DEF Cleanup, UploadFormed, Places
<1>9. CASE Crash(u)
  BY <1>1, <1>2, <1>9 DEF Crash, UploadFormed, Places
<1>10. CASE Age(u) \/ IgnoreIssue(u)
  <2>1. UNCHANGED <<stored, upload, files, versions>> /\ aged' \subseteq aged \union {u}
    BY <1>10 DEF Age, IgnoreIssue, KeepUploads
  <2>2. UploadFormed(u)'
    <3>1. u \in aged' => u \in stored \union aged
      BY <1>10 DEF Age, IgnoreIssue, KeepUploads
    <3>2. QED BY <1>1, <2>1, <3>1 DEF UploadFormed, Inserting, IsReferenced, FileFor
  <2>3. QED BY <2>1, <2>2, OthersUploads DEF Inserting
<1>11. QED
  BY <1>3, <1>4, <1>5, <1>6, <1>7, <1>8, <1>9, <1>10 DEF UploadStep

\* A file that has its row keeps it, and an aged object is not put again.
RowsStay == \A c \in Contents : files[c] # NoObject => files'[c] = files[c]

LEMMA UploadEffects ==
    ASSUME FilesTypeOK, UploadsInv, NEW u \in Uploads, UploadStep(u) \/ Age(u) \/ IgnoreIssue(u)
    PROVE  /\ RowsStay /\ reconcile' = reconcile /\ aged \subseteq aged'
           /\ \A v \in aged : v \in stored' => v \in stored
           /\ \A v \in Uploads : issue'[v] = "RESOLVED" => issue[v] = "RESOLVED"
<1>1. RowsStay
  <2>1. CASE UNCHANGED files
    BY <2>1 DEF RowsStay
  <2>2. CASE At(u, "commit") /\ TakeEffect(u)
    <3>1. upload[u].adopted => FileFor(u) = NoObject
      BY <2>2 DEF UploadsInv, UploadFormed, Inserting
    <3>2. QED BY <2>2, <3>1 DEF RowsStay, TakeEffect, FileFor, FilesTypeOK
  <2>3. QED BY <2>1, <2>2 DEF UploadStep, FindFile, PutCandidate, Reject, AdoptFile, CommitUpload,
               NoEffect, Cleanup, Crash, Age, IgnoreIssue, KeepUploads
<1>2. reconcile' = reconcile /\ aged \subseteq aged'
  BY DEF UploadStep, FindFile, PutCandidate, Reject, AdoptFile, CommitUpload, Cleanup, Crash, Age,
         IgnoreIssue, KeepUploads
<1>3. \A v \in aged : v \in stored' => v \in stored
  <2>1. CASE UNCHANGED stored
    BY <2>1
  <2>2. CASE PutCandidate(u)
    <3>1. u \notin aged
      BY <2>2 DEF PutCandidate, UploadsInv, UploadFormed, At
    <3>2. stored' \subseteq stored \union {u}
      BY <2>2, PutOutcome DEF PutCandidate
    <3>3. QED BY <3>1, <3>2
  <2>3. CASE Cleanup(u)
    BY <2>3, DeleteOutcome DEF Cleanup
  <2>4. QED BY <2>1, <2>2, <2>3 DEF UploadStep, FindFile, Reject, AdoptFile, CommitUpload,
               Crash, Age, IgnoreIssue, KeepUploads
<1>4. \A v \in Uploads : issue'[v] = "RESOLVED" => issue[v] = "RESOLVED"
  BY DEF FilesTypeOK, UploadStep, FindFile, PutCandidate, Reject, AdoptFile, CommitUpload, Cleanup,
         Crash, Age, IgnoreIssue, KeepUploads
<1>5. QED BY <1>1, <1>2, <1>3, <1>4

LEMMA SettledStays ==
    ASSUME FilesTypeOK, NEW u \in Uploads, Settled(u), RowsStay, aged \subseteq aged',
           u \in stored' => u \in stored
    PROVE  Settled(u)'
<1>1. u # NoObject
  BY FilesAssumption DEF Uploads, NoObject
<1>2. IsReferenced(u) => IsReferenced(u)'
  BY <1>1 DEF IsReferenced, RowsStay
<1>3. QED BY <1>2 DEF Settled

LEMMA UploadKeepsDetectors ==
    ASSUME FilesInv, NEW u \in Uploads, UploadStep(u) \/ Age(u) \/ IgnoreIssue(u)
    PROVE  DetectorsInv'
<1>1. /\ RowsStay /\ reconcile' = reconcile /\ aged \subseteq aged'
      /\ \A v \in aged : v \in stored' => v \in stored
      /\ \A v \in Uploads : issue'[v] = "RESOLVED" => issue[v] = "RESOLVED"
  BY UploadEffects DEF FilesInv
<1>2. \A v \in Uploads : Settled(v) => Settled(v)'
  BY <1>1, SettledStays DEF FilesInv, Settled
<1>3. \A d \in Detectors : reconcile[d].settled \subseteq Uploads
  BY DEF FilesInv, FilesTypeOK
<1>4. QED BY <1>1, <1>2, <1>3 DEF FilesInv, DetectorsInv, DetectorFormed

\* What a step of a detector leaves alone.
LEMMA DetectorEffects ==
    ASSUME FilesTypeOK, DetectorsInv, NEW d \in Detectors,
           DetectorStep(d) \/ Fail(d) \/ CrashDetector(d)
    PROVE  /\ UNCHANGED <<aged, files, versions, upload>>
           /\ stored' \subseteq stored
           /\ stored' # stored => /\ IsAt(d, "delete") /\ stored' = stored \ {Item(d)}
                                  /\ Item(d) \in reconcile[d].todo
           /\ \A e \in Detectors \ {d} : reconcile'[e] = reconcile[e]
<1>1. UNCHANGED <<aged, files, versions, upload>>
  BY DEF DetectorStep, Start, Check, Recheck, DeleteOrphan, EndDetection, Resolve, AddIssue,
         Complete, Fail, CrashDetector, KeepUploads
<1>2. stored' = stored \/ (IsAt(d, "delete") /\ stored' = stored \ {Item(d)})
  <2>1. CASE IsAt(d, "delete") /\ \E result \in DeleteResults(Item(d)) : stored' = result[1]
    BY <2>1, DeleteOutcome
  <2>2. CASE UNCHANGED stored
    BY <2>2
  <2>3. QED BY <2>1, <2>2 DEF DetectorStep, Start, Check, Recheck, DeleteOrphan, EndDetection,
               Resolve, AddIssue, Complete, Fail, CrashDetector
<1>3. IsAt(d, "delete") => Item(d) \in reconcile[d].todo
  BY ItemToDo DEF DetectorsInv, DetectorFormed, IsAt
<1>4. \A e \in Detectors \ {d} : reconcile'[e] = reconcile[e]
  BY DEF FilesTypeOK, DetectorStep, Start, Check, Recheck, DeleteOrphan, EndDetection, Resolve,
         AddIssue, Complete, Fail, CrashDetector
<1>5. QED BY <1>1, <1>2, <1>3, <1>4

LEMMA DetectorKeepsUploads ==
    ASSUME FilesInv, NEW d \in Detectors, DetectorStep(d) \/ Fail(d) \/ CrashDetector(d)
    PROVE  UploadsInv'
<1>1. UNCHANGED <<aged, files, versions, upload>> /\ stored' \subseteq stored
  BY DetectorEffects DEF FilesInv
<1>2. QED BY <1>1 DEF FilesInv, UploadsInv, UploadFormed, KeyHeldOnce, Inserting, At, FileFor,
                      IsReferenced

LEMMA DetectorKeepsDetectors ==
    ASSUME FilesInv, NEW d \in Detectors, DetectorStep(d) \/ Fail(d) \/ CrashDetector(d)
    PROVE  DetectorsInv'
<1> DEFINE row == reconcile[d]
           after == reconcile'[d]
<1>1. /\ UNCHANGED <<aged, files, versions, upload>> /\ stored' \subseteq stored
      /\ \A e \in Detectors \ {d} : reconcile'[e] = reconcile[e]
  BY DetectorEffects DEF FilesInv
<1>2. \A v \in Uploads : Settled(v) => Settled(v)'
  BY <1>1, SettledStays DEF FilesInv, RowsStay
<1>3. /\ FilesTypeOK /\ DetectorFormed(d) /\ row \in RunRows
      /\ row.settled \subseteq Uploads /\ row.todo \subseteq Uploads
  BY DEF FilesInv, DetectorsInv, FilesTypeOK, RunRows, RunPlaces
<1>4. ASSUME after.todo \subseteq row.todo, after.at \notin {"recheck", "delete"},
             \A v \in after.settled : v \in row.settled \/ Settled(v)'
      PROVE  DetectorFormed(d)'
  BY <1>1, <1>2, <1>3, <1>4 DEF DetectorFormed
<1>5. ASSUME after.todo = row.todo, after.processed = row.processed, row.todo # {},
             row.processed < BatchLimit, after.settled = row.settled
      PROVE  DetectorFormed(d)'
  BY <1>1, <1>2, <1>3, <1>5 DEF DetectorFormed
<1>6. PICK item : item = Item(d)
  OBVIOUS
<1>7. ASSUME row.todo # {} PROVE item \in aged /\ item \in Uploads
  BY <1>3, <1>6, <1>7, ItemToDo DEF DetectorFormed
<1>8. ASSUME after = Settle(d), Settled(item)' PROVE DetectorFormed(d)'
  <2>1. /\ Settle(d).at = "check" /\ Settle(d).todo = row.todo \ {item}
        /\ Settle(d).settled = row.settled \union {item}
    BY <1>3, <1>6 DEF Settle, RunRows
  <2>2. QED BY <1>4, <1>8, <2>1
<1>9. DetectorFormed(d)'
  <2>1. CASE Start(d)
    <3>1. after.at = "check" /\ after.todo = Candidates /\ after.settled = {}
      BY <1>3, <2>1 DEF Start, Asleep, FilesTypeOK
    <3>2. QED BY <1>1, <3>1 DEF DetectorFormed, Candidates
  <2>2. CASE Check(d)
    <3>1. row.todo # {} /\ row.processed < BatchLimit /\ row.at = "check"
      BY <2>2 DEF Check, More, IsAt
    <3>2. CASE IsReferenced(Item(d)) /\ reconcile' = [reconcile EXCEPT ![d] = Settle(d)]
      <4>1. after = Settle(d)
        BY <1>3, <3>2 DEF FilesTypeOK
      <4>2. Settled(item)'
        BY <1>2, <1>6, <1>7, <3>1, <3>2 DEF Settled
      <4>3. QED BY <1>8, <4>1, <4>2
    <3>3. CASE reconcile' = [reconcile EXCEPT ![d] = Report(d)]
      <4>1. after = Report(d)
        BY <1>3, <3>3 DEF FilesTypeOK
      <4>2. after.todo \subseteq row.todo /\ after.at = "check" /\ after.settled = row.settled
        BY <1>3, <3>1, <4>1 DEF Report, RunRows
      <4>3. QED BY <1>4, <4>2
    <3>4. CASE reconcile' = [reconcile EXCEPT ![d].at = "recheck"]
      <4>1. /\ after.todo = row.todo /\ after.processed = row.processed
            /\ after.settled = row.settled
        BY <1>3, <3>4 DEF FilesTypeOK
      <4>2. QED BY <1>5, <3>1, <4>1
    <3>5. QED BY <2>2, <3>2, <3>3, <3>4 DEF Check
  <2>3. CASE Recheck(d)
    <3>1. row.todo # {} /\ row.processed < BatchLimit
      BY <1>3, <2>3 DEF Recheck, IsAt, DetectorFormed
    <3>2. CASE IsReferenced(Item(d))
      <4>1. after = Settle(d)
        BY <1>3, <2>3, <3>2 DEF Recheck, FilesTypeOK
      <4>2. Settled(item)'
        BY <1>2, <1>6, <1>7, <3>1, <3>2 DEF Settled
      <4>3. QED BY <1>8, <4>1, <4>2
    <3>3. CASE ~IsReferenced(Item(d))
      <4>1. after = [row EXCEPT !.at = "delete"]
        BY <1>3, <2>3, <3>3 DEF Recheck, FilesTypeOK
      <4>2. /\ after.todo = row.todo /\ after.processed = row.processed
            /\ after.settled = row.settled
        BY <1>3, <4>1 DEF RunRows
      <4>3. QED BY <1>5, <3>1, <4>2
    <3>4. QED BY <3>2, <3>3
  <2>4. CASE DeleteOrphan(d)
    <3>1. row.todo # {}
      BY <1>3, <2>4 DEF DeleteOrphan, IsAt, DetectorFormed
    <3>2. PICK result \in DeleteResults(Item(d)) : result[2] /\ stored' = result[1]
      BY <2>4 DEF DeleteOrphan
    <3>3. stored' = stored \ {item}
      BY <1>6, <3>2, DeleteOutcome
    <3>4. Settled(item)'
      BY <1>1, <1>7, <3>1, <3>3 DEF Settled
    <3>5. after = Deleted(d)
      BY <1>3, <2>4 DEF DeleteOrphan, FilesTypeOK
    <3>6. /\ after.at = "check" /\ after.todo = row.todo \ {item}
          /\ after.settled = row.settled \union {item}
      BY <1>3, <1>6, <3>5 DEF Deleted, Settle, RunRows
    <3>7. QED BY <1>4, <3>4, <3>6
  <2>5. CASE EndDetection(d)
    <3>1. after.todo = {} /\ after.at = "apply" /\ after.settled = row.settled
      BY <1>3, <2>5 DEF EndDetection, FilesTypeOK
    <3>2. QED BY <1>4, <3>1
  <2>6. CASE Resolve(d) \/ AddIssue(d)
    <3>1. after.todo = row.todo /\ after.at = row.at /\ after.settled \subseteq row.settled
      <4>1. CASE Resolve(d)
        <5>1. PICK u : reconcile' = [reconcile EXCEPT ![d] =
                          [reconcile[d] EXCEPT !.settled = reconcile[d].settled \ {u}]]
          BY <4>1 DEF Resolve
        <5>2. after = [row EXCEPT !.settled = row.settled \ {u}]
          BY <1>3, <5>1 DEF FilesTypeOK
        <5>3. QED BY <1>3, <5>2 DEF RunRows
      <4>2. CASE AddIssue(d)
        <5>1. PICK u : reconcile' = [reconcile EXCEPT ![d] =
                          [reconcile[d] EXCEPT !.found = reconcile[d].found \ {u}]]
          BY <4>2 DEF AddIssue
        <5>2. after = [row EXCEPT !.found = row.found \ {u}]
          BY <1>3, <5>1 DEF FilesTypeOK
        <5>3. QED BY <1>3, <5>2 DEF RunRows
      <4>3. QED BY <2>6, <4>1, <4>2
    <3>2. row.at = "apply"
      BY <2>6 DEF Resolve, AddIssue, IsAt
    <3>3. QED BY <1>4, <3>1, <3>2
  <2>7. CASE Complete(d) \/ Fail(d) \/ CrashDetector(d)
    <3>1. after = Asleep
      BY <1>3, <2>7 DEF Complete, Fail, CrashDetector, FilesTypeOK
    <3>2. QED BY <1>4, <3>1 DEF Asleep
  <2>8. QED
    BY <2>1, <2>2, <2>3, <2>4, <2>5, <2>6, <2>7 DEF DetectorStep
<1>10. ASSUME NEW e \in Detectors PROVE DetectorFormed(e)'
  <2>1. CASE e = d
    BY <1>9, <2>1
  <2>2. CASE e # d
    <3>1. reconcile[e].settled \subseteq Uploads
      BY <1>3 DEF FilesTypeOK
    <3>2. QED BY <1>1, <1>2, <2>2, <3>1 DEF FilesInv, DetectorsInv, DetectorFormed
  <2>3. QED BY <2>1, <2>2
<1>11. ASSUME NEW u \in Uploads, issue'[u] = "RESOLVED" PROVE Settled(u)
  <2>1. CASE Resolve(d)
    <3>1. issue[u] = "RESOLVED" \/ u \in row.settled
      BY <1>3, <1>11, <2>1 DEF Resolve, FilesTypeOK
    <3>2. QED BY <1>3, <3>1 DEF FilesInv, DetectorsInv, DetectorFormed
  <2>2. CASE ~Resolve(d)
    <3>1. issue[u] = "RESOLVED"
      <4>1. CASE AddIssue(d)
        BY <1>3, <1>11, <4>1 DEF AddIssue, FilesTypeOK
      <4>2. CASE UNCHANGED issue
        BY <1>11, <4>2
      <4>3. QED BY <2>2, <4>1, <4>2 DEF DetectorStep, Start, Check, Recheck, DeleteOrphan,
                   EndDetection, Complete, Fail, CrashDetector
    <3>2. QED BY <3>1 DEF FilesInv, DetectorsInv
  <2>3. QED BY <2>1, <2>2
<1>12. QED BY <1>2, <1>10, <1>11 DEF DetectorsInv

LEMMA FilesInvariant == FilesSpec => []FilesInv
<1>1. FilesInit => FilesInv
  <2> SUFFICES ASSUME FilesInit PROVE FilesInv
    OBVIOUS
  <2> USE FilesAssumption DEF FilesInit
  <2>1. \A u \in Uploads : /\ upload[u].at = "new" /\ upload[u].content \in Contents
                           /\ upload[u].candidate = FALSE /\ upload[u].adopted = FALSE
                           /\ upload[u] \in UploadRows
    BY DEF UploadRows, Places
  <2>2. upload \in [Uploads -> UploadRows]
    BY <2>1
  <2>3. reconcile \in [Detectors -> RunRows]
    BY DEF Asleep, RunRows, RunPlaces
  <2>4. FilesTypeOK
    BY <2>2, <2>3 DEF FilesTypeOK, UploadRows, Places, RunRows, RunPlaces
  <2>5. UploadsInv
    <3>1. \A u \in Uploads : u # NoObject
      BY DEF Uploads, NoObject
    <3>2. \A u \in Uploads : ~IsReferenced(u)
      BY <3>1 DEF IsReferenced
    <3>3. QED BY <2>1, <3>2 DEF UploadsInv, UploadFormed, KeyHeldOnce, Inserting, At
  <2>6. DetectorsInv
    BY DEF DetectorsInv, DetectorFormed, Asleep
  <2>7. QED BY <2>4, <2>5, <2>6 DEF FilesInv
<1>2. FilesInv /\ [FilesNext]_filesVars => FilesInv'
  <2> SUFFICES ASSUME FilesInv, [FilesNext]_filesVars PROVE FilesInv'
    OBVIOUS
  <2>1. CASE UNCHANGED filesVars
    BY <2>1 DEF filesVars, FilesInv, FilesTypeOK, UploadsInv, UploadFormed, KeyHeldOnce, Inserting,
                At, FileFor, IsReferenced, DetectorsInv, DetectorFormed, Settled
  <2>2. ASSUME NEW u \in Uploads, UploadStep(u) \/ Age(u) \/ IgnoreIssue(u)
        PROVE  FilesInv'
    BY <2>2, UploadTypes, UploadKeepsUploads, UploadKeepsDetectors DEF FilesInv
  <2>3. ASSUME NEW d \in Detectors, DetectorStep(d) \/ Fail(d) \/ CrashDetector(d)
        PROVE  FilesInv'
    BY <2>3, DetectorTypes, DetectorKeepsUploads, DetectorKeepsDetectors DEF FilesInv
  <2>4. QED BY <2>1, <2>2, <2>3 DEF FilesNext
<1>3. QED BY <1>1, <1>2, PTL DEF FilesSpec

\* An issue that reconciliation has resolved stays settled: its object is gone for
\* good, or is the file of a row for good, whatever the grace period is worth.
\* sync/consistency/detection.py, sync/consistency/core.py.
THEOREM ResolvedStaysSettled == FilesSpec => []ResolvedIsSettled
<1>1. FilesInv => ResolvedIsSettled
  BY DEF FilesInv, DetectorsInv, Settled, ResolvedIsSettled
<1>2. QED BY <1>1, FilesInvariant, PTL

----------------------------------------------------------------------------
(* Files: what is kept                                                      *)

\* A request that has ended takes no step, and the step of one leaves the others
\* alone, but for the object it may put or clean up.
LEMMA UploadReach ==
    ASSUME FilesTypeOK, NEW u \in Uploads, UploadStep(u)
    PROVE  /\ ~At(u, "ended") /\ UNCHANGED <<aged, reconcile>>
           /\ \A v \in Uploads \ {u} : /\ upload'[v] = upload[v]
                                       /\ v \in stored => v \in stored'
           /\ \A c \in Contents : files'[c] \in {files[c], u}
           /\ u \in stored \ stored' => At(u, "cleanup")
<1>1. ~At(u, "ended") /\ UNCHANGED <<aged, reconcile>>
  BY DEF UploadStep, FindFile, PutCandidate, Reject, AdoptFile, CommitUpload, Cleanup, Crash, At
<1>2. \A v \in Uploads \ {u} : upload'[v] = upload[v]
  BY ZenonT(40) DEF FilesTypeOK, UploadStep, FindFile, PutCandidate, Reject, AdoptFile, CommitUpload, Cleanup,
         Crash, Goto
<1>3. /\ \A v \in stored : v # u => v \in stored'
      /\ u \in stored \ stored' => At(u, "cleanup")
  <2>1. CASE UNCHANGED stored
    BY <2>1
  <2>2. CASE PutCandidate(u)
    <3>1. PICK result \in PutResults(u) : stored' = result[1]
      BY <2>2 DEF PutCandidate
    <3>2. QED BY <3>1, PutOutcome
  <2>3. CASE Cleanup(u)
    <3>1. PICK result \in DeleteResults(u) : stored' = result[1]
      BY <2>3 DEF Cleanup
    <3>2. At(u, "cleanup")
      BY <2>3 DEF Cleanup
    <3>3. QED BY <3>1, <3>2, DeleteOutcome
  <2>4. QED BY <2>1, <2>2, <2>3 DEF UploadStep, FindFile, Reject, AdoptFile, CommitUpload, Crash
<1>4. \A c \in Contents : files'[c] \in {files[c], u}
  <2>1. CASE UNCHANGED files
    BY <2>1
  <2>2. CASE TakeEffect(u)
    BY <2>2 DEF TakeEffect, FilesTypeOK
  <2>3. QED BY <2>1, <2>2 DEF UploadStep, FindFile, PutCandidate, Reject, AdoptFile, CommitUpload,
               NoEffect, Cleanup, Crash
<1>5. QED BY <1>1, <1>2, <1>3, <1>4

\* What an upload may still adopt, or adopts, is in the storage.
LEMMA CandidateStored ==
    ASSUME FilesInv, KeptInv, NEW u \in Uploads, UploadStep(u)
    PROVE  /\ upload'[u].candidate /\ upload'[u].at \in {"ready", "commit"} => u \in stored'
           /\ \A c \in Contents : files'[c] = u /\ files[c] # u => u \in stored'
<1>1. FilesTypeOK /\ UploadFormed(u) /\ upload[u] \in UploadRows /\ upload \in [Uploads -> UploadRows]
  BY DEF FilesInv, UploadsInv, FilesTypeOK, UploadRows, Places
<1>2. CASE FindFile(u)
  <2>1. upload'[u].candidate = upload[u].candidate /\ upload[u].at = "new" /\ files' = files
    BY <1>1, <1>2 DEF FindFile, Goto, At, UploadRows
  <2>2. QED BY <1>1, <2>1 DEF UploadFormed
<1>3. CASE PutCandidate(u)
  <2>1. PICK result \in PutResults(u) :
           /\ stored' = result[1]
           /\ upload' = [upload EXCEPT ![u].at = IF result[2] THEN "ready" ELSE "ended",
                                       ![u].candidate = result[2]]
    BY <1>3 DEF PutCandidate
  <2>2. result[2] => u \in stored'
    BY <2>1, PutOutcome
  <2>3. upload'[u].candidate = result[2]
    BY <1>1, <2>1 DEF UploadRows
  <2>4. QED BY <1>3, <2>2, <2>3 DEF PutCandidate
<1>4. CASE AdoptFile(u)
  <2>1. upload[u].at = "ready" /\ upload'[u].candidate = upload[u].candidate
    BY <1>1, <1>4 DEF AdoptFile, Goto, At, UploadRows
  <2>2. QED BY <1>4, <2>1 DEF AdoptFile, KeptInv
<1>5. CASE CommitUpload(u)
  <2>1. upload[u].at = "commit" /\ stored' = stored /\ upload'[u].at \notin {"ready", "commit"}
    BY <1>1, <1>5 DEF CommitUpload, Goto, At, AfterCommit, AfterUnknown, AfterError, UploadRows
  <2>2. ASSUME NEW c \in Contents, files'[c] = u, files[c] # u PROVE upload[u].candidate
    BY <1>1, <1>5, <2>2 DEF CommitUpload, TakeEffect, NoEffect, UploadFormed, FilesTypeOK
  <2>3. QED BY <2>1, <2>2 DEF KeptInv
<1>6. CASE Reject(u) \/ Cleanup(u) \/ Crash(u)
  <2>1. upload'[u].at \notin {"ready", "commit"} /\ files' = files
    BY <1>1, <1>6 DEF Reject, Cleanup, Crash, Goto, AfterError, UploadRows
  <2>2. QED BY <2>1
<1>7. QED BY <1>2, <1>3, <1>4, <1>5, <1>6 DEF UploadStep

LEMMA UploadKeeps ==
    ASSUME FilesInv, KeptInv, NEW u \in Uploads, UploadStep(u)
    PROVE  KeptInv'
<1>0. FilesTypeOK
  BY DEF FilesInv
<1>1. /\ ~At(u, "ended") /\ UNCHANGED <<aged, reconcile>>
      /\ \A v \in Uploads \ {u} : upload'[v] = upload[v] /\ (v \in stored => v \in stored')
      /\ \A c \in Contents : files'[c] \in {files[c], u}
      /\ u \in stored \ stored' => At(u, "cleanup")
  BY <1>0, UploadReach
<1>2. /\ upload'[u].candidate /\ upload'[u].at \in {"ready", "commit"} => u \in stored'
      /\ \A c \in Contents : files'[c] = u /\ files[c] # u => u \in stored'
  BY CandidateStored
<1>3. \A v \in aged' : upload'[v].at = "ended"
  BY <1>0, <1>1 DEF KeptInv, At, FilesTypeOK
<1>4. \A v \in Uploads : upload'[v].candidate /\ upload'[v].at \in {"ready", "commit"} => v \in stored'
  BY <1>1, <1>2 DEF KeptInv
<1>5. ASSUME NEW c \in Contents, files'[c] # NoObject PROVE files'[c] \in stored'
  <2>1. CASE files'[c] = files[c]
    <3>1. files[c] \in stored /\ files[c] \in Uploads
      BY <1>0, <1>5, <2>1 DEF KeptInv, FilesTypeOK
    <3>2. CASE files[c] = u
      <4>1. At(u, "ended")
        BY <3>2 DEF IsReferenced, FilesInv, UploadsInv, UploadFormed
      <4>2. QED BY <1>1, <4>1
    <3>3. QED BY <1>1, <2>1, <3>1, <3>2
  <2>2. CASE files'[c] # files[c]
    BY <1>1, <1>2, <2>2
  <2>3. QED BY <2>1, <2>2
<1>6. ASSUME NEW d \in Detectors, IsAt(d, "delete") PROVE \A c \in Contents : files'[c] # Item(d)
  <2>1. Item(d) \in aged
    BY <1>0, <1>6, ItemToDo DEF FilesInv, DetectorsInv, DetectorFormed, IsAt
  <2>2. Item(d) # u
    BY <1>1, <2>1 DEF KeptInv
  <2>3. QED BY <1>1, <1>6, <2>2 DEF KeptInv, IsReferenced
<1>7. \A d \in Detectors : IsAt(d, "delete")' => ~IsReferenced(Item(d))'
  BY <1>1, <1>6 DEF IsAt, Item, IsReferenced
<1>8. QED BY <1>3, <1>4, <1>5, <1>7 DEF KeptInv, At

LEMMA DetectorKeeps ==
    ASSUME FilesInv, KeptInv, NEW d \in Detectors, DetectorStep(d) \/ Fail(d) \/ CrashDetector(d)
    PROVE  KeptInv'
<1>1. /\ UNCHANGED <<aged, files, versions, upload>>
      /\ stored' # stored => /\ IsAt(d, "delete") /\ stored' = stored \ {Item(d)}
                             /\ Item(d) \in reconcile[d].todo
      /\ \A e \in Detectors \ {d} : reconcile'[e] = reconcile[e]
  BY DetectorEffects DEF FilesInv
<1>2. ASSUME NEW u \in stored \ stored' PROVE At(u, "ended") /\ ~IsReferenced(u)
  <2>1. IsAt(d, "delete") /\ u = Item(d) /\ Item(d) \in reconcile[d].todo
    BY <1>1, <1>2
  <2>2. u \in aged
    BY <2>1 DEF FilesInv, DetectorsInv, DetectorFormed
  <2>3. QED BY <2>1, <2>2 DEF KeptInv
<1>3. reconcile'[d].at = "delete" =>
          /\ reconcile'[d].todo = reconcile[d].todo
          /\ ~IsReferenced(Item(d))
  <2>1. FilesTypeOK /\ reconcile[d] \in RunRows /\ reconcile \in [Detectors -> RunRows]
    BY DEF FilesInv, FilesTypeOK, RunRows, RunPlaces
  <2>2. CASE Recheck(d)
    <3>1. CASE IsReferenced(Item(d))
      <4>1. reconcile'[d] = Settle(d)
        BY <2>1, <2>2, <3>1 DEF Recheck
      <4>2. QED BY <2>1, <4>1 DEF Settle, RunRows
    <3>2. CASE ~IsReferenced(Item(d))
      <4>1. reconcile'[d] = [reconcile[d] EXCEPT !.at = "delete"]
        BY <2>1, <2>2, <3>2 DEF Recheck
      <4>2. QED BY <2>1, <3>2, <4>1 DEF RunRows
    <3>3. QED BY <3>1, <3>2
  <2>3. CASE ~Recheck(d)
    <3>1. CASE Start(d) \/ EndDetection(d)
      BY <2>1, <3>1, ZenonT(40) DEF Start, EndDetection, RunRows, Asleep
    <3>2. CASE Check(d)
      <4>1. \/ reconcile'[d] = Settle(d) \/ reconcile'[d] = Report(d)
            \/ reconcile'[d] = [reconcile[d] EXCEPT !.at = "recheck"]
        BY <2>1, <3>2 DEF Check
      <4>2. reconcile[d].at = "check"
        BY <3>2 DEF Check, IsAt
      <4>3. QED BY <2>1, <4>1, <4>2 DEF Settle, Report, RunRows
    <3>3. CASE DeleteOrphan(d)
      <4>1. reconcile'[d] = Deleted(d)
        BY <2>1, <3>3 DEF DeleteOrphan
      <4>2. QED BY <2>1, <4>1 DEF Deleted, Settle, RunRows
    <3>4. CASE Resolve(d)
      <4>1. PICK u : reconcile'[d] = [reconcile[d] EXCEPT !.settled = reconcile[d].settled \ {u}]
        BY <2>1, <3>4 DEF Resolve
      <4>2. reconcile[d].at = "apply"
        BY <3>4 DEF Resolve, IsAt
      <4>3. QED BY <2>1, <4>1, <4>2 DEF RunRows
    <3>5. CASE AddIssue(d)
      <4>1. PICK u : reconcile'[d] = [reconcile[d] EXCEPT !.found = reconcile[d].found \ {u}]
        BY <2>1, <3>5 DEF AddIssue
      <4>2. reconcile[d].at = "apply"
        BY <3>5 DEF AddIssue, IsAt
      <4>3. QED BY <2>1, <4>1, <4>2 DEF RunRows
    <3>6. CASE Complete(d) \/ Fail(d) \/ CrashDetector(d)
      BY <2>1, <3>6 DEF Complete, Fail, CrashDetector, Asleep
    <3>7. QED BY <2>3, <3>1, <3>2, <3>3, <3>4, <3>5, <3>6 DEF DetectorStep
  <2>4. QED BY <2>2, <2>3
<1>4. \A u \in aged' : At(u, "ended")'
  BY <1>1 DEF KeptInv, At
<1>5. \A u \in Uploads : upload'[u].candidate /\ upload'[u].at \in {"ready", "commit"} => u \in stored'
  BY <1>1, <1>2 DEF KeptInv, At
<1>6. \A c \in Contents : files'[c] # NoObject => files'[c] \in stored'
  BY <1>1, <1>2 DEF KeptInv, IsReferenced
<1>7. ASSUME NEW e \in Detectors, IsAt(e, "delete")' PROVE ~IsReferenced(Item(e))'
  <2>1. reconcile'[e].todo = reconcile[e].todo /\ ~IsReferenced(Item(e))
    BY <1>1, <1>3, <1>7 DEF KeptInv, IsAt
  <2>2. QED BY <1>1, <2>1 DEF Item, IsReferenced
<1>8. QED BY <1>4, <1>5, <1>6, <1>7 DEF KeptInv

\* As long as no upload outlasts the grace period, every committed version can be
\* downloaded: whatever crashes, unknown commits, cleanups and repairs there were,
\* the object of its file is in the storage.  documents/core.py:199-430,
\* sync/consistency/detection.py.
THEOREM FileKeptAlways ==
    ASSUME GraceOutlasts
    PROVE  FilesSpec => []FileKept
<1>1. FilesInit => KeptInv
  <2> SUFFICES ASSUME FilesInit PROVE KeptInv
    OBVIOUS
  <2>1. \A u \in Uploads : upload[u].candidate = FALSE
    BY DEF FilesInit
  <2>2. aged = {} /\ \A c \in Contents : files[c] = NoObject
    BY DEF FilesInit
  <2>3. \A d \in Detectors : ~IsAt(d, "delete")
    BY DEF FilesInit, Asleep, IsAt
  <2>4. QED BY <2>1, <2>2, <2>3 DEF KeptInv
<1>2. FilesInv /\ KeptInv /\ [FilesNext]_filesVars => KeptInv'
  <2> SUFFICES ASSUME FilesInv, KeptInv, [FilesNext]_filesVars PROVE KeptInv'
    OBVIOUS
  <2>1. CASE UNCHANGED filesVars
    BY <2>1 DEF filesVars, KeptInv, At, IsAt, IsReferenced, Item
  <2>2. ASSUME NEW u \in Uploads, UploadStep(u) PROVE KeptInv'
    BY <2>2, UploadKeeps
  <2>3. ASSUME NEW u \in Uploads, Age(u) \/ IgnoreIssue(u) PROVE KeptInv'
    <3>1. /\ UNCHANGED <<stored, files, upload, reconcile>>
          /\ \A v \in aged' : v \in aged \/ At(v, "ended")
      BY <2>3 DEF Age, IgnoreIssue, KeepUploads
    <3>2. QED BY <3>1 DEF KeptInv, At, IsAt, IsReferenced, Item
  <2>4. ASSUME NEW d \in Detectors, DetectorStep(d) \/ Fail(d) \/ CrashDetector(d) PROVE KeptInv'
    BY <2>4, DetectorKeeps
  <2>5. QED BY <2>1, <2>2, <2>3, <2>4 DEF FilesNext
<1>3. FilesInv /\ KeptInv => FileKept
  BY DEF FilesInv, UploadsInv, KeptInv, FileKept
<1>4. QED BY <1>1, <1>2, <1>3, FilesInvariant, PTL DEF FilesSpec

----------------------------------------------------------------------------
(* Search: what is answered                                                 *)

SearchPlaces == {"new", "cached", "input", "prefilter", "livecheck", "gate", "judge", "return",
                 "answered", "refused"} \union Generating
Texts == {"none", "nothing cached", "not found", "timeout", "generated", "blocked"}
Answers == [text : Texts, from : SUBSET SearchDocs, timely : {TRUE}]
SearchRows == [at : SearchPlaces, results : SUBSET SearchDocs, unchecked : SUBSET SearchDocs,
               branch : {"soft", "first", "general"}, tries : Nat, late : BOOLEAN,
               cacheable : BOOLEAN, answer : Answers]
Bodies == [results : SUBSET SearchDocs, answer : Answers]

\* What a request holds at its place, when bar is what the user could not read
\* since it began.  The answer is made from results, and results are checked.
RowSound(row, bar) ==
    /\ row \in SearchRows
    /\ row.answer.from \subseteq row.results
    /\ row.at \in {"new", "input", "prefilter"} => row.results = {}
    /\ row.at \in {"livecheck", "gate"} \union Generating => row.answer.from = {}
    /\ row.at \in {"gate", "judge", "return", "answered"} \union Generating =>
          row.results \intersect bar = {}
    /\ row.at = "cached" => (row.results \ row.unchecked) \intersect bar = {}
    /\ row.cacheable => row.answer.text # "timeout"

EntrySound == /\ entry \in Bodies /\ entry.answer.from \subseteq entry.results
              /\ entry.answer.text # "timeout"

\* Whose call the thread of the generator makes, and who has the slot before it.
SlotSound ==
    /\ \A r \in Askers : SearchAt(r, "slot") => generator.busy /\ generator.thread = Nobody
    /\ \A r \in Askers : SearchAt(r, "awaiting") => generator.busy /\ generator.thread = r
    /\ \A r, q \in Askers : SearchAt(r, "slot") /\ SearchAt(q, "slot") => r = q
    /\ generator.busy <=> (generator.thread # Nobody \/ \E r \in Askers : SearchAt(r, "slot"))
    /\ generator.thread \notin {Nobody, Lost} =>
          generator.thread \in Askers /\ SearchAt(generator.thread, "awaiting")

LedgerSound ==
    /\ readable \subseteq SearchDocs
    /\ barred \in [Askers -> SUBSET SearchDocs]
    /\ \A r \in Askers : barred[r] \intersect readable = {}

RowsSound == /\ search \in [Askers -> SearchRows]
             /\ \A r \in Askers : RowSound(search[r], barred[r])
GeneratorTyped == generator \in [busy : BOOLEAN, thread : Askers \union {Nobody, Lost}]

SearchInv == LedgerSound /\ RowsSound /\ EntrySound /\ GeneratorTyped /\ SlotSound

\* A text in the place of an answer is made from nothing.
LEMMA FixedAnswer ==
    ASSUME NEW t \in Texts
    PROVE  /\ Fixed(t) \in Answers /\ Fixed(t).from = {} /\ Fixed(t).text = t
           /\ NoAnswer \in Answers /\ NoAnswer.from = {} /\ NoAnswer.text = "none"
  BY DEF Fixed, NoAnswer, Answers, Texts

\* A step of a request replaces its row, and no other.
LEMMA OneRow ==
    ASSUME RowsSound, NEW r \in Askers, NEW row, Put(r, row),
           \A q \in Askers \ {r} : barred'[q] = barred[q], RowSound(row, barred'[r])
    PROVE  /\ RowsSound' /\ search'[r] = row
           /\ \A q \in Askers \ {r} : search'[q] = search[q]
<1>1. row \in SearchRows
  BY DEF RowSound
<1>2. search' \in [Askers -> SearchRows]
  BY <1>1 DEF RowsSound, Put
<1>3. search'[r] = row /\ \A q \in Askers \ {r} : search'[q] = search[q]
  BY DEF RowsSound, Put
<1>4. ASSUME NEW q \in Askers PROVE RowSound(search[q], barred[q])'
  <2>1. CASE q = r
    BY <1>3, <2>1
  <2>2. CASE q # r
    BY <1>3, <2>2 DEF RowsSound
  <2>3. QED BY <2>1, <2>2
<1>5. QED BY <1>2, <1>3, <1>4 DEF RowsSound

\* The rows a request can go to.
LEMMA RowChanges ==
    ASSUME NEW row, NEW bar, RowSound(row, bar)
    PROVE  /\ row.at = "new" => RowSound([row EXCEPT !.at = "input"], bar)
           /\ row.at = "input" => RowSound([row EXCEPT !.at = "prefilter"], bar)
           /\ row.at = "prefilter" => RowSound([row EXCEPT !.at = "return"], bar)
           /\ row.at = "cached" /\ row.unchecked = {} => RowSound([row EXCEPT !.at = "answered"], bar)
           /\ \A d \in SearchDocs \ bar :
                 row.at = "cached" => RowSound([row EXCEPT !.unchecked = row.unchecked \ {d}], bar)
           /\ row.at = "judge" => RowSound([row EXCEPT !.at = "return"], bar)
           /\ row.at = "return" => RowSound([row EXCEPT !.at = "answered"], bar)
           /\ row.at \in Generating => \A place \in Generating :
                 RowSound([row EXCEPT !.at = place], bar)
           /\ row.at \in Generating => RowSound([row EXCEPT !.late = TRUE], bar)
<1> USE DEF RowSound
<1>1. row \in SearchRows
  OBVIOUS
<1>2. \A place \in SearchPlaces : /\ [row EXCEPT !.at = place] \in SearchRows
                                  /\ [row EXCEPT !.at = place].at = place
                                  /\ [row EXCEPT !.at = place].results = row.results
                                  /\ [row EXCEPT !.at = place].unchecked = row.unchecked
                                  /\ [row EXCEPT !.at = place].cacheable = row.cacheable
                                  /\ [row EXCEPT !.at = place].answer = row.answer
  BY <1>1 DEF SearchRows
<1>3. \A place \in {"input", "prefilter", "return", "answered"} \union Generating :
          place \in SearchPlaces
  BY DEF SearchPlaces
<1>4. /\ row.at = "new" => RowSound([row EXCEPT !.at = "input"], bar)
      /\ row.at = "input" => RowSound([row EXCEPT !.at = "prefilter"], bar)
      /\ row.at = "prefilter" => RowSound([row EXCEPT !.at = "return"], bar)
      /\ row.at = "cached" /\ row.unchecked = {} => RowSound([row EXCEPT !.at = "answered"], bar)
      /\ row.at = "judge" => RowSound([row EXCEPT !.at = "return"], bar)
      /\ row.at = "return" => RowSound([row EXCEPT !.at = "answered"], bar)
  BY <1>2, <1>3 DEF Generating
<1>5. ASSUME row.at \in Generating, NEW place \in Generating
      PROVE  RowSound([row EXCEPT !.at = place], bar)
  BY <1>2, <1>3, <1>5 DEF Generating
<1>6. ASSUME row.at = "cached", NEW d \in SearchDocs \ bar
      PROVE  RowSound([row EXCEPT !.unchecked = row.unchecked \ {d}], bar)
  BY <1>1, <1>6 DEF SearchRows, Generating
<1>7. ASSUME row.at \in Generating PROVE RowSound([row EXCEPT !.late = TRUE], bar)
  BY <1>1, <1>7 DEF SearchRows
<1>8. QED BY <1>4, <1>5, <1>6, <1>7

\* Each step of a request takes it to a sound row.
LEMMA RequestStep ==
    ASSUME SearchInv, NEW r \in Askers, SearchStep(r) \/ DeadlinePasses(r)
    PROVE  /\ \E row : Put(r, row) /\ RowSound(row, barred'[r])
           /\ \A q \in Askers \ {r} : barred'[q] = barred[q]
           /\ LedgerSound'
<1> DEFINE row == search[r]
           Goal == \E new : Put(r, new) /\ RowSound(new, barred'[r])
<1> USE DEF SearchAt, Move
<1>1. /\ row \in SearchRows /\ RowSound(row, barred[r])
      /\ barred[r] \in SUBSET SearchDocs /\ barred[r] \intersect readable = {}
  BY DEF SearchInv, RowsSound, LedgerSound
<1>2. CASE LookUp(r)
  <2>1. barred' = [barred EXCEPT ![r] = SearchDocs \ readable] /\ readable' = readable
    BY <1>2 DEF LookUp
  <2>2. barred'[r] = SearchDocs \ readable /\ \A q \in Askers \ {r} : barred'[q] = barred[q]
    BY <2>1 DEF SearchInv, LedgerSound
  <2>3. LedgerSound'
    BY <2>1 DEF SearchInv, LedgerSound
  <2>4. row.at = "new" /\ RowSound(row, barred'[r])
    BY <1>1, <1>2 DEF LookUp, RowSound, Generating
  <2>5. CASE Move(r, "input")
    BY <2>2, <2>3, <2>4, <2>5, RowChanges
  <2>6. CASE Put(r, [search[r] EXCEPT !.at = "cached", !.results = entry.results,
                              !.unchecked = entry.results, !.answer = entry.answer])
    <3> DEFINE new == [row EXCEPT !.at = "cached", !.results = entry.results,
                                  !.unchecked = entry.results, !.answer = entry.answer]
    <3>1. entry.results \in SUBSET SearchDocs /\ entry.answer \in Answers
      BY DEF SearchInv, EntrySound, Bodies
    <3>2. RowSound(new, barred'[r])
      BY <1>1, <3>1 DEF SearchInv, EntrySound, RowSound, SearchRows, SearchPlaces, Generating
    <3>3. QED BY <2>2, <2>3, <2>6, <3>2
  <2>7. QED BY <1>2, <2>5, <2>6 DEF LookUp
<1>3. ASSUME NEW new, Put(r, new), RowSound(new, barred[r]), LedgerKept
      PROVE  /\ Goal
             /\ \A q \in Askers \ {r} : barred'[q] = barred[q]
             /\ LedgerSound'
  BY <1>3 DEF LedgerKept, LedgerSound, SearchInv
<1>4. CASE Refuse(r) /\ LedgerKept
  <2> DEFINE new == [row EXCEPT !.at = "refused", !.results = {}, !.answer = NoAnswer,
                                !.late = FALSE, !.tries = 0]
  <2>1. NoAnswer \in Answers /\ NoAnswer.from = {} /\ NoAnswer.text = "none"
    BY FixedAnswer DEF Texts
  <2>2. RowSound(new, barred[r])
    BY <1>1, <2>1 DEF RowSound, SearchRows, SearchPlaces, Generating
  <2>3. Put(r, new)
    BY <1>4 DEF Refuse
  <2>4. QED BY <1>3, <1>4, <2>2, <2>3
<1>5. CASE CheckCached(r)
  <2>1. CASE row.unchecked = {} /\ Move(r, "answered")
    BY <1>1, <1>3, <1>5, <2>1, RowChanges DEF CheckCached
  <2>2. ASSUME NEW d \in row.unchecked, MayServe(d),
               Put(r, [search[r] EXCEPT !.unchecked = @ \ {d}])
        PROVE  Goal /\ (\A q \in Askers \ {r} : barred'[q] = barred[q]) /\ LedgerSound'
    <3>1. d \in SearchDocs \ barred[r]
      BY <1>1, <2>2 DEF SearchRows, MayServe
    <3>2. QED BY <1>1, <1>3, <1>5, <2>2, <3>1, RowChanges DEF CheckCached
  <2>3. CASE Put(r, [search[r] EXCEPT !.at = "input", !.results = {},
                                      !.unchecked = {}, !.answer = NoAnswer])
    <3> DEFINE new == [row EXCEPT !.at = "input", !.results = {},
                                  !.unchecked = {}, !.answer = NoAnswer]
    <3>1. NoAnswer \in Answers /\ NoAnswer.from = {} /\ NoAnswer.text = "none"
      BY FixedAnswer DEF Texts
    <3>2. RowSound(new, barred[r])
      BY <1>1, <3>1 DEF RowSound, SearchRows, SearchPlaces, Generating
    <3>3. QED BY <1>3, <1>5, <2>3, <3>2 DEF CheckCached
  <2>4. QED BY <1>5, <2>1, <2>2, <2>3 DEF CheckCached
<1>6. CASE InspectInput(r)
  BY <1>1, <1>3, <1>4, <1>6, RowChanges DEF InspectInput
<1>7. CASE Retrieve(r)
  <2>1. ASSUME NEW found \in SUBSET SearchDocs,
               Put(r, [search[r] EXCEPT !.at = "livecheck", !.results = found])
        PROVE  Goal /\ (\A q \in Askers \ {r} : barred'[q] = barred[q]) /\ LedgerSound'
    <3> DEFINE new == [row EXCEPT !.at = "livecheck", !.results = found]
    <3>1. RowSound(new, barred[r])
      BY <1>1, <1>7 DEF Retrieve, RowSound, SearchRows, SearchPlaces, Generating
    <3>2. QED BY <1>3, <1>7, <2>1, <3>1 DEF Retrieve
  <2>2. QED BY <1>1, <1>3, <1>4, <1>7, <2>1, RowChanges DEF Retrieve
<1>8. CASE LiveCheck(r)
  <2> DEFINE new == [row EXCEPT !.at = "gate", !.results = LiveReadable(@)]
  <2>1. LiveReadable(row.results) \in SUBSET SearchDocs
    BY <1>1 DEF LiveReadable, SearchRows
  <2>2. LiveReadable(row.results) \intersect barred[r] = {}
    BY <1>1 DEF LiveReadable
  <2>3. RowSound(new, barred[r])
    BY <1>1, <1>8, <2>1, <2>2 DEF LiveCheck, RowSound, SearchRows, SearchPlaces, Generating
  <2>4. QED BY <1>3, <1>8, <2>3 DEF LiveCheck
<1>9. CASE Gate(r)
  <2>1. PICK kept \in SUBSET row.results :
          \/ Put(r, [search[r] EXCEPT !.at = "return", !.results = kept,
                                      !.answer = Fixed("not found")])
          \/ Put(r, [search[r] EXCEPT !.at = "return", !.results = kept])
          \/ \E b \in {"soft", "first", "general"} :
                Put(r, [search[r] EXCEPT !.at = "generate", !.results = kept, !.branch = b])
    BY <1>9 DEF Gate
  <2>2. /\ Fixed("not found") \in Answers /\ Fixed("not found").from = {}
        /\ Fixed("not found").text = "not found"
    BY FixedAnswer DEF Texts
  <2>3. kept \in SUBSET SearchDocs /\ kept \intersect barred[r] = {} /\ row.at = "gate"
    BY <1>1, <1>9 DEF Gate, RowSound, SearchRows
  <2>4. /\ RowSound([row EXCEPT !.at = "return", !.results = kept, !.answer = Fixed("not found")],
                    barred[r])
        /\ RowSound([row EXCEPT !.at = "return", !.results = kept], barred[r])
    BY <1>1, <2>2, <2>3 DEF RowSound, SearchRows, SearchPlaces, Generating
  <2>5. \A b \in {"soft", "first", "general"} :
            RowSound([row EXCEPT !.at = "generate", !.results = kept, !.branch = b], barred[r])
    BY <1>1, <2>3 DEF RowSound, SearchRows, SearchPlaces, Generating
  <2>6. QED BY <1>3, <1>9, <2>1, <2>4, <2>5 DEF Gate
<1>10. CASE TakeGenerator(r) \/ StartCall(r) \/ DeadlinePasses(r)
  <2>1. row.at \in Generating /\ LedgerKept
    BY <1>10 DEF TakeGenerator, StartCall, DeadlinePasses, Generating
  <2>2. \/ \E place \in Generating : Put(r, [row EXCEPT !.at = place])
        \/ Put(r, [row EXCEPT !.late = TRUE])
    BY <1>10 DEF TakeGenerator, StartCall, DeadlinePasses, Generating
  <2>3. QED BY <1>1, <1>3, <2>1, <2>2, RowChanges
<1>11. ASSUME NEW a \in Answers, a.from \subseteq row.results, a.text # "timeout",
              row.at \in Generating, LedgerKept, Put(r, Ended(r, a))
       PROVE  Goal /\ (\A q \in Askers \ {r} : barred'[q] = barred[q]) /\ LedgerSound'
  <2>1. RowSound(Ended(r, a), barred[r])
    BY <1>1, <1>11 DEF Ended, RowSound, SearchRows, SearchPlaces, Generating
  <2>2. QED BY <1>3, <1>11, <2>1
<1>12. CASE DeadlineExceeded(r)
  <2>1. /\ Fixed("timeout") \in Answers /\ Fixed("timeout").from = {}
        /\ Fixed("timeout").text = "timeout"
    BY FixedAnswer DEF Texts
  <2>2. row.at \in Generating
    BY <1>12 DEF DeadlineExceeded
  <2>3. RowSound(TimedOut(r), barred[r])
    BY <1>1, <2>1, <2>2 DEF TimedOut, Ended, RowSound, SearchRows, SearchPlaces, Generating
  <2>4. QED BY <1>3, <1>12, <2>3 DEF DeadlineExceeded
<1>13. CASE AcceptCall(r)
  <2>1. row.at \in Generating /\ LedgerKept /\ ~row.late
    BY <1>13 DEF AcceptCall, Generating, InTime
  <2>2. CASE Put(r, Ended(r, Generated(r)))
    <3>1. /\ Generated(r) \in Answers /\ Generated(r).from = row.results
          /\ Generated(r).text = "generated"
      <4>1. (~row.late) = TRUE
        BY <2>1
      <4>2. Generated(r) = [text |-> "generated", from |-> row.results, timely |-> TRUE]
        BY <4>1 DEF Generated
      <4>3. row.results \in SUBSET SearchDocs
        BY <1>1 DEF SearchRows
      <4>4. QED BY ONLY <4>2, <4>3 DEF Answers, Texts
    <3>2. QED BY <1>11, <2>1, <2>2, <3>1
  <2>3. CASE Put(r, Ended(r, Fixed("not found")))
    <3>1. /\ Fixed("not found") \in Answers /\ Fixed("not found").from = {}
          /\ Fixed("not found").text = "not found"
      BY FixedAnswer DEF Texts
    <3>2. QED BY <1>11, <2>1, <2>3, <3>1
  <2>4. CASE Put(r, [search[r] EXCEPT !.at = "generate", !.branch = "general", !.tries = 0])
    <3>1. RowSound([row EXCEPT !.at = "generate", !.branch = "general", !.tries = 0], barred[r])
      BY <1>1, <2>1 DEF RowSound, SearchRows, SearchPlaces, Generating
    <3>2. QED BY <1>3, <2>1, <2>4, <3>1
  <2>5. QED BY <1>13, <2>2, <2>3, <2>4 DEF AcceptCall
<1>14. CASE RetryCall(r)
  <2>1. row.at \in Generating /\ LedgerKept
    BY <1>14 DEF RetryCall, Generating
  <2>2. CASE Put(r, [search[r] EXCEPT !.at = "generate", !.tries = @ + 1])
    <3>1. row.tries + 1 \in Nat
      BY <1>1 DEF SearchRows
    <3>2. PICK n \in Nat : n = row.tries + 1
      BY <3>1
    <3>3. RowSound([row EXCEPT !.at = "generate", !.tries = n], barred[r])
      BY <1>1, <2>1 DEF RowSound, SearchRows, SearchPlaces, Generating
    <3>4. QED BY <1>3, <2>1, <2>2, <3>2, <3>3
  <2>3. CASE Put(r, [search[r] EXCEPT !.at = "generate", !.branch = "general", !.tries = 0])
    <3>1. RowSound([row EXCEPT !.at = "generate", !.branch = "general", !.tries = 0], barred[r])
      BY <1>1, <2>1 DEF RowSound, SearchRows, SearchPlaces, Generating
    <3>2. QED BY <1>3, <2>1, <2>3, <3>1
  <2>4. QED BY <1>4, <1>14, <2>1, <2>2, <2>3 DEF RetryCall
<1>15. CASE Judge(r)
  <2>1. CASE Put(r, [search[r] EXCEPT !.at = "return", !.answer = Fixed("blocked")])
    <3>1. /\ Fixed("blocked") \in Answers /\ Fixed("blocked").from = {}
          /\ Fixed("blocked").text = "blocked"
      BY FixedAnswer DEF Texts
    <3>2. RowSound([row EXCEPT !.at = "return", !.answer = Fixed("blocked")], barred[r])
      BY <1>1, <1>15, <3>1 DEF Judge, RowSound, SearchRows, SearchPlaces, Generating
    <3>3. QED BY <1>3, <1>15, <2>1, <3>2 DEF Judge
  <2>2. QED BY <1>1, <1>3, <1>15, <2>1, RowChanges DEF Judge
<1>16. CASE Return(r)
  BY <1>1, <1>3, <1>16, RowChanges DEF Return
<1>17. QED
  BY <1>2, <1>5, <1>6, <1>7, <1>8, <1>9, <1>10, <1>12, <1>13, <1>14, <1>15, <1>16 DEF SearchStep

\* Each step of a request leaves the slot in order.
LEMMA RequestSlot ==
    ASSUME SearchInv, NEW r \in Askers, SearchStep(r) \/ DeadlinePasses(r)
    PROVE  SlotSound' /\ GeneratorTyped'
<1> DEFINE row == search[r]
           after == search'[r]
<1>1. /\ \A q \in Askers \ {r} : search'[q] = search[q]
      /\ search \in [Askers -> SearchRows] /\ row \in SearchRows
  BY RequestStep, OneRow DEF SearchInv, RowsSound
<1>2. SlotSound /\ GeneratorTyped /\ Nobody \notin Askers /\ Lost \notin Askers /\ Lost # Nobody
  BY SearchAssumption DEF SearchInv
<1>3. ASSUME generator' = generator,
             after.at = row.at \/ {after.at, row.at} \intersect {"slot", "awaiting"} = {}
      PROVE  SlotSound' /\ GeneratorTyped'
  <2>1. \A q \in Askers : /\ SearchAt(q, "slot")' <=> SearchAt(q, "slot")
                          /\ SearchAt(q, "awaiting")' <=> SearchAt(q, "awaiting")
    BY <1>1, <1>3 DEF SearchAt
  <2>2. QED BY <1>2, <1>3, <2>1 DEF SlotSound, GeneratorTyped, SearchAt
<1>4. ASSUME NEW new, Put(r, new) PROVE after = new
  BY <1>1, <1>4 DEF Put
<1>5. \A place : Move(r, place) => after.at = place
  BY <1>1 DEF Move, Put, SearchRows
<1>6. Refuse(r) => after.at = "refused"
  BY <1>1 DEF Refuse, Put, SearchRows
<1>7. CASE LookUp(r) \/ CheckCached(r) \/ Retrieve(r)
  <2>1. generator' = generator /\ row.at \in {"new", "cached", "prefilter"}
    BY <1>7 DEF LookUp, CheckCached, Retrieve, SearchAt
  <2>2. after.at \in {"cached", "input", "answered", "return", "livecheck", "refused"}
    <3>1. CASE LookUp(r)
      BY <1>1, <1>5, <3>1, ZenonT(40) DEF LookUp, Put, SearchRows
    <3>2. CASE CheckCached(r)
      BY <1>1, <1>5, <3>2, ZenonT(40) DEF CheckCached, Put, SearchRows, SearchAt
    <3>3. CASE Retrieve(r)
      BY <1>1, <1>5, <1>6, <3>3 DEF Retrieve, Put, SearchRows
    <3>4. QED BY <1>7, <3>1, <3>2, <3>3
  <2>3. QED BY <1>3, <2>1, <2>2
<1>8. CASE InspectInput(r) \/ LiveCheck(r) \/ Gate(r)
  <2>1. generator' = generator /\ row.at \in {"input", "livecheck", "gate"}
    BY <1>8 DEF InspectInput, LiveCheck, Gate, SearchAt
  <2>2. after.at \in {"prefilter", "refused", "gate", "return", "generate"}
    <3>1. CASE InspectInput(r)
      BY <1>5, <1>6, <3>1 DEF InspectInput
    <3>2. CASE LiveCheck(r)
      BY <1>1, <3>2 DEF LiveCheck, Put, SearchRows
    <3>3. CASE Gate(r)
      <4>1. PICK kept \in SUBSET row.results :
               \/ Put(r, [row EXCEPT !.at = "return", !.results = kept,
                                     !.answer = Fixed("not found")])
               \/ Put(r, [row EXCEPT !.at = "return", !.results = kept])
               \/ \E b \in {"soft", "first", "general"} :
                     Put(r, [row EXCEPT !.at = "generate", !.results = kept, !.branch = b])
        BY <3>3 DEF Gate
      <4>2. CASE \E b : Put(r, [row EXCEPT !.at = "generate", !.results = kept, !.branch = b])
        <5>1. PICK b : Put(r, [row EXCEPT !.at = "generate", !.results = kept, !.branch = b])
          BY <4>2
        <5>2. QED BY <1>1, <5>1 DEF Put, SearchRows
      <4>3. CASE Put(r, [row EXCEPT !.at = "return", !.results = kept])
        BY <1>1, <4>3 DEF Put, SearchRows
      <4>4. CASE Put(r, [row EXCEPT !.at = "return", !.results = kept,
                                    !.answer = Fixed("not found")])
        BY <1>1, <4>4 DEF Put, SearchRows
      <4>5. QED BY <4>1, <4>2, <4>3, <4>4
    <3>4. QED BY <1>8, <3>1, <3>2, <3>3
  <2>3. QED BY <1>3, <2>1, <2>2
<1>9. CASE AcceptCall(r) \/ RetryCall(r) \/ Judge(r) \/ Return(r)
  <2>1. generator' = generator /\ row.at \in {"got", "failed", "judge", "return"}
    BY <1>9 DEF AcceptCall, RetryCall, Judge, Return, SearchAt
  <2>2. after.at \in {"judge", "generate", "refused", "return", "answered"}
    <3>1. CASE AcceptCall(r)
      <4>1. \A a : Ended(r, a).at = "judge"
        BY <1>1 DEF Ended, SearchRows
      <4>2. CASE Put(r, [search[r] EXCEPT !.at = "generate", !.branch = "general", !.tries = 0])
        BY <1>1, <4>2 DEF Put, SearchRows
      <4>3. CASE \E a : Put(r, Ended(r, a))
        BY <1>4, <4>1, <4>3
      <4>4. QED BY <3>1, <4>2, <4>3 DEF AcceptCall
    <3>2. CASE RetryCall(r)
      BY <1>1, <1>6, <3>2, ZenonT(40) DEF RetryCall, Put, SearchRows
    <3>3. CASE Judge(r) \/ Return(r)
      BY <1>1, <1>5, <3>3, ZenonT(40) DEF Judge, Return, Put, SearchRows
    <3>4. QED BY <1>9, <3>1, <3>2, <3>3
  <2>3. QED BY <1>3, <2>1, <2>2
<1>10. CASE DeadlinePasses(r)
  <2>1. generator' = generator /\ after.at = row.at
    BY <1>1, <1>10 DEF DeadlinePasses, Put, SearchRows
  <2>2. QED BY <1>3, <2>1
<1>11. CASE TakeGenerator(r)
  <2>1. /\ after.at = "slot" /\ generator.busy = FALSE
        /\ generator' = [busy |-> TRUE, thread |-> generator.thread]
    BY <1>2, <1>5, <1>11 DEF TakeGenerator, GeneratorTyped
  <2>2. /\ generator.thread = Nobody
        /\ \A q \in Askers : ~SearchAt(q, "slot") /\ ~SearchAt(q, "awaiting")
    BY <1>2, <2>1 DEF SlotSound
  <2>3. QED BY <1>1, <1>2, <2>1, <2>2 DEF SlotSound, GeneratorTyped, SearchAt
<1>12. CASE StartCall(r)
  <2>1. row.at = "slot" /\ generator.busy /\ generator.thread = Nobody
    BY <1>2, <1>12 DEF StartCall, SlotSound, SearchAt
  <2>2. \A q \in Askers \ {r} : ~SearchAt(q, "slot") /\ ~SearchAt(q, "awaiting")
    BY <1>2, <1>12, <2>1 DEF StartCall, SlotSound
  <2>3. \/ generator' = [busy |-> TRUE, thread |-> r] /\ after.at = "awaiting"
        \/ generator' = [busy |-> FALSE, thread |-> Nobody] /\ after.at = "failed"
    <3>1. /\ generator \in [busy : BOOLEAN, thread : Askers \union {Nobody, Lost}]
          /\ generator.busy = TRUE /\ generator.thread = Nobody
      BY <1>2, <2>1 DEF GeneratorTyped
    <3>2. \/ generator' = [generator EXCEPT !.thread = r] /\ after.at = "awaiting"
          \/ generator' = [generator EXCEPT !.busy = FALSE] /\ after.at = "failed"
      BY <1>5, <1>12 DEF StartCall
    <3>3. QED BY <3>1, <3>2
  <2>4. CASE generator' = [busy |-> TRUE, thread |-> r] /\ after.at = "awaiting"
    <3>1. generator'.busy = TRUE /\ generator'.thread = r /\ r # Nobody
      BY <1>2, <2>4
    <3>2. \A q \in Askers : ~SearchAt(q, "slot")' /\ (SearchAt(q, "awaiting")' <=> q = r)
      BY <1>1, <2>2, <2>4 DEF SearchAt
    <3>3. QED BY <2>4, <3>1, <3>2 DEF SlotSound, GeneratorTyped
  <2>5. CASE generator' = [busy |-> FALSE, thread |-> Nobody] /\ after.at = "failed"
    <3>1. \A q \in Askers : ~SearchAt(q, "slot")' /\ ~SearchAt(q, "awaiting")'
      BY <1>1, <2>2, <2>5 DEF SearchAt
    <3>2. QED BY <2>5, <3>1 DEF SlotSound, GeneratorTyped
  <2>6. QED BY <2>3, <2>4, <2>5
<1>13. CASE DeadlineExceeded(r)
  <2>1. after.at = "judge"
    BY <1>1, <1>13 DEF DeadlineExceeded, Put, TimedOut, Ended, SearchRows
  <2>2. CASE row.at = "slot"
    <3>1. generator' = [busy |-> FALSE, thread |-> Nobody]
      BY <1>2, <1>13, <2>2 DEF DeadlineExceeded, SearchAt, SlotSound, GeneratorTyped
    <3>2. \A q \in Askers \ {r} : ~SearchAt(q, "slot") /\ ~SearchAt(q, "awaiting")
      BY <1>2, <2>2 DEF SlotSound, SearchAt
    <3>3. QED BY <1>1, <1>2, <2>1, <3>1, <3>2 DEF SlotSound, GeneratorTyped, SearchAt
  <2>3. CASE row.at = "awaiting"
    <3>1. generator' = [busy |-> TRUE, thread |-> Lost]
      BY <1>2, <1>13, <2>3 DEF DeadlineExceeded, SearchAt, SlotSound, GeneratorTyped
    <3>2. \A q \in Askers \ {r} : ~SearchAt(q, "slot") /\ ~SearchAt(q, "awaiting")
      BY <1>2, <2>3 DEF SlotSound, SearchAt
    <3>3. QED BY <1>1, <1>2, <2>1, <3>1, <3>2 DEF SlotSound, GeneratorTyped, SearchAt
  <2>4. CASE row.at \notin {"slot", "awaiting"}
    <3>1. generator' = generator
      BY <1>13, <2>4 DEF DeadlineExceeded, SearchAt
    <3>2. QED BY <1>3, <2>1, <2>4, <3>1
  <2>5. QED BY <2>2, <2>3, <2>4
<1>14. QED
  BY <1>7, <1>8, <1>9, <1>10, <1>11, <1>12, <1>13 DEF SearchStep

\* What is cached is what a request returns, or nothing.
LEMMA RequestEntry ==
    ASSUME SearchInv, NEW r \in Askers, SearchStep(r) \/ DeadlinePasses(r)
    PROVE  EntrySound'
<1>1. NoBody \in Bodies /\ NoBody.answer.from = {} /\ NoBody.answer.text # "timeout"
  BY FixedAnswer DEF NoBody, Bodies, Texts
<1>2. CASE entry' = entry
  BY <1>2 DEF SearchInv, EntrySound
<1>3. CASE entry' = NoBody
  BY <1>1, <1>3 DEF EntrySound
<1>4. CASE Return(r) /\ search[r].cacheable /\ entry' = Cached(r)
  <2>1. RowSound(search[r], barred[r])
    BY DEF SearchInv, RowsSound
  <2>2. QED BY <1>4, <2>1 DEF EntrySound, Cached, RowSound, SearchRows, Bodies
<1>5. QED
  BY <1>2, <1>3, <1>4 DEF SearchStep, LookUp, CheckCached, InspectInput, Retrieve, LiveCheck, Gate,
     TakeGenerator, StartCall, DeadlineExceeded, AcceptCall, RetryCall, Judge, Return,
     DeadlinePasses

LEMMA CallReturned ==
    ASSUME SearchInv, CallReturns
    PROVE  SearchInv'
<1>1. /\ SlotSound /\ GeneratorTyped /\ Nobody \notin Askers /\ Lost \notin Askers /\ Lost # Nobody
      /\ RowsSound /\ generator.thread # Nobody
      /\ UNCHANGED <<readable, barred, entry>> /\ generator' = [busy |-> FALSE, thread |-> Nobody]
  BY SearchAssumption DEF SearchInv, CallReturns, LedgerKept
<1>2. LedgerSound' /\ EntrySound' /\ GeneratorTyped'
  BY <1>1 DEF SearchInv, LedgerSound, EntrySound, GeneratorTyped
<1>3. CASE generator.thread = Lost
  <2>1. search' = search /\ \A q \in Askers : ~SearchAt(q, "slot") /\ ~SearchAt(q, "awaiting")
    BY <1>1, <1>3 DEF CallReturns, SlotSound
  <2>2. QED BY <1>1, <1>2, <2>1 DEF SearchInv, RowsSound, SlotSound, SearchAt
<1>4. CASE generator.thread # Lost
  <2>1. PICK r \in Askers : r = generator.thread /\ SearchAt(r, "awaiting")
    BY <1>1, <1>4 DEF SlotSound
  <2>2. \A q \in Askers : ~SearchAt(q, "slot") /\ (SearchAt(q, "awaiting") => q = r)
    BY <1>1, <2>1 DEF SlotSound
  <2>3. PICK place \in {"got", "failed"} : Put(r, [search[r] EXCEPT !.at = place])
    BY <1>4, <2>1 DEF CallReturns, Move
  <2>4. RowSound(search[r], barred[r]) /\ search[r].at \in Generating /\ place \in Generating
    BY <1>1, <2>1 DEF RowsSound, SearchAt, Generating
  <2>5. RowSound([search[r] EXCEPT !.at = place], barred'[r])
    BY <1>1, <2>4, RowChanges
  <2>6. /\ RowsSound' /\ search'[r] = [search[r] EXCEPT !.at = place]
        /\ \A q \in Askers \ {r} : search'[q] = search[q]
    BY <1>1, <2>3, <2>5, OneRow
  <2>7. search'[r].at = place
    BY <1>1, <2>6 DEF RowsSound, SearchRows
  <2>8. \A q \in Askers : ~SearchAt(q, "slot")' /\ ~SearchAt(q, "awaiting")'
    BY <2>2, <2>6, <2>7 DEF SearchAt
  <2>9. QED BY <1>1, <1>2, <2>6, <2>8 DEF SearchInv, SlotSound
<1>5. QED BY <1>3, <1>4

LEMMA SearchInvariant == SearchSpec => []SearchInv
<1>1. SearchInit => SearchInv
  <2> SUFFICES ASSUME SearchInit PROVE SearchInv
    OBVIOUS
  <2> DEFINE start == [at |-> "new", results |-> {}, unchecked |-> {}, branch |-> "general",
                       tries |-> 0, late |-> FALSE, cacheable |-> TRUE, answer |-> NoAnswer]
  <2>1. NoAnswer \in Answers /\ NoAnswer.from = {} /\ NoAnswer.text = "none"
    BY FixedAnswer DEF Texts
  <2>2. RowSound(start, {})
    BY <2>1 DEF RowSound, SearchRows, SearchPlaces, Generating
  <2>3. \A r \in Askers : search[r] = start /\ barred[r] = {}
    BY DEF SearchInit
  <2>4. RowsSound
    BY <2>2, <2>3 DEF SearchInit, RowsSound, RowSound
  <2>5. \A r \in Askers : ~SearchAt(r, "slot") /\ ~SearchAt(r, "awaiting")
    BY <2>3 DEF SearchAt
  <2>6. SlotSound /\ GeneratorTyped
    BY <2>5 DEF SearchInit, SlotSound, GeneratorTyped
  <2>7. EntrySound
    BY FixedAnswer DEF SearchInit, EntrySound, NoBody, Bodies, Texts
  <2>8. LedgerSound
    BY DEF SearchInit, LedgerSound
  <2>9. QED BY <2>4, <2>6, <2>7, <2>8 DEF SearchInv
<1>2. SearchInv /\ [SearchNext]_searchVars => SearchInv'
  <2> SUFFICES ASSUME SearchInv, [SearchNext]_searchVars PROVE SearchInv'
    OBVIOUS
  <2>1. CASE UNCHANGED searchVars
    BY <2>1 DEF searchVars, SearchInv, LedgerSound, RowsSound, EntrySound, GeneratorTyped, SlotSound,
                SearchAt
  <2>2. ASSUME NEW r \in Askers, SearchStep(r) \/ DeadlinePasses(r) PROVE SearchInv'
    <3>1. PICK new : Put(r, new) /\ RowSound(new, barred'[r])
      BY <2>2, RequestStep
    <3>2. (\A q \in Askers \ {r} : barred'[q] = barred[q]) /\ LedgerSound'
      BY <2>2, RequestStep
    <3>3. RowsSound'
      BY <3>1, <3>2, OneRow DEF SearchInv
    <3>4. QED BY <2>2, <3>2, <3>3, RequestSlot, RequestEntry DEF SearchInv
  <2>3. ASSUME NEW d \in SearchDocs, Grant(d) PROVE SearchInv'
    <3>1. /\ readable' = readable \union {d} /\ UNCHANGED <<search, entry, generator>>
          /\ barred' = [r \in Askers |-> barred[r] \ {d}]
      BY <2>3 DEF Grant
    <3>2. LedgerSound'
      BY <3>1 DEF SearchInv, LedgerSound
    <3>3. \A r \in Askers : barred'[r] \subseteq barred[r]
      BY <3>1
    <3>4. RowsSound'
      BY <3>1, <3>3 DEF SearchInv, RowsSound, RowSound
    <3>5. QED BY <3>1, <3>2, <3>4 DEF SearchInv, EntrySound, GeneratorTyped, SlotSound, SearchAt
  <2>4. ASSUME NEW d \in SearchDocs, Withdraw(d) PROVE SearchInv'
    <3>1. readable' = readable \ {d} /\ UNCHANGED <<barred, search, entry, generator>>
      BY <2>4 DEF Withdraw
    <3>2. QED BY <3>1 DEF SearchInv, LedgerSound, RowsSound, EntrySound, GeneratorTyped, SlotSound,
                          SearchAt
  <2>5. CASE EntryExpires
    <3>1. entry' = NoBody /\ UNCHANGED <<readable, barred, search, generator>>
      BY <2>5 DEF EntryExpires, LedgerKept
    <3>2. EntrySound'
      BY <3>1, FixedAnswer DEF EntrySound, NoBody, Bodies, Texts
    <3>3. QED BY <3>1, <3>2 DEF SearchInv, LedgerSound, RowsSound, GeneratorTyped, SlotSound, SearchAt
  <2>6. CASE CallReturns
    BY <2>6, CallReturned
  <2>7. QED BY <2>1, <2>2, <2>3, <2>4, <2>5, <2>6 DEF SearchNext
<1>3. QED BY <1>1, <1>2, PTL DEF SearchSpec

\* What a request answers, its results and what its text was made from, its user
\* could read at some moment of the request: whatever the prefilter's old
\* permissions let through and whatever another request has put into the cache.
\* search/service.py:171-194, steps/permission_livecheck.py:6-16.
THEOREM AnswersAlwaysReadable == SearchSpec => []AnswersReadable
<1>1. SearchInv => AnswersReadable
  <2> SUFFICES ASSUME SearchInv, NEW r \in Askers, SearchAt(r, "answered")
               PROVE  (search[r].results \union search[r].answer.from) \intersect barred[r] = {}
    BY DEF AnswersReadable
  <2>1. RowSound(search[r], barred[r]) /\ search[r].at = "answered"
    BY DEF SearchInv, RowsSound, SearchAt
  <2>2. QED BY <2>1 DEF RowSound
<1>2. QED BY <1>1, SearchInvariant, PTL

\* What the model says after the deadline reaches nobody, a timeout is not cached,
\* and the generator has one caller at a time, whoever gave up waiting for it.
\* search/calls.py:33-89, steps/generation.py:99-108.
THEOREM GenerationAlwaysSound == SearchSpec => []GenerationSound
<1>1. SearchInv => GenerationSound
  <2> SUFFICES ASSUME SearchInv PROVE GenerationSound
    OBVIOUS
  <2> DEFINE callers == {r \in Askers : SearchAt(r, "slot") \/ SearchAt(r, "awaiting")}
  <2>1. \A r \in Askers : search[r].answer.timely
    BY DEF SearchInv, RowsSound, SearchRows, Answers
  <2>2. \A r, q \in callers : r = q
    BY SearchAssumption DEF SearchInv, SlotSound
  <2>3. CASE callers = {}
    <3>1. Cardinality(callers) = 0
      BY <2>3, FS_EmptySet
    <3>2. QED BY <2>1, <3>1 DEF SearchInv, EntrySound, SlotSound, GenerationSound
  <2>4. CASE callers # {}
    <3>1. PICK r : callers = {r}
      BY <2>2, <2>4
    <3>2. Cardinality(callers) = 1
      BY <3>1, FS_Singleton
    <3>3. QED BY <2>1, <3>2 DEF SearchInv, EntrySound, SlotSound, GenerationSound
  <2>5. QED BY <2>3, <2>4
<1>2. QED BY <1>1, SearchInvariant, PTL

----------------------------------------------------------------------------
(* Reading: the invariants. *)

VisitPlaces == {"done", "look", "ask", "rows", "cache", "put", "again", "weigh", "weighed", "enter"}
VisitOutcomes == {"none", "denied", "deleted", "absent", "shown"}
Resources == Shelved \union {Folder}
CacheRows == Rights \X Shelved
VisitRows ==
    [op : DocOps \union ListOps \union FolderOps \union {"none"}, at : VisitPlaces,
     who : Visitors \union {Absent}, live : BOOLEAN, locked : BOOLEAN, docs : SUBSET Shelved,
     now : Shelved \union {Absent}, deleted : BOOLEAN, allowed : BOOLEAN, todo : SUBSET Rights,
     picked : SUBSET Shelved, outcome : VisitOutcomes, shown : SUBSET (Resources \union Inner),
     unread : SUBSET Resources, gone : SUBSET Shelved, misled : SUBSET Shelved]

ResourceRow == [status : {"ACTIVE", "DELETED"}, visibility : {"PRIVATE", "PUBLIC"}]
LedgerTyped ==
    /\ docRow \in [Shelved -> ResourceRow] /\ folderRow \in ResourceRow
    /\ shelf \in SUBSET Shelved /\ inside \in SUBSET Inner
    /\ right \in [Rights -> {"none", "given", "lapsed", "revoked"}]
    /\ owed \in SUBSET {r \in Rights : ForUser(r)}
    /\ edit \in [d : Shelved \union {Absent}, removes : BOOLEAN, del : SUBSET CacheRows]
    /\ refresh \in [r : Rights \union {Absent}, del : SUBSET CacheRows, put : SUBSET CacheRows,
                    left : SUBSET Shelved]
    /\ edit # NoEdit => edit.d \in Shelved
    /\ ~FolderThere => shelf = {} /\ edit = NoEdit /\ \A r \in Rights : OnFolder(r) => ~Given(r)

\* What the cache has, and what is about to be put there, is covered or raced; a removal
\* forgets all it makes wrong but what raced, and nobody is about to put more of it.
CacheInv ==
    /\ projection \in SUBSET CacheRows /\ raced \in SUBSET projection /\ CacheWithinLive
    /\ edit.removes =>
           /\ edit.d \in Shelved
           /\ refresh # NoRefresh /\ OnFolder(refresh.r) => edit.d \in refresh.left
           /\ \A row \in projection : OnFolder(row[1]) /\ row[2] = edit.d => row \in edit.del \union raced
    /\ \A row \in refresh.put :
           /\ row[1] = refresh.r /\ Given(row[1]) /\ ForUser(row[1])
           /\ row[2] \in Reach(row[1]) \/ (OnFolder(row[1]) /\ row[2] \in refresh.left)

\* A request has noted what its user could not read, and what he may have been misled about,
\* since it came; it stands on a decision, and has picked and shown, accordingly.
Running(q, denied, misleading, hidden) ==
    /\ q.who \in Visitors /\ q.outcome = "none" /\ q.shown = {}
    /\ q.unread \subseteq denied[q.who] /\ misleading[q.who] \subseteq q.misled /\ q.gone \subseteq hidden
    /\ q.op \in DocOps => q.now \in Shelved /\ q.docs \subseteq {q.now}
    /\ q.live => q.op \in {"mcp", "folder"}
    /\ q.op = "mcp" /\ ~q.live => q.now \notin q.unread
    /\ q.picked \intersect q.gone = {} /\ q.picked \intersect q.unread \subseteq q.misled
    /\ q.op = "folder" /\ q.live => q.picked \intersect q.unread = {}

Deciding(q) ==
    /\ q.at \in {"rows", "cache", "put"} =>
           /\ q.locked /\ q.now \in Shelved /\ (q.allowed => q.now \notin q.unread)
           /\ q.now \in q.gone => q.op = "mcp" /\ q.live
    /\ q.at \in {"cache", "put"} => ~q.live /\ \A r \in q.todo : ForUser(r)
    /\ q.at = "again" => q.op \in DocOps /\ (q.now \in q.unread => q.now \in q.misled)
    /\ q.at = "weighed" => q.locked /\ (q.allowed => Folder \notin q.unread)
    /\ q.at \in {"look", "again", "weigh", "weighed", "enter"} => ~q.live
    /\ q.at \in {"weigh", "weighed", "enter"} => q.op \in FolderOps
    /\ q.at = "enter" => Folder \notin q.unread

VisitOver(q) ==
    /\ q.shown \intersect q.gone = {}
    /\ IF q.op \in ListOps \union {"document"} THEN q.shown \intersect q.unread \subseteq q.misled
       ELSE q.shown \intersect q.unread = {}
    /\ q.op = "children" /\ q.shown # {} => Folder \notin q.unread
    /\ q.op = "mcp" /\ q.outcome = "deleted" => q.now \notin q.unread

RequestSound(q, denied, misleading, hidden) ==
    IF q.at = "done" THEN VisitOver(q) ELSE Running(q, denied, misleading, hidden) /\ Deciding(q)

Hidden == {d \in Shelved : ~Visible(d)}

RequestsReading ==
    /\ visit \in [Visits -> VisitRows]
    /\ \A v \in Visits : RequestSound(visit[v], Unentitled, Misleading, Hidden)
    /\ edit # NoEdit => \A v \in Visits : visit[v].at \notin {"cache", "put"}

ViewsInv == LedgerTyped /\ CacheInv /\ RequestsReading

\* Each window of a pair begins a minute after the one before it, and holds no more calls
\* than the limit: so what lies a whole window before the calls of this one is a minute old.
\* Without a window all calls are.
WindowRows == {NoWindow} \union [started : Nat, count : Nat, last : Nat]
WindowSound(w, calls, limit, now) ==
    IF w = NoWindow THEN \A i \in 1 .. Len(calls) : now - calls[i] >= Minute
    ELSE /\ 1 <= w.count /\ w.count <= limit /\ w.started <= w.last /\ w.last <= now
         /\ \A i \in 1 .. Len(calls) : calls[i] <= w.last
         /\ \A i \in 1 .. Len(calls) - w.count : calls[i] <= w.started
         /\ \A i \in 1 .. Len(calls) - w.count - limit : w.started - calls[i] >= Minute
Paced(calls, limit) ==
    \A i \in 1 .. Len(calls) - 2 * limit : calls[i + 2 * limit] - calls[i] >= Minute

ToolsInv ==
    /\ windows \in [ToolKeys -> WindowRows] /\ ticks \in Nat /\ admitted \in [ToolKeys -> Seq(Nat)]
    /\ \A k \in ToolKeys : /\ WindowSound(windows[k], admitted[k], ToolLimit[k], ticks)
                           /\ Paced(admitted[k], ToolLimit[k])

ReadingInv == ViewsInv /\ ToolsInv

----------------------------------------------------------------------------
(* The windows of the tools *)

\* A window that is not remembered held calls of two minutes ago.
LEMMA WindowForgotten ==
    ASSUME NEW w \in WindowRows, NEW calls \in Seq(Nat), NEW limit, NEW now \in Nat,
           WindowSound(w, calls, limit, now), w = NoWindow \/ now - w.last >= 2 * Minute
    PROVE  WindowSound(NoWindow, calls, limit, now)
<1>1. Minute \in Nat \ {0} /\ \A i \in 1 .. Len(calls) : calls[i] \in Nat
  BY ReadingAssumption
<1>2. CASE w = NoWindow
  BY <1>2
<1>3. CASE w # NoWindow
  <2>1. w.last \in Nat /\ now - w.last >= 2 * Minute
    BY <1>3 DEF WindowRows
  <2>2. \A i \in 1 .. Len(calls) : calls[i] <= w.last
    BY <1>3 DEF WindowSound
  <2>3. QED BY <1>1, <2>1, <2>2 DEF WindowSound
<1>4. QED BY <1>2, <1>3

LEMMA WindowAges ==
    ASSUME NEW w \in WindowRows, NEW calls \in Seq(Nat), NEW limit, NEW now \in Nat,
           WindowSound(w, calls, limit, now)
    PROVE  WindowSound(w, calls, limit, now + 1)
<1>1. Minute \in Nat \ {0} /\ \A i \in 1 .. Len(calls) : calls[i] \in Nat
  BY ReadingAssumption
<1>2. CASE w = NoWindow
  BY <1>1, <1>2 DEF WindowSound
<1>3. CASE w # NoWindow
  <2>1. w.last \in Nat
    BY <1>3 DEF WindowRows
  <2>2. QED BY <1>3, <2>1 DEF WindowSound
<1>4. QED BY <1>2, <1>3

\* A call that begins a window.
LEMMA WindowBegins ==
    ASSUME NEW w \in WindowRows, NEW calls \in Seq(Nat), NEW limit \in Nat \ {0}, NEW now \in Nat,
           WindowSound(w, calls, limit, now), Paced(calls, limit),
           w = NoWindow \/ now - w.started >= Minute
    PROVE  LET row == [started |-> now, count |-> 1, last |-> now]
           IN  /\ row \in WindowRows /\ Append(calls, now) \in Seq(Nat)
               /\ WindowSound(row, Append(calls, now), limit, now)
               /\ Paced(Append(calls, now), limit)
<1> DEFINE row == [started |-> now, count |-> 1, last |-> now]
           more == Append(calls, now)
           n == Len(calls)
<1>1. /\ Minute \in Nat \ {0} /\ n \in Nat /\ \A i \in 1 .. n : calls[i] \in Nat
  BY ReadingAssumption
<1>2. /\ more \in Seq(Nat) /\ Len(more) = n + 1 /\ more[n + 1] = now
      /\ \A i \in 1 .. n : more[i] = calls[i]
  OBVIOUS
<1>3. /\ \A i \in 1 .. n : calls[i] <= now
      /\ \A i \in 1 .. n - limit : now - calls[i] >= Minute
  <2>1. CASE w = NoWindow
    BY <1>1, <2>1, SMTT(30) DEF WindowSound
  <2>2. CASE w # NoWindow
    <3>1. /\ w.last \in Nat /\ w.started \in Nat /\ w.count \in Nat /\ now - w.started >= Minute
      BY <2>2 DEF WindowRows
    <3>2. /\ w.count <= limit /\ w.last <= now
          /\ \A i \in 1 .. n : calls[i] <= w.last
          /\ \A i \in 1 .. n - w.count : calls[i] <= w.started
      BY <2>2 DEF WindowSound
    <3>3. \A i \in 1 .. n : calls[i] <= now
      BY <1>1, <3>1, <3>2
    <3>4. \A i \in 1 .. n - limit : i \in 1 .. n - w.count /\ i \in 1 .. n
      BY <1>1, <3>1, <3>2, SMTT(30)
    <3>5. QED BY <1>1, <3>1, <3>2, <3>3, <3>4, SMTT(30)
  <2>3. QED BY <2>1, <2>2
<1>4. row \in WindowRows /\ row # NoWindow
  BY DEF WindowRows, NoWindow
<1> HIDE DEF more
<1>5. WindowSound(row, more, limit, now)
  <2>1. 1 <= row.count /\ row.count <= limit /\ row.started <= row.last /\ row.last <= now
    OBVIOUS
  <2>2. \A i \in 1 .. n + 1 : i \in 1 .. n \/ i = n + 1
    BY <1>1
  <2>3. \A i \in 1 .. Len(more) : more[i] <= row.last
    <3>1. ASSUME NEW i \in 1 .. n + 1 PROVE more[i] <= now
      <4>1. CASE i \in 1 .. n
        BY <1>2, <1>3, <4>1
      <4>2. CASE i = n + 1
        BY <1>2, <4>2
      <4>3. QED BY <2>2, <4>1, <4>2
    <3>2. QED BY <1>2, <3>1
  <2>4. Len(more) - row.count = n
    BY <1>1, <1>2
  <2>5. \A i \in 1 .. n - limit : i \in 1 .. n
    BY <1>1
  <2>6. /\ \A i \in 1 .. Len(more) - row.count : more[i] <= row.started
        /\ \A i \in 1 .. Len(more) - row.count - limit : row.started - more[i] >= Minute
    BY <1>2, <1>3, <2>4, <2>5
  <2>7. QED BY <1>4, <2>1, <2>3, <2>6 DEF WindowSound
<1>6. Paced(more, limit)
  <2> SUFFICES ASSUME NEW i \in 1 .. n + 1 - 2 * limit
               PROVE  more[i + 2 * limit] - more[i] >= Minute
    BY <1>2 DEF Paced
  <2>1. i \in 1 .. n /\ i \in 1 .. n - limit /\ more[i] = calls[i]
    BY <1>1, <1>2, SMTT(30)
  <2>2. CASE i + 2 * limit = n + 1
    BY <1>2, <1>3, <2>1, <2>2
  <2>3. CASE i + 2 * limit # n + 1
    <3>1. i \in 1 .. n - 2 * limit /\ i + 2 * limit \in 1 .. n
      BY <1>1, <2>3
    <3>2. QED BY <1>2, <2>1, <3>1 DEF Paced
  <2>4. QED BY <2>2, <2>3
<1>7. QED BY <1>2, <1>4, <1>5, <1>6 DEF more

\* A call in the window there is, let through or not.
LEMMA WindowUsed ==
    ASSUME NEW w \in WindowRows, NEW calls \in Seq(Nat), NEW limit \in Nat \ {0}, NEW now \in Nat,
           WindowSound(w, calls, limit, now), Paced(calls, limit), w # NoWindow
    PROVE  /\ LET row == [started |-> w.started, count |-> w.count, last |-> now]
              IN  row \in WindowRows /\ WindowSound(row, calls, limit, now)
           /\ w.count < limit =>
                 LET row == [started |-> w.started, count |-> w.count + 1, last |-> now]
                 IN  /\ row \in WindowRows /\ Append(calls, now) \in Seq(Nat)
                     /\ WindowSound(row, Append(calls, now), limit, now)
                     /\ Paced(Append(calls, now), limit)
<1> DEFINE n == Len(calls)
<1>1. /\ Minute \in Nat \ {0} /\ n \in Nat /\ \A i \in 1 .. n : calls[i] \in Nat
  BY ReadingAssumption
<1>2. w.last \in Nat /\ w.started \in Nat /\ w.count \in Nat
  BY DEF WindowRows
<1>3. /\ 1 <= w.count /\ w.count <= limit /\ w.started <= w.last /\ w.last <= now
      /\ \A i \in 1 .. n : calls[i] <= w.last
      /\ \A i \in 1 .. n - w.count : calls[i] <= w.started
      /\ \A i \in 1 .. n - w.count - limit : w.started - calls[i] >= Minute
  BY DEF WindowSound
<1>4. \A i \in 1 .. n : calls[i] <= now
  BY <1>1, <1>2, <1>3
<1>5. LET row == [started |-> w.started, count |-> w.count, last |-> now]
      IN  row \in WindowRows /\ WindowSound(row, calls, limit, now)
  <2> DEFINE row == [started |-> w.started, count |-> w.count, last |-> now]
  <2>1. row \in WindowRows /\ row # NoWindow
    BY <1>2, <1>3 DEF WindowRows, NoWindow
  <2>2. 1 <= row.count /\ row.count <= limit /\ row.started <= row.last /\ row.last <= now
    BY <1>2, <1>3
  <2>3. QED BY <1>3, <1>4, <2>1, <2>2 DEF WindowSound
<1>6. ASSUME w.count < limit
      PROVE  LET row == [started |-> w.started, count |-> w.count + 1, last |-> now]
             IN  /\ row \in WindowRows /\ Append(calls, now) \in Seq(Nat)
                 /\ WindowSound(row, Append(calls, now), limit, now)
                 /\ Paced(Append(calls, now), limit)
  <2> DEFINE count == w.count + 1
             row == [started |-> w.started, count |-> count, last |-> now]
             more == Append(calls, now)
  <2>1. /\ more \in Seq(Nat) /\ Len(more) = n + 1 /\ more[n + 1] = now
        /\ \A i \in 1 .. n : more[i] = calls[i]
    OBVIOUS
  <2>2. /\ count \in Nat /\ 1 <= count /\ count <= limit /\ n + 1 - count = n - w.count
    BY <1>1, <1>2, <1>3, <1>6, SMTT(30)
  <2> HIDE DEF more, count
  <2>3. row \in WindowRows /\ row # NoWindow
    BY <1>2, <2>2 DEF WindowRows, NoWindow
  <2>4. WindowSound(row, more, limit, now)
    <3>1. 1 <= row.count /\ row.count <= limit /\ row.started <= row.last /\ row.last <= now
      BY <1>2, <1>3, <2>2
    <3>2. \A i \in 1 .. n + 1 : i \in 1 .. n \/ i = n + 1
      BY <1>1
    <3>3. \A i \in 1 .. Len(more) : more[i] <= row.last
      BY <1>4, <2>1, <3>2, SMTT(30)
    <3>4. Len(more) - row.count = n - w.count
      BY <2>1, <2>2
    <3>5. /\ \A i \in 1 .. n - w.count : i \in 1 .. n
          /\ \A i \in 1 .. n - w.count - limit : i \in 1 .. n
      BY <1>1, <1>2
    <3>6. /\ \A i \in 1 .. Len(more) - row.count : more[i] <= row.started
          /\ \A i \in 1 .. Len(more) - row.count - limit : row.started - more[i] >= Minute
      BY <1>3, <2>1, <3>4, <3>5
    <3>7. QED BY <2>3, <3>1, <3>3, <3>6 DEF WindowSound
  <2>5. Paced(more, limit)
    <3> SUFFICES ASSUME NEW i \in 1 .. n + 1 - 2 * limit
                 PROVE  more[i + 2 * limit] - more[i] >= Minute
      BY <2>1 DEF Paced
    <3>1. i \in 1 .. n /\ i \in 1 .. n - w.count - limit
      BY <1>1, <1>2, <1>6, SMTT(30)
    <3>2. CASE i + 2 * limit = n + 1
      <4>1. /\ w.started - calls[i] >= Minute /\ calls[i] \in Nat
            /\ more[i] = calls[i] /\ more[i + 2 * limit] = now
        BY <1>1, <1>3, <2>1, <3>1, <3>2
      <4>2. w.started <= now
        BY <1>2, <1>3
      <4>3. QED BY <1>1, <1>2, <4>1, <4>2, SMTT(30)
    <3>3. CASE i + 2 * limit # n + 1
      <4>1. i \in 1 .. n - 2 * limit /\ i + 2 * limit \in 1 .. n
        BY <1>1, <3>3
      <4>2. QED BY <2>1, <3>1, <4>1 DEF Paced
    <3>4. QED BY <3>2, <3>3
  <2>6. QED BY <2>1, <2>3, <2>4, <2>5 DEF more, count
<1>7. QED BY <1>5, <1>6

LEMMA AcquireSound == ASSUME ToolsInv, NEW k \in ToolKeys, Acquire(k) PROVE ToolsInv'
<1> DEFINE kept == [j \in ToolKeys |-> IF Remembered(j) THEN windows[j] ELSE NoWindow]
           fresh == kept[k] = NoWindow \/ ticks - kept[k].started >= Minute
           free == fresh \/ kept[k].count < ToolLimit[k]
           started == IF fresh THEN ticks ELSE kept[k].started
           count == IF fresh THEN 1 ELSE IF free THEN kept[k].count + 1 ELSE kept[k].count
           row == [started |-> started, count |-> count, last |-> ticks]
           calls == IF free THEN Append(admitted[k], ticks) ELSE admitted[k]
<1>1. /\ windows' = [kept EXCEPT ![k] = row] /\ ticks' = ticks
      /\ admitted' = IF free THEN [admitted EXCEPT ![k] = Append(@, ticks)] ELSE admitted
  BY DEF Acquire
<1>2. /\ windows \in [ToolKeys -> WindowRows] /\ ticks \in Nat /\ admitted \in [ToolKeys -> Seq(Nat)]
      /\ \A j \in ToolKeys : /\ WindowSound(windows[j], admitted[j], ToolLimit[j], ticks)
                             /\ Paced(admitted[j], ToolLimit[j])
      /\ ToolLimit \in [ToolKeys -> Nat \ {0}]
  BY ReadingAssumption DEF ToolsInv
<1>3. ASSUME NEW j \in ToolKeys
      PROVE  kept[j] \in WindowRows /\ WindowSound(kept[j], admitted[j], ToolLimit[j], ticks)
  <2>1. CASE Remembered(j)
    BY <1>2, <2>1
  <2>2. CASE ~Remembered(j)
    <3>1. windows[j] = NoWindow \/ ticks - windows[j].last >= 2 * Minute
      <4>1. windows[j] # NoWindow => windows[j].last \in Nat
        BY <1>2 DEF WindowRows
      <4>2. QED BY <1>2, <2>2, <4>1, ReadingAssumption DEF Remembered
    <3>2. WindowSound(NoWindow, admitted[j], ToolLimit[j], ticks)
      BY <1>2, <3>1, WindowForgotten
    <3>3. QED BY <2>2, <3>2 DEF WindowRows
  <2>3. QED BY <2>1, <2>2
<1>4. kept \in [ToolKeys -> WindowRows]
  BY <1>3
<1> HIDE DEF kept
<1>5. PICK w, old, limit : w = kept[k] /\ old = admitted[k] /\ limit = ToolLimit[k]
  OBVIOUS
<1>6. /\ w \in WindowRows /\ old \in Seq(Nat) /\ limit \in Nat \ {0} /\ ticks \in Nat
      /\ WindowSound(w, old, limit, ticks) /\ Paced(old, limit)
  BY <1>2, <1>3, <1>5
<1>7. /\ row \in WindowRows /\ calls \in Seq(Nat)
      /\ WindowSound(row, calls, limit, ticks) /\ Paced(calls, limit)
  <2>1. CASE fresh
    <3>1. row = [started |-> ticks, count |-> 1, last |-> ticks] /\ calls = Append(old, ticks)
      BY <1>5, <2>1
    <3>2. w = NoWindow \/ ticks - w.started >= Minute
      BY <1>5, <2>1
    <3>3. QED BY <1>6, <3>1, <3>2, WindowBegins
  <2>2. CASE ~fresh /\ w.count < limit
    <3>1. row = [started |-> w.started, count |-> w.count + 1, last |-> ticks]
          /\ calls = Append(old, ticks) /\ w # NoWindow
      BY <1>5, <2>2
    <3>2. LET used == [started |-> w.started, count |-> w.count + 1, last |-> ticks]
          IN  /\ used \in WindowRows /\ Append(old, ticks) \in Seq(Nat)
              /\ WindowSound(used, Append(old, ticks), limit, ticks)
              /\ Paced(Append(old, ticks), limit)
      BY <1>6, <2>2, <3>1, WindowUsed
    <3>3. QED BY <3>1, <3>2
  <2>3. CASE ~fresh /\ ~(w.count < limit)
    <3>1. row = [started |-> w.started, count |-> w.count, last |-> ticks]
          /\ calls = old /\ w # NoWindow
      BY <1>5, <2>3
    <3>2. QED BY <1>6, <3>1, WindowUsed
  <2>4. QED BY <2>1, <2>2, <2>3
<1>8. /\ windows' \in [ToolKeys -> WindowRows] /\ windows'[k] = row
      /\ \A j \in ToolKeys \ {k} : windows'[j] = kept[j]
  BY <1>1, <1>4, <1>7
<1>9. /\ admitted' \in [ToolKeys -> Seq(Nat)] /\ admitted'[k] = calls
      /\ \A j \in ToolKeys \ {k} : admitted'[j] = admitted[j]
  BY <1>1, <1>2, <1>7
<1> HIDE DEF row, calls
<1>10. ASSUME NEW j \in ToolKeys
       PROVE  /\ WindowSound(windows'[j], admitted'[j], ToolLimit[j], ticks')
              /\ Paced(admitted'[j], ToolLimit[j])
  BY <1>1, <1>2, <1>3, <1>5, <1>7, <1>8, <1>9
<1>11. QED BY <1>1, <1>2, <1>8, <1>9, <1>10 DEF ToolsInv

LEMMA TickSound == ASSUME ToolsInv, TickTools PROVE ToolsInv'
<1>1. ticks' = ticks + 1 /\ windows' = windows /\ admitted' = admitted
  BY DEF TickTools
<1>2. /\ windows \in [ToolKeys -> WindowRows] /\ ticks \in Nat /\ admitted \in [ToolKeys -> Seq(Nat)]
      /\ \A j \in ToolKeys : /\ WindowSound(windows[j], admitted[j], ToolLimit[j], ticks)
                             /\ Paced(admitted[j], ToolLimit[j])
  BY DEF ToolsInv
<1>3. \A j \in ToolKeys : WindowSound(windows[j], admitted[j], ToolLimit[j], ticks + 1)
  BY <1>2, WindowAges
<1>4. QED BY <1>1, <1>2, <1>3 DEF ToolsInv

----------------------------------------------------------------------------
(* What the ledger and the cache give *)

LEMMA LedgerStays ==
    ASSUME UNCHANGED ledgerVars
    PROVE  /\ Unentitled' = Unentitled /\ Hidden' = Hidden
           /\ UNCHANGED <<docRow, folderRow, shelf, inside, right, owed, edit, refresh>>
           /\ \A r : (Given(r)' <=> Given(r)) /\ (InForce(r)' <=> InForce(r)) /\ Reach(r)' = Reach(r)
<1>1. UNCHANGED <<docRow, folderRow, shelf, inside, right, owed, edit, refresh>>
  BY DEF ledgerVars
<1>2. \A r : (Given(r)' <=> Given(r)) /\ (InForce(r)' <=> InForce(r)) /\ Reach(r)' = Reach(r)
  BY <1>1 DEF Given, InForce, Reach, OnFolder
<1>3. \A who, d : LiveRights(who, d)' = LiveRights(who, d)
  BY <1>1, <1>2 DEF LiveRights, Matches, ForUser, OnFolder, FolderThere
<1>4. \A who : FolderRights(who)' = FolderRights(who)
  BY <1>1, <1>2 DEF FolderRights, Matches, ForUser, OnFolder
<1>5. Unentitled' = Unentitled
  BY <1>1, <1>3, <1>4 DEF Unentitled, Entitled, FolderAllows, Owns, FolderThere
<1>6. Hidden' = Hidden
  BY <1>1 DEF Hidden, Visible
<1>7. QED BY <1>1, <1>2, <1>5, <1>6

LEMMA GhostsTyped ==
    ASSUME raced \in SUBSET CacheRows
    PROVE  /\ Unentitled \in [Visitors -> SUBSET Resources] /\ Hidden \in SUBSET Shelved
           /\ Misleading \in [Visitors -> SUBSET Shelved]
<1>1. Unentitled \in [Visitors -> SUBSET Resources] /\ Hidden \in SUBSET Shelved
  BY DEF Unentitled, Hidden, Resources
<1>2. \A row \in raced : row[2] \in Shelved
  BY DEF CacheRows
<1>3. QED BY <1>1, <1>2 DEF Misleading

LEMMA EntitledNow ==
    ASSUME NEW who \in Visitors, NEW d \in Shelved, Entitled(who, d)
    PROVE  d \notin Unentitled[who]
  BY ReadingAssumption DEF Unentitled

LEMMA FolderAllowedNow ==
    ASSUME NEW who \in Visitors, FolderAllows(who)
    PROVE  Folder \notin Unentitled[who]
  BY ReadingAssumption DEF Unentitled

\* What is in force and cached gives what the ledger gives, or raced.
LEMMA CachedGives ==
    ASSUME LedgerTyped, CacheInv, NEW who \in Visitors, NEW d \in Shelved,
           NEW r \in CachedFor(who, d), InForce(r)
    PROVE  d \notin Unentitled[who] \/ d \in Misleading[who]
<1>1. r \in Rights /\ ForUser(r) /\ Matches(who, r) /\ <<r, d>> \in projection
  BY DEF CachedFor
<1>2. d \in Reach(r) \/ <<r, d>> \in raced
  BY <1>1 DEF CacheInv, CacheWithinLive
<1>3. CASE d \in Reach(r)
  <2>1. OnFolder(r) => FolderThere
    BY <1>3 DEF LedgerTyped, Reach
  <2>2. r \in LiveRights(who, d)
    BY <1>1, <1>3, <2>1 DEF LiveRights
  <2>3. QED BY <2>2, EntitledNow DEF Entitled
<1>4. CASE <<r, d>> \in raced
  <2>1. d \in {row[2] : row \in {x \in raced : InForce(x[1]) /\ ForUser(x[1]) /\ Matches(who, x[1])}}
    BY <1>1, <1>4
  <2>2. QED BY <2>1 DEF Misleading
<1>5. QED BY <1>2, <1>3, <1>4

\* Rows leave the cache.
LEMMA RowsLeave ==
    ASSUME CacheInv, NEW rows, CacheBecomes(rows), rows \in SUBSET projection, UNCHANGED ledgerVars
    PROVE  CacheInv' /\ raced' \in SUBSET raced
<1>1. /\ projection' = rows /\ raced' = raced \intersect rows
      /\ edit' = edit /\ refresh' = refresh
  BY DEF CacheBecomes, ledgerVars
<1>2. CacheWithinLive'
  BY <1>1, LedgerStays DEF CacheInv, CacheWithinLive, ForUser
<1>3. projection' \in SUBSET CacheRows /\ raced' \in SUBSET projection'
  BY <1>1 DEF CacheInv
<1>4. edit'.removes =>
           /\ edit'.d \in Shelved
           /\ refresh' # NoRefresh /\ OnFolder(refresh'.r) => edit'.d \in refresh'.left
           /\ \A row \in projection' : OnFolder(row[1]) /\ row[2] = edit'.d => row \in edit'.del \union raced'
  BY <1>1 DEF CacheInv
<1>5. \A row \in refresh'.put :
           /\ row[1] = refresh'.r /\ Given(row[1])' /\ ForUser(row[1])
           /\ row[2] \in Reach(row[1])' \/ (OnFolder(row[1]) /\ row[2] \in refresh'.left)
  BY <1>1, LedgerStays DEF CacheInv
<1>6. CacheInv'
  BY <1>2, <1>3, <1>4, <1>5 DEF CacheInv, OnFolder, ForUser
<1>7. QED BY <1>1, <1>6

----------------------------------------------------------------------------
(* What a request does *)

LEMMA LessMisleading ==
    ASSUME NEW q, NEW denied, NEW misleading, NEW less, NEW hidden,
           RequestSound(q, denied, misleading, hidden),
           \A who \in Visitors : less[who] \subseteq misleading[who]
    PROVE  RequestSound(q, denied, less, hidden)
  BY DEF RequestSound, Running

\* One request has come to another row; the ledger is left alone.
LEMMA RequestMoved ==
    ASSUME ViewsInv, NEW v \in Visits, NEW row \in VisitRows,
           RequestSound(row, Unentitled, Misleading, Hidden), To(v, row),
           row.at \in {"cache", "put"} => edit = NoEdit,
           UNCHANGED ledgerVars, CacheInv', raced' \in SUBSET raced
    PROVE  ViewsInv'
<1>1. visit' \in [Visits -> VisitRows] /\ \A w \in Visits : visit'[w] = IF w = v THEN row ELSE visit[w]
  BY DEF ViewsInv, RequestsReading, To
<1>2. Unentitled' = Unentitled /\ Hidden' = Hidden
  BY LedgerStays
<1>3. \A who \in Visitors : Misleading'[who] \subseteq Misleading[who]
  <2>1. \A x : (InForce(x)' <=> InForce(x)) /\ (ForUser(x)' <=> ForUser(x))
              /\ \A who : (Matches(who, x)' <=> Matches(who, x))
    BY LedgerStays DEF ForUser, Matches
  <2>2. QED BY <2>1 DEF Misleading
<1>4. \A w \in Visits : RequestSound(visit[w], Unentitled, Misleading, Hidden)
  BY DEF ViewsInv, RequestsReading
<1>5. ASSUME NEW w \in Visits PROVE RequestSound(visit'[w], Unentitled', Misleading', Hidden')
  <2>1. RequestSound(visit'[w], Unentitled, Misleading, Hidden)
    BY <1>1, <1>4
  <2>2. PICK misleading, less : misleading = Misleading /\ less = Misleading'
    OBVIOUS
  <2>3. RequestSound(visit'[w], Unentitled, less, Hidden)
    BY <1>3, <2>1, <2>2, LessMisleading
  <2>4. QED BY <1>2, <2>2, <2>3
<1>6. edit' = edit /\ (edit # NoEdit => \A w \in Visits : visit'[w].at \notin {"cache", "put"})
  BY <1>1, LedgerStays DEF ViewsInv, RequestsReading
<1>7. RequestsReading'
  BY <1>1, <1>5, <1>6 DEF RequestsReading
<1>8. LedgerTyped'
  BY LedgerStays DEF ViewsInv, LedgerTyped, FolderThere, ForUser, OnFolder
<1>9. QED BY <1>7, <1>8 DEF ViewsInv

LEMMA CacheKept ==
    ASSUME CacheInv, UNCHANGED <<ledgerVars, cacheVars>>
    PROVE  CacheInv' /\ raced' \in SUBSET raced
<1>1. CacheBecomes(projection)
  BY DEF CacheBecomes, cacheVars, CacheInv
<1>2. QED BY <1>1, RowsLeave

\* The same, when the cache is left alone too.
LEMMA RequestGoesOn ==
    ASSUME ViewsInv, NEW v \in Visits, NEW row \in VisitRows,
           RequestSound(row, Unentitled, Misleading, Hidden), To(v, row),
           row.at \in {"cache", "put"} => edit = NoEdit, UNCHANGED <<ledgerVars, cacheVars>>
    PROVE  ViewsInv'
<1>1. CacheInv' /\ raced' \in SUBSET raced /\ UNCHANGED ledgerVars
  BY CacheKept DEF ViewsInv
<1>2. QED BY <1>1, RequestMoved

LEMMA FinishedRow ==
    ASSUME NEW q \in VisitRows, NEW outcome \in VisitOutcomes, NEW shown \in SUBSET (Resources \union Inner),
           shown \intersect q.gone = {},
           IF q.op \in ListOps \union {"document"} THEN shown \intersect q.unread \subseteq q.misled
           ELSE shown \intersect q.unread = {},
           q.op = "children" /\ shown # {} => Folder \notin q.unread,
           q.op = "mcp" /\ outcome = "deleted" => q.now \notin q.unread
    PROVE  /\ Finished(q, outcome, shown) \in VisitRows /\ Finished(q, outcome, shown).at = "done"
           /\ \A denied, misleading, hidden :
                  RequestSound(Finished(q, outcome, shown), denied, misleading, hidden)
<1> DEFINE row == Finished(q, outcome, shown)
<1>1. /\ row \in VisitRows /\ row.at = "done" /\ row.op = q.op /\ row.outcome = outcome
      /\ row.shown = shown /\ row.gone = q.gone /\ row.unread = q.unread
      /\ row.misled = q.misled /\ row.now = q.now
  BY DEF VisitRows, VisitPlaces, Finished
<1> HIDE DEF row
<1>2. VisitOver(row)
  BY <1>1 DEF VisitOver
<1>3. \A denied, misleading, hidden : RequestSound(row, denied, misleading, hidden)
  BY <1>1, <1>2 DEF RequestSound
<1>4. QED BY <1>1, <1>3 DEF row

LEMMA DeniedRow ==
    ASSUME NEW q \in VisitRows, NEW outcome \in VisitOutcomes,
           q.op = "mcp" /\ outcome = "deleted" => q.now \notin q.unread
    PROVE  /\ Finished(q, outcome, {}) \in VisitRows /\ Finished(q, outcome, {}).at = "done"
           /\ \A denied, misleading, hidden :
                  RequestSound(Finished(q, outcome, {}), denied, misleading, hidden)
<1>1. {} \in SUBSET (Resources \union Inner)
  OBVIOUS
<1>2. {} \intersect q.gone = {} /\ {} \intersect q.unread = {} /\ {} \intersect q.unread \subseteq q.misled
  OBVIOUS
<1>3. QED BY <1>1, <1>2, FinishedRow

\* What a decision leads to.
LEMMA DecidedRow ==
    ASSUME NEW q \in VisitRows, NEW denied, NEW misleading, NEW hidden, NEW may \in BOOLEAN,
           Running(q, denied, misleading, hidden), q.now \in Shelved,
           may => q.now \notin q.unread \/ (~q.live /\ q.now \in q.misled),
           may => q.now \notin q.gone \/ (q.op = "mcp" /\ q.live)
    PROVE  LET row == AfterDecision(q, may)
           IN  /\ row \in VisitRows /\ row.at \notin {"cache", "put"}
               /\ RequestSound(row, denied, misleading, hidden)
<1>0. PICK locked \in BOOLEAN : locked = (q.op = "folder" /\ ~q.live /\ q.docs # {})
  OBVIOUS
<1> DEFINE free == [q EXCEPT !.at = "ask", !.allowed = FALSE, !.todo = {}, !.locked = locked]
           row == AfterDecision(q, may)
<1>1. /\ free \in VisitRows /\ free.op = q.op /\ free.at = "ask" /\ free.who = q.who /\ free.live = q.live
      /\ free.docs = q.docs /\ free.now = q.now /\ free.picked = q.picked /\ free.outcome = q.outcome
      /\ free.shown = q.shown /\ free.unread = q.unread /\ free.gone = q.gone /\ free.misled = q.misled
  BY DEF VisitRows, VisitPlaces
<1> HIDE DEF free
<1>2. CASE q.op \notin DocOps
  <2> DEFINE picked == IF may THEN q.picked \union {q.now} ELSE q.picked
             new == [free EXCEPT !.now = Absent, !.picked = picked]
  <2>1. picked \in SUBSET Shelved
    BY DEF VisitRows
  <2> HIDE DEF picked
  <2>2. /\ new \in VisitRows /\ new.op = q.op /\ new.at = "ask" /\ new.who = q.who /\ new.live = q.live
        /\ new.docs = q.docs /\ new.picked = picked /\ new.outcome = q.outcome
        /\ new.shown = q.shown /\ new.unread = q.unread /\ new.gone = q.gone /\ new.misled = q.misled
    BY <1>1, <2>1 DEF VisitRows
  <2>3. row = new
    BY <1>0, <1>2 DEF AfterDecision, free, picked
  <2> HIDE DEF new
  <2>4. /\ picked \intersect q.gone = {} /\ picked \intersect q.unread \subseteq q.misled
        /\ q.op = "folder" /\ q.live => picked \intersect q.unread = {}
    BY <1>2 DEF picked, Running, DocOps
  <2>5. Running(new, denied, misleading, hidden) /\ Deciding(new)
    BY <1>2, <2>2, <2>4 DEF Running, Deciding, DocOps
  <2>6. QED BY <2>2, <2>3, <2>5 DEF RequestSound
<1>3. CASE q.op \in DocOps /\ ~may
  <2>1. row = Finished(q, "denied", {}) /\ "denied" \in VisitOutcomes
    BY <1>3 DEF AfterDecision, VisitOutcomes
  <2>2. QED BY <2>1, DeniedRow
<1>4. CASE q.op \in DocOps /\ may /\ ~q.live
  <2> DEFINE new == [free EXCEPT !.at = "again"]
  <2>1. /\ new \in VisitRows /\ new.op = q.op /\ new.at = "again" /\ new.who = q.who /\ new.live = q.live
        /\ new.docs = q.docs /\ new.picked = q.picked /\ new.outcome = q.outcome /\ new.now = q.now
        /\ new.shown = q.shown /\ new.unread = q.unread /\ new.gone = q.gone /\ new.misled = q.misled
    BY <1>1 DEF VisitRows, VisitPlaces
  <2>2. row = new
    BY <1>0, <1>4 DEF AfterDecision, free
  <2> HIDE DEF new
  <2>3. Running(new, denied, misleading, hidden) /\ Deciding(new)
    BY <1>4, <2>1 DEF Running, Deciding
  <2>4. QED BY <2>1, <2>2, <2>3 DEF RequestSound
<1>5. CASE q.op \in DocOps /\ may /\ q.live /\ q.deleted
  <2>1. row = Finished(q, "deleted", {}) /\ "deleted" \in VisitOutcomes
    BY <1>5 DEF AfterDecision, VisitOutcomes
  <2>2. q.now \notin q.unread
    BY <1>5
  <2>3. /\ Finished(q, "deleted", {}) \in VisitRows /\ Finished(q, "deleted", {}).at = "done"
        /\ RequestSound(Finished(q, "deleted", {}), denied, misleading, hidden)
    BY <2>1, <2>2, DeniedRow
  <2>4. QED BY <2>1, <2>3
<1>6. CASE q.op \in DocOps /\ may /\ q.live /\ ~q.deleted
  <2> DEFINE new == [free EXCEPT !.at = "look", !.live = FALSE, !.docs = {q.now}]
  <2>1. /\ new \in VisitRows /\ new.op = q.op /\ new.at = "look" /\ new.who = q.who /\ new.live = FALSE
        /\ new.docs = {q.now} /\ new.picked = q.picked /\ new.outcome = q.outcome /\ new.now = q.now
        /\ new.shown = q.shown /\ new.unread = q.unread /\ new.gone = q.gone /\ new.misled = q.misled
    BY <1>1 DEF VisitRows, VisitPlaces
  <2>2. row = new
    BY <1>0, <1>6 DEF AfterDecision, free
  <2> HIDE DEF new
  <2>3. Running(new, denied, misleading, hidden) /\ Deciding(new)
    BY <1>6, <2>1 DEF Running, Deciding
  <2>4. QED BY <2>1, <2>2, <2>3 DEF RequestSound
<1>7. q.live \in BOOLEAN /\ q.deleted \in BOOLEAN
  BY DEF VisitRows
<1>8. QED BY <1>2, <1>3, <1>4, <1>5, <1>6, <1>7

\* What a request may rely on while it runs.
LEMMA RunningRequest ==
    ASSUME ViewsInv, NEW v \in Visits, visit[v].at # "done"
    PROVE  /\ visit[v] \in VisitRows /\ Running(visit[v], Unentitled, Misleading, Hidden) /\ Deciding(visit[v])
           /\ visit[v].who \in Visitors /\ visit[v].docs \in SUBSET Shelved
           /\ visit[v].at \in {"cache", "put"} => edit = NoEdit
<1>1. visit[v] \in VisitRows /\ RequestSound(visit[v], Unentitled, Misleading, Hidden)
  BY DEF ViewsInv, RequestsReading
<1>2. Running(visit[v], Unentitled, Misleading, Hidden) /\ Deciding(visit[v])
  BY <1>1 DEF RequestSound
<1>3. visit[v].who \in Visitors /\ visit[v].docs \in SUBSET Shelved
  BY <1>1, <1>2 DEF Running, VisitRows
<1>4. visit[v].at \in {"cache", "put"} => edit = NoEdit
  BY DEF ViewsInv, RequestsReading
<1>5. QED BY <1>1, <1>2, <1>3, <1>4

LEMMA DenySound ==
    ASSUME ViewsInv, NEW v \in Visits, NEW outcome \in VisitOutcomes, Deny(v, outcome),
           outcome # "deleted", UNCHANGED <<ledgerVars, cacheVars>>
    PROVE  ViewsInv'
<1>1. visit[v] \in VisitRows
  BY DEF ViewsInv, RequestsReading
<1>2. PICK row : row = Finished(visit[v], outcome, {})
  OBVIOUS
<1>3. row \in VisitRows /\ row.at = "done" /\ RequestSound(row, Unentitled, Misleading, Hidden)
  BY <1>1, <1>2, DeniedRow
<1>4. To(v, row)
  BY <1>2 DEF Deny
<1>5. QED BY <1>3, <1>4, RequestGoesOn

LEMMA ShowSound ==
    ASSUME ViewsInv, NEW v \in Visits, NEW docs \in SUBSET (Resources \union Inner), Show(v, docs),
           docs \intersect visit[v].gone = {},
           IF visit[v].op \in ListOps \union {"document"}
           THEN docs \intersect visit[v].unread \subseteq visit[v].misled
           ELSE docs \intersect visit[v].unread = {},
           visit[v].op = "children" /\ docs # {} => Folder \notin visit[v].unread,
           UNCHANGED <<ledgerVars, cacheVars>>
    PROVE  ViewsInv'
<1>1. visit[v] \in VisitRows /\ "shown" \in VisitOutcomes
  BY DEF ViewsInv, RequestsReading, VisitOutcomes
<1>2. PICK q, row : q = visit[v] /\ row = Finished(q, "shown", docs)
  OBVIOUS
<1>3. row \in VisitRows /\ row.at = "done" /\ RequestSound(row, Unentitled, Misleading, Hidden)
  BY <1>1, <1>2, FinishedRow
<1>4. To(v, row)
  BY <1>2 DEF Show
<1>5. QED BY <1>3, <1>4, RequestGoesOn

\* The same request at another place.
LEMMA PlaceSound ==
    ASSUME ViewsInv, NEW v \in Visits, visit[v].at # "done", ~visit[v].live \/ visit[v].op = "mcp",
           NEW place \in {"ask", "weigh"}, Moves(v, place), place = "weigh" => ~visit[v].live /\ visit[v].op \in FolderOps,
           UNCHANGED <<ledgerVars, cacheVars>>
    PROVE  ViewsInv'
<1>1. PICK q : q = visit[v]
  OBVIOUS
<1>2. q \in VisitRows /\ Running(q, Unentitled, Misleading, Hidden) /\ (~q.live \/ q.op = "mcp")
  BY <1>1, RunningRequest
<1> DEFINE row == [q EXCEPT !.at = place]
<1>3. /\ row \in VisitRows /\ row.at = place /\ row.op = q.op /\ row.who = q.who /\ row.live = q.live
      /\ row.docs = q.docs /\ row.now = q.now /\ row.picked = q.picked /\ row.outcome = q.outcome
      /\ row.shown = q.shown /\ row.unread = q.unread /\ row.gone = q.gone /\ row.misled = q.misled
  BY <1>1, RunningRequest DEF VisitRows, VisitPlaces
<1>4. To(v, row)
  BY <1>1 DEF Moves
<1> HIDE DEF row
<1>5. Running(row, Unentitled, Misleading, Hidden)
  BY <1>1, <1>3, RunningRequest DEF Running
<1>6. Deciding(row)
  BY <1>1, <1>3 DEF Deciding
<1>7. RequestSound(row, Unentitled, Misleading, Hidden)
  BY <1>3, <1>5, <1>6 DEF RequestSound
<1>8. QED BY <1>3, <1>4, <1>7, RequestGoesOn

LEMMA ComeSound == ASSUME ViewsInv, NEW v \in Visits, Come(v) PROVE ViewsInv'
<1>1. PICK who \in Visitors, op \in DocOps \union ListOps \union FolderOps, d \in Shelved :
        To(v, [Idle EXCEPT !.op = op, !.at = IF op = "mcp" THEN "ask" ELSE "look", !.who = who,
                           !.live = (op = "mcp"), !.now = IF op \in DocOps THEN d ELSE Absent,
                           !.docs = IF op \in DocOps THEN {d} ELSE {}, !.unread = Unentitled[who],
                           !.gone = {x \in Shelved : ~Visible(x)}, !.misled = Misleading[who]])
  BY DEF Come
<1>2. PICK at, live, now, docs, unread, gone, misled :
        /\ at = (IF op = "mcp" THEN "ask" ELSE "look") /\ live = (op = "mcp")
        /\ now = (IF op \in DocOps THEN d ELSE Absent) /\ docs = (IF op \in DocOps THEN {d} ELSE {})
        /\ unread = Unentitled[who] /\ gone = Hidden /\ misled = Misleading[who]
  OBVIOUS
<1>3. /\ at \in VisitPlaces /\ live \in BOOLEAN /\ now \in Shelved \union {Absent}
      /\ docs \in SUBSET Shelved /\ unread \in SUBSET Resources /\ gone \in SUBSET Shelved
      /\ misled \in SUBSET Shelved
  BY <1>2, GhostsTyped DEF VisitPlaces, ViewsInv, CacheInv
<1> DEFINE row == [Idle EXCEPT !.op = op, !.at = at, !.who = who, !.live = live, !.now = now,
                               !.docs = docs, !.unread = unread, !.gone = gone, !.misled = misled]
<1>4. /\ row \in VisitRows /\ row.op = op /\ row.at = at /\ row.who = who /\ row.live = live
      /\ row.docs = docs /\ row.now = now /\ row.picked = {} /\ row.outcome = "none"
      /\ row.shown = {} /\ row.unread = unread /\ row.gone = gone /\ row.misled = misled
  BY <1>3 DEF Idle, VisitRows, VisitOutcomes
<1>5. To(v, row)
  BY <1>1, <1>2 DEF Hidden
<1> HIDE DEF row
<1>6. Running(row, Unentitled, Misleading, Hidden)
  BY <1>2, <1>4 DEF Running, DocOps
<1>7. Deciding(row) /\ row.at \notin {"done", "cache", "put"}
  BY <1>2, <1>4 DEF Deciding
<1>8. RequestSound(row, Unentitled, Misleading, Hidden)
  BY <1>6, <1>7 DEF RequestSound
<1>9. UNCHANGED <<ledgerVars, cacheVars>>
  BY DEF Come
<1>10. QED BY <1>4, <1>5, <1>7, <1>8, <1>9, RequestGoesOn

\* The request that has read the row of a document.
WithRow(q, d, deleted, public) ==
    [q EXCEPT !.at = "rows", !.locked = TRUE, !.now = d, !.docs = @ \ {d}, !.deleted = deleted,
              !.allowed = public]

LEMMA RowRead ==
    ASSUME NEW q \in VisitRows, NEW denied, NEW misleading, NEW hidden, Running(q, denied, misleading, hidden),
           q.at = "ask", NEW d \in q.docs, NEW deleted \in BOOLEAN, NEW public \in BOOLEAN,
           public => d \notin q.unread, d \in q.gone => deleted,
           NEW u, u = WithRow(q, d, deleted, public)
    PROVE  /\ u \in VisitRows /\ Running(u, denied, misleading, hidden) /\ u.now = d /\ u.at = "rows"
           /\ u.op = q.op /\ u.live = q.live /\ u.who = q.who /\ u.unread = q.unread /\ u.gone = q.gone
           /\ u.misled = q.misled
           /\ ~deleted \/ (q.op = "mcp" /\ q.live) => RequestSound(u, denied, misleading, hidden)
<1>0. PICK docs : docs = q.docs \ {d}
  OBVIOUS
<1>1. docs \in SUBSET Shelved /\ d \in Shelved /\ docs \subseteq q.docs
  BY <1>0 DEF VisitRows
<1>2. /\ u \in VisitRows /\ u.op = q.op /\ u.at = "rows" /\ u.who = q.who /\ u.live = q.live /\ u.locked = TRUE
      /\ u.docs = docs /\ u.now = d /\ u.picked = q.picked /\ u.outcome = q.outcome /\ u.allowed = public
      /\ u.shown = q.shown /\ u.unread = q.unread /\ u.gone = q.gone /\ u.misled = q.misled
  BY <1>0, <1>1 DEF WithRow, VisitRows, VisitPlaces
<1>4. q.op \in DocOps => d = q.now /\ docs \subseteq {d}
  BY <1>1 DEF Running
<1>5. Running(u, denied, misleading, hidden)
  BY <1>1, <1>2, <1>4 DEF Running, DocOps
<1>6. ~deleted \/ (q.op = "mcp" /\ q.live) => Deciding(u)
  BY <1>1, <1>2 DEF Deciding
<1>7. ~deleted \/ (q.op = "mcp" /\ q.live) => RequestSound(u, denied, misleading, hidden)
  BY <1>2, <1>5, <1>6 DEF RequestSound
<1>8. QED BY <1>2, <1>5, <1>7

LEMMA ReadRowSound == ASSUME ViewsInv, NEW v \in Visits, ReadRow(v) PROVE ViewsInv'
<1>1. PICK q : q = visit[v]
  OBVIOUS
<1>2. PICK d \in q.docs :
        LET u == [q EXCEPT !.at = "rows", !.locked = TRUE, !.now = d, !.docs = @ \ {d},
                           !.deleted = ~Visible(d), !.allowed = docRow[d].visibility = "PUBLIC"]
        IN  To(v, IF ~Visible(d) /\ (u.op # "mcp" \/ ~u.live) THEN AfterDecision(u, FALSE)
                  ELSE IF Owns(u.who, d) THEN AfterDecision(u, TRUE)
                  ELSE u)
  BY <1>1 DEF ReadRow
<1>3. /\ q \in VisitRows /\ Running(q, Unentitled, Misleading, Hidden) /\ q.at = "ask"
      /\ q.who \in Visitors /\ d \in Shelved /\ UNCHANGED <<ledgerVars, cacheVars>>
      /\ q.unread \subseteq Unentitled[q.who] /\ q.gone \subseteq Hidden
  BY <1>1, <1>2, RunningRequest DEF ReadRow, VisitAt, Running
<1>4. PICK deleted \in BOOLEAN, public \in BOOLEAN :
         (deleted <=> ~Visible(d)) /\ (public <=> docRow[d].visibility = "PUBLIC")
  OBVIOUS
<1>5. PICK u : u = WithRow(q, d, deleted, public)
  OBVIOUS
<1>6. public => d \notin q.unread
  BY <1>3, <1>4, EntitledNow DEF Entitled
<1>7. d \in q.gone => deleted
  BY <1>3, <1>4 DEF Hidden
<1>8. /\ u \in VisitRows /\ Running(u, Unentitled, Misleading, Hidden) /\ u.now = d /\ u.at = "rows"
      /\ u.op = q.op /\ u.live = q.live /\ u.who = q.who /\ u.unread = q.unread /\ u.gone = q.gone
      /\ u.misled = q.misled
      /\ ~deleted \/ (q.op = "mcp" /\ q.live) => RequestSound(u, Unentitled, Misleading, Hidden)
  <2>1. PICK denied, misleading, hidden : denied = Unentitled /\ misleading = Misleading /\ hidden = Hidden
    OBVIOUS
  <2>2. Running(q, denied, misleading, hidden)
    BY <1>3, <2>1
  <2>3. /\ u \in VisitRows /\ Running(u, denied, misleading, hidden) /\ u.now = d /\ u.at = "rows"
        /\ u.op = q.op /\ u.live = q.live /\ u.who = q.who /\ u.unread = q.unread /\ u.gone = q.gone
        /\ u.misled = q.misled
        /\ ~deleted \/ (q.op = "mcp" /\ q.live) => RequestSound(u, denied, misleading, hidden)
    BY <1>2, <1>3, <1>5, <1>6, <1>7, <2>2, RowRead
  <2>4. QED BY <2>1, <2>3
<1>9. u = [q EXCEPT !.at = "rows", !.locked = TRUE, !.now = d, !.docs = @ \ {d},
                    !.deleted = ~Visible(d), !.allowed = docRow[d].visibility = "PUBLIC"]
  <2>1. deleted = ~Visible(d) /\ public = (docRow[d].visibility = "PUBLIC")
    BY <1>4, Zenon
  <2>2. QED BY <1>5, <2>1 DEF WithRow
<1>10. To(v, IF deleted /\ (u.op # "mcp" \/ ~u.live) THEN AfterDecision(u, FALSE)
             ELSE IF Owns(u.who, d) THEN AfterDecision(u, TRUE)
             ELSE u)
  BY <1>2, <1>4, <1>9
<1>11. CASE deleted /\ (u.op # "mcp" \/ ~u.live)
  <2>1. PICK row : row = AfterDecision(u, FALSE)
    OBVIOUS
  <2>2. /\ row \in VisitRows /\ row.at \notin {"cache", "put"}
        /\ RequestSound(row, Unentitled, Misleading, Hidden)
    BY <1>3, <1>8, <2>1, DecidedRow
  <2>3. To(v, row)
    BY <1>10, <1>11, <2>1
  <2>4. QED BY <1>3, <2>2, <2>3, RequestGoesOn
<1>12. CASE ~(deleted /\ (u.op # "mcp" \/ ~u.live)) /\ Owns(u.who, d)
  <2>1. PICK row : row = AfterDecision(u, TRUE)
    OBVIOUS
  <2>2. d \notin q.unread
    BY <1>3, <1>8, <1>12, EntitledNow DEF Entitled
  <2>3. d \notin q.gone \/ (u.op = "mcp" /\ u.live)
    BY <1>7, <1>12
  <2>4. /\ row \in VisitRows /\ row.at \notin {"cache", "put"}
        /\ RequestSound(row, Unentitled, Misleading, Hidden)
    BY <1>3, <1>8, <2>1, <2>2, <2>3, DecidedRow
  <2>5. To(v, row)
    BY <1>10, <1>12, <2>1
  <2>6. QED BY <1>3, <2>4, <2>5, RequestGoesOn
<1>13. CASE ~(deleted /\ (u.op # "mcp" \/ ~u.live)) /\ ~Owns(u.who, d)
  <2>1. To(v, u)
    BY <1>10, <1>13
  <2>2. RequestSound(u, Unentitled, Misleading, Hidden)
    BY <1>8, <1>13
  <2>3. QED BY <1>3, <1>8, <2>1, <2>2, RequestGoesOn
<1>14. QED BY <1>11, <1>12, <1>13

LEMMA ReadRightsSound == ASSUME ViewsInv, NEW v \in Visits, ReadRights(v) PROVE ViewsInv'
<1>1. PICK q, rights : q = visit[v] /\ rights = LiveRights(q.who, q.now)
  OBVIOUS
<1>2. /\ q \in VisitRows /\ Running(q, Unentitled, Misleading, Hidden) /\ Deciding(q) /\ q.at = "rows"
      /\ q.who \in Visitors /\ UNCHANGED <<ledgerVars, cacheVars>> /\ edit = NoEdit
      /\ q.unread \subseteq Unentitled[q.who] /\ q.now \in Shelved /\ q.locked
      /\ q.allowed => q.now \notin q.unread
      /\ q.now \in q.gone => q.op = "mcp" /\ q.live
  BY <1>1, RunningRequest DEF ReadRights, VisitAt, Running, Deciding, CollectionsFree
<1>3. rights # {} => q.now \notin q.unread
  BY <1>1, <1>2, EntitledNow DEF Entitled
<1>4. CASE q.live
  <2>1. PICK may \in BOOLEAN : may = (q.allowed \/ rights # {})
    BY <1>2 DEF VisitRows
  <2>2. PICK row : row = AfterDecision(q, may)
    OBVIOUS
  <2>3. may => q.now \notin q.unread
    BY <1>2, <1>3, <2>1
  <2>4. /\ row \in VisitRows /\ row.at \notin {"cache", "put"}
        /\ RequestSound(row, Unentitled, Misleading, Hidden)
    BY <1>2, <2>2, <2>3, DecidedRow
  <2>5. To(v, row)
    BY <1>1, <1>4, <2>1, <2>2 DEF ReadRights
  <2>6. QED BY <1>2, <2>4, <2>5, RequestGoesOn
<1>5. CASE ~q.live
  <2>0. PICK others \in BOOLEAN : others = (\E r \in rights : ~ForUser(r))
    BY Zenon
  <2>a. PICK todo : todo = {r \in rights : ForUser(r)}
    OBVIOUS
  <2>b. PICK allowed \in BOOLEAN : allowed = (q.allowed \/ others)
    BY <1>2 DEF VisitRows
  <2>1. todo = {r \in rights : ForUser(r)} /\ allowed = (q.allowed \/ others)
    BY <2>a, <2>b
  <2> DEFINE row == [q EXCEPT !.at = "cache", !.todo = todo, !.allowed = allowed]
  <2>2. todo \in SUBSET Rights
    BY <1>1, <2>1 DEF LiveRights
  <2>3. /\ row \in VisitRows /\ row.op = q.op /\ row.at = "cache" /\ row.who = q.who /\ row.live = q.live
        /\ row.docs = q.docs /\ row.now = q.now /\ row.picked = q.picked /\ row.outcome = q.outcome
        /\ row.shown = q.shown /\ row.unread = q.unread /\ row.gone = q.gone /\ row.misled = q.misled
        /\ row.allowed = allowed /\ row.todo = todo /\ row.locked = q.locked
    BY <1>2, <2>2 DEF VisitRows, VisitPlaces
  <2>4. To(v, row)
    BY <1>1, <1>5, <2>0, <2>1 DEF ReadRights
  <2> HIDE DEF row
  <2>5. Running(row, Unentitled, Misleading, Hidden)
    BY <1>2, <2>3 DEF Running
  <2>6. allowed => q.now \notin q.unread
    BY <1>2, <1>3, <2>0, <2>1
  <2>7. Deciding(row)
    BY <1>2, <1>5, <2>1, <2>3, <2>6 DEF Deciding
  <2>8. RequestSound(row, Unentitled, Misleading, Hidden)
    BY <2>3, <2>5, <2>7 DEF RequestSound
  <2>9. QED BY <1>2, <2>3, <2>4, <2>8, RequestGoesOn
<1>6. QED BY <1>2, <1>4, <1>5 DEF VisitRows

\* A request among its cached grants: less to project, at the same decision.
LEMMA CachingRow ==
    ASSUME NEW q \in VisitRows, NEW denied, NEW misleading, NEW hidden, NEW todo \in SUBSET q.todo,
           Running(q, denied, misleading, hidden), Deciding(q), q.at \in {"cache", "put"}
    PROVE  LET row == [q EXCEPT !.at = "put", !.todo = todo]
           IN  row \in VisitRows /\ RequestSound(row, denied, misleading, hidden)
<1> DEFINE row == [q EXCEPT !.at = "put", !.todo = todo]
<1>1. todo \in SUBSET Rights
  BY DEF VisitRows
<1>2. /\ row \in VisitRows /\ row.op = q.op /\ row.at = "put" /\ row.who = q.who /\ row.live = q.live
      /\ row.docs = q.docs /\ row.now = q.now /\ row.picked = q.picked /\ row.outcome = q.outcome
      /\ row.shown = q.shown /\ row.unread = q.unread /\ row.gone = q.gone /\ row.misled = q.misled
      /\ row.allowed = q.allowed /\ row.todo = todo /\ row.locked = q.locked
  BY <1>1 DEF VisitRows, VisitPlaces
<1> HIDE DEF row
<1>3. Running(row, denied, misleading, hidden)
  BY <1>2 DEF Running
<1>4. Deciding(row)
  BY <1>2 DEF Deciding
<1>5. RequestSound(row, denied, misleading, hidden)
  BY <1>2, <1>3, <1>4 DEF RequestSound
<1>6. QED BY <1>2, <1>5 DEF row

LEMMA ReadCacheSound == ASSUME ViewsInv, NEW v \in Visits, ReadCache(v) PROVE ViewsInv'
<1>1. PICK q, todo : q = visit[v] /\ todo = (IF CachedFor(q.who, q.now) = {} THEN q.todo ELSE {})
  OBVIOUS
<1>2. /\ q \in VisitRows /\ Running(q, Unentitled, Misleading, Hidden) /\ Deciding(q) /\ q.at = "cache"
      /\ edit = NoEdit /\ UNCHANGED <<ledgerVars, cacheVars>>
  BY <1>1, RunningRequest DEF ReadCache, VisitAt
<1>3. PICK row : row = [q EXCEPT !.at = "put", !.todo = todo]
  OBVIOUS
<1>4. todo \in SUBSET q.todo
  BY <1>1
<1>5. row \in VisitRows /\ RequestSound(row, Unentitled, Misleading, Hidden)
  BY <1>2, <1>3, <1>4, CachingRow
<1>6. To(v, row)
  BY <1>1, <1>3 DEF ReadCache
<1>7. QED BY <1>2, <1>5, <1>6, RequestGoesOn

LEMMA ProjectRightSound == ASSUME ViewsInv, NEW v \in Visits, ProjectRight(v) PROVE ViewsInv'
<1>1. PICK q : q = visit[v]
  OBVIOUS
<1>2. /\ q \in VisitRows /\ Running(q, Unentitled, Misleading, Hidden) /\ Deciding(q) /\ q.at = "put"
      /\ edit = NoEdit /\ UNCHANGED ledgerVars
  BY <1>1, RunningRequest DEF ProjectRight, VisitAt
<1>3. PICK r \in q.todo :
        /\ To(v, [q EXCEPT !.todo = @ \ {r}])
        /\ IF InForce(r) THEN /\ Unwritten({r} \X Reach(r))
                              /\ projection' = projection \union ({r} \X Reach(r))
                              /\ UNCHANGED raced
           ELSE UNCHANGED cacheVars
  BY <1>1 DEF ProjectRight
<1>4. PICK todo, row : todo = q.todo \ {r} /\ row = [q EXCEPT !.at = "put", !.todo = todo]
  OBVIOUS
<1>5. row \in VisitRows /\ RequestSound(row, Unentitled, Misleading, Hidden)
  BY <1>2, <1>4, CachingRow
<1>6. To(v, row)
  <2>1. row = [q EXCEPT !.todo = @ \ {r}]
    BY <1>2, <1>4 DEF VisitRows
  <2>2. QED BY <1>3, <2>1
<1>7. CASE ~InForce(r)
  <2>1. UNCHANGED <<ledgerVars, cacheVars>>
    BY <1>2, <1>3, <1>7
  <2>2. QED BY <1>2, <1>5, <1>6, <2>1, RequestGoesOn
<1>8. CASE InForce(r)
  <2>1. r \in Rights /\ ForUser(r) /\ Given(r)
    BY <1>2, <1>3, <1>8 DEF Deciding, VisitRows, InForce, Given
  <2>2. CacheInv /\ projection' = projection \union ({r} \X Reach(r)) /\ raced' = raced
        /\ edit' = edit /\ refresh' = refresh /\ edit = NoEdit
    BY <1>2, <1>3, <1>8 DEF ViewsInv, ledgerVars
  <2>3. {r} \X Reach(r) \in SUBSET CacheRows
    BY <2>1, ReadingAssumption DEF ViewsInv, LedgerTyped, Reach, OnFolder, CacheRows
  <2>4. ASSUME NEW row2 \in projection'
        PROVE  Given(row2[1])' /\ ForUser(row2[1]) /\ (row2[2] \in Reach(row2[1])' \/ row2 \in raced')
    <3>1. Given(row2[1]) /\ ForUser(row2[1]) /\ (row2[2] \in Reach(row2[1]) \/ row2 \in raced)
      <4>1. CASE row2 \in projection
        BY <2>2, <4>1 DEF CacheInv, CacheWithinLive
      <4>2. CASE row2 \in {r} \X Reach(r)
        BY <2>1, <4>2
      <4>3. QED BY <2>2, <4>1, <4>2
    <3>2. QED BY <1>2, <2>2, <3>1, LedgerStays
  <2>5. CacheWithinLive'
    BY <2>4 DEF CacheWithinLive, ForUser
  <2>6. projection' \in SUBSET CacheRows /\ raced' \in SUBSET projection' /\ ~edit'.removes
    BY <2>2, <2>3 DEF CacheInv, NoEdit
  <2>7. \A row2 \in refresh'.put :
           /\ row2[1] = refresh'.r /\ Given(row2[1])' /\ ForUser(row2[1])
           /\ row2[2] \in Reach(row2[1])' \/ (OnFolder(row2[1]) /\ row2[2] \in refresh'.left)
    BY <1>2, <2>2, LedgerStays DEF CacheInv
  <2>8. CacheInv' /\ raced' \in SUBSET raced
    BY <2>2, <2>5, <2>6, <2>7 DEF CacheInv, OnFolder, ForUser
  <2>9. QED BY <1>2, <1>5, <1>6, <2>8, RequestMoved
<1>9. QED BY <1>7, <1>8

LEMMA AnswerSound == ASSUME ViewsInv, NEW v \in Visits, Answer(v) PROVE ViewsInv'
<1>1. PICK q, cached, usable, expired :
        /\ q = visit[v] /\ cached = CachedFor(q.who, q.now) /\ usable = Usable(cached)
        /\ expired = {<<r, q.now>> : r \in cached \ usable}
  OBVIOUS
<1>2. /\ q \in VisitRows /\ Running(q, Unentitled, Misleading, Hidden) /\ Deciding(q) /\ q.at = "put"
      /\ UNCHANGED ledgerVars /\ q.who \in Visitors /\ q.now \in Shelved /\ ~q.live
      /\ q.unread \subseteq Unentitled[q.who] /\ Misleading[q.who] \subseteq q.misled
      /\ q.allowed => q.now \notin q.unread
      /\ q.now \notin q.gone
  BY <1>1, RunningRequest DEF Answer, VisitAt, Running, Deciding
<1>3. PICK may \in BOOLEAN : may = (q.allowed \/ usable # {})
  BY <1>2 DEF VisitRows
<1>4. usable # {} => q.now \notin q.unread \/ q.now \in q.misled
  <2>1. SUFFICES ASSUME NEW r \in usable PROVE q.now \notin q.unread \/ q.now \in q.misled
    OBVIOUS
  <2>2. r \in CachedFor(q.who, q.now) /\ InForce(r)
    BY <1>1 DEF Usable
  <2>3. QED BY <1>2, <2>2, CachedGives DEF ViewsInv
<1>5. PICK row : row = AfterDecision(q, may)
  OBVIOUS
<1>6. may => q.now \notin q.unread \/ (~q.live /\ q.now \in q.misled)
  BY <1>2, <1>3, <1>4
<1>7. /\ row \in VisitRows /\ row.at \notin {"cache", "put"}
      /\ RequestSound(row, Unentitled, Misleading, Hidden)
  BY <1>2, <1>5, <1>6, DecidedRow
<1>8. To(v, row) /\ CacheBecomes(projection \ expired)
  BY <1>1, <1>3, <1>5 DEF Answer
<1>9. CacheInv' /\ raced' \in SUBSET raced
  BY <1>2, <1>8, RowsLeave DEF ViewsInv
<1>10. QED BY <1>2, <1>7, <1>8, <1>9, RequestMoved

----------------------------------------------------------------------------
(* Documents and collections *)

LEMMA LookFirstSound == ASSUME ViewsInv, NEW v \in Visits, LookFirst(v) PROVE ViewsInv'
<1>1. /\ visit[v].at = "look" /\ UNCHANGED <<ledgerVars, cacheVars>>
      /\ IF Visible(visit[v].now) THEN Moves(v, "ask") ELSE Deny(v, "absent")
  BY DEF LookFirst, VisitAt
<1>2. visit[v].at # "done" /\ ~visit[v].live
  BY <1>1, RunningRequest DEF Deciding
<1>3. CASE Visible(visit[v].now)
  <2>1. Moves(v, "ask") /\ "ask" \in {"ask", "weigh"}
    BY <1>1, <1>3
  <2>2. QED BY <1>1, <1>2, <2>1, PlaceSound
<1>4. CASE ~Visible(visit[v].now)
  <2>1. Deny(v, "absent") /\ "absent" \in VisitOutcomes
    BY <1>1, <1>4 DEF VisitOutcomes
  <2>2. QED BY <1>1, <2>1, DenySound
<1>5. QED BY <1>3, <1>4

LEMMA LookAgainSound == ASSUME ViewsInv, NEW v \in Visits, LookAgain(v) PROVE ViewsInv'
<1>1. /\ visit[v].at = "again" /\ visit[v].op \in DocOps /\ UNCHANGED <<ledgerVars, cacheVars>>
      /\ IF Visible(visit[v].now) THEN Show(v, {visit[v].now}) ELSE Deny(v, "absent")
  BY DEF LookAgain, VisitAt
<1>2. CASE Visible(visit[v].now)
  <2>1. PICK q : q = visit[v]
    OBVIOUS
  <2>2. /\ q \in VisitRows /\ q.now \in Shelved /\ ~q.live /\ q.gone \subseteq Hidden
        /\ q.op = "mcp" => q.now \notin q.unread
        /\ q.now \in q.unread => q.now \in q.misled
    BY <1>1, <2>1, RunningRequest DEF Running, Deciding
  <2>3. q.now \notin q.gone
    BY <1>2, <2>1, <2>2 DEF Hidden
  <2>4. {q.now} \in SUBSET (Resources \union Inner) /\ {q.now} \intersect q.gone = {}
    BY <2>2, <2>3 DEF Resources
  <2>5. IF q.op \in ListOps \union {"document"} THEN {q.now} \intersect q.unread \subseteq q.misled
        ELSE {q.now} \intersect q.unread = {}
    BY <1>1, <2>1, <2>2 DEF DocOps
  <2>6. q.op # "children"
    BY <1>1, <2>1 DEF DocOps
  <2>7. QED BY <1>1, <1>2, <2>1, <2>4, <2>5, <2>6, ShowSound
<1>3. CASE ~Visible(visit[v].now)
  <2>1. Deny(v, "absent") /\ "absent" \in VisitOutcomes
    BY <1>1, <1>3 DEF VisitOutcomes
  <2>2. QED BY <1>1, <2>1, DenySound
<1>4. QED BY <1>2, <1>3

\* A request has collected the documents it asks about.
LEMMA CandidatesSound ==
    ASSUME ViewsInv, NEW v \in Visits, visit[v].at # "done", visit[v].op \notin DocOps, ~visit[v].live,
           NEW docs \in SUBSET Shelved, To(v, [visit[v] EXCEPT !.at = "ask", !.docs = docs]),
           UNCHANGED <<ledgerVars, cacheVars>>
    PROVE  ViewsInv'
<1>1. PICK q : q = visit[v]
  OBVIOUS
<1>2. q \in VisitRows /\ Running(q, Unentitled, Misleading, Hidden) /\ q.op \notin DocOps /\ ~q.live
  BY <1>1, RunningRequest
<1> DEFINE row == [q EXCEPT !.at = "ask", !.docs = docs]
<1>3. /\ row \in VisitRows /\ row.at = "ask" /\ row.op = q.op /\ row.who = q.who /\ row.live = q.live
      /\ row.docs = docs /\ row.now = q.now /\ row.picked = q.picked /\ row.outcome = q.outcome
      /\ row.shown = q.shown /\ row.unread = q.unread /\ row.gone = q.gone /\ row.misled = q.misled
  BY <1>2 DEF VisitRows, VisitPlaces
<1>4. To(v, row)
  BY <1>1
<1> HIDE DEF row
<1>5. Running(row, Unentitled, Misleading, Hidden)
  BY <1>2, <1>3 DEF Running, DocOps
<1>6. Deciding(row)
  BY <1>3 DEF Deciding
<1>7. RequestSound(row, Unentitled, Misleading, Hidden)
  BY <1>3, <1>5, <1>6 DEF RequestSound
<1>8. QED BY <1>3, <1>4, <1>7, RequestGoesOn

LEMMA ListCandidatesSound == ASSUME ViewsInv, NEW v \in Visits, ListCandidates(v) PROVE ViewsInv'
<1>1. /\ visit[v].at = "look" /\ visit[v].op \in ListOps /\ UNCHANGED <<ledgerVars, cacheVars>>
      /\ To(v, [visit[v] EXCEPT !.at = "ask", !.docs = OfStatus(v)])
  BY DEF ListCandidates, VisitAt
<1>2. visit[v].at # "done" /\ visit[v].op \notin DocOps /\ ~visit[v].live
  BY <1>1, RunningRequest DEF Deciding, ListOps, DocOps
<1>3. OfStatus(v) \in SUBSET Shelved
  BY DEF OfStatus
<1>4. QED BY <1>1, <1>2, <1>3, CandidatesSound

LEMMA ListPickedSound == ASSUME ViewsInv, NEW v \in Visits, ListPicked(v) PROVE ViewsInv'
<1>1. /\ visit[v].at = "ask" /\ visit[v].op \in ListOps /\ UNCHANGED <<ledgerVars, cacheVars>>
      /\ Show(v, visit[v].picked \intersect OfStatus(v))
  BY DEF ListPicked, VisitAt
<1>2. PICK q, docs : q = visit[v] /\ docs = q.picked \intersect OfStatus(v)
  OBVIOUS
<1>3. /\ q \in VisitRows /\ q.picked \in SUBSET Shelved
      /\ q.picked \intersect q.gone = {} /\ q.picked \intersect q.unread \subseteq q.misled
  BY <1>1, <1>2, RunningRequest DEF Running, VisitRows
<1>4. /\ docs \in SUBSET (Resources \union Inner) /\ docs \intersect q.gone = {}
      /\ docs \intersect q.unread \subseteq q.misled
  BY <1>2, <1>3 DEF Resources
<1>5. q.op \in ListOps /\ q.op # "children"
  BY <1>1, <1>2 DEF ListOps
<1>6. QED BY <1>1, <1>2, <1>4, <1>5, ShowSound

LEMMA LookFolderSound == ASSUME ViewsInv, NEW v \in Visits, LookFolder(v) PROVE ViewsInv'
<1>1. /\ visit[v].at = "look" /\ visit[v].op \in FolderOps /\ UNCHANGED <<ledgerVars, cacheVars>>
      /\ IF FolderThere THEN Moves(v, "weigh")
         ELSE IF visit[v].op = "folders" THEN Show(v, {}) ELSE Deny(v, "absent")
  BY DEF LookFolder, VisitAt
<1>2. visit[v].at # "done" /\ ~visit[v].live
  BY <1>1, RunningRequest DEF Deciding
<1>3. CASE FolderThere
  <2>1. Moves(v, "weigh") /\ "weigh" \in {"ask", "weigh"}
    BY <1>1, <1>3
  <2>2. QED BY <1>1, <1>2, <2>1, PlaceSound
<1>4. CASE Show(v, {})
  <2>1. PICK docs : docs = {}
    OBVIOUS
  <2>2. docs \in SUBSET (Resources \union Inner) /\ docs \intersect visit[v].gone = {}
    BY <2>1
  <2>3. docs \intersect visit[v].unread = {} /\ docs \intersect visit[v].unread \subseteq visit[v].misled
    BY <2>1
  <2>4. QED BY <1>1, <1>4, <2>1, <2>2, <2>3, ShowSound
<1>5. CASE Deny(v, "absent")
  <2>1. "absent" \in VisitOutcomes
    BY DEF VisitOutcomes
  <2>2. QED BY <1>1, <1>5, <2>1, DenySound
<1>6. QED BY <1>1, <1>3, <1>4, <1>5

\* What a decision about the collection leads to.
LEMMA FolderDecidedRow ==
    ASSUME NEW q \in VisitRows, NEW denied, NEW misleading, NEW hidden, NEW may \in BOOLEAN,
           Running(q, denied, misleading, hidden), q.op \in FolderOps, ~q.live,
           may => Folder \notin q.unread
    PROVE  LET row == AfterFolder(q, may)
           IN  /\ row \in VisitRows /\ row.at \notin {"cache", "put"}
               /\ RequestSound(row, denied, misleading, hidden)
<1> DEFINE free == [q EXCEPT !.locked = FALSE, !.allowed = FALSE]
           row == AfterFolder(q, may)
<1>1. q.op \notin ListOps \union DocOps /\ q.op # "document" /\ q.op # "mcp"
  BY DEF FolderOps, ListOps, DocOps
<1>2. CASE may /\ q.op \in {"children", "folder"}
  <2> DEFINE new == [free EXCEPT !.at = "enter"]
  <2>1. /\ new \in VisitRows /\ new.op = q.op /\ new.at = "enter" /\ new.who = q.who /\ new.live = q.live
        /\ new.docs = q.docs /\ new.picked = q.picked /\ new.outcome = q.outcome /\ new.now = q.now
        /\ new.shown = q.shown /\ new.unread = q.unread /\ new.gone = q.gone /\ new.misled = q.misled
    BY DEF VisitRows, VisitPlaces
  <2>2. row = new
    BY <1>2 DEF AfterFolder
  <2> HIDE DEF new
  <2>3. Running(new, denied, misleading, hidden) /\ Deciding(new)
    BY <1>1, <1>2, <2>1 DEF Running, Deciding
  <2>4. QED BY <2>1, <2>2, <2>3 DEF RequestSound
<1>3. CASE may /\ q.op \notin {"children", "folder"}
  <2>1. row = Finished(q, "shown", {Folder}) /\ "shown" \in VisitOutcomes
    BY <1>3 DEF AfterFolder, VisitOutcomes
  <2>2. {Folder} \in SUBSET (Resources \union Inner)
    BY DEF Resources
  <2>3. {Folder} \intersect q.gone = {} /\ {Folder} \intersect q.unread = {}
    BY <1>3, ReadingAssumption DEF VisitRows
  <2>4. /\ Finished(q, "shown", {Folder}) \in VisitRows /\ Finished(q, "shown", {Folder}).at = "done"
        /\ RequestSound(Finished(q, "shown", {Folder}), denied, misleading, hidden)
    BY <1>1, <1>3, <2>1, <2>2, <2>3, FinishedRow
  <2>5. QED BY <2>1, <2>4
<1>4. CASE ~may /\ q.op = "folders"
  <2>1. row = Finished(q, "shown", {}) /\ "shown" \in VisitOutcomes
    BY <1>4 DEF AfterFolder, VisitOutcomes
  <2>2. /\ Finished(q, "shown", {}) \in VisitRows /\ Finished(q, "shown", {}).at = "done"
        /\ RequestSound(Finished(q, "shown", {}), denied, misleading, hidden)
    BY <1>1, <2>1, DeniedRow
  <2>3. QED BY <2>1, <2>2
<1>5. CASE ~may /\ q.op # "folders"
  <2>1. row = Finished(q, "denied", {}) /\ "denied" \in VisitOutcomes
    BY <1>5 DEF AfterFolder, VisitOutcomes
  <2>2. /\ Finished(q, "denied", {}) \in VisitRows /\ Finished(q, "denied", {}).at = "done"
        /\ RequestSound(Finished(q, "denied", {}), denied, misleading, hidden)
    BY <1>1, <2>1, DeniedRow
  <2>3. QED BY <2>1, <2>2
<1>6. QED BY <1>2, <1>3, <1>4, <1>5

LEMMA ReadFolderSound == ASSUME ViewsInv, NEW v \in Visits, ReadFolder(v) PROVE ViewsInv'
<1>1. PICK q : q = visit[v]
  OBVIOUS
<1>2. PICK public \in BOOLEAN : public = (folderRow.visibility = "PUBLIC")
  OBVIOUS
<1>3. PICK u : u = [q EXCEPT !.at = "weighed", !.locked = TRUE, !.allowed = public]
  OBVIOUS
<1>4. /\ UNCHANGED <<ledgerVars, cacheVars>> /\ q.at = "weigh"
      /\ To(v, IF ~FolderThere THEN AfterFolder(u, FALSE)
               ELSE IF Owns(u.who, Folder) THEN AfterFolder(u, TRUE)
               ELSE u)
  BY <1>1, <1>2, <1>3 DEF ReadFolder, VisitAt
<1>5. /\ q \in VisitRows /\ Running(q, Unentitled, Misleading, Hidden) /\ ~q.live /\ q.who \in Visitors
      /\ q.unread \subseteq Unentitled[q.who]
  BY <1>1, <1>4, RunningRequest DEF Running, Deciding
<1>6. q.op \in FolderOps
  BY <1>1, <1>4, RunningRequest DEF Deciding
<1>7. /\ u \in VisitRows /\ u.op = q.op /\ u.at = "weighed" /\ u.who = q.who /\ u.live = q.live
      /\ u.docs = q.docs /\ u.now = q.now /\ u.picked = q.picked /\ u.outcome = q.outcome /\ u.locked = TRUE
      /\ u.shown = q.shown /\ u.unread = q.unread /\ u.gone = q.gone /\ u.misled = q.misled
      /\ u.allowed = public
  BY <1>3, <1>5 DEF VisitRows, VisitPlaces
<1>8. Running(u, Unentitled, Misleading, Hidden)
  BY <1>5, <1>7 DEF Running
<1>9. CASE ~FolderThere
  <2>1. PICK row : row = AfterFolder(u, FALSE)
    OBVIOUS
  <2>2. /\ row \in VisitRows /\ row.at \notin {"cache", "put"}
        /\ RequestSound(row, Unentitled, Misleading, Hidden)
    BY <1>5, <1>6, <1>7, <1>8, <2>1, FolderDecidedRow
  <2>3. QED BY <1>4, <1>9, <2>1, <2>2, RequestGoesOn
<1>10. CASE FolderThere /\ Owns(u.who, Folder)
  <2>1. PICK row : row = AfterFolder(u, TRUE)
    OBVIOUS
  <2>2. Folder \notin u.unread
    BY <1>5, <1>7, <1>10, FolderAllowedNow DEF FolderAllows
  <2>3. /\ row \in VisitRows /\ row.at \notin {"cache", "put"}
        /\ RequestSound(row, Unentitled, Misleading, Hidden)
    BY <1>5, <1>6, <1>7, <1>8, <2>1, <2>2, FolderDecidedRow
  <2>4. QED BY <1>4, <1>10, <2>1, <2>3, RequestGoesOn
<1>11. CASE FolderThere /\ ~Owns(u.who, Folder)
  <2>1. To(v, u)
    BY <1>4, <1>11
  <2>2. public => Folder \notin u.unread
    BY <1>2, <1>5, <1>7, <1>11, FolderAllowedNow DEF FolderAllows
  <2>3. Deciding(u)
    BY <1>5, <1>6, <1>7, <2>2 DEF Deciding
  <2>4. RequestSound(u, Unentitled, Misleading, Hidden)
    BY <1>7, <1>8, <2>3 DEF RequestSound
  <2>5. QED BY <1>4, <1>7, <2>1, <2>4, RequestGoesOn
<1>12. QED BY <1>9, <1>10, <1>11

LEMMA ReadFolderRightsSound == ASSUME ViewsInv, NEW v \in Visits, ReadFolderRights(v) PROVE ViewsInv'
<1>1. PICK q : q = visit[v]
  OBVIOUS
<1>2. /\ q \in VisitRows /\ Running(q, Unentitled, Misleading, Hidden) /\ ~q.live /\ q.who \in Visitors
      /\ q.unread \subseteq Unentitled[q.who] /\ q.op \in FolderOps /\ q.at = "weighed"
      /\ q.allowed => Folder \notin q.unread
      /\ UNCHANGED <<ledgerVars, cacheVars>>
  BY <1>1, RunningRequest DEF ReadFolderRights, VisitAt, Running, Deciding
<1>3. PICK may \in BOOLEAN : may = (q.allowed \/ FolderRights(q.who) # {})
  BY <1>2 DEF VisitRows
<1>4. may => Folder \notin q.unread
  <2>1. CASE FolderRights(q.who) # {}
    <3>1. FolderThere
      BY <2>1 DEF ViewsInv, LedgerTyped, FolderRights, InForce, Given
    <3>2. FolderAllows(q.who)
      BY <2>1, <3>1 DEF FolderAllows
    <3>3. QED BY <1>2, <3>2, FolderAllowedNow
  <2>2. QED BY <1>2, <1>3, <2>1
<1>5. PICK row : row = AfterFolder(q, may)
  OBVIOUS
<1>6. /\ row \in VisitRows /\ row.at \notin {"cache", "put"}
      /\ RequestSound(row, Unentitled, Misleading, Hidden)
  BY <1>2, <1>4, <1>5, FolderDecidedRow
<1>7. To(v, row)
  BY <1>1, <1>3, <1>5 DEF ReadFolderRights
<1>8. QED BY <1>2, <1>6, <1>7, RequestGoesOn

LEMMA ChildrenSound == ASSUME ViewsInv, NEW v \in Visits, Children(v) PROVE ViewsInv'
<1>1. /\ visit[v].at = "enter" /\ visit[v].op = "children" /\ UNCHANGED <<ledgerVars, cacheVars>>
      /\ IF FolderThere THEN Show(v, inside) ELSE Deny(v, "absent")
  BY DEF Children, VisitAt
<1>2. CASE FolderThere
  <2>1. PICK q : q = visit[v]
    OBVIOUS
  <2>2. q \in VisitRows /\ Folder \notin q.unread
    BY <1>1, <2>1, RunningRequest DEF Deciding
  <2>3. /\ inside \in SUBSET (Resources \union Inner) /\ inside \intersect q.gone = {}
        /\ inside \intersect q.unread = {}
    BY <2>2, ReadingAssumption DEF ViewsInv, LedgerTyped, VisitRows, Resources
  <2>4. q.op \notin ListOps \union {"document"}
    BY <1>1, <2>1 DEF ListOps
  <2>5. QED BY <1>1, <1>2, <2>1, <2>2, <2>3, <2>4, ShowSound
<1>3. CASE ~FolderThere
  <2>1. Deny(v, "absent") /\ "absent" \in VisitOutcomes
    BY <1>1, <1>3 DEF VisitOutcomes
  <2>2. QED BY <1>1, <2>1, DenySound
<1>4. QED BY <1>2, <1>3

LEMMA FolderDocumentsSound == ASSUME ViewsInv, NEW v \in Visits, FolderDocuments(v) PROVE ViewsInv'
<1>1. /\ visit[v].at = "enter" /\ visit[v].op = "folder" /\ UNCHANGED <<ledgerVars, cacheVars>>
      /\ To(v, [visit[v] EXCEPT !.at = "ask", !.docs = shelf])
  BY DEF FolderDocuments, VisitAt
<1>2. visit[v].at # "done" /\ visit[v].op \notin DocOps /\ ~visit[v].live
  BY <1>1, RunningRequest DEF Deciding, DocOps
<1>3. shelf \in SUBSET Shelved
  BY DEF ViewsInv, LedgerTyped
<1>4. QED BY <1>1, <1>2, <1>3, CandidatesSound

LEMMA CheckLiveSound == ASSUME ViewsInv, NEW v \in Visits, CheckLive(v) PROVE ViewsInv'
<1>1. PICK q : q = visit[v]
  OBVIOUS
<1>2. /\ q \in VisitRows /\ Running(q, Unentitled, Misleading, Hidden) /\ q.op = "folder" /\ q.at = "ask"
      /\ UNCHANGED <<ledgerVars, cacheVars>>
      /\ IF q.live \/ q.picked = {} THEN Show(v, q.picked)
         ELSE To(v, [q EXCEPT !.live = TRUE, !.docs = q.picked, !.picked = {}])
  BY <1>1, RunningRequest DEF CheckLive, VisitAt
<1>3. CASE q.live \/ q.picked = {}
  <2>1. q.picked \intersect q.unread = {} /\ q.picked \intersect q.gone = {}
    BY <1>2, <1>3 DEF Running
  <2>2. q.picked \in SUBSET (Resources \union Inner)
    BY <1>2 DEF VisitRows, Resources
  <2>3. q.op \notin ListOps \union {"document"} /\ q.op # "children"
    BY <1>2 DEF ListOps
  <2>4. QED BY <1>1, <1>2, <1>3, <2>1, <2>2, <2>3, ShowSound
<1>4. CASE ~(q.live \/ q.picked = {})
  <2> DEFINE row == [q EXCEPT !.live = TRUE, !.docs = q.picked, !.picked = {}]
  <2>1. /\ row \in VisitRows /\ row.at = "ask" /\ row.op = q.op /\ row.who = q.who /\ row.live = TRUE
        /\ row.docs = q.picked /\ row.now = q.now /\ row.picked = {} /\ row.outcome = q.outcome
        /\ row.shown = q.shown /\ row.unread = q.unread /\ row.gone = q.gone /\ row.misled = q.misled
    BY <1>2 DEF VisitRows
  <2>2. To(v, row)
    BY <1>2, <1>4
  <2> HIDE DEF row
  <2>3. Running(row, Unentitled, Misleading, Hidden) /\ Deciding(row)
    BY <1>2, <2>1 DEF Running, Deciding, DocOps
  <2>4. RequestSound(row, Unentitled, Misleading, Hidden)
    BY <2>1, <2>3 DEF RequestSound
  <2>5. QED BY <1>2, <2>1, <2>2, <2>4, RequestGoesOn
<1>5. QED BY <1>3, <1>4

LEMMA VisitStepSound == ASSUME ViewsInv, NEW v \in Visits, VisitStep(v) PROVE ViewsInv'
  BY ComeSound, ReadRowSound, ReadRightsSound, ReadCacheSound, ProjectRightSound, AnswerSound,
     LookFirstSound, LookAgainSound, ListCandidatesSound, ListPickedSound, LookFolderSound,
     ReadFolderSound, ReadFolderRightsSound, ChildrenSound, FolderDocumentsSound, CheckLiveSound
     DEF VisitStep

----------------------------------------------------------------------------
(* Changes *)

\* A running request notes what has become readable and misleading.
Noting(q, denied, misleading) ==
    [q EXCEPT !.unread = @ \intersect denied[q.who], !.misled = @ \union misleading[q.who]]

LEMMA WitnessedRow ==
    ASSUME NEW q \in VisitRows, NEW denied, NEW misleading, NEW hidden,
           RequestSound(q, denied, misleading, hidden), q.at # "done",
           NEW denied2, NEW misleading2, NEW hidden2, hidden \subseteq hidden2,
           misleading2[q.who] \subseteq Shelved,
           NEW row, row = Noting(q, denied2, misleading2)
    PROVE  row \in VisitRows /\ row.at = q.at /\ RequestSound(row, denied2, misleading2, hidden2)
<1>1. PICK unread, misled : unread = q.unread \intersect denied2[q.who] /\ misled = q.misled \union misleading2[q.who]
  OBVIOUS
<1>2. unread \in SUBSET Resources /\ misled \in SUBSET Shelved
  BY <1>1 DEF VisitRows
<1>3. /\ row \in VisitRows /\ row.op = q.op /\ row.at = q.at /\ row.who = q.who /\ row.live = q.live
      /\ row.docs = q.docs /\ row.now = q.now /\ row.picked = q.picked /\ row.outcome = q.outcome
      /\ row.shown = q.shown /\ row.unread = unread /\ row.gone = q.gone /\ row.misled = misled
      /\ row.allowed = q.allowed /\ row.todo = q.todo /\ row.locked = q.locked
  BY <1>1, <1>2 DEF VisitRows, Noting
<1>4. Running(q, denied, misleading, hidden) /\ Deciding(q)
  BY DEF RequestSound
<1>5. unread \subseteq q.unread /\ q.misled \subseteq misled /\ unread \subseteq denied2[q.who]
      /\ misleading2[q.who] \subseteq misled
  BY <1>1
<1>6. Running(row, denied2, misleading2, hidden2)
  BY <1>3, <1>4, <1>5 DEF Running
<1>7. Deciding(row)
  BY <1>3, <1>4, <1>5 DEF Deciding
<1>8. QED BY <1>3, <1>6, <1>7 DEF RequestSound

LEMMA ChangeWitnessed ==
    ASSUME ViewsInv, Witnessed, LedgerTyped', CacheInv', Hidden \subseteq Hidden',
           edit' # NoEdit => edit # NoEdit \/ \A v \in Visits : ~visit[v].locked
    PROVE  ViewsInv'
<1>1. Misleading' \in [Visitors -> SUBSET Shelved]
  <2>1. \A row \in raced' : row[2] \in Shelved
    BY DEF CacheInv, CacheRows
  <2>2. QED BY <2>1 DEF Misleading
<1>2. ASSUME NEW v \in Visits
      PROVE  /\ visit'[v] \in VisitRows /\ visit'[v].at = visit[v].at
             /\ RequestSound(visit'[v], Unentitled', Misleading', Hidden')
  <2>1. PICK q, row, denied, misleading, hidden, denied2, misleading2, hidden2 :
          /\ q = visit[v] /\ row = visit'[v]
          /\ denied = Unentitled /\ misleading = Misleading /\ hidden = Hidden
          /\ denied2 = Unentitled' /\ misleading2 = Misleading' /\ hidden2 = Hidden'
    OBVIOUS
  <2>2. q \in VisitRows /\ RequestSound(q, denied, misleading, hidden)
    BY <2>1 DEF ViewsInv, RequestsReading
  <2>3. CASE q.at = "done"
    <3>1. row = q
      BY <2>1, <2>3 DEF Witnessed, VisitAt
    <3>2. RequestSound(row, denied2, misleading2, hidden2)
      BY <2>2, <2>3, <3>1 DEF RequestSound
    <3>3. QED BY <2>1, <2>2, <3>1, <3>2
  <2>4. CASE q.at # "done"
    <3>1. row = Noting(q, denied2, misleading2)
      BY <2>1, <2>4 DEF Witnessed, VisitAt, Noting
    <3>2. q.who \in Visitors
      BY <2>2, <2>4 DEF RequestSound, Running
    <3>3. misleading2[q.who] \subseteq Shelved
      BY <1>1, <2>1, <3>2
    <3>4. row \in VisitRows /\ row.at = q.at /\ RequestSound(row, denied2, misleading2, hidden2)
      BY <2>1, <2>2, <2>4, <3>1, <3>3, WitnessedRow
    <3>5. QED BY <2>1, <3>4
  <2>5. QED BY <2>3, <2>4
<1>3. visit' \in [Visits -> VisitRows]
  <2>1. visit' = [v \in Visits |-> visit'[v]]
    BY DEF Witnessed
  <2>2. QED BY <1>2, <2>1
<1>4. edit' # NoEdit => \A v \in Visits : visit'[v].at \notin {"cache", "put"}
  <2>1. ASSUME NEW v \in Visits, visit[v].at \in {"cache", "put"} PROVE edit = NoEdit /\ visit[v].locked
    BY <2>1, RunningRequest DEF Deciding
  <2>2. QED BY <1>2, <2>1
<1>5. RequestsReading'
  BY <1>2, <1>3, <1>4 DEF RequestsReading
<1>6. QED BY <1>5 DEF ViewsInv

LEMMA ReachTyped == ASSUME LedgerTyped, NEW r \in Rights PROVE {r} \X Reach(r) \in SUBSET CacheRows
  BY ReadingAssumption DEF LedgerTyped, Reach, OnFolder, CacheRows

LEMMA GiveRightSound == ASSUME ViewsInv, NEW r \in Rights, GiveRight(r) PROVE ViewsInv'
<1>1. /\ right[r] = "none" /\ right' = [right EXCEPT ![r] = "given"] /\ LedgerTyped /\ CacheInv
      /\ IF OnFolder(r) THEN CollectionsFree /\ FolderThere ELSE Visible(RightRow[r].on)
      /\ IF ForUser(r) THEN /\ owed' = owed \union {r}
                            /\ projection' = projection \union ({r} \X Reach(r))
         ELSE UNCHANGED <<owed, projection>>
      /\ UNCHANGED <<docRow, folderRow, shelf, inside, edit, refresh, raced>> /\ Witnessed
  BY DEF GiveRight, ViewsInv
<1>2. \A s \in Rights : Given(s) => Given(s)'
  BY <1>1 DEF LedgerTyped, Given
<1>3. Given(r)' /\ \A s \in Rights : s # r => (Given(s)' <=> Given(s))
  BY <1>1 DEF LedgerTyped, Given
<1>4. \A s : Reach(s)' = Reach(s)
  BY <1>1 DEF Reach, OnFolder
<1>5. LedgerTyped'
  BY <1>1, <1>3 DEF LedgerTyped, ForUser, OnFolder, FolderThere
<1>6. projection' \subseteq projection \union (IF ForUser(r) THEN {r} \X Reach(r) ELSE {})
  BY <1>1
<1>7. CacheInv'
  <2>1. projection' \in SUBSET CacheRows /\ raced' \in SUBSET projection'
    BY <1>1, ReachTyped DEF CacheInv
  <2>2. CacheWithinLive'
    <3>1. SUFFICES ASSUME NEW row \in projection'
                   PROVE  Given(row[1])' /\ ForUser(row[1]) /\ (row[2] \in Reach(row[1])' \/ row \in raced')
      BY DEF CacheWithinLive, ForUser
    <3>2. CASE row \in projection
      <4>1. row[1] \in Rights
        BY <1>1, <3>2 DEF CacheInv, CacheRows
      <4>2. Given(row[1]) /\ ForUser(row[1]) /\ (row[2] \in Reach(row[1]) \/ row \in raced)
        BY <1>1, <3>2 DEF CacheInv, CacheWithinLive
      <4>3. QED BY <1>1, <1>2, <1>4, <4>1, <4>2
    <3>3. CASE row \in {r} \X Reach(r) /\ ForUser(r)
      BY <1>3, <1>4, <3>3
    <3>4. QED BY <1>6, <3>2, <3>3
  <2>3. ASSUME edit'.removes
        PROVE  /\ edit'.d \in Shelved
               /\ refresh' # NoRefresh /\ OnFolder(refresh'.r) => edit'.d \in refresh'.left
               /\ \A row \in projection' : OnFolder(row[1]) /\ row[2] = edit'.d => row \in edit'.del \union raced'
    <3>1. edit # NoEdit /\ ~OnFolder(r)
      BY <1>1, <2>3 DEF CollectionsFree, NoEdit
    <3>2. QED BY <1>1, <1>6, <2>3, <3>1 DEF CacheInv
  <2>4. ASSUME NEW row \in refresh'.put
        PROVE  /\ row[1] = refresh'.r /\ Given(row[1])' /\ ForUser(row[1])
               /\ row[2] \in Reach(row[1])' \/ (OnFolder(row[1]) /\ row[2] \in refresh'.left)
    <3>1. row[1] \in Rights
      BY <1>1 DEF LedgerTyped, CacheRows
    <3>2. QED BY <1>1, <1>2, <1>4, <3>1 DEF CacheInv
  <2>5. QED BY <2>1, <2>2, <2>3, <2>4 DEF CacheInv, OnFolder, ForUser
<1>8. Hidden \subseteq Hidden' /\ edit' = edit
  BY <1>1 DEF Hidden, Visible
<1>9. QED BY <1>1, <1>5, <1>7, <1>8, ChangeWitnessed

LEMMA RevokeRightSound == ASSUME ViewsInv, NEW r \in Rights, RevokeRight(r) PROVE ViewsInv'
<1>1. /\ right' = [right EXCEPT ![r] = "revoked"] /\ LedgerTyped /\ CacheInv /\ Unwritten({r} \X Shelved)
      /\ owed' = owed \ {r} /\ projection' = {row \in projection : row[1] # r}
      /\ raced' = raced \intersect projection'
      /\ UNCHANGED <<docRow, folderRow, shelf, inside, edit, refresh>> /\ Witnessed
  BY DEF RevokeRight, ViewsInv, CacheBecomes
<1>2. ~Given(r)' /\ \A s \in Rights : s # r => (Given(s)' <=> Given(s))
  BY <1>1 DEF LedgerTyped, Given
<1>3. \A s : Reach(s)' = Reach(s)
  BY <1>1 DEF Reach, OnFolder
<1>4. LedgerTyped'
  BY <1>1, <1>2 DEF LedgerTyped, ForUser, OnFolder, FolderThere
<1>5. CacheInv'
  <2>1. projection' \in SUBSET CacheRows /\ raced' \in SUBSET projection'
    BY <1>1 DEF CacheInv
  <2>2. CacheWithinLive'
    <3>1. SUFFICES ASSUME NEW row \in projection'
                   PROVE  Given(row[1])' /\ ForUser(row[1]) /\ (row[2] \in Reach(row[1])' \/ row \in raced')
      BY DEF CacheWithinLive, ForUser
    <3>2. row \in projection /\ row[1] \in Rights /\ row[1] # r
      BY <1>1 DEF CacheInv, CacheRows
    <3>3. Given(row[1]) /\ ForUser(row[1]) /\ (row[2] \in Reach(row[1]) \/ row \in raced)
      BY <1>1, <3>2 DEF CacheInv, CacheWithinLive
    <3>4. QED BY <1>1, <1>2, <1>3, <3>2, <3>3
  <2>3. ASSUME edit'.removes
        PROVE  /\ edit'.d \in Shelved
               /\ refresh' # NoRefresh /\ OnFolder(refresh'.r) => edit'.d \in refresh'.left
               /\ \A row \in projection' : OnFolder(row[1]) /\ row[2] = edit'.d => row \in edit'.del \union raced'
    BY <1>1, <2>3 DEF CacheInv
  <2>4. ASSUME NEW row \in refresh'.put
        PROVE  /\ row[1] = refresh'.r /\ Given(row[1])' /\ ForUser(row[1])
               /\ row[2] \in Reach(row[1])' \/ (OnFolder(row[1]) /\ row[2] \in refresh'.left)
    <3>1. row \in CacheRows /\ row \in Uncommitted
      BY <1>1 DEF LedgerTyped, Uncommitted
    <3>2. row[1] \in Rights /\ row[1] # r
      BY <1>1, <3>1 DEF CacheRows, Unwritten
    <3>3. QED BY <1>1, <1>2, <1>3, <3>2 DEF CacheInv
  <2>5. QED BY <2>1, <2>2, <2>3, <2>4 DEF CacheInv, OnFolder, ForUser
<1>6. Hidden \subseteq Hidden' /\ edit' = edit
  BY <1>1 DEF Hidden, Visible
<1>7. QED BY <1>1, <1>4, <1>5, <1>6, ChangeWitnessed

\* Neither the cache, nor what it must follow, changes.
LEMMA CacheUntouched ==
    ASSUME LedgerTyped, CacheInv, UNCHANGED <<shelf, edit, refresh, cacheVars>>,
           \A r \in Rights : Given(r) => Given(r)'
    PROVE  CacheInv'
<1>1. \A r : Reach(r)' = Reach(r)
  BY DEF Reach, OnFolder
<1>2. CacheWithinLive'
  <2>1. SUFFICES ASSUME NEW row \in projection
                 PROVE  Given(row[1])' /\ ForUser(row[1]) /\ (row[2] \in Reach(row[1])' \/ row \in raced)
    BY DEF CacheWithinLive, ForUser, cacheVars
  <2>2. row[1] \in Rights /\ Given(row[1]) /\ ForUser(row[1]) /\ (row[2] \in Reach(row[1]) \/ row \in raced)
    BY DEF CacheInv, CacheRows, CacheWithinLive
  <2>3. QED BY <1>1, <2>2
<1>3. ASSUME NEW row \in refresh.put
      PROVE  /\ row[1] = refresh.r /\ Given(row[1])' /\ ForUser(row[1])
             /\ row[2] \in Reach(row[1])' \/ (OnFolder(row[1]) /\ row[2] \in refresh.left)
  <2>1. row[1] \in Rights
    BY DEF LedgerTyped, CacheRows
  <2>2. QED BY <1>1, <2>1 DEF CacheInv
<1>4. QED BY <1>2, <1>3 DEF CacheInv, OnFolder, ForUser, cacheVars

LEMMA RightLapsesSound == ASSUME ViewsInv, NEW r \in Rights, RightLapses(r) PROVE ViewsInv'
<1>1. /\ right' = [right EXCEPT ![r] = "lapsed"] /\ LedgerTyped /\ CacheInv /\ InForce(r)
      /\ UNCHANGED <<docRow, folderRow, shelf, inside, owed, edit, refresh, cacheVars>> /\ Witnessed
  BY DEF RightLapses, ViewsInv
<1>2. \A s \in Rights : Given(s)' <=> Given(s)
  BY <1>1 DEF LedgerTyped, Given, InForce
<1>3. LedgerTyped'
  BY <1>1, <1>2 DEF LedgerTyped, ForUser, OnFolder, FolderThere
<1>4. CacheInv'
  BY <1>1, <1>2, CacheUntouched
<1>5. Hidden \subseteq Hidden' /\ edit' = edit
  BY <1>1 DEF Hidden, Visible
<1>6. QED BY <1>1, <1>3, <1>4, <1>5, ChangeWitnessed

LEMMA TurnPublicSound == ASSUME ViewsInv, NEW d \in Shelved, TurnPublic(d) PROVE ViewsInv'
<1>1. /\ docRow' = [docRow EXCEPT ![d].visibility = IF @ = "PUBLIC" THEN "PRIVATE" ELSE "PUBLIC"]
      /\ UNCHANGED <<folderRow, shelf, inside, right, owed, edit, refresh, cacheVars>> /\ Witnessed
      /\ LedgerTyped /\ CacheInv
  BY DEF TurnPublic, ViewsInv
<1>2. docRow' \in [Shelved -> ResourceRow] /\ \A x \in Shelved : docRow'[x].status = docRow[x].status
  BY <1>1 DEF LedgerTyped, ResourceRow
<1>3. \A s : Given(s)' <=> Given(s)
  BY <1>1 DEF Given
<1>4. LedgerTyped'
  BY <1>1, <1>2, <1>3 DEF LedgerTyped, ForUser, OnFolder, FolderThere
<1>5. CacheInv'
  BY <1>1, <1>3, CacheUntouched
<1>6. Hidden \subseteq Hidden' /\ edit' = edit
  BY <1>1, <1>2 DEF Hidden, Visible
<1>7. QED BY <1>1, <1>4, <1>5, <1>6, ChangeWitnessed

LEMMA TurnFolderSound == ASSUME ViewsInv, TurnFolder PROVE ViewsInv'
<1>1. /\ folderRow' = [folderRow EXCEPT !.visibility = IF @ = "PUBLIC" THEN "PRIVATE" ELSE "PUBLIC"]
      /\ UNCHANGED <<docRow, shelf, inside, right, owed, edit, refresh, cacheVars>> /\ Witnessed
      /\ LedgerTyped /\ CacheInv
  BY DEF TurnFolder, ViewsInv
<1>2. folderRow' \in ResourceRow /\ folderRow'.status = folderRow.status
  BY <1>1 DEF LedgerTyped, ResourceRow
<1>3. \A s : Given(s)' <=> Given(s)
  BY <1>1 DEF Given
<1>4. LedgerTyped'
  BY <1>1, <1>2, <1>3 DEF LedgerTyped, ForUser, OnFolder, FolderThere
<1>5. CacheInv'
  BY <1>1, <1>3, CacheUntouched
<1>6. Hidden \subseteq Hidden' /\ edit' = edit
  BY <1>1 DEF Hidden, Visible
<1>7. QED BY <1>1, <1>4, <1>5, <1>6, ChangeWitnessed

LEMMA DeleteShelvedSound == ASSUME ViewsInv, NEW d \in Shelved, DeleteShelved(d) PROVE ViewsInv'
<1>1. /\ docRow' = [docRow EXCEPT ![d].status = "DELETED"]
      /\ UNCHANGED <<folderRow, shelf, inside, right, owed, edit, refresh, cacheVars>> /\ Witnessed
      /\ LedgerTyped /\ CacheInv
  BY DEF DeleteShelved, ViewsInv
<1>2. /\ docRow' \in [Shelved -> ResourceRow] /\ docRow'[d].status = "DELETED"
      /\ \A x \in Shelved \ {d} : docRow'[x].status = docRow[x].status
  BY <1>1 DEF LedgerTyped, ResourceRow
<1>3. \A s : Given(s)' <=> Given(s)
  BY <1>1 DEF Given
<1>4. LedgerTyped'
  BY <1>1, <1>2, <1>3 DEF LedgerTyped, ForUser, OnFolder, FolderThere
<1>5. CacheInv'
  BY <1>1, <1>3, CacheUntouched
<1>6. Hidden \subseteq Hidden' /\ edit' = edit
  BY <1>1, <1>2 DEF Hidden, Visible
<1>7. QED BY <1>1, <1>4, <1>5, <1>6, ChangeWitnessed

LEMMA ChangeInsideSound == ASSUME ViewsInv, NEW c \in Inner, ChangeInside(c) PROVE ViewsInv'
<1>1. /\ inside' = IF c \in inside THEN inside \ {c} ELSE inside \union {c}
      /\ UNCHANGED <<docRow, folderRow, shelf, right, owed, edit, refresh, cacheVars>> /\ Witnessed
      /\ LedgerTyped /\ CacheInv
  BY DEF ChangeInside, ViewsInv
<1>2. \A s : Given(s)' <=> Given(s)
  BY <1>1 DEF Given
<1>3. inside' \in SUBSET Inner
  BY <1>1 DEF LedgerTyped
<1>4. LedgerTyped'
  BY <1>1, <1>2, <1>3 DEF LedgerTyped, ForUser, OnFolder, FolderThere
<1>5. CacheInv'
  BY <1>1, <1>2, CacheUntouched
<1>6. Hidden \subseteq Hidden' /\ edit' = edit
  BY <1>1 DEF Hidden, Visible
<1>7. QED BY <1>1, <1>4, <1>5, <1>6, ChangeWitnessed

LEMMA BeginEditSound == ASSUME ViewsInv, NEW d \in Shelved, BeginEdit(d) PROVE ViewsInv'
<1>1. /\ FolderThere /\ edit = NoEdit /\ \A v \in Visits : ~visit[v].locked
      /\ edit' = [d |-> d, removes |-> (d \in shelf), del |-> {row \in projection : row[2] = d}]
      /\ refresh' = IF d \in shelf /\ refresh # NoRefresh THEN [refresh EXCEPT !.left = @ \union {d}]
                    ELSE refresh
      /\ UNCHANGED <<docRow, folderRow, shelf, inside, right, owed, cacheVars>> /\ Witnessed
      /\ LedgerTyped /\ CacheInv
  BY DEF BeginEdit, ViewsInv, CollectionsFree, NobodyDecides
<1>2. /\ edit'.d = d /\ (edit'.removes <=> d \in shelf) /\ edit'.del = {row \in projection : row[2] = d}
      /\ edit' \in [d : Shelved \union {Absent}, removes : BOOLEAN, del : SUBSET CacheRows]
  <2>1. PICK removes \in BOOLEAN : removes = (d \in shelf)
    <3>1. CASE d \in shelf
      <4>1. (d \in shelf) = TRUE
        BY <3>1
      <4>2. QED BY <4>1
    <3>2. CASE d \notin shelf
      <4>1. (d \in shelf) = FALSE
        BY <3>2
      <4>2. QED BY <4>1
    <3>3. QED BY <3>1, <3>2
  <2>2. PICK del : del = {row \in projection : row[2] = d}
    OBVIOUS
  <2>3. del \in SUBSET CacheRows
    BY <1>1, <2>2 DEF CacheInv
  <2>4. edit' = [d |-> d, removes |-> removes, del |-> del]
    BY <1>1, <2>1, <2>2
  <2>5. QED BY <2>1, <2>2, <2>3, <2>4
<1>3. /\ refresh' \in [r : Rights \union {Absent}, del : SUBSET CacheRows, put : SUBSET CacheRows,
                       left : SUBSET Shelved]
      /\ refresh'.r = refresh.r /\ refresh'.put = refresh.put /\ refresh.left \subseteq refresh'.left
      /\ d \in shelf => refresh' = NoRefresh \/ d \in refresh'.left
  BY <1>1 DEF LedgerTyped
<1>4. \A s : (Given(s)' <=> Given(s)) /\ Reach(s)' = Reach(s)
  BY <1>1 DEF Given, Reach, OnFolder
<1>5. LedgerTyped'
  BY <1>1, <1>2, <1>3, <1>4 DEF LedgerTyped, ForUser, OnFolder, FolderThere
<1>6. CacheWithinLive' /\ projection' = projection /\ raced' = raced
  BY <1>1, <1>4 DEF CacheInv, CacheWithinLive, ForUser, cacheVars
<1>7. ASSUME edit'.removes
      PROVE  /\ edit'.d \in Shelved
             /\ refresh' # NoRefresh /\ OnFolder(refresh'.r) => edit'.d \in refresh'.left
             /\ \A row \in projection' : OnFolder(row[1]) /\ row[2] = edit'.d => row \in edit'.del \union raced'
  BY <1>2, <1>3, <1>6, <1>7
<1>8. ASSUME NEW row \in refresh'.put
      PROVE  /\ row[1] = refresh'.r /\ Given(row[1])' /\ ForUser(row[1])
             /\ row[2] \in Reach(row[1])' \/ (OnFolder(row[1]) /\ row[2] \in refresh'.left)
  BY <1>1, <1>3, <1>4 DEF CacheInv
<1>9. CacheInv'
  BY <1>1, <1>6, <1>7, <1>8 DEF CacheInv, OnFolder, ForUser
<1>10. Hidden \subseteq Hidden'
  BY <1>1 DEF Hidden, Visible
<1>11. QED BY <1>1, <1>5, <1>9, <1>10, ChangeWitnessed

LEMMA CommitEditSound == ASSUME ViewsInv, CommitEdit PROVE ViewsInv'
<1>1. /\ edit # NoEdit /\ edit' = NoEdit
      /\ shelf' = IF edit.removes THEN shelf \ {edit.d} ELSE shelf \union {edit.d}
      /\ projection' = projection \ edit.del /\ raced' = raced \intersect projection'
      /\ UNCHANGED <<docRow, folderRow, inside, right, owed, refresh>> /\ Witnessed
      /\ LedgerTyped /\ CacheInv
  BY DEF CommitEdit, ViewsInv, CacheBecomes
<1>2. edit.d \in Shelved /\ FolderThere /\ edit.removes \in BOOLEAN
  BY <1>1 DEF LedgerTyped
<1>3. \A s : Given(s)' <=> Given(s)
  BY <1>1 DEF Given
<1>4. edit' \in [d : Shelved \union {Absent}, removes : BOOLEAN, del : SUBSET CacheRows] /\ ~edit'.removes
  BY <1>1 DEF NoEdit
<1>5. LedgerTyped'
  BY <1>1, <1>2, <1>3, <1>4 DEF LedgerTyped, ForUser, OnFolder, FolderThere
<1>6. ASSUME NEW s, NEW x \in Reach(s), ~OnFolder(s) \/ ~edit.removes \/ x # edit.d PROVE x \in Reach(s)'
  BY <1>1, <1>6 DEF Reach, OnFolder
<1>7. projection' \in SUBSET CacheRows /\ raced' \in SUBSET projection'
  BY <1>1 DEF CacheInv
<1>8. CacheWithinLive'
  <2>1. SUFFICES ASSUME NEW row \in projection'
                 PROVE  Given(row[1])' /\ ForUser(row[1]) /\ (row[2] \in Reach(row[1])' \/ row \in raced')
    BY DEF CacheWithinLive, ForUser
  <2>2. row \in projection /\ row \notin edit.del /\ (row \in raced => row \in raced')
    BY <1>1
  <2>3. Given(row[1]) /\ ForUser(row[1]) /\ (row[2] \in Reach(row[1]) \/ row \in raced)
    BY <1>1, <2>2 DEF CacheInv, CacheWithinLive
  <2>4. edit.removes /\ OnFolder(row[1]) /\ row[2] = edit.d => row \in raced
    BY <1>1, <2>2 DEF CacheInv
  <2>5. QED BY <1>3, <1>6, <2>2, <2>3, <2>4
<1>9. ASSUME NEW row \in refresh'.put
      PROVE  /\ row[1] = refresh'.r /\ Given(row[1])' /\ ForUser(row[1])
             /\ row[2] \in Reach(row[1])' \/ (OnFolder(row[1]) /\ row[2] \in refresh'.left)
  <2>1. /\ refresh' = refresh /\ row[1] = refresh.r /\ Given(row[1]) /\ ForUser(row[1])
        /\ row[2] \in Reach(row[1]) \/ (OnFolder(row[1]) /\ row[2] \in refresh.left)
    BY <1>1 DEF CacheInv
  <2>2. refresh # NoRefresh
    BY <2>1 DEF NoRefresh
  <2>3. edit.removes /\ OnFolder(row[1]) /\ row[2] = edit.d => row[2] \in refresh.left
    BY <1>1, <2>1, <2>2 DEF CacheInv
  <2>4. QED BY <1>3, <1>6, <2>1, <2>3
<1>10. CacheInv'
  BY <1>4, <1>7, <1>8, <1>9 DEF CacheInv, OnFolder, ForUser
<1>11. Hidden \subseteq Hidden'
  BY <1>1 DEF Hidden, Visible
<1>12. QED BY <1>1, <1>5, <1>10, <1>11, ChangeWitnessed

LEMMA DeleteFolderSound == ASSUME ViewsInv, DeleteFolder PROVE ViewsInv'
<1>1. PICK rights, cleaned :
        /\ rights = {r \in Rights : Given(r) /\ OnFolder(r)}
        /\ cleaned = {row \in projection : row[1] \in rights \/ row[2] \in shelf}
        /\ edit = NoEdit /\ Unwritten(cleaned \union (rights \X Shelved))
        /\ folderRow' = [folderRow EXCEPT !.status = "DELETED"]
        /\ right' = [r \in Rights |-> IF r \in rights THEN "revoked" ELSE right[r]]
        /\ owed' = owed \ rights
        /\ projection' = projection \ cleaned /\ raced' = raced \intersect projection'
        /\ shelf' = {} /\ inside' = {}
        /\ UNCHANGED <<docRow, edit, refresh>> /\ Witnessed
        /\ LedgerTyped /\ CacheInv
  BY DEF DeleteFolder, ViewsInv, CollectionsFree, CacheBecomes
<1>2. folderRow' \in ResourceRow
  BY <1>1 DEF LedgerTyped, ResourceRow
<1>3. \A r \in Rights : IF r \in rights THEN ~Given(r)' ELSE Given(r)' <=> Given(r)
  BY <1>1 DEF LedgerTyped, Given
<1>4. \A r \in Rights : OnFolder(r) => ~Given(r)'
  BY <1>1, <1>3
<1>5. right' \in [Rights -> {"none", "given", "lapsed", "revoked"}]
  BY <1>1 DEF LedgerTyped
<1>6. LedgerTyped'
  BY <1>1, <1>2, <1>4, <1>5 DEF LedgerTyped, ForUser, OnFolder, FolderThere
<1>7. \A s : ~OnFolder(s) => Reach(s)' = Reach(s)
  BY DEF Reach, OnFolder
<1>8. projection' \in SUBSET CacheRows /\ raced' \in SUBSET projection' /\ ~edit'.removes
  BY <1>1 DEF CacheInv, NoEdit
<1>9. CacheWithinLive'
  <2>1. SUFFICES ASSUME NEW row \in projection'
                 PROVE  Given(row[1])' /\ ForUser(row[1]) /\ (row[2] \in Reach(row[1])' \/ row \in raced')
    BY DEF CacheWithinLive, ForUser
  <2>2. row \in projection /\ row[1] \in Rights /\ row[1] \notin rights /\ (row \in raced => row \in raced')
    BY <1>1 DEF CacheInv, CacheRows
  <2>3. Given(row[1]) /\ ForUser(row[1]) /\ (row[2] \in Reach(row[1]) \/ row \in raced)
    BY <1>1, <2>2 DEF CacheInv, CacheWithinLive
  <2>4. ~OnFolder(row[1])
    BY <1>1, <2>2, <2>3
  <2>5. QED BY <1>3, <1>7, <2>2, <2>3, <2>4
<1>10. ASSUME NEW row \in refresh'.put
       PROVE  /\ row[1] = refresh'.r /\ Given(row[1])' /\ ForUser(row[1])
              /\ row[2] \in Reach(row[1])' \/ (OnFolder(row[1]) /\ row[2] \in refresh'.left)
  <2>1. /\ refresh' = refresh /\ row[1] = refresh.r /\ Given(row[1]) /\ ForUser(row[1])
        /\ row[2] \in Reach(row[1]) \/ (OnFolder(row[1]) /\ row[2] \in refresh.left)
    BY <1>1 DEF CacheInv
  <2>2. row \in CacheRows /\ row \in Uncommitted
    BY <1>1, <2>1 DEF LedgerTyped, Uncommitted
  <2>3. row[1] \in Rights /\ row[1] \notin rights
    BY <1>1, <2>2 DEF CacheRows, Unwritten
  <2>4. QED BY <1>1, <1>3, <1>7, <2>1, <2>3
<1>11. CacheInv'
  BY <1>8, <1>9, <1>10 DEF CacheInv, OnFolder, ForUser
<1>12. Hidden \subseteq Hidden' /\ edit' = edit
  BY <1>1 DEF Hidden, Visible
<1>13. QED BY <1>1, <1>6, <1>11, <1>12, ChangeWitnessed

LEMMA BeginRefreshSound == ASSUME ViewsInv, NEW r \in Rights, BeginRefresh(r) PROVE ViewsInv'
<1>1. PICK del, put :
        /\ del = {row \in projection : row[1] = r}
        /\ put = (IF InForce(r) THEN {r} \X Reach(r) ELSE {})
        /\ r \in owed /\ (OnFolder(r) => edit = NoEdit)
        /\ refresh' = [r |-> r, del |-> del, put |-> put, left |-> {}]
        /\ UNCHANGED <<docRow, folderRow, shelf, inside, right, owed, edit, cacheVars>> /\ Witnessed
        /\ LedgerTyped /\ CacheInv
  BY DEF BeginRefresh, ViewsInv, CollectionsFree
<1>2. del \in SUBSET CacheRows /\ put \in SUBSET CacheRows
  BY <1>1, ReachTyped DEF CacheInv
<1>3. refresh' \in [r : Rights \union {Absent}, del : SUBSET CacheRows, put : SUBSET CacheRows,
                    left : SUBSET Shelved]
  BY <1>1, <1>2
<1>4. \A s : (Given(s)' <=> Given(s)) /\ Reach(s)' = Reach(s)
  BY <1>1 DEF Given, Reach, OnFolder
<1>5. LedgerTyped'
  BY <1>1, <1>3, <1>4 DEF LedgerTyped, ForUser, OnFolder, FolderThere
<1>6. CacheWithinLive' /\ projection' = projection /\ raced' = raced
  BY <1>1, <1>4 DEF CacheInv, CacheWithinLive, ForUser, cacheVars
<1>7. ASSUME edit'.removes
      PROVE  /\ edit'.d \in Shelved
             /\ refresh' # NoRefresh /\ OnFolder(refresh'.r) => edit'.d \in refresh'.left
             /\ \A row \in projection' : OnFolder(row[1]) /\ row[2] = edit'.d => row \in edit'.del \union raced'
  <2>1. ~OnFolder(refresh'.r)
    BY <1>1, <1>7 DEF NoEdit
  <2>2. QED BY <1>1, <1>6, <1>7, <2>1 DEF CacheInv
<1>8. ASSUME NEW row \in refresh'.put
      PROVE  /\ row[1] = refresh'.r /\ Given(row[1])' /\ ForUser(row[1])
             /\ row[2] \in Reach(row[1])' \/ (OnFolder(row[1]) /\ row[2] \in refresh'.left)
  <2>1. row \in {r} \X Reach(r) /\ InForce(r) /\ ForUser(r)
    BY <1>1, <1>8 DEF LedgerTyped
  <2>2. Given(r)'
    BY <1>4, <2>1 DEF InForce, Given
  <2>3. QED BY <1>1, <1>4, <2>1, <2>2
<1>9. CacheInv'
  BY <1>1, <1>6, <1>7, <1>8 DEF CacheInv, OnFolder, ForUser
<1>10. Hidden \subseteq Hidden' /\ edit' = edit
  BY <1>1 DEF Hidden, Visible
<1>11. QED BY <1>1, <1>5, <1>9, <1>10, ChangeWitnessed

LEMMA CommitRefreshSound == ASSUME ViewsInv, CommitRefresh PROVE ViewsInv'
<1>1. PICK stale :
        /\ stale = {row \in refresh.put : OnFolder(row[1]) /\ row[2] \in refresh.left}
        /\ refresh # NoRefresh /\ refresh' = NoRefresh
        /\ projection' = (projection \ refresh.del) \union refresh.put
        /\ raced' = (raced \ refresh.del) \union stale
        /\ edit' = [edit EXCEPT !.del = @ \ refresh.put]
        /\ owed' = owed \ {refresh.r}
        /\ UNCHANGED <<docRow, folderRow, shelf, inside, right>> /\ Witnessed
        /\ LedgerTyped /\ CacheInv
  BY DEF CommitRefresh, ViewsInv
<1>2. /\ edit' \in [d : Shelved \union {Absent}, removes : BOOLEAN, del : SUBSET CacheRows]
      /\ edit'.d = edit.d /\ edit'.removes = edit.removes /\ edit'.del = edit.del \ refresh.put
      /\ edit = NoEdit => edit' = NoEdit
  <2>1. edit \in [d : Shelved \union {Absent}, removes : BOOLEAN, del : SUBSET CacheRows]
    BY <1>1 DEF LedgerTyped
  <2>2. PICK del : del = edit.del \ refresh.put
    OBVIOUS
  <2>3. edit' = [d |-> edit.d, removes |-> edit.removes, del |-> del] /\ del \in SUBSET CacheRows
    BY <1>1, <2>1, <2>2
  <2>4. /\ edit' \in [d : Shelved \union {Absent}, removes : BOOLEAN, del : SUBSET CacheRows]
        /\ edit'.d = edit.d /\ edit'.removes = edit.removes /\ edit'.del = edit.del \ refresh.put
    BY <2>1, <2>2, <2>3
  <2>5. edit = NoEdit => edit' = NoEdit
    BY <2>2, <2>3 DEF NoEdit
  <2>6. QED BY <2>4, <2>5
<1>3. refresh' \in [r : Rights \union {Absent}, del : SUBSET CacheRows, put : SUBSET CacheRows,
                    left : SUBSET Shelved]
  BY <1>1 DEF NoRefresh
<1>4. \A s : (Given(s)' <=> Given(s)) /\ Reach(s)' = Reach(s)
  BY <1>1 DEF Given, Reach, OnFolder
<1>5. LedgerTyped'
  BY <1>1, <1>2, <1>3, <1>4 DEF LedgerTyped, ForUser, OnFolder, FolderThere
<1>6. projection' \in SUBSET CacheRows /\ raced' \in SUBSET projection'
  BY <1>1 DEF CacheInv, LedgerTyped
<1>7. CacheWithinLive'
  <2>1. SUFFICES ASSUME NEW row \in projection'
                 PROVE  Given(row[1])' /\ ForUser(row[1]) /\ (row[2] \in Reach(row[1])' \/ row \in raced')
    BY DEF CacheWithinLive, ForUser
  <2>2. CASE row \in refresh.put
    BY <1>1, <1>4, <2>2 DEF CacheInv
  <2>3. CASE row \in projection \ refresh.del
    BY <1>1, <1>4, <2>3 DEF CacheInv, CacheWithinLive
  <2>4. QED BY <1>1, <2>2, <2>3
<1>8. ASSUME edit'.removes
      PROVE  /\ edit'.d \in Shelved
             /\ \A row \in projection' : OnFolder(row[1]) /\ row[2] = edit'.d => row \in edit'.del \union raced'
  <2>1. edit.removes /\ edit.d \in Shelved
    BY <1>1, <1>2, <1>8 DEF CacheInv
  <2>2. ASSUME NEW row \in projection', OnFolder(row[1]), row[2] = edit.d
        PROVE  row \in edit'.del \union raced'
    <3>1. CASE row \in refresh.put
      <4>1. row[1] = refresh.r
        BY <1>1, <3>1 DEF CacheInv
      <4>2. edit.d \in refresh.left
        BY <1>1, <2>1, <2>2, <4>1 DEF CacheInv
      <4>3. QED BY <1>1, <2>2, <3>1, <4>2
    <3>2. CASE row \in projection \ refresh.del /\ row \notin refresh.put
      <4>1. row \in edit.del \union raced
        BY <1>1, <2>1, <2>2, <3>2 DEF CacheInv
      <4>2. QED BY <1>1, <1>2, <3>2, <4>1
    <3>3. QED BY <1>1, <2>2, <3>1, <3>2
  <2>3. QED BY <1>2, <2>1, <2>2
<1>9. refresh' = NoRefresh /\ refresh'.put = {}
  BY <1>1 DEF NoRefresh
<1>10. CacheInv'
  BY <1>6, <1>7, <1>8, <1>9 DEF CacheInv, OnFolder, ForUser, NoRefresh
<1>11. Hidden \subseteq Hidden' /\ (edit' # NoEdit => edit # NoEdit)
  BY <1>1, <1>2 DEF Hidden, Visible
<1>12. QED BY <1>1, <1>5, <1>10, <1>11, ChangeWitnessed

LEMMA RollBackSound == ASSUME ViewsInv, RollBack PROVE ViewsInv'
<1>1. /\ (edit' = NoEdit /\ refresh' = refresh) \/ (refresh' = NoRefresh /\ edit' = edit)
      /\ UNCHANGED <<docRow, folderRow, shelf, inside, right, owed, cacheVars>> /\ Witnessed
      /\ LedgerTyped /\ CacheInv
  BY DEF RollBack, ViewsInv
<1>2. /\ edit' \in [d : Shelved \union {Absent}, removes : BOOLEAN, del : SUBSET CacheRows]
      /\ refresh' \in [r : Rights \union {Absent}, del : SUBSET CacheRows, put : SUBSET CacheRows,
                       left : SUBSET Shelved]
      /\ edit' = edit \/ (edit' = NoEdit /\ ~edit'.removes)
      /\ refresh' = refresh \/ (refresh' = NoRefresh /\ refresh'.put = {})
  <2>1. /\ NoEdit \in [d : Shelved \union {Absent}, removes : BOOLEAN, del : SUBSET CacheRows]
        /\ ~NoEdit.removes
    BY DEF NoEdit
  <2>2. /\ NoRefresh \in [r : Rights \union {Absent}, del : SUBSET CacheRows, put : SUBSET CacheRows,
                          left : SUBSET Shelved]
        /\ NoRefresh.put = {}
    BY DEF NoRefresh
  <2>3. QED BY <1>1, <2>1, <2>2 DEF LedgerTyped
<1>3. \A s : (Given(s)' <=> Given(s)) /\ Reach(s)' = Reach(s)
  BY <1>1 DEF Given, Reach, OnFolder
<1>4. LedgerTyped'
  BY <1>1, <1>2, <1>3 DEF LedgerTyped, ForUser, OnFolder, FolderThere
<1>5. CacheWithinLive' /\ projection' = projection /\ raced' = raced
  BY <1>1, <1>3 DEF CacheInv, CacheWithinLive, ForUser, cacheVars
<1>6. CacheInv'
  BY <1>1, <1>2, <1>3, <1>5 DEF CacheInv, OnFolder, ForUser
<1>7. Hidden \subseteq Hidden' /\ (edit' # NoEdit => edit # NoEdit)
  BY <1>1 DEF Hidden, Visible
<1>8. QED BY <1>1, <1>4, <1>6, <1>7, ChangeWitnessed

LEMMA ChangeStepSound == ASSUME ViewsInv, ChangeStep PROVE ViewsInv'
  BY GiveRightSound, RevokeRightSound, RightLapsesSound, BeginRefreshSound, TurnPublicSound,
     DeleteShelvedSound, BeginEditSound, ChangeInsideSound, TurnFolderSound, CommitEditSound,
     DeleteFolderSound, CommitRefreshSound, RollBackSound DEF ChangeStep

----------------------------------------------------------------------------
(* The invariant and what follows from it *)

LEMMA ReadingInitSound == ReadingInit => ReadingInv
<1> SUFFICES ASSUME ReadingInit PROVE ReadingInv
  OBVIOUS
<1>1. LedgerTyped
  <2>1. docRow \in [Shelved -> ResourceRow] /\ folderRow \in ResourceRow /\ FolderThere
    BY DEF ReadingInit, ResourceRow, FolderThere
  <2>2. right \in [Rights -> {"none", "given", "lapsed", "revoked"}]
    BY DEF ReadingInit
  <2>3. edit = NoEdit /\ edit \in [d : Shelved \union {Absent}, removes : BOOLEAN, del : SUBSET CacheRows]
    BY DEF ReadingInit, NoEdit
  <2>4. refresh \in [r : Rights \union {Absent}, del : SUBSET CacheRows, put : SUBSET CacheRows,
                     left : SUBSET Shelved]
    BY DEF ReadingInit, NoRefresh
  <2>5. shelf \in SUBSET Shelved /\ inside \in SUBSET Inner /\ owed \in SUBSET {r \in Rights : ForUser(r)}
    BY DEF ReadingInit
  <2>6. QED BY <2>1, <2>2, <2>3, <2>4, <2>5 DEF LedgerTyped
<1>2. CacheInv
  <2>1. projection = {} /\ raced = {} /\ ~edit.removes /\ refresh.put = {}
    BY DEF ReadingInit, NoEdit, NoRefresh
  <2>2. QED BY <2>1 DEF CacheInv, CacheWithinLive
<1>3. RequestsReading
  <2>1. Idle \in VisitRows /\ Idle.at = "done" /\ Idle.shown = {} /\ Idle.outcome = "none"
    BY DEF Idle, VisitRows, VisitPlaces, VisitOutcomes
  <2>2. VisitOver(Idle)
    BY <2>1 DEF VisitOver
  <2>3. visit = [v \in Visits |-> Idle] /\ edit = NoEdit
    BY DEF ReadingInit
  <2>4. QED BY <2>1, <2>2, <2>3 DEF RequestsReading, RequestSound
<1>4. ToolsInv
  <2>1. /\ windows = [k \in ToolKeys |-> NoWindow] /\ ticks = 0
        /\ admitted = [k \in ToolKeys |-> <<>>] /\ ToolLimit \in [ToolKeys -> Nat \ {0}]
    BY ReadingAssumption DEF ReadingInit
  <2>2. \A limit \in Nat \ {0} : WindowSound(NoWindow, <<>>, limit, 0) /\ Paced(<<>>, limit)
    BY DEF WindowSound, Paced
  <2>3. windows \in [ToolKeys -> WindowRows] /\ admitted \in [ToolKeys -> Seq(Nat)]
    BY <2>1 DEF WindowRows
  <2>4. QED BY <2>1, <2>2, <2>3 DEF ToolsInv
<1>5. QED BY <1>1, <1>2, <1>3, <1>4 DEF ReadingInv, ViewsInv

LEMMA ViewsKept == ASSUME ViewsInv, UNCHANGED viewVars PROVE ViewsInv'
<1>1. UNCHANGED ledgerVars /\ projection' = projection /\ raced' = raced /\ visit' = visit
  BY DEF viewVars, cacheVars
<1>2. CacheInv'
  BY <1>1, CacheKept DEF ViewsInv, cacheVars
<1>3. LedgerTyped'
  BY <1>1, LedgerStays DEF ViewsInv, LedgerTyped, FolderThere, ForUser, OnFolder
<1>4. Unentitled' = Unentitled /\ Hidden' = Hidden /\ edit' = edit
  BY <1>1, LedgerStays
<1>5. Misleading' = Misleading
  BY <1>1, LedgerStays DEF Misleading, ForUser, Matches
<1>6. RequestsReading'
  BY <1>1, <1>4, <1>5 DEF ViewsInv, RequestsReading
<1>7. QED BY <1>2, <1>3, <1>6 DEF ViewsInv

LEMMA ToolsKept == ASSUME ToolsInv, UNCHANGED toolVars PROVE ToolsInv'
  BY DEF ToolsInv, toolVars

LEMMA ReadingInvPreserved == ReadingInv /\ [ReadingNext]_readingVars => ReadingInv'
<1> SUFFICES ASSUME ReadingInv, [ReadingNext]_readingVars PROVE ReadingInv'
  OBVIOUS
<1>1. ViewsInv /\ ToolsInv
  BY DEF ReadingInv
<1>2. CASE ViewsNext
  BY <1>1, <1>2, VisitStepSound, ChangeStepSound, ToolsKept DEF ViewsNext, ReadingInv
<1>3. CASE ToolsNext
  BY <1>1, <1>3, TickSound, AcquireSound, ViewsKept DEF ToolsNext, ReadingInv
<1>4. CASE UNCHANGED readingVars
  <2>1. UNCHANGED viewVars /\ UNCHANGED toolVars
    BY <1>4 DEF readingVars
  <2>2. QED BY <1>1, <2>1, ViewsKept, ToolsKept DEF ReadingInv
<1>5. QED BY <1>2, <1>3, <1>4 DEF ReadingNext

LEMMA ReadingInvSound == ReadingInv => ReadingSound
<1> SUFFICES ASSUME ReadingInv PROVE ReadingSound
  OBVIOUS
<1>1. ViewsInv /\ ToolsInv
  BY DEF ReadingInv
<1>2. ASSUME NEW v \in Visits PROVE VisitOver(visit[v])
  <2>1. visit[v] \in VisitRows /\ RequestSound(visit[v], Unentitled, Misleading, Hidden)
    BY <1>1 DEF ViewsInv, RequestsReading
  <2>2. CASE visit[v].at = "done"
    BY <2>1, <2>2 DEF RequestSound
  <2>3. CASE visit[v].at # "done"
    BY <2>1, <2>3 DEF RequestSound, Running, VisitOver
  <2>4. QED BY <2>2, <2>3
<1>3. ShownWasReadable /\ DeletedToldToReaders
  BY <1>2 DEF VisitOver, ShownWasReadable, DeletedToldToReaders
<1>4. CacheWithinLive
  BY <1>1 DEF ViewsInv, CacheInv
<1>5. ToolsPaced
  BY <1>1 DEF ToolsInv, Paced, ToolsPaced
<1>6. QED BY <1>3, <1>4, <1>5 DEF ReadingSound

\* Whoever reads, whatever rights there are and whatever edits and refreshes overlap: a request
\* shows nothing deleted before it came, and but for rows of that cache which a race left
\* nothing that its user could not read at some moment of it; a deletion is told only to
\* readers; a cached row is given, and reaches its document or was left by that race; tools
\* are paced.  permissions/core.py, documents/query/flow.py, collections/core.py, mcp/tools.py.
THEOREM ReadingAlwaysSound == ReadingSpec => []ReadingSound
<1>1. QED BY ReadingInitSound, ReadingInvPreserved, ReadingInvSound, PTL DEF ReadingSpec

=============================================================================
