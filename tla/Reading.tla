------------------------------- MODULE Reading -------------------------------
(***************************************************************************)
(* Reading documents through REST and through the tools of MCP: who may    *)
(* (src/src/permissions/core.py), and the requests of                      *)
(* src/src/documents/query/flow.py, src/src/collections/core.py and        *)
(* src/src/mcp/, each of which reads, asks and reads again while documents, *)
(* permissions and collections change under it.                            *)
(*                                                                         *)
(* One process, as in AccessCache.  A step is a statement, or a run of     *)
(* them that no lock lets anyone separate.  A decision is several: it      *)
(* holds the lock of the permissions from its first to its last, which     *)
(* keeps out grants, revocations, deletions of collections and the         *)
(* beginnings of edits and refreshes, but not documents, the clock, or     *)
(* the commit of what began before.  Edits of the collection and the       *)
(* refresh of an event hold their own locks until they commit; that the    *)
(* two locks may wait for each other is in AccessCache.                    *)
(*                                                                         *)
(* What is shown of a document is only its id.  A call of a tool first asks *)
(* for a place in its window: the windows, which see nothing but the clock, *)
(* are stepped apart from the requests.                                    *)
(***************************************************************************)
EXTENDS Integers, FiniteSets, Sequences

CONSTANTS Visits,      \* requests
          Visitors,    \* who asks: [user, roles, department]
          Shelved,     \* documents
          Folder,      \* a collection
          Inner,       \* collections that may be in it
          OwnerOf,     \* the user who owns each document and the collection
          Rights,      \* ids of direct permissions
          RightRow,    \* their rows: [on, target, who]
          Absent,      \* SQL NULL
          MaxChanges,  \* bound: changes while requests run
          ToolKeys,    \* pairs of user and tool
          ToolLimit,   \* calls of each pair in one window
          Minute,      \* its length, in ticks of the clock
          MaxTicks     \* bound of the clock

ASSUME ReadingAssumption ==
    /\ Folder \notin Shelved /\ Inner \intersect (Shelved \union {Folder}) = {}
    /\ Absent \notin Shelved \union Rights
    /\ \A r \in Rights : RightRow[r].on \in Shelved \union {Folder}
    /\ MaxChanges \in Nat /\ ToolLimit \in [ToolKeys -> Nat \ {0}] /\ Minute \in Nat \ {0} /\ MaxTicks \in Nat

VARIABLES docRow,      \* documents: [status, visibility]
          folderRow,   \* the collection: [status, visibility]
          shelf,       \* the documents in it
          inside,      \* the collections in it that are not deleted
          right,       \* direct_permissions, with the passing of expires_at
          owed,        \* published refresh events of grants that are not processed
          projection,  \* document_permission_cache: pairs of permission and document
          edit,        \* the uncommitted addition or removal of a document
          refresh,     \* the uncommitted refresh of a permission
          raced,       \* rows put by a refresh that overlapped the removal of their document
          changes,     \* changes so far
          visit,       \* the requests
          windows,     \* ToolRateLimiter._windows
          ticks,       \* the monotonic clock
          admitted     \* when the calls of each pair were let through

cacheVars == <<projection, raced>>
ledgerVars == <<docRow, folderRow, shelf, inside, right, owed, edit, refresh, changes>>
viewVars == <<ledgerVars, cacheVars, visit>>
toolVars == <<windows, ticks, admitted>>
readingVars == <<viewVars, toolVars>>

\* A request that is over keeps what it has shown until the next one.
Idle == [op |-> "none", at |-> "done", who |-> Absent, live |-> FALSE, locked |-> FALSE,
         docs |-> {}, now |-> Absent, deleted |-> FALSE, allowed |-> FALSE, todo |-> {},
         picked |-> {}, outcome |-> "none", shown |-> {}, unread |-> {}, gone |-> {}, misled |-> {}]
NoEdit == [d |-> Absent, removes |-> FALSE, del |-> {}]
NoRefresh == [r |-> Absent, del |-> {}, put |-> {}, left |-> {}]
NoWindow == [started |-> -1, count |-> 0, last |-> -1]

ForUser(r) == RightRow[r].target = "USER"
OnFolder(r) == RightRow[r].on = Folder
Given(r) == right[r] \in {"given", "lapsed"}
InForce(r) == right[r] = "given"

\* The cache may have been emptied, whatever the ledger says.
ReadingInit ==
    /\ docRow = [d \in Shelved |-> [status |-> "ACTIVE", visibility |-> "PRIVATE"]]
    /\ folderRow = [status |-> "ACTIVE", visibility |-> "PRIVATE"]
    /\ shelf \in SUBSET Shelved /\ inside \in SUBSET Inner
    /\ right \in [Rights -> {"none", "given"}] /\ owed = {r \in Rights : Given(r) /\ ForUser(r)}
    /\ projection = {} /\ edit = NoEdit /\ refresh = NoRefresh /\ raced = {} /\ changes = 0
    /\ visit = [v \in Visits |-> Idle]
    /\ windows = [k \in ToolKeys |-> NoWindow] /\ ticks = 0 /\ admitted = [k \in ToolKeys |-> <<>>]

----------------------------------------------------------------------------
(* Who may.  Only READ is asked for here, which every kind of permission gives. *)

Matches(who, r) ==
    \/ ForUser(r) /\ who.user # Absent /\ who.user = RightRow[r].who
    \/ RightRow[r].target = "DEPARTMENT" /\ who.department # Absent /\ who.department = RightRow[r].who
    \/ RightRow[r].target = "ROLE" /\ RightRow[r].who \in who.roles

Owns(who, resource) == who.user # Absent /\ who.user = OwnerOf[resource]
Visible(d) == docRow[d].status # "DELETED"
FolderThere == folderRow.status # "DELETED"

\* The documents a permission reaches.
Reach(r) == IF OnFolder(r) THEN shelf ELSE {RightRow[r].on}

\* _document_rows, those in force that match: on the document, or on a collection it is in
\* that is not deleted.
LiveRights(who, d) ==
    {r \in Rights : /\ InForce(r) /\ Matches(who, r) /\ d \in Reach(r)
                    /\ OnFolder(r) => FolderThere}

\* What the ledger says at one moment, of a document deleted or not.
Entitled(who, d) == Owns(who, d) \/ docRow[d].visibility = "PUBLIC" \/ LiveRights(who, d) # {}

FolderRights(who) == {r \in Rights : OnFolder(r) /\ InForce(r) /\ Matches(who, r)}
FolderAllows(who) ==
    FolderThere /\ (Owns(who, Folder) \/ folderRow.visibility = "PUBLIC" \/ FolderRights(who) # {})

Unentitled ==
    [who \in Visitors |-> {d \in Shelved : ~Entitled(who, d)} \union {f \in {Folder} : ~FolderAllows(who)}]

\* What the rows that a race left in the cache would give.
Misleading ==
    [who \in Visitors |->
        {row[2] : row \in {x \in raced : InForce(x[1]) /\ ForUser(x[1]) /\ Matches(who, x[1])}}]

----------------------------------------------------------------------------
(* Locks *)

Uncommitted == edit.del \union refresh.del \union refresh.put

\* The statement of an edit that forgets its document's rows waits for a refresh that has
\* written one of them, and has the lock of the permissions until then.
EditWaits == edit.del \intersect (refresh.del \union refresh.put) # {}

\* The lock of the permissions, and that of the collections.
PermissionsFree(v) == ~EditWaits /\ \A u \in Visits \ {v} : ~visit[u].locked
NobodyDecides == ~EditWaits /\ \A u \in Visits : ~visit[u].locked
CollectionsFree == edit = NoEdit

\* Nobody else has written the rows and not committed.
Unwritten(rows) == rows \intersect Uncommitted = {}

CacheBecomes(rows) == projection' = rows /\ raced' = raced \intersect rows

----------------------------------------------------------------------------
(* Requests *)

\* What is read of one document: "document" is its detail, its status, its content or its
\* file, "mcp" a tool for its detail or its status.
DocOps == {"document", "mcp"}
ListOps == {"list", "list_deleted"}
FolderOps == {"get", "folders", "children", "folder"}

VisitAt(v, at) == visit[v].at = at
To(v, row) == visit' = [visit EXCEPT ![v] = row]
Moves(v, at) == To(v, [visit[v] EXCEPT !.at = at])

Come(v) ==
    /\ VisitAt(v, "done")
    /\ \E who \in Visitors, op \in DocOps \union ListOps \union FolderOps, d \in Shelved :
        To(v, [Idle EXCEPT !.op = op, !.at = IF op = "mcp" THEN "ask" ELSE "look", !.who = who,
                           !.live = (op = "mcp"), !.now = IF op \in DocOps THEN d ELSE Absent,
                           !.docs = IF op \in DocOps THEN {d} ELSE {}, !.unread = Unentitled[who],
                           !.gone = {x \in Shelved : ~Visible(x)}, !.misled = Misleading[who]])
    /\ UNCHANGED <<ledgerVars, cacheVars>>

Finished(u, outcome, shown) ==
    [u EXCEPT !.at = "done", !.live = FALSE, !.locked = FALSE, !.docs = {}, !.deleted = FALSE,
              !.allowed = FALSE, !.todo = {}, !.picked = {}, !.outcome = outcome, !.shown = shown]
Deny(v, outcome) == To(v, Finished(visit[v], outcome, {}))
Show(v, docs) == To(v, Finished(visit[v], "shown", docs))

\* What follows a decision about a document.  The prefilter of a collection decides all its
\* documents before it gives the lock back, mcp_document_access tells of a deletion only to
\* who may read.
AfterDecision(u, may) ==
    LET free == [u EXCEPT !.at = "ask", !.allowed = FALSE, !.todo = {},
                          !.locked = (u.op = "folder" /\ ~u.live /\ u.docs # {})]
    IN  IF u.op \notin DocOps
          THEN [free EXCEPT !.now = Absent, !.picked = IF may THEN @ \union {u.now} ELSE @]
        ELSE IF ~may THEN Finished(u, "denied", {})
        ELSE IF ~u.live THEN [free EXCEPT !.at = "again"]
        ELSE IF u.deleted THEN Finished(u, "deleted", {})
        ELSE [free EXCEPT !.at = "look", !.live = FALSE, !.docs = {u.now}]

\* A decision begins with the row of the document.  Only mcp_document_access goes on with
\* one that is deleted; an owner is asked nothing more.
ReadRow(v) ==
    /\ VisitAt(v, "ask") /\ PermissionsFree(v)
    /\ \E d \in visit[v].docs :
        LET u == [visit[v] EXCEPT !.at = "rows", !.locked = TRUE, !.now = d, !.docs = @ \ {d},
                                  !.deleted = ~Visible(d),
                                  !.allowed = docRow[d].visibility = "PUBLIC"]
        IN  To(v, IF ~Visible(d) /\ (u.op # "mcp" \/ ~u.live) THEN AfterDecision(u, FALSE)
                  ELSE IF Owns(u.who, d) THEN AfterDecision(u, TRUE)
                  ELSE u)
    /\ UNCHANGED <<ledgerVars, cacheVars>>

\* The permissions of the document and of its collection.  With the live ledger they
\* decide; else those of the user himself count only if they are cached.
ReadRights(v) ==
    LET u == visit[v]
        rights == LiveRights(u.who, u.now)
    IN  /\ VisitAt(v, "rows") /\ CollectionsFree
        /\ To(v, IF u.live THEN AfterDecision(u, u.allowed \/ rights # {})
                 ELSE [u EXCEPT !.at = "cache", !.todo = {r \in rights : ForUser(r)},
                                !.allowed = @ \/ \E r \in rights : ~ForUser(r)])
        /\ UNCHANGED <<ledgerVars, cacheVars>>

\* cached_grants.
CachedFor(who, d) ==
    {r \in Rights : Given(r) /\ ForUser(r) /\ Matches(who, r) /\ <<r, d>> \in projection}

\* When anything is cached nothing is projected.
ReadCache(v) ==
    /\ VisitAt(v, "cache")
    /\ To(v, [visit[v] EXCEPT !.at = "put",
                  !.todo = IF CachedFor(visit[v].who, visit[v].now) = {} THEN @ ELSE {}])
    /\ UNCHANGED <<ledgerVars, cacheVars>>

\* _project, for all documents that the permission reaches.
ProjectRight(v) ==
    /\ VisitAt(v, "put")
    /\ \E r \in visit[v].todo :
        /\ To(v, [visit[v] EXCEPT !.todo = @ \ {r}])
        /\ IF InForce(r) THEN /\ Unwritten({r} \X Reach(r))
                              /\ projection' = projection \union ({r} \X Reach(r))
                              /\ UNCHANGED raced
           ELSE UNCHANGED cacheVars
    /\ UNCHANGED ledgerVars

\* Mutant of Usable: what has expired since it was cached is used.
UsableAsFound(rights) == rights

Usable(rights) == {r \in rights : InForce(r)}

\* The cache is read again, and decides; what has expired leaves it.
Answer(v) ==
    LET u == visit[v]
        cached == CachedFor(u.who, u.now)
        usable == Usable(cached)
        expired == {<<r, u.now>> : r \in cached \ usable}
    IN  /\ VisitAt(v, "put") /\ u.todo = {} /\ Unwritten(expired)
        /\ To(v, AfterDecision(u, u.allowed \/ usable # {}))
        /\ CacheBecomes(projection \ expired)
        /\ UNCHANGED ledgerVars

----------------------------------------------------------------------------
(* Documents: detail, status, content and file, and list *)

\* The document is there, or not.
LookFirst(v) ==
    /\ VisitAt(v, "look") /\ visit[v].op \in DocOps
    /\ IF Visible(visit[v].now) THEN Moves(v, "ask") ELSE Deny(v, "absent")
    /\ UNCHANGED <<ledgerVars, cacheVars>>

LookAgain(v) ==
    /\ VisitAt(v, "again") /\ visit[v].op \in DocOps
    /\ IF Visible(visit[v].now) THEN Show(v, {visit[v].now}) ELSE Deny(v, "absent")
    /\ UNCHANGED <<ledgerVars, cacheVars>>

\* Documents of a status, or all that are not deleted.
OfStatus(v) == {d \in Shelved : visit[v].op = "list_deleted" <=> ~Visible(d)}

ListCandidates(v) ==
    /\ VisitAt(v, "look") /\ visit[v].op \in ListOps
    /\ To(v, [visit[v] EXCEPT !.at = "ask", !.docs = OfStatus(v)])
    /\ UNCHANGED <<ledgerVars, cacheVars>>

ListPicked(v) ==
    /\ VisitAt(v, "ask") /\ visit[v].docs = {} /\ visit[v].op \in ListOps
    /\ Show(v, visit[v].picked \intersect OfStatus(v))
    /\ UNCHANGED <<ledgerVars, cacheVars>>

----------------------------------------------------------------------------
(* Collections: get, list, children and documents *)

\* A collection that is not there is no candidate of a list.
LookFolder(v) ==
    /\ VisitAt(v, "look") /\ visit[v].op \in FolderOps /\ CollectionsFree
    /\ IF FolderThere THEN Moves(v, "weigh")
       ELSE IF visit[v].op = "folders" THEN Show(v, {}) ELSE Deny(v, "absent")
    /\ UNCHANGED <<ledgerVars, cacheVars>>

\* What follows the decision about the collection.
AfterFolder(u, may) ==
    LET free == [u EXCEPT !.locked = FALSE, !.allowed = FALSE]
    IN  IF may /\ u.op \in {"children", "folder"} THEN [free EXCEPT !.at = "enter"]
        ELSE IF may THEN Finished(u, "shown", {Folder})
        ELSE IF u.op = "folders" THEN Finished(u, "shown", {})
        ELSE Finished(u, "denied", {})

ReadFolder(v) ==
    /\ VisitAt(v, "weigh") /\ PermissionsFree(v) /\ CollectionsFree
    /\ LET u == [visit[v] EXCEPT !.at = "weighed", !.locked = TRUE,
                                 !.allowed = folderRow.visibility = "PUBLIC"]
       IN  To(v, IF ~FolderThere THEN AfterFolder(u, FALSE)
                 ELSE IF Owns(u.who, Folder) THEN AfterFolder(u, TRUE)
                 ELSE u)
    /\ UNCHANGED <<ledgerVars, cacheVars>>

ReadFolderRights(v) ==
    /\ VisitAt(v, "weighed")
    /\ To(v, AfterFolder(visit[v], visit[v].allowed \/ FolderRights(visit[v].who) # {}))
    /\ UNCHANGED <<ledgerVars, cacheVars>>

\* All collections in it are shown, whatever may be said of each.
Children(v) ==
    /\ VisitAt(v, "enter") /\ visit[v].op = "children" /\ CollectionsFree
    /\ IF FolderThere THEN Show(v, inside) ELSE Deny(v, "absent")
    /\ UNCHANGED <<ledgerVars, cacheVars>>

FolderDocuments(v) ==
    /\ VisitAt(v, "enter") /\ visit[v].op = "folder" /\ CollectionsFree
    /\ To(v, [visit[v] EXCEPT !.at = "ask", !.docs = shelf])
    /\ UNCHANGED <<ledgerVars, cacheVars>>

\* Each document that the cache allows is decided again, live; what is shown is not read again.
CheckLive(v) ==
    /\ VisitAt(v, "ask") /\ visit[v].docs = {} /\ visit[v].op = "folder"
    /\ IF visit[v].live \/ visit[v].picked = {} THEN Show(v, visit[v].picked)
       ELSE To(v, [visit[v] EXCEPT !.live = TRUE, !.docs = visit[v].picked, !.picked = {}])
    /\ UNCHANGED <<ledgerVars, cacheVars>>

VisitStep(v) ==
    \/ Come(v) \/ ReadRow(v) \/ ReadRights(v) \/ ReadCache(v) \/ ProjectRight(v) \/ Answer(v)
    \/ LookFirst(v) \/ LookAgain(v) \/ ListCandidates(v) \/ ListPicked(v) \/ LookFolder(v)
    \/ ReadFolder(v) \/ ReadFolderRights(v) \/ Children(v) \/ FolderDocuments(v) \/ CheckLive(v)

----------------------------------------------------------------------------
(* Changes, by whoever may make them *)

\* What a request may ever have read, or been misled about, while it ran.
Witnessed ==
    visit' = [v \in Visits |->
        IF VisitAt(v, "done") THEN visit[v]
        ELSE [visit[v] EXCEPT !.unread = @ \intersect Unentitled'[visit[v].who],
                              !.misled = @ \union Misleading'[visit[v].who]]]

Change == changes < MaxChanges /\ changes' = changes + 1

\* The row of a collection is locked by whoever changes it or gives rights on it.
GiveRight(r) ==
    /\ Change /\ right[r] = "none" /\ NobodyDecides
    /\ IF OnFolder(r) THEN CollectionsFree /\ FolderThere ELSE Visible(RightRow[r].on)
    /\ right' = [right EXCEPT ![r] = "given"]
    /\ IF ForUser(r) THEN /\ owed' = owed \union {r}
                          /\ projection' = projection \union ({r} \X Reach(r))
       ELSE UNCHANGED <<owed, projection>>
    /\ UNCHANGED <<docRow, folderRow, shelf, inside, edit, refresh, raced>>
    /\ Witnessed

RevokeRight(r) ==
    /\ Change /\ Given(r) /\ NobodyDecides
    /\ IF OnFolder(r) THEN CollectionsFree /\ FolderThere ELSE Visible(RightRow[r].on)
    /\ Unwritten({r} \X Shelved)
    /\ right' = [right EXCEPT ![r] = "revoked"] /\ owed' = owed \ {r}
    /\ CacheBecomes({row \in projection : row[1] # r})
    /\ UNCHANGED <<docRow, folderRow, shelf, inside, edit, refresh>>
    /\ Witnessed

RightLapses(r) ==
    /\ Change /\ InForce(r)
    /\ right' = [right EXCEPT ![r] = "lapsed"]
    /\ UNCHANGED <<docRow, folderRow, shelf, inside, owed, edit, refresh, cacheVars>>
    /\ Witnessed

TurnPublic(d) ==
    /\ Change /\ Visible(d)
    /\ docRow' = [docRow EXCEPT ![d].visibility = IF @ = "PUBLIC" THEN "PRIVATE" ELSE "PUBLIC"]
    /\ UNCHANGED <<folderRow, shelf, inside, right, owed, edit, refresh, cacheVars>>
    /\ Witnessed

TurnFolder ==
    /\ Change /\ FolderThere /\ CollectionsFree
    /\ folderRow' = [folderRow EXCEPT !.visibility = IF @ = "PUBLIC" THEN "PRIVATE" ELSE "PUBLIC"]
    /\ UNCHANGED <<docRow, shelf, inside, right, owed, edit, refresh, cacheVars>>
    /\ Witnessed

DeleteShelved(d) ==
    /\ Change /\ Visible(d)
    /\ docRow' = [docRow EXCEPT ![d].status = "DELETED"]
    /\ UNCHANGED <<folderRow, shelf, inside, right, owed, edit, refresh, cacheVars>>
    /\ Witnessed

\* A collection is created in it, or one in it is deleted.
ChangeInside(c) ==
    /\ Change /\ FolderThere /\ CollectionsFree
    /\ c \in inside => NobodyDecides
    /\ inside' = IF c \in inside THEN inside \ {c} ELSE inside \union {c}
    /\ UNCHANGED <<docRow, folderRow, shelf, right, owed, edit, refresh, cacheVars>>
    /\ Witnessed

\* Adding and removing a document both forget what is cached for it, as far as the
\* statement sees it.
BeginEdit(d) ==
    /\ Change /\ FolderThere /\ CollectionsFree /\ NobodyDecides
    /\ d \notin shelf => Visible(d)
    /\ edit' = [d |-> d, removes |-> (d \in shelf), del |-> {row \in projection : row[2] = d}]
    /\ refresh' = IF d \in shelf /\ refresh # NoRefresh THEN [refresh EXCEPT !.left = @ \union {d}]
                  ELSE refresh
    /\ UNCHANGED <<docRow, folderRow, shelf, inside, right, owed, cacheVars>>
    /\ Witnessed

CommitEdit ==
    /\ edit # NoEdit /\ ~EditWaits
    /\ shelf' = IF edit.removes THEN shelf \ {edit.d} ELSE shelf \union {edit.d}
    /\ CacheBecomes(projection \ edit.del)
    /\ edit' = NoEdit
    /\ UNCHANGED <<docRow, folderRow, inside, right, owed, refresh, changes>>
    /\ Witnessed

\* With the collections in it, its permissions and what is cached for its documents.
DeleteFolder ==
    LET rights == {r \in Rights : Given(r) /\ OnFolder(r)}
        cleaned == {row \in projection : row[1] \in rights \/ row[2] \in shelf}
    IN  /\ Change /\ FolderThere /\ CollectionsFree /\ NobodyDecides
        /\ Unwritten(cleaned \union (rights \X Shelved))
        /\ folderRow' = [folderRow EXCEPT !.status = "DELETED"]
        /\ right' = [r \in Rights |-> IF r \in rights THEN "revoked" ELSE right[r]]
        /\ owed' = owed \ rights
        /\ CacheBecomes(projection \ cleaned)
        /\ shelf' = {} /\ inside' = {}
        /\ UNCHANGED <<docRow, edit, refresh>>
        /\ Witnessed

\* The refresh of a grant; that of a revocation finds nothing to forget.  One at a time:
\* a process has one dispatcher.
BeginRefresh(r) ==
    /\ Change /\ r \in owed /\ refresh = NoRefresh /\ NobodyDecides
    /\ OnFolder(r) => CollectionsFree
    /\ Unwritten({r} \X Shelved)
    /\ refresh' = [r |-> r, del |-> {row \in projection : row[1] = r},
                   put |-> IF InForce(r) THEN {r} \X Reach(r) ELSE {}, left |-> {}]
    /\ UNCHANGED <<docRow, folderRow, shelf, inside, right, owed, edit, cacheVars>>
    /\ Witnessed

\* An edit that is forgetting rows does not see those put anew.
CommitRefresh ==
    /\ refresh # NoRefresh
    /\ projection' = (projection \ refresh.del) \union refresh.put
    /\ raced' = (raced \ refresh.del)
                \union {row \in refresh.put : OnFolder(row[1]) /\ row[2] \in refresh.left}
    /\ edit' = [edit EXCEPT !.del = @ \ refresh.put]
    /\ owed' = owed \ {refresh.r} /\ refresh' = NoRefresh
    /\ UNCHANGED <<docRow, folderRow, shelf, inside, right, changes>>
    /\ Witnessed

\* An exception: the transaction is rolled back.
RollBack ==
    /\ \/ edit # NoEdit /\ ~EditWaits /\ edit' = NoEdit /\ UNCHANGED refresh
       \/ refresh # NoRefresh /\ refresh' = NoRefresh /\ UNCHANGED edit
    /\ UNCHANGED <<docRow, folderRow, shelf, inside, right, owed, changes, cacheVars>>
    /\ Witnessed

ChangeStep ==
    \/ \E r \in Rights : GiveRight(r) \/ RevokeRight(r) \/ RightLapses(r) \/ BeginRefresh(r)
    \/ \E d \in Shelved : TurnPublic(d) \/ DeleteShelved(d) \/ BeginEdit(d)
    \/ \E c \in Inner : ChangeInside(c)
    \/ TurnFolder \/ CommitEdit \/ DeleteFolder \/ CommitRefresh \/ RollBack

ViewsNext == (ChangeStep \/ \E v \in Visits : VisitStep(v)) /\ UNCHANGED toolVars

----------------------------------------------------------------------------
(* ToolRateLimiter.acquire *)

\* Mutant of Remembered: a window is forgotten as soon as a tick passes without a call.
RememberedBriefly(k) == windows[k] # NoWindow /\ ticks - windows[k].last < 1

\* Windows not used for two minutes are dropped, whichever pair is asked for.
Remembered(k) == windows[k] # NoWindow /\ ticks - windows[k].last < 2 * Minute

Acquire(k) ==
    LET kept == [j \in ToolKeys |-> IF Remembered(j) THEN windows[j] ELSE NoWindow]
        fresh == kept[k] = NoWindow \/ ticks - kept[k].started >= Minute
        free == fresh \/ kept[k].count < ToolLimit[k]
        started == IF fresh THEN ticks ELSE kept[k].started
        count == IF fresh THEN 1 ELSE IF free THEN kept[k].count + 1 ELSE kept[k].count
    IN  /\ windows' = [kept EXCEPT ![k] = [started |-> started, count |-> count, last |-> ticks]]
        /\ admitted' = IF free THEN [admitted EXCEPT ![k] = Append(@, ticks)] ELSE admitted
        /\ UNCHANGED ticks

TickTools ==
    /\ ticks < MaxTicks
    /\ ticks' = ticks + 1
    /\ UNCHANGED <<windows, admitted>>

ToolsNext == (TickTools \/ \E k \in ToolKeys : Acquire(k)) /\ UNCHANGED viewVars

ReadingNext == ViewsNext \/ ToolsNext
ReadingSpec == ReadingInit /\ [][ReadingNext]_readingVars

----------------------------------------------------------------------------
(* A request shows nothing that was deleted before it came, and only what  *)
(* its user was entitled to read at some moment while it ran, whatever was *)
(* revoked, expired, moved, hidden or deleted between its reads and within *)
(* a decision: this holds of the tools, of the documents of a collection   *)
(* and of collections, which ask the ledger, and of the collections shown  *)
(* in one, for which their parent must be readable.  The requests that     *)
(* decide from the cache only, of which no one asks again, show besides it *)
(* at most documents of which a refresh that overlapped their removal from *)
(* a collection left a row (access_stale), while that row is in force.     *)
ShownWasReadable ==
    \A v \in Visits :
        LET u == visit[v]
            unreadable == u.shown \intersect u.unread
        IN  /\ u.shown \intersect u.gone = {}
            /\ IF u.op \in ListOps \union {"document"} THEN unreadable \subseteq u.misled
               ELSE unreadable = {}
            /\ u.op = "children" /\ u.shown # {} => Folder \notin u.unread

(* That a document is deleted, and not that it is not there, is told by a  *)
(* tool only to users who could have read it while the request ran         *)
(* (src/src/permissions/core.py:504).                                      *)
DeletedToldToReaders ==
    \A v \in Visits : visit[v].op = "mcp" /\ visit[v].outcome = "deleted" =>
        visit[v].now \notin visit[v].unread

(* After every order of changes, decisions and refreshes a cached row is   *)
(* one that the ledger gives and that reaches its document, or was left by *)
(* a refresh that overlapped the removal of its document from the          *)
(* collection: nothing else may put a wrong row there, nor leave one.      *)
CacheWithinLive ==
    \A row \in projection :
        Given(row[1]) /\ ForUser(row[1]) /\ (row[2] \in Reach(row[1]) \/ row \in raced)

(* Windows follow each other: among the calls of a user to a tool that are *)
(* let through, each is a minute before the one that is two windows of     *)
(* calls later, however windows are dropped and by whichever call.         *)
ToolsPaced ==
    \A k \in ToolKeys : \A i \in 1 .. Len(admitted[k]) - 2 * ToolLimit[k] :
        admitted[k][i + 2 * ToolLimit[k]] - admitted[k][i] >= Minute

(* See the four above.                                                     *)
ReadingSound == ShownWasReadable /\ DeletedToldToReaders /\ CacheWithinLive /\ ToolsPaced
=============================================================================
