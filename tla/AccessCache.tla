----------------------------- MODULE AccessCache -----------------------------
(***************************************************************************)
(* Permissions, collections and the access cache of VectorShelf            *)
(* (src/src/permissions, src/src/collections): the ledger of direct        *)
(* permissions, the documents of a collection, and the projection of the   *)
(* two into document_permission_cache, from which access is decided.       *)
(*                                                                         *)
(* One process: its threads share the lock of the permission service and   *)
(* the lock of the collection service, and the row locks of PostgreSQL.    *)
(* A step is a statement or a run of statements that no lock and no other  *)
(* step can separate.  A transaction sees what is committed and what it    *)
(* wrote itself (READ COMMITTED); what it wrote to the cache is kept in    *)
(* its call, as rows put and rows deleted, until it commits.  A put is     *)
(* INSERT ... SELECT FROM direct_permissions ON CONFLICT DO NOTHING, and   *)
(* its foreign key keeps a permission from being deleted meanwhile.        *)
(*                                                                         *)
(* One user: the cache holds permissions given to users, and decisions     *)
(* about two users have nothing in common.  Permissions of roles and       *)
(* departments are never cached, owners never ask the cache.               *)
(***************************************************************************)
EXTENDS FiniteSets

CONSTANTS
    Clients,       \* request threads
    Dispatchers,   \* sync dispatcher threads
    Documents,
    Collections,
    Permissions,   \* ids of permissions of the user
    Resource,      \* the document or collection of a permission
    None           \* SQL NULL

Threads == Clients \cup Dispatchers

ASSUME AccessAssumption ==
    /\ Clients \cap Dispatchers = {}
    /\ Documents \cap Collections = {}
    /\ Resource \in [Permissions -> Documents \cup Collections]
    /\ None \notin Permissions \cup Documents \cup Collections
    /\ {"permissions", "collections"} \cap Collections = {}

VARIABLES
    permission,   \* direct_permissions, with the passing of expires_at
    mapping,      \* collection_documents
    deleted,      \* collections with status DELETED
    cache,        \* document_permission_cache
    event,        \* published refresh events that are not processed
    call,         \* the operation each thread is in
    raced         \* history: rows written and not committed when a removal deleted the
                  \* rows of their document, so that it could not see them

vars == <<permission, mapping, deleted, cache, event, call, raced>>

-----------------------------------------------------------------------------
(* Calls and locks. *)

Rows == Permissions \X Documents
Locks == {"permissions", "collections"} \cup Collections

\* Operations that take the lock of the collections first; "change" is
\* update_visibility, and create under a parent.
CatalogFirst == {"add", "remove", "change"}
Edits == {"add", "remove", "delete"}

Call == [op : {"none", "read", "list", "grant", "revoke", "refresh"} \cup Edits \cup CatalogFirst,
         at : {"none", "rows", "cached", "project", "put", "answer", "lock", "resource", "catalog",
               "write", "delete", "deleted", "invalidate", "invalidated", "commit"},
         held : SUBSET Locks,
         p : Permissions \cup {None}, d : Documents \cup {None},
         c : Collections \cup {None}, action : {"GRANT", "REVOKE", None},
         todo : SUBSET Permissions, docs : SUBSET Documents,
         put : SUBSET Rows, del : SUBSET Rows]

NoCall == [op |-> "none", at |-> "none", held |-> {}, p |-> None, d |-> None, c |-> None,
           action |-> None, todo |-> {}, docs |-> {}, put |-> {}, del |-> {}]

TypeOK ==
    /\ permission \in [Permissions -> {"NONE", "ACTIVE", "EXPIRED", "REVOKED"}]
    /\ mapping \in SUBSET (Collections \X Documents)
    /\ deleted \in SUBSET Collections
    /\ cache \in SUBSET Rows
    /\ event \in SUBSET (Permissions \X {"GRANT", "REVOKE"})
    /\ call \in [Threads -> Call]
    /\ raced \in SUBSET Rows

Init ==
    /\ permission = [p \in Permissions |-> "NONE"]
    /\ mapping = {}
    /\ deleted = {}
    /\ cache = {}
    /\ event = {}
    /\ call = [t \in Threads |-> NoCall]
    /\ raced = {}

Busy(t, at) == call[t].at = at
Doing(t, ops) == call[t].op \in ops
Becomes(t, rec) == call' = [call EXCEPT ![t] = rec]

\* No other thread holds the lock.
Free(t, lock) == \A u \in Threads \ {t} : lock \notin call[u].held

\* No other transaction has written one of these rows and not committed.
Unwritten(t, rows) ==
    \A u \in Threads \ {t} : rows \cap (call[u].put \cup call[u].del) = {}

\* The row exists, expired or not.
Given(p) == permission[p] \in {"ACTIVE", "EXPIRED"}
Active(p) == permission[p] = "ACTIVE"

OnCollection(p) == Resource[p] \in Collections

\* What a transaction sees of the cache.
Seen(t, d) == {p \in Permissions : <<p, d>> \in (cache \ call[t].del) \cup call[t].put}

\* The commit of t: rows that another transaction is deleting and that were put
\* anew by t are not the rows it saw, so it does not delete them.
Committed(t) ==
    /\ cache' = (cache \ call[t].del) \cup call[t].put
    /\ call' = [u \in Threads |->
                  IF u = t THEN NoCall ELSE [call[u] EXCEPT !.del = @ \ call[t].put]]

\* Mutant of DeleteOrder: the lock of the collections is taken first.
DeleteOrderInverted == <<"collections", "permissions">>

\* execute_collection_delete takes the locks in the order of the permission methods.
DeleteOrder == <<"permissions", "collections">>

\* The lock or the locked row a thread waits for next, if any.
Wanted(t) ==
    CASE Busy(t, "rows") -> "collections"
      [] Busy(t, "catalog") -> DeleteOrder[2]
      [] Busy(t, "resource") /\ OnCollection(call[t].p) -> "collections"
      [] Busy(t, "project") /\ call[t].p # None /\ OnCollection(call[t].p) -> "collections"
      [] Busy(t, "lock") /\ Doing(t, {"grant", "revoke"}) -> Resource[call[t].p]
      [] Busy(t, "lock") /\ Doing(t, Edits \cup CatalogFirst) -> call[t].c
      [] Busy(t, "invalidate") -> "permissions"
      [] OTHER -> None

\* Any exception: the transaction is rolled back and the locks are released.  A
\* thread that waits for an RLock has no timeout and raises nothing.
Fails(t) ==
    /\ ~Doing(t, {"none"})
    /\ Wanted(t) \in {"permissions", "collections"} => Free(t, Wanted(t))
    /\ Becomes(t, NoCall)
    /\ UNCHANGED <<permission, mapping, deleted, cache, event>>

Expire(p) ==
    /\ permission[p] = "ACTIVE"
    /\ permission' = [permission EXCEPT ![p] = "EXPIRED"]
    /\ UNCHANGED <<mapping, deleted, cache, event, call>>

\* Begins an operation by taking a lock.
Begin(t, lock, rec) ==
    /\ Doing(t, {"none"}) /\ Free(t, lock)
    /\ Becomes(t, [rec EXCEPT !.held = {lock}])
    /\ UNCHANGED <<permission, mapping, deleted, cache, event>>

-----------------------------------------------------------------------------
(* Projection, shared by reading, grant and refresh: _project. *)

\* Mutant of CatalogRead: the documents of a collection are read without its service's lock.
CatalogReadUnlocked(t, p) == TRUE

\* A collection and its documents are read under the lock of the collections.
CatalogRead(t, p) == OnCollection(p) => Free(t, "collections")

\* The documents a permission reaches.
Reached(p) ==
    IF OnCollection(p) THEN {d \in Documents : <<Resource[p], d>> \in mapping}
    ELSE {Resource[p]}

\* A user's active permission is put for the documents it reaches; the lock of the
\* collections is held only while they are read.
Project(t) ==
    LET p == call[t].p IN
    /\ Busy(t, "project") /\ p # None
    /\ CatalogRead(t, p)
    /\ Becomes(t, [call[t] EXCEPT !.at = "put", !.docs = Reached(p)])
    /\ UNCHANGED <<permission, mapping, deleted, cache, event>>

\* The rows a put inserts: none if the permission is gone or the rows are there.
Inserted(t) ==
    LET p == call[t].p IN
    {r \in {p} \X call[t].docs :
        /\ Given(p) \/ Doing(t, {"grant"})
        /\ r \notin cache \ call[t].del}

\* put_cached_grant; a single decision runs outside of a transaction and commits
\* each put at once.
Put(t) ==
    /\ Busy(t, "put")
    /\ Unwritten(t, {call[t].p} \X call[t].docs)
    /\ IF Doing(t, {"read"})
         THEN /\ cache' = cache \cup Inserted(t)
              /\ Becomes(t, [call[t] EXCEPT !.at = "project", !.p = None, !.docs = {}])
         ELSE /\ Becomes(t, [call[t] EXCEPT
                     !.at = IF Doing(t, {"list"}) THEN "project" ELSE "commit",
                     !.p = IF Doing(t, {"list"}) THEN None ELSE @,
                     !.docs = {}, !.put = @ \cup Inserted(t),
                     !.held = IF Doing(t, {"refresh"}) THEN {} ELSE @])
              /\ UNCHANGED cache
    /\ UNCHANGED <<permission, mapping, deleted, event>>

-----------------------------------------------------------------------------
(* Decisions: allows ("read", for one document) and readable_document_ids    *)
(* ("list", in one transaction).                                             *)

Decide(t, op, d) == Begin(t, "permissions", [NoCall EXCEPT !.op = op, !.at = "rows", !.d = d])

\* _document_rows: the active permissions of the document and its collections.
DocumentRows(t) ==
    LET d == call[t].d IN
    /\ Busy(t, "rows") /\ Free(t, "collections")
    /\ Becomes(t, [call[t] EXCEPT
           !.at = "cached",
           !.todo = {p \in Permissions :
                        /\ Active(p)
                        /\ \/ Resource[p] = d
                           \/ OnCollection(p) /\ <<Resource[p], d>> \in mapping}])
    /\ UNCHANGED <<permission, mapping, deleted, cache, event>>

\* _cached_user_grants: only a miss projects the rows.
CachedGrants(t) ==
    /\ Busy(t, "cached")
    /\ Becomes(t, [call[t] EXCEPT
           !.at = "project", !.todo = IF Seen(t, call[t].d) = {} THEN @ ELSE {}])
    /\ UNCHANGED <<permission, mapping, deleted, cache, event>>

NextRow(t) ==
    /\ Busy(t, "project") /\ call[t].p = None
    /\ IF call[t].todo = {}
         THEN Becomes(t, [call[t] EXCEPT !.at = "answer"])
         ELSE \E p \in call[t].todo :
                Becomes(t, [call[t] EXCEPT !.todo = @ \ {p},
                                           !.p = IF Active(p) THEN p ELSE None])
    /\ UNCHANGED <<permission, mapping, deleted, cache, event>>

\* The rows of the document that have expired.
Expired(t) == {<<p, call[t].d>> : p \in {q \in Seen(t, call[t].d) : ~Active(q)}}

\* The decision, which drops expired rows from the cache (replace_cached_grants).
\* A list goes on with another document or commits.
Answer(t) ==
    /\ Busy(t, "answer")
    /\ Expired(t) # {} => Unwritten(t, Permissions \X {call[t].d})
    /\ \/ /\ Doing(t, {"read"})
          /\ cache' = cache \ Expired(t)
          /\ Becomes(t, NoCall)
       \/ /\ Doing(t, {"list"})
          /\ \E d \in Documents \ {call[t].d} :
                Becomes(t, [call[t] EXCEPT !.at = "rows", !.d = d, !.put = @ \ Expired(t),
                                           !.del = @ \cup (cache \cap Expired(t))])
          /\ UNCHANGED cache
       \/ /\ Doing(t, {"list"})
          /\ cache' = ((cache \ call[t].del) \cup call[t].put) \ Expired(t)
          /\ call' = [u \in Threads |->
                        IF u = t THEN NoCall ELSE [call[u] EXCEPT !.del = @ \ call[t].put]]
    /\ UNCHANGED <<permission, mapping, deleted, event>>

-----------------------------------------------------------------------------
(* grant and revoke, by the owner of the resource. *)

Grant(t, p) ==
    /\ permission[p] = "NONE"
    /\ \A u \in Threads : ~(Doing(u, {"grant"}) /\ call[u].p = p)
    /\ Begin(t, "permissions", [NoCall EXCEPT !.op = "grant", !.at = "lock", !.p = p])

Revoke(t, p) ==
    Begin(t, "permissions", [NoCall EXCEPT !.op = "revoke", !.at = "lock", !.p = p])

\* lock_resource; a document's row matters to nobody here.
LockResource(t) ==
    LET r == Resource[call[t].p] IN
    /\ Busy(t, "lock") /\ Doing(t, {"grant", "revoke"})
    /\ r \in Collections => Free(t, r)
    /\ Becomes(t, [call[t] EXCEPT !.at = "resource",
                                  !.held = IF r \in Collections THEN @ \cup {r} ELSE @])
    /\ UNCHANGED <<permission, mapping, deleted, cache, event>>

\* _require_resource reads a collection under the lock of the collections.
RequireResource(t) ==
    LET p == call[t].p IN
    /\ Busy(t, "resource")
    /\ CatalogRead(t, p)
    /\ Becomes(t, IF Resource[p] \in deleted THEN NoCall
                  ELSE [call[t] EXCEPT !.at = IF Doing(t, {"grant"}) THEN "project" ELSE "write"])
    /\ UNCHANGED <<permission, mapping, deleted, cache, event>>

CommitGrant(t) ==
    LET p == call[t].p IN
    /\ Busy(t, "commit") /\ Doing(t, {"grant"})
    /\ permission' = [permission EXCEPT ![p] = "ACTIVE"]
    /\ event' = event \cup {<<p, "GRANT">>}
    /\ Committed(t)
    /\ UNCHANGED <<mapping, deleted>>

\* lock_permission waits for those who put rows of the permission.
CommitRevoke(t) ==
    LET p == call[t].p IN
    /\ Busy(t, "write") /\ Doing(t, {"revoke"})
    /\ Unwritten(t, {p} \X Documents)
    /\ IF Given(p)
         THEN /\ permission' = [permission EXCEPT ![p] = "REVOKED"]
              /\ cache' = cache \ ({p} \X Documents)
              /\ event' = event \cup {<<p, "REVOKE">>}
         ELSE UNCHANGED <<permission, cache, event>>
    /\ Becomes(t, NoCall)
    /\ UNCHANGED <<mapping, deleted>>

-----------------------------------------------------------------------------
(* commit_sync_permission_refresh, inside the transaction of dispatch_one,   *)
(* which commits after the lock of the permission service is released.       *)

\* Another dispatcher does not have the same event (SyncOutbox).
Refresh(t, p, action) ==
    /\ <<p, action>> \in event
    /\ \A u \in Threads : ~(Doing(u, {"refresh"}) /\ call[u].p = p /\ call[u].action = action)
    /\ Begin(t, "permissions", [NoCall EXCEPT !.op = "refresh", !.at = "delete", !.p = p,
                                              !.action = action])

\* _invalidate_permission: a DELETE sees the rows that are committed when it begins
\* and waits for others that are writing them.
InvalidatePermission(t) ==
    /\ Busy(t, "delete")
    /\ Becomes(t, [call[t] EXCEPT !.at = "deleted",
                                  !.del = cache \cap ({call[t].p} \X Documents)])
    /\ UNCHANGED <<permission, mapping, deleted, cache, event>>

Invalidated(t) ==
    LET project == call[t].action = "GRANT" /\ Active(call[t].p) IN
    /\ Busy(t, "deleted") /\ Unwritten(t, call[t].del)
    /\ Becomes(t, [call[t] EXCEPT !.at = IF project THEN "project" ELSE "commit",
                                  !.held = IF project THEN @ ELSE {}])
    /\ UNCHANGED <<permission, mapping, deleted, cache, event>>

CommitRefresh(t) ==
    /\ Busy(t, "commit") /\ Doing(t, {"refresh"})
    /\ event' = event \ {<<call[t].p, call[t].action>>}
    /\ Committed(t)
    /\ UNCHANGED <<permission, mapping, deleted>>

-----------------------------------------------------------------------------
(* Collections: add_document, remove_document, delete. *)

Edit(t, op, c, d) ==
    Begin(t, "collections", [NoCall EXCEPT !.op = op, !.at = "lock", !.c = c, !.d = d])

Change(t, c) == Begin(t, "collections", [NoCall EXCEPT !.op = "change", !.at = "lock", !.c = c])

\* lock_collections and the checks that follow.
LockCollection(t) ==
    LET c == call[t].c  mapped == <<c, call[t].d>> \in mapping IN
    /\ Busy(t, "lock") /\ Doing(t, CatalogFirst) /\ Free(t, c)
    /\ Becomes(t, IF c \in deleted \/ (Doing(t, {"add"}) /\ mapped)
                       \/ (Doing(t, {"remove"}) /\ ~mapped)
                  THEN NoCall
                  ELSE [call[t] EXCEPT
                          !.at = IF Doing(t, {"change"}) THEN "commit" ELSE "invalidate",
                          !.held = @ \cup {c}])
    /\ UNCHANGED <<permission, mapping, deleted, cache, event>>

\* invalidate_document_cache takes the lock of the permission service.
Invalidator(t) == Free(t, "permissions")

InvalidateDocument(t) ==
    /\ Busy(t, "invalidate") /\ Invalidator(t)
    /\ Becomes(t, [call[t] EXCEPT !.at = "invalidated", !.held = @ \cup {"permissions"},
                                  !.del = cache \cap (Permissions \X {call[t].d})])
    /\ UNCHANGED <<permission, mapping, deleted, cache, event>>

DocumentInvalidated(t) ==
    /\ Busy(t, "invalidated") /\ Unwritten(t, call[t].del)
    /\ Becomes(t, [call[t] EXCEPT !.at = "commit", !.held = @ \ {"permissions"}])
    /\ UNCHANGED <<permission, mapping, deleted, cache, event>>

CommitEdit(t) ==
    LET m == <<call[t].c, call[t].d>> IN
    /\ Busy(t, "commit") /\ Doing(t, CatalogFirst)
    /\ mapping' = CASE Doing(t, {"add"}) -> mapping \cup {m}
                    [] Doing(t, {"remove"}) -> mapping \ {m}
                    [] OTHER -> mapping
    /\ Committed(t)
    /\ UNCHANGED <<permission, deleted, event>>

DeleteCollection(t, c) ==
    Begin(t, DeleteOrder[1], [NoCall EXCEPT !.op = "delete", !.at = "catalog", !.c = c])

LockCatalog(t) ==
    /\ Busy(t, "catalog") /\ Free(t, DeleteOrder[2])
    /\ Becomes(t, [call[t] EXCEPT !.at = "lock", !.held = @ \cup {DeleteOrder[2]}])
    /\ UNCHANGED <<permission, mapping, deleted, cache, event>>

\* The permissions of a collection, and the rows a deletion invalidates.
PermissionsOf(c) == {p \in Permissions : Resource[p] = c /\ Given(p)}
Cleaned(c) ==
    {r \in Rows : <<c, r[2]>> \in mapping \/ r[1] \in PermissionsOf(c)}

\* _delete_plan, _cleanup and apply.  The locks keep everyone out but a refresh that
\* has still to commit; a row it puts between the two DELETEs of _cleanup violates the
\* foreign key, and the deletion Fails.
CommitDelete(t) ==
    LET c == call[t].c IN
    /\ Busy(t, "lock") /\ Doing(t, {"delete"}) /\ Free(t, c)
    /\ Becomes(t, NoCall)
    /\ IF c \in deleted
         THEN UNCHANGED <<permission, mapping, deleted, cache, event>>
         ELSE /\ Unwritten(t, (cache \cap Cleaned(c)) \cup (PermissionsOf(c) \X Documents))
              /\ permission' = [p \in Permissions |->
                                  IF p \in PermissionsOf(c) THEN "REVOKED" ELSE permission[p]]
              /\ mapping' = {m \in mapping : m[1] # c}
              /\ deleted' = deleted \cup {c}
              /\ cache' = cache \ Cleaned(c)
              /\ event' = event \cup (PermissionsOf(c) \X {"REVOKE"})

-----------------------------------------------------------------------------
(* Specification. *)

\* The rows of transactions that have not committed.
Pending == UNION {call[t].put : t \in Threads}

\* From its invalidation to its commit, a removal makes the row wrong.
Removing(t) == Doing(t, {"remove"}) /\ (Busy(t, "invalidated") \/ Busy(t, "commit"))
Removes(t, r) == Removing(t) /\ Resource[r[1]] = call[t].c /\ r[2] = call[t].d

\* The rows that a removal cannot see when it deletes those of its document.
Missed == {r \in Pending : \E t \in Threads : ~Removes(t, r) /\ Removes(t, r)'}

\* They count as long as the removal may commit and, once it has, while they are wrong.
Races ==
    raced' = {r \in raced \cup Missed :
                 /\ r \in cache' \/ r \in Pending'
                 /\ r[2] \notin Reached(r[1])' \/ \E t \in Threads : Removes(t, r)'}

ClientStep(t) ==
    \/ \E d \in Documents : Decide(t, "read", d) \/ Decide(t, "list", d)
    \/ DocumentRows(t) \/ CachedGrants(t) \/ NextRow(t) \/ Answer(t)
    \/ \E p \in Permissions : Grant(t, p) \/ Revoke(t, p)
    \/ LockResource(t) \/ RequireResource(t) \/ CommitGrant(t) \/ CommitRevoke(t)
    \/ \E c \in Collections, d \in Documents : Edit(t, "add", c, d) \/ Edit(t, "remove", c, d)
    \/ LockCollection(t) \/ InvalidateDocument(t) \/ DocumentInvalidated(t) \/ CommitEdit(t)
    \/ \E c \in Collections : Change(t, c) \/ DeleteCollection(t, c)
    \/ LockCatalog(t) \/ CommitDelete(t)

DispatcherStep(t) ==
    \/ \E p \in Permissions, action \in {"GRANT", "REVOKE"} : Refresh(t, p, action)
    \/ InvalidatePermission(t) \/ Invalidated(t) \/ CommitRefresh(t)

Next ==
    /\ \/ \E t \in Clients : ClientStep(t)
       \/ \E t \in Dispatchers : DispatcherStep(t)
       \/ \E t \in Threads : Project(t) \/ Put(t) \/ Fails(t)
       \/ \E p \in Permissions : Expire(p)
    /\ Races

Spec == Init /\ [][Next]_vars

-----------------------------------------------------------------------------
(* Properties. *)

\* The cache never lets a user do what the ledger does not: when a document leaves
\* a collection, or a permission its ledger, its rows leave the cache with it and
\* no reader that began earlier puts them back.  It does not hold: a refresh that has
\* given back its lock and not committed puts the row of a removed document back.
CacheCovered == \A r \in cache : Given(r[1]) /\ r[2] \in Reached(r[1])

\* What does hold: no row outlives its permission, and none its mapping but one that
\* was written and not committed when the removal deleted the rows of the document.
\* Neither readers, nor grants, nor any refresh but such a one put a row back, nor does
\* a removal that began before another operation's commit forget one.
Covers(r) == r[2] \in Reached(r[1]) \/ r \in raced
CoveredOrRaced == \A r \in cache : Given(r[1]) /\ Covers(r)

\* What keeps it so.  Decisions, grants, revocations and deletions work under the lock
\* of the permission service, edits under the lock of the collection service; a refresh
\* gives its lock back before it commits.
LocksOf(t) ==
    /\ Doing(t, {"none"}) => call[t].held = {}
    /\ Doing(t, {"read", "list", "grant", "revoke", "delete"}) => "permissions" \in call[t].held
    /\ Doing(t, {"refresh"}) =>
          IF Busy(t, "commit") THEN call[t].held = {} ELSE "permissions" \in call[t].held
    /\ Doing(t, CatalogFirst) => "collections" \in call[t].held
    /\ Doing(t, {"delete"}) /\ Busy(t, "lock") => "collections" \in call[t].held

LocksKept ==
    /\ \A t \in Threads : LocksOf(t)
    /\ \A t, u \in Threads : t # u => call[t].held \cap call[u].held = {}

\* The steps of each operation, its arguments, and the calls that write to the cache.
CallFormed(t) ==
    /\ Doing(t, {"none"}) => Busy(t, "none")
    /\ Doing(t, {"read", "list"}) => call[t].at \in {"rows", "cached", "project", "put", "answer"}
    /\ Doing(t, {"grant"}) => call[t].at \in {"lock", "resource", "project", "put", "commit"}
    /\ Doing(t, {"revoke"}) => call[t].at \in {"lock", "resource", "write"}
    /\ Doing(t, {"refresh"}) => call[t].at \in {"delete", "deleted", "project", "put", "commit"}
    /\ Doing(t, {"add", "remove"}) => call[t].at \in {"lock", "invalidate", "invalidated", "commit"}
    /\ Doing(t, {"change"}) => call[t].at \in {"lock", "commit"}
    /\ Doing(t, {"delete"}) => call[t].at \in {"catalog", "lock"}
    /\ Doing(t, {"grant", "revoke", "refresh"}) \/ Busy(t, "put") => call[t].p \in Permissions
    /\ Doing(t, CatalogFirst \cup {"delete"}) => call[t].c \in Collections
    /\ Doing(t, {"add", "remove"}) => call[t].d \in Documents
    /\ call[t].put # {} => Doing(t, {"list", "grant", "refresh"})
    /\ Doing(t, {"grant"}) => permission[call[t].p] = "NONE"

CallsFormed == \A t \in Threads : CallFormed(t)

\* What is about to be written is covered: a row keeps its permission from being
\* revoked until it is committed, and that of a grant becomes active with it.
CallCovered(t) ==
    /\ \A r \in call[t].put :
          /\ Covers(r)
          /\ \/ Given(r[1])
             \/ Doing(t, {"grant"}) /\ r[1] = call[t].p
    /\ Busy(t, "put") => call[t].docs \subseteq Reached(call[t].p)

PendingCovered == \A t \in Threads : CallCovered(t)

\* A removal has all rows that it makes wrong on its list but the raced ones, and
\* nobody is about to write more of them.
PutsApart(u, c, d) ==
    /\ \A r \in call[u].put : Resource[r[1]] = c /\ r[2] = d => r \in raced
    /\ Busy(u, "put") => ~OnCollection(call[u].p)

RemovalComplete ==
    \A t \in Threads : Removing(t) =>
        /\ \A r \in cache : Removes(t, r) => r \in call[t].del \cup raced
        /\ \A u \in Threads \ {t} : PutsApart(u, call[t].c, call[t].d)

\* Between the steps of readers, refreshes, invalidations and edits of a collection,
\* with what each has written and not committed, the cache holds only such rows.
CacheSound ==
    /\ TypeOK /\ CoveredOrRaced
    /\ LocksKept /\ CallsFormed /\ PendingCovered /\ RemovalComplete

Stuck(t, u) == Wanted(t) \in call[u].held /\ Wanted(u) \in call[t].held

\* No two threads of the process wait for each other's locks, whichever methods of
\* the two services they are in: no grant, decision, edit or deletion hangs for good.
NoCircularWait == \A t, u \in Threads : t # u => ~Stuck(t, u)

\* All operations but those that take the lock of the collections first (add_document,
\* remove_document, update_visibility, create) agree on one order of the locks: no
\* two threads wait for each other unless one of them is in one of these.
OnlyEditsInvertLocks ==
    \A t, u \in Threads :
        t # u /\ Stuck(t, u) => Doing(t, CatalogFirst) \/ Doing(u, CatalogFirst)

=============================================================================
