-------------------------- MODULE AccessCacheProofs --------------------------
(***************************************************************************)
(* The access cache of any number of users' permissions, documents,        *)
(* collections, requests and dispatchers: it never holds more than the     *)
(* ledger but rows that a removal could not see (CacheSound), and the      *)
(* operations that do not edit agree on the order of the locks.            *)
(***************************************************************************)
EXTENDS AccessCache, TLAPS

USE AccessAssumption DEF Threads

-----------------------------------------------------------------------------
(* Calls and locks. *)

\* What a call is, one field at a time.
LEMMA CallFields ==
    ASSUME NEW r \in Call
    PROVE  /\ r.held \subseteq Locks /\ r.todo \subseteq Permissions
           /\ r.docs \subseteq Documents /\ r.put \subseteq Rows /\ r.del \subseteq Rows
           /\ r.p \in Permissions \cup {None} /\ r.d \in Documents \cup {None}
           /\ r.c \in Collections \cup {None}
  BY DEF Call

LEMMA NoCallIsCall == NoCall \in Call
  BY DEF NoCall, Call, Rows

LEMMA ReachedDocuments ==
    ASSUME NEW p \in Permissions
    PROVE  Reached(p) \subseteq Documents
  BY DEF Reached, OnCollection

LEMMA InitSound == Init => CacheSound
<1> SUFFICES ASSUME Init PROVE CacheSound
  OBVIOUS
<1> USE DEF Init
<1>1. \A t \in Threads : call[t] = NoCall
  OBVIOUS
<1>2. TypeOK
  BY NoCallIsCall DEF TypeOK
<1>3. CoveredOrRaced /\ RemovalComplete
  BY <1>1 DEF CoveredOrRaced, RemovalComplete, Removing, Doing, NoCall
<1>4. LocksKept
  BY <1>1 DEF LocksKept, LocksOf, Doing, Busy, NoCall, CatalogFirst
<1>5. CallsFormed /\ PendingCovered
  BY <1>1 DEF CallsFormed, CallFormed, PendingCovered, CallCovered, Doing, Busy, NoCall, CatalogFirst
<1> QED
  BY <1>2, <1>3, <1>4, <1>5 DEF CacheSound

-----------------------------------------------------------------------------
(* Type correctness. *)

Local == UNCHANGED <<permission, mapping, deleted, cache, event>>

LEMMA BecomesType ==
    ASSUME TypeOK, NEW t \in Threads, NEW r \in Call, Becomes(t, r)
    PROVE  /\ call' \in [Threads -> Call]
           /\ call'[t] = r
           /\ \A u \in Threads \ {t} : call'[u] = call[u]
  BY DEF TypeOK, Becomes

\* What a commit of t leaves of the other calls.
OthersKept(t, rows) ==
    \A u \in Threads \ {t} :
        /\ call'[u].op = call[u].op /\ call'[u].at = call[u].at /\ call'[u].held = call[u].held
        /\ call'[u].p = call[u].p /\ call'[u].c = call[u].c /\ call'[u].d = call[u].d
        /\ call'[u].docs = call[u].docs /\ call'[u].put = call[u].put
        /\ call'[u].del = call[u].del \ rows

LEMMA Commits ==
    ASSUME TypeOK, NEW t \in Threads,
           call' = [u \in Threads |->
                      IF u = t THEN NoCall ELSE [call[u] EXCEPT !.del = @ \ call[t].put]]
    PROVE  call' \in [Threads -> Call] /\ call'[t] = NoCall /\ OthersKept(t, call[t].put)
<1>1. call'[t] = NoCall
  OBVIOUS
<1>2. ASSUME NEW u \in Threads \ {t}
      PROVE  /\ call'[u] \in Call
             /\ call'[u].op = call[u].op /\ call'[u].at = call[u].at
             /\ call'[u].held = call[u].held
             /\ call'[u].p = call[u].p /\ call'[u].c = call[u].c /\ call'[u].d = call[u].d
             /\ call'[u].docs = call[u].docs /\ call'[u].put = call[u].put
             /\ call'[u].del = call[u].del \ call[t].put
  <2>1. call[u] \in Call
    BY DEF TypeOK
  <2>2. call'[u] = [call[u] EXCEPT !.del = @ \ call[t].put]
    OBVIOUS
  <2>3. call'[u] \in Call
    BY <2>1, <2>2 DEF Call
  <2>4. /\ call'[u].op = call[u].op /\ call'[u].at = call[u].at
        /\ call'[u].held = call[u].held
        /\ call'[u].p = call[u].p /\ call'[u].c = call[u].c /\ call'[u].d = call[u].d
        /\ call'[u].docs = call[u].docs /\ call'[u].put = call[u].put
        /\ call'[u].del = call[u].del \ call[t].put
    BY <2>1, <2>2 DEF Call
  <2> QED
    BY <2>3, <2>4
<1> QED
  BY <1>1, <1>2, NoCallIsCall DEF OthersKept

Typed ==
    /\ permission \in [Permissions -> {"NONE", "ACTIVE", "EXPIRED", "REVOKED"}]
    /\ mapping \in SUBSET (Collections \X Documents)
    /\ deleted \in SUBSET Collections
    /\ cache \in SUBSET Rows
    /\ event \in SUBSET (Permissions \X {"GRANT", "REVOKE"})
    /\ raced \in SUBSET Rows

LockInv == TypeOK /\ LocksKept /\ CallsFormed

\* A thread goes on: the locks it has now it had, or nobody had.
LEMMA LocksMove ==
    ASSUME LockInv, NEW t \in Threads, NEW r \in Call, Becomes(t, r), Typed',
           \A l \in r.held : l \in call[t].held \/ Free(t, l),
           LocksOf(t)', CallFormed(t)',
           \A u \in Threads \ {t} :
              Doing(u, {"grant"}) => permission'[call[u].p] = permission[call[u].p]
    PROVE  LockInv'
<1> USE DEF LockInv
<1>1. /\ call' \in [Threads -> Call]
      /\ call'[t] = r
      /\ \A u \in Threads \ {t} : call'[u] = call[u]
  BY BecomesType
<1>2. TypeOK'
  BY <1>1 DEF Typed, TypeOK
<1>3. \A u \in Threads : LocksOf(u)'
  BY <1>1 DEF LocksKept, LocksOf, Doing, Busy
<1>4. \A u \in Threads : CallFormed(u)'
  BY <1>1 DEF CallsFormed, CallFormed, Doing, Busy
<1>5. \A u, w \in Threads : u # w => (call[u].held \cap call[w].held = {})'
  <2> SUFFICES ASSUME NEW u \in Threads, NEW w \in Threads, u # w, NEW l,
                      l \in call'[u].held, l \in call'[w].held
               PROVE  FALSE
    OBVIOUS
  <2>1. \A x \in Threads : call[x].held \subseteq Locks /\ call'[x].held \subseteq Locks
    BY <1>1, CallFields DEF TypeOK
  <2>2. CASE u = t
    BY <1>1, <2>1, <2>2 DEF Free, LocksKept
  <2>3. CASE w = t
    BY <1>1, <2>1, <2>3 DEF Free, LocksKept
  <2>4. CASE u # t /\ w # t
    BY <1>1, <2>1, <2>4 DEF LocksKept
  <2> QED
    BY <2>2, <2>3, <2>4
<1> QED
  BY <1>2, <1>3, <1>4, <1>5 DEF LocksKept, CallsFormed

\* A thread commits: of the others only what they are deleting changes.
LEMMA LocksCommit ==
    ASSUME LockInv, NEW t \in Threads, Typed', call' \in [Threads -> Call], call'[t] = NoCall,
           NEW rows, OthersKept(t, rows),
           \A u \in Threads \ {t} :
              Doing(u, {"grant"}) => permission'[call[u].p] = permission[call[u].p]
    PROVE  LockInv'
<1> USE DEF LockInv
<1>1. TypeOK'
  BY DEF Typed, TypeOK
<1>3. \A u \in Threads : LocksOf(u)'
  <2>1. LocksOf(t)'
    BY DEF LocksOf, Doing, Busy, NoCall, CatalogFirst
  <2>2. ASSUME NEW u \in Threads \ {t} PROVE LocksOf(u)'
    BY DEF OthersKept, LocksKept, LocksOf, Doing, Busy
  <2> QED
    BY <2>1, <2>2
<1>4. \A u \in Threads : CallFormed(u)'
  <2>1. CallFormed(t)'
    BY DEF CallFormed, Doing, Busy, NoCall, CatalogFirst
  <2>2. ASSUME NEW u \in Threads \ {t} PROVE CallFormed(u)'
    BY DEF OthersKept, CallsFormed, CallFormed, Doing, Busy
  <2> QED
    BY <2>1, <2>2
<1>5. \A u, w \in Threads : u # w => (call[u].held \cap call[w].held = {})'
  BY DEF OthersKept, LocksKept, NoCall
<1> QED
  BY <1>1, <1>3, <1>4, <1>5 DEF LocksKept, CallsFormed

\* How an operation begins: its first step and its first lock.
Opening(r, lock) ==
    /\ r.put = {}
    /\ \/ r.op \in {"read", "list"} /\ r.at = "rows" /\ lock = "permissions"
       \/ /\ r.op \in {"grant", "revoke"} /\ r.at = "lock" /\ lock = "permissions"
          /\ r.p \in Permissions
          /\ r.op = "grant" => permission[r.p] = "NONE"
       \/ /\ r.op = "refresh" /\ r.at = "delete" /\ lock = "permissions" /\ r.p \in Permissions
       \/ /\ r.op \in {"add", "remove"} /\ r.at = "lock" /\ lock = "collections"
          /\ r.c \in Collections /\ r.d \in Documents
       \/ r.op = "change" /\ r.at = "lock" /\ lock = "collections" /\ r.c \in Collections
       \/ r.op = "delete" /\ r.at = "catalog" /\ lock = "permissions" /\ r.c \in Collections

LEMMA Opens ==
    ASSUME TypeOK, NEW t \in Threads, NEW lock, NEW r \in Call, Begin(t, lock, r), Opening(r, lock)
    PROVE  /\ call'[t].op = r.op /\ call'[t].at = r.at /\ call'[t].held = {lock}
           /\ call'[t].p = r.p /\ call'[t].c = r.c /\ call'[t].d = r.d /\ call'[t].put = {}
           /\ call[t].op = "none" /\ Free(t, lock) /\ Local
           /\ call'[t] \in Call /\ Becomes(t, call'[t])
<1> DEFINE s == [r EXCEPT !.held = {lock}]
<1>1. Becomes(t, s)
  BY DEF Begin
<1>2. s \in Call
  <2>1. lock \in Locks
    BY DEF Opening, Locks
  <2> QED
    BY <2>1 DEF Call
<1>3. /\ s.held = {lock}
      /\ s.op = r.op /\ s.at = r.at /\ s.p = r.p /\ s.c = r.c /\ s.d = r.d /\ s.put = r.put
  BY DEF Call
<1> HIDE DEF s
<1>4. call'[t] = s
  BY <1>1, <1>2, BecomesType
<1> QED
  BY <1>1, <1>2, <1>3, <1>4 DEF Begin, Opening, Doing, Local

LEMMA LocksBegin ==
    ASSUME LockInv, NEW t \in Threads, NEW lock, NEW r \in Call, Begin(t, lock, r),
           Opening(r, lock), raced' \in SUBSET Rows
    PROVE  LockInv'
<1>1. /\ call'[t].op = r.op /\ call'[t].at = r.at /\ call'[t].held = {lock}
      /\ call'[t].p = r.p /\ call'[t].c = r.c /\ call'[t].d = r.d /\ call'[t].put = {}
      /\ call[t].op = "none" /\ Free(t, lock) /\ Local
      /\ call'[t] \in Call /\ Becomes(t, call'[t])
  BY Opens DEF LockInv
<1>2. CallFormed(t)'
  BY <1>1 DEF Opening, CallFormed, Doing, Busy, CatalogFirst, Local
<1>3. LocksOf(t)'
  BY <1>1 DEF Opening, LocksOf, Doing, Busy, CatalogFirst
<1>4. Typed' /\ permission' = permission
  BY <1>1 DEF Local, Typed, LockInv, TypeOK
<1> QED
  BY <1>1, <1>2, <1>3, <1>4, LocksMove

Begins(t) == \E r \in Call, lock \in Locks : Begin(t, lock, r) /\ Opening(r, lock)

LEMMA Beginnings ==
    ASSUME LockInv, NEW t \in Threads,
           \/ \E d \in Documents : Decide(t, "read", d) \/ Decide(t, "list", d)
           \/ \E p \in Permissions : Grant(t, p) \/ Revoke(t, p)
           \/ \E p \in Permissions, action \in {"GRANT", "REVOKE"} : Refresh(t, p, action)
           \/ \E c \in Collections, d \in Documents : Edit(t, "add", c, d) \/ Edit(t, "remove", c, d)
           \/ \E c \in Collections : Change(t, c) \/ DeleteCollection(t, c)
    PROVE  Begins(t)
<1>1. ASSUME NEW d \in Documents, NEW op \in {"read", "list"}, Decide(t, op, d)
      PROVE  Begins(t)
  <2> DEFINE r == [NoCall EXCEPT !.op = op, !.at = "rows", !.d = d]
  <2>1. r \in Call
    BY DEF NoCall, Call, Rows
  <2>2. Opening(r, "permissions")
    BY DEF Opening, NoCall
  <2> QED
    BY <1>1, <2>1, <2>2 DEF Decide, Locks, Begins
<1>2. ASSUME NEW p \in Permissions, Grant(t, p)
      PROVE  Begins(t)
  <2> DEFINE r == [NoCall EXCEPT !.op = "grant", !.at = "lock", !.p = p]
  <2>1. r \in Call
    BY DEF NoCall, Call, Rows
  <2>2. Opening(r, "permissions")
    BY <1>2 DEF Opening, NoCall, Grant
  <2> QED
    BY <1>2, <2>1, <2>2 DEF Grant, Locks, Begins
<1>3. ASSUME NEW p \in Permissions, Revoke(t, p)
      PROVE  Begins(t)
  <2> DEFINE r == [NoCall EXCEPT !.op = "revoke", !.at = "lock", !.p = p]
  <2>1. r \in Call
    BY DEF NoCall, Call, Rows
  <2>2. Opening(r, "permissions")
    BY DEF Opening, NoCall
  <2> QED
    BY <1>3, <2>1, <2>2 DEF Revoke, Locks, Begins
<1>4. ASSUME NEW p \in Permissions, NEW action \in {"GRANT", "REVOKE"}, Refresh(t, p, action)
      PROVE  Begins(t)
  <2> DEFINE r == [NoCall EXCEPT !.op = "refresh", !.at = "delete", !.p = p, !.action = action]
  <2>1. r \in Call
    BY DEF NoCall, Call, Rows
  <2>2. Opening(r, "permissions")
    BY DEF Opening, NoCall
  <2> QED
    BY <1>4, <2>1, <2>2 DEF Refresh, Locks, Begins
<1>5. ASSUME NEW c \in Collections, NEW d \in Documents, NEW op \in {"add", "remove"},
             Edit(t, op, c, d)
      PROVE  Begins(t)
  <2> DEFINE r == [NoCall EXCEPT !.op = op, !.at = "lock", !.c = c, !.d = d]
  <2>1. r \in Call
    BY DEF NoCall, Call, Rows, Edits
  <2>2. Opening(r, "collections")
    BY DEF Opening, NoCall
  <2> QED
    BY <1>5, <2>1, <2>2 DEF Edit, Locks, Begins
<1>6. ASSUME NEW c \in Collections, Change(t, c)
      PROVE  Begins(t)
  <2> DEFINE r == [NoCall EXCEPT !.op = "change", !.at = "lock", !.c = c]
  <2>1. r \in Call
    BY DEF NoCall, Call, Rows, CatalogFirst
  <2>2. Opening(r, "collections")
    BY DEF Opening, NoCall
  <2> QED
    BY <1>6, <2>1, <2>2 DEF Change, Locks, Begins
<1>7. ASSUME NEW c \in Collections, DeleteCollection(t, c)
      PROVE  Begins(t)
  <2> DEFINE r == [NoCall EXCEPT !.op = "delete", !.at = "catalog", !.c = c]
  <2>1. r \in Call
    BY DEF NoCall, Call, Rows, Edits
  <2>2. Opening(r, "permissions")
    BY DEF Opening, NoCall
  <2> QED
    BY <1>7, <2>1, <2>2 DEF DeleteCollection, DeleteOrder, Locks, Begins
<1> QED
  BY <1>1, <1>2, <1>3, <1>4, <1>5, <1>6, <1>7

-----------------------------------------------------------------------------
(* Steps within an operation, which change nothing but the call.             *)

\* The rows a call puts are rows of a permission that is given, or about to be.
PutsGiven(t) ==
    \A r \in call[t].put : \/ Given(r[1])
                           \/ Doing(t, {"grant"}) /\ r[1] = call[t].p

\* The rows a step puts in a transaction are those the call had in mind, and the
\* documents of a collection are found while nobody edits.
PutsInMind(t) ==
    /\ \A r \in call'[t].put :
          r \in call[t].put \/ (Busy(t, "put") /\ r[1] = call[t].p /\ r[2] \in call[t].docs)
    /\ Busy(t, "put")' => /\ call'[t].docs \subseteq Reached(call'[t].p)
                          /\ OnCollection(call'[t].p) => Free(t, "collections")

Goes(t) ==
    /\ Local /\ call'[t] \in Call /\ Becomes(t, call'[t])
    /\ call'[t].op \in {call[t].op, "none"}
    /\ \A l \in call'[t].held : l \in call[t].held \/ Free(t, l)
    /\ LocksOf(t)' /\ CallFormed(t)'
    /\ PutsGiven(t) => PutsGiven(t)'
    /\ PutsInMind(t)
    /\ Removing(t)' =>
          /\ call'[t].c = call[t].c /\ call'[t].d = call[t].d
          /\ \/ Removing(t) /\ call'[t].del = call[t].del
             \/ /\ ~Removing(t) /\ Free(t, "permissions")
                /\ call'[t].del = cache \cap (Permissions \X {call[t].d})

\* A step that neither puts rows nor gets a document to put them for.
LEMMA GoesPlainly ==
    ASSUME LockInv, NEW t \in Threads, NEW r \in Call, Becomes(t, r), Local,
           r.op = call[t].op, r.p = call[t].p \/ r.op \in {"read", "list"},
           r.c = call[t].c, r.d = call[t].d, r.put = call[t].put,
           r.at # "put", r.op = "remove" => r.at \notin {"invalidated", "commit"},
           \A l \in r.held : l \in call[t].held \/ Free(t, l),
           LocksOf(t)', CallFormed(t)'
    PROVE  Goes(t)
<1>1. call'[t] = r
  BY BecomesType DEF LockInv
<1>2. PutsGiven(t) => PutsGiven(t)'
  BY <1>1 DEF PutsGiven, Doing, Local, Given
<1>3. PutsInMind(t)
  BY <1>1 DEF PutsInMind, Busy
<1>4. ~Removing(t)'
  BY <1>1 DEF Removing, Doing, Busy
<1> QED
  BY <1>1, <1>2, <1>3, <1>4 DEF Goes

LEMMA GoesIdle ==
    ASSUME LockInv, NEW t \in Threads, Becomes(t, NoCall), Local
    PROVE  Goes(t)
<1>1. call'[t] = NoCall
  BY BecomesType, NoCallIsCall DEF LockInv
<1>2. LocksOf(t)' /\ CallFormed(t)'
  BY <1>1 DEF LocksOf, CallFormed, Doing, Busy, NoCall, CatalogFirst
<1>3. PutsGiven(t)' /\ PutsInMind(t) /\ ~Removing(t)'
  BY <1>1 DEF PutsGiven, PutsInMind, Removing, Doing, Busy, NoCall
<1>4. NoCall.op = "none" /\ NoCall.held = {}
  BY DEF NoCall
<1> QED
  BY <1>1, <1>2, <1>3, <1>4, NoCallIsCall DEF Goes

LEMMA FailsGoes ==
    ASSUME LockInv, NEW t \in Threads, Fails(t) PROVE Goes(t)
  BY GoesIdle DEF Fails, Local

LEMMA DocumentRowsGoes ==
    ASSUME LockInv, NEW t \in Threads, DocumentRows(t) PROVE Goes(t)
<1> DEFINE todo == {p \in Permissions :
                      /\ Active(p)
                      /\ \/ Resource[p] = call[t].d
                         \/ OnCollection(p) /\ <<Resource[p], call[t].d>> \in mapping}
           r == [call[t] EXCEPT !.at = "cached", !.todo = todo]
<1>1. /\ call[t] \in Call /\ Busy(t, "rows") /\ Becomes(t, r) /\ Local
      /\ LocksOf(t) /\ CallFormed(t)
  BY DEF DocumentRows, Local, LockInv, TypeOK, LocksKept, CallsFormed
<1>2. /\ r \in Call /\ r.op = call[t].op /\ r.p = call[t].p /\ r.c = call[t].c /\ r.d = call[t].d
      /\ r.put = call[t].put /\ r.at = "cached" /\ r.held = call[t].held
  BY <1>1 DEF Call
<1> HIDE DEF r
<1>3. call'[t] = r
  BY <1>1, <1>2, BecomesType DEF LockInv
<1>4. LocksOf(t)' /\ CallFormed(t)'
  BY <1>1, <1>2, <1>3 DEF LocksOf, CallFormed, Doing, Busy, Call, CatalogFirst, Edits, Local
<1> QED
  BY <1>1, <1>2, <1>4, GoesPlainly DEF CallFormed, Doing, Busy

LEMMA CachedGrantsGoes ==
    ASSUME LockInv, NEW t \in Threads, CachedGrants(t) PROVE Goes(t)
<1> DEFINE todo == IF Seen(t, call[t].d) = {} THEN call[t].todo ELSE {}
           r == [call[t] EXCEPT !.at = "project", !.todo = todo]
<1>1. /\ call[t] \in Call /\ Busy(t, "cached") /\ Becomes(t, r) /\ Local
      /\ LocksOf(t) /\ CallFormed(t)
  BY DEF CachedGrants, Local, LockInv, TypeOK, LocksKept, CallsFormed
<1>2. /\ r \in Call /\ r.op = call[t].op /\ r.p = call[t].p /\ r.c = call[t].c /\ r.d = call[t].d
      /\ r.put = call[t].put /\ r.at = "project" /\ r.held = call[t].held
  BY <1>1, ZenonT(40) DEF Call
<1> HIDE DEF r
<1>3. call'[t] = r
  BY <1>1, <1>2, BecomesType DEF LockInv
<1>4. LocksOf(t)' /\ CallFormed(t)'
  BY <1>1, <1>2, <1>3 DEF LocksOf, CallFormed, Doing, Busy, Call, CatalogFirst, Edits, Local
<1> QED
  BY <1>1, <1>2, <1>4, GoesPlainly DEF CallFormed, Doing, Busy

LEMMA NextRowGoes ==
    ASSUME LockInv, NEW t \in Threads, NextRow(t) PROVE Goes(t)
<1>1. /\ call[t] \in Call /\ Busy(t, "project") /\ Local /\ LocksOf(t) /\ CallFormed(t)
      /\ call[t].p = None
  BY DEF NextRow, Local, LockInv, TypeOK, LocksKept, CallsFormed
<1>2. Doing(t, {"read", "list"})
  BY <1>1 DEF Call, CallFormed, Doing, Busy, CatalogFirst, Edits
<1>3. ASSUME NEW r \in Call, Becomes(t, r), r.op = call[t].op, r.c = call[t].c, r.d = call[t].d,
             r.put = call[t].put, r.held = call[t].held, r.at \in {"answer", "project"}
      PROVE  Goes(t)
  <2>1. call'[t] = r
    BY <1>3, BecomesType DEF LockInv
  <2>2. LocksOf(t)' /\ CallFormed(t)'
    BY <1>1, <1>2, <1>3, <2>1 DEF LocksOf, CallFormed, Doing, Busy, Call, CatalogFirst, Edits, Local
  <2> QED
    BY <1>1, <1>2, <1>3, <2>2, GoesPlainly DEF Doing
<1>4. CASE call[t].todo = {}
  <2> DEFINE r == [call[t] EXCEPT !.at = "answer"]
  <2>1. Becomes(t, r)
    BY <1>4 DEF NextRow
  <2>2. /\ r \in Call /\ r.op = call[t].op /\ r.c = call[t].c /\ r.d = call[t].d
        /\ r.put = call[t].put /\ r.at = "answer" /\ r.held = call[t].held
    BY <1>1 DEF Call
  <2> QED
    BY <1>3, <2>1, <2>2
<1>5. CASE call[t].todo # {}
  <2>1. PICK p \in call[t].todo :
            Becomes(t, [call[t] EXCEPT !.todo = @ \ {p}, !.p = IF Active(p) THEN p ELSE None])
    BY <1>5 DEF NextRow
  <2> DEFINE next == IF Active(p) THEN p ELSE None
             rest == call[t].todo \ {p}
             r == [call[t] EXCEPT !.todo = rest, !.p = next]
  <2>2. next \in Permissions \cup {None} /\ rest \subseteq Permissions /\ Becomes(t, r)
    BY <1>1, <2>1, CallFields
  <2> HIDE DEF next, rest
  <2>3. /\ r \in Call /\ r.op = call[t].op /\ r.c = call[t].c /\ r.d = call[t].d
        /\ r.put = call[t].put /\ r.at = "project" /\ r.held = call[t].held
    BY <1>1, <2>2, ZenonT(40) DEF Call, Busy
  <2> QED
    BY <1>3, <2>2, <2>3
<1> QED
  BY <1>4, <1>5

LEMMA LockResourceGoes ==
    ASSUME LockInv, NEW t \in Threads, LockResource(t) PROVE Goes(t)
<1> DEFINE row == Resource[call[t].p]
           held == IF row \in Collections THEN call[t].held \cup {row} ELSE call[t].held
           r == [call[t] EXCEPT !.at = "resource", !.held = held]
<1>1. /\ call[t] \in Call /\ Busy(t, "lock") /\ Doing(t, {"grant", "revoke"})
      /\ Becomes(t, r) /\ Local /\ LocksOf(t) /\ CallFormed(t)
      /\ row \in Collections => Free(t, row)
  BY DEF LockResource, Local, LockInv, TypeOK, LocksKept, CallsFormed
<1>2. held \subseteq Locks /\ call[t].held \subseteq held
  BY <1>1, CallFields DEF Locks
<1>3. /\ r \in Call /\ r.op = call[t].op /\ r.p = call[t].p /\ r.c = call[t].c /\ r.d = call[t].d
      /\ r.put = call[t].put /\ r.at = "resource" /\ r.held = held
  BY <1>1, <1>2, ZenonT(40) DEF Call
<1>4. \A l \in r.held : l \in call[t].held \/ Free(t, l)
  BY <1>1, <1>3
<1> HIDE DEF r, held
<1>5. call'[t] = r
  BY <1>1, <1>3, BecomesType DEF LockInv
<1>6. LocksOf(t)' /\ CallFormed(t)'
  BY <1>1, <1>2, <1>3, <1>5 DEF LocksOf, CallFormed, Doing, Busy, Call, CatalogFirst, Edits, Local
<1> QED
  BY <1>1, <1>3, <1>4, <1>6, GoesPlainly DEF Doing

LEMMA RequireResourceGoes ==
    ASSUME LockInv, NEW t \in Threads, RequireResource(t) PROVE Goes(t)
<1>1. CASE Resource[call[t].p] \in deleted
  BY <1>1, GoesIdle DEF RequireResource, Local
<1>2. CASE Resource[call[t].p] \notin deleted
  <2> DEFINE at == IF Doing(t, {"grant"}) THEN "project" ELSE "write"
             r == [call[t] EXCEPT !.at = at]
  <2>1. /\ call[t] \in Call /\ Busy(t, "resource") /\ Becomes(t, r) /\ Local
        /\ LocksOf(t) /\ CallFormed(t)
    BY <1>2 DEF RequireResource, Local, LockInv, TypeOK, LocksKept, CallsFormed
  <2>2. /\ r \in Call /\ r.op = call[t].op /\ r.p = call[t].p /\ r.c = call[t].c
        /\ r.d = call[t].d /\ r.put = call[t].put /\ r.at = at /\ r.held = call[t].held
    BY <2>1 DEF Call
  <2> HIDE DEF r
  <2>3. call'[t] = r
    BY <2>1, <2>2, BecomesType DEF LockInv
  <2>4. LocksOf(t)' /\ CallFormed(t)'
    BY <2>1, <2>2, <2>3 DEF LocksOf, CallFormed, Doing, Busy, Call, CatalogFirst, Edits, Local
  <2> QED
    BY <2>1, <2>2, <2>4, GoesPlainly DEF CallFormed, Doing, Busy
<1> QED
  BY <1>1, <1>2

LEMMA InvalidatePermissionGoes ==
    ASSUME LockInv, NEW t \in Threads, InvalidatePermission(t) PROVE Goes(t)
<1> DEFINE del == cache \cap ({call[t].p} \X Documents)
           r == [call[t] EXCEPT !.at = "deleted", !.del = del]
<1>1. /\ call[t] \in Call /\ Busy(t, "delete") /\ Becomes(t, r) /\ Local
      /\ LocksOf(t) /\ CallFormed(t) /\ del \subseteq Rows
  BY DEF InvalidatePermission, Local, LockInv, TypeOK, LocksKept, CallsFormed
<1>2. /\ r \in Call /\ r.op = call[t].op /\ r.p = call[t].p /\ r.c = call[t].c /\ r.d = call[t].d
      /\ r.put = call[t].put /\ r.at = "deleted" /\ r.held = call[t].held
  BY <1>1 DEF Call
<1> HIDE DEF r
<1>3. call'[t] = r
  BY <1>1, <1>2, BecomesType DEF LockInv
<1>4. LocksOf(t)' /\ CallFormed(t)'
  BY <1>1, <1>2, <1>3 DEF LocksOf, CallFormed, Doing, Busy, Call, CatalogFirst, Edits, Local
<1> QED
  BY <1>1, <1>2, <1>4, GoesPlainly DEF CallFormed, Doing, Busy

LEMMA InvalidatedGoes ==
    ASSUME LockInv, NEW t \in Threads, Invalidated(t) PROVE Goes(t)
<1> DEFINE project == call[t].action = "GRANT" /\ Active(call[t].p)
           at == IF project THEN "project" ELSE "commit"
           held == IF project THEN call[t].held ELSE {}
           r == [call[t] EXCEPT !.at = at, !.held = held]
<1>1. /\ call[t] \in Call /\ Busy(t, "deleted") /\ Becomes(t, r) /\ Local
      /\ LocksOf(t) /\ CallFormed(t)
  BY DEF Invalidated, Local, LockInv, TypeOK, LocksKept, CallsFormed
<1>2. \/ at = "project" /\ held = call[t].held
      \/ at = "commit" /\ held = {}
  OBVIOUS
<1> HIDE DEF at, held
<1>3. Doing(t, {"refresh"})
  BY <1>1 DEF Call, CallFormed, Doing, Busy, CatalogFirst, Edits
<1>4. /\ r \in Call /\ r.op = call[t].op /\ r.p = call[t].p /\ r.c = call[t].c /\ r.d = call[t].d
      /\ r.put = call[t].put /\ r.at = at /\ r.held = held
  BY <1>1, <1>2 DEF Call
<1> HIDE DEF r
<1>5. call'[t] = r
  BY <1>1, <1>4, BecomesType DEF LockInv
<1>6. LocksOf(t)' /\ CallFormed(t)'
  BY <1>1, <1>2, <1>3, <1>4, <1>5 DEF LocksOf, CallFormed, Doing, Busy, CatalogFirst, Edits, Local
<1> QED
  BY <1>1, <1>2, <1>3, <1>4, <1>6, GoesPlainly DEF Doing

LEMMA LockCollectionGoes ==
    ASSUME LockInv, NEW t \in Threads, LockCollection(t) PROVE Goes(t)
<1> DEFINE mapped == <<call[t].c, call[t].d>> \in mapping
           refused == \/ call[t].c \in deleted
                      \/ Doing(t, {"add"}) /\ mapped
                      \/ Doing(t, {"remove"}) /\ ~mapped
<1>1. CASE refused
  BY <1>1, GoesIdle DEF LockCollection, Local
<1>2. CASE ~refused
  <2> DEFINE at == IF Doing(t, {"change"}) THEN "commit" ELSE "invalidate"
             held == call[t].held \cup {call[t].c}
             r == [call[t] EXCEPT !.at = at, !.held = held]
  <2>1. Becomes(t, [call[t] EXCEPT
                       !.at = IF Doing(t, {"change"}) THEN "commit" ELSE "invalidate",
                       !.held = @ \cup {call[t].c}])
    BY <1>2 DEF LockCollection
  <2>2. /\ call[t] \in Call /\ Busy(t, "lock") /\ Doing(t, CatalogFirst) /\ Free(t, call[t].c)
        /\ Becomes(t, r) /\ Local /\ LocksOf(t) /\ CallFormed(t)
    BY <2>1 DEF LockCollection, Local, LockInv, TypeOK, LocksKept, CallsFormed
  <2>3. call[t].c \in Collections
    BY <2>2 DEF CallFormed, Doing
  <2>4. held \subseteq Locks
    BY <2>2, <2>3, CallFields DEF Locks
  <2>5. /\ r \in Call /\ r.op = call[t].op /\ r.p = call[t].p /\ r.c = call[t].c
        /\ r.d = call[t].d /\ r.put = call[t].put /\ r.at = at /\ r.held = held
    BY <2>2, <2>4, ZenonT(40) DEF Call
  <2>6. \A l \in r.held : l \in call[t].held \/ Free(t, l)
    BY <2>2, <2>5
  <2>7. at = IF call[t].op = "change" THEN "commit" ELSE "invalidate"
    BY DEF Doing
  <2> HIDE DEF r, at
  <2>8. call'[t] = r
    BY <2>2, <2>5, BecomesType DEF LockInv
  <2>9. LocksOf(t)' /\ CallFormed(t)'
    BY <2>2, <2>5, <2>7, <2>8 DEF LocksOf, CallFormed, Doing, Busy, CatalogFirst, Edits, Local
  <2> QED
    BY <2>2, <2>5, <2>6, <2>7, <2>9, GoesPlainly
<1> QED
  BY <1>1, <1>2

LEMMA LockCatalogGoes ==
    ASSUME LockInv, NEW t \in Threads, LockCatalog(t) PROVE Goes(t)
<1> DEFINE held == call[t].held \cup {"collections"}
           r == [call[t] EXCEPT !.at = "lock", !.held = held]
<1>1. /\ call[t] \in Call /\ Busy(t, "catalog") /\ Free(t, "collections")
      /\ Becomes(t, r) /\ Local /\ LocksOf(t) /\ CallFormed(t)
  BY DEF LockCatalog, DeleteOrder, Local, LockInv, TypeOK, LocksKept, CallsFormed
<1>2. held \subseteq Locks
  BY <1>1, CallFields DEF Locks
<1>3. /\ r \in Call /\ r.op = call[t].op /\ r.p = call[t].p /\ r.c = call[t].c /\ r.d = call[t].d
      /\ r.put = call[t].put /\ r.at = "lock" /\ r.held = held
  BY <1>1, <1>2 DEF Call
<1>4. Doing(t, {"delete"})
  BY <1>1 DEF Call, CallFormed, Doing, Busy, CatalogFirst, Edits
<1>5. \A l \in r.held : l \in call[t].held \/ Free(t, l)
  BY <1>1, <1>3
<1> HIDE DEF r
<1>6. call'[t] = r
  BY <1>1, <1>3, BecomesType DEF LockInv
<1>7. LocksOf(t)' /\ CallFormed(t)'
  BY <1>1, <1>3, <1>4, <1>6 DEF LocksOf, CallFormed, Doing, Busy, CatalogFirst, Edits, Local
<1> QED
  BY <1>1, <1>3, <1>5, <1>7, GoesPlainly

LEMMA ProjectGoes ==
    ASSUME LockInv, NEW t \in Threads, Project(t) PROVE Goes(t)
<1> DEFINE r == [call[t] EXCEPT !.at = "put", !.docs = Reached(call[t].p)]
<1>1. /\ call[t] \in Call /\ Busy(t, "project") /\ Becomes(t, r) /\ Local
      /\ LocksOf(t) /\ CallFormed(t) /\ call[t].p # None
      /\ OnCollection(call[t].p) => Free(t, "collections")
  BY DEF Project, CatalogRead, Local, LockInv, TypeOK, LocksKept, CallsFormed
<1>2. Reached(call[t].p) \subseteq Documents
  BY <1>1, CallFields, ReachedDocuments
<1>3. /\ r \in Call /\ r.op = call[t].op /\ r.p = call[t].p /\ r.c = call[t].c /\ r.d = call[t].d
      /\ r.put = call[t].put /\ r.at = "put" /\ r.held = call[t].held
      /\ r.docs = Reached(call[t].p)
  BY <1>1, <1>2 DEF Call
<1> HIDE DEF r
<1>4. call'[t] = r /\ call[t].p \in Permissions
  BY <1>1, <1>3, BecomesType, CallFields DEF LockInv
<1>5. Doing(t, {"read", "list", "grant", "refresh"})
  BY <1>1 DEF Call, CallFormed, Doing, Busy, CatalogFirst, Edits
<1>6. LocksOf(t)' /\ CallFormed(t)'
  BY <1>1, <1>3, <1>4, <1>5 DEF LocksOf, CallFormed, Doing, Busy, CatalogFirst, Edits, Local
<1>7. PutsGiven(t) => PutsGiven(t)'
  BY <1>1, <1>3, <1>4 DEF PutsGiven, Doing, Local, Given
<1>8. PutsInMind(t)
  BY <1>1, <1>3, <1>4 DEF PutsInMind
<1>9. ~Removing(t)'
  BY <1>3, <1>4 DEF Removing, Busy
<1> QED
  BY <1>1, <1>3, <1>4, <1>6, <1>7, <1>8, <1>9 DEF Goes

\* A put inside a transaction.
LEMMA PutGoes ==
    ASSUME LockInv, NEW t \in Threads, Put(t), ~Doing(t, {"read"}) PROVE Goes(t)
<1> DEFINE at == IF Doing(t, {"list"}) THEN "project" ELSE "commit"
           p == IF Doing(t, {"list"}) THEN None ELSE call[t].p
           put == call[t].put \cup Inserted(t)
           held == IF Doing(t, {"refresh"}) THEN {} ELSE call[t].held
           r == [call[t] EXCEPT !.at = at, !.p = p, !.docs = {}, !.put = put, !.held = held]
<1>1. /\ call[t] \in Call /\ Busy(t, "put") /\ Becomes(t, r) /\ Local
      /\ LocksOf(t) /\ CallFormed(t)
  BY DEF Put, Local, LockInv, TypeOK, LocksKept, CallsFormed
<1>2. Doing(t, {"list", "grant", "refresh"}) /\ call[t].p \in Permissions
  BY <1>1 DEF Call, CallFormed, Doing, Busy, CatalogFirst, Edits
<1>3. /\ call[t].op = "list" => at = "project" /\ p = None
      /\ call[t].op # "list" => at = "commit" /\ p = call[t].p
      /\ call[t].op = "refresh" => held = {}
      /\ call[t].op # "refresh" => held = call[t].held
  BY DEF Doing
<1>4. /\ \A x \in Inserted(t) : /\ x \in Rows /\ x[1] = call[t].p /\ x[2] \in call[t].docs
                                /\ Given(call[t].p) \/ Doing(t, {"grant"})
      /\ put \subseteq Rows
  BY <1>1, <1>2, CallFields DEF Inserted, Rows
<1>5. at \in {"project", "commit"} /\ p \in Permissions \cup {None} /\ held \subseteq call[t].held
  BY <1>2, <1>3
<1>6. put = call[t].put \cup Inserted(t)
  OBVIOUS
<1> HIDE DEF at, p, put, held
<1>7. /\ r \in Call /\ r.op = call[t].op /\ r.p = p /\ r.c = call[t].c /\ r.d = call[t].d
      /\ r.put = put /\ r.at = at /\ r.held = held
  <2>1. held \subseteq Locks
    BY <1>1, <1>5, CallFields
  <2> QED
    BY <1>1, <1>4, <1>5, <2>1, ZenonT(40) DEF Call
<1> HIDE DEF r
<1>8. call'[t] = r
  BY <1>1, <1>7, BecomesType DEF LockInv
<1>9. LocksOf(t)' /\ CallFormed(t)'
  BY <1>1, <1>2, <1>3, <1>5, <1>7, <1>8
  DEF LocksOf, CallFormed, Doing, Busy, CatalogFirst, Edits, Local
<1>10. PutsGiven(t) => PutsGiven(t)'
  BY <1>1, <1>2, <1>3, <1>4, <1>6, <1>7, <1>8 DEF PutsGiven, Doing, Local, Given
<1>11. PutsInMind(t)
  BY <1>1, <1>4, <1>5, <1>6, <1>7, <1>8 DEF PutsInMind, Busy
<1>12. ~Removing(t)'
  BY <1>2, <1>7, <1>8 DEF Removing, Doing
<1> QED
  BY <1>1, <1>5, <1>7, <1>8, <1>9, <1>10, <1>11, <1>12 DEF Goes

\* A list goes on with another document.
LEMMA AnswerGoes ==
    ASSUME LockInv, NEW t \in Threads, NEW d \in Documents, Doing(t, {"list"}), Busy(t, "answer"),
           Becomes(t, [call[t] EXCEPT !.at = "rows", !.d = d, !.put = @ \ Expired(t),
                                      !.del = @ \cup (cache \cap Expired(t))]),
           Local
    PROVE  Goes(t)
<1> DEFINE put == call[t].put \ Expired(t)
           del == call[t].del \cup (cache \cap Expired(t))
           r == [call[t] EXCEPT !.at = "rows", !.d = d, !.put = put, !.del = del]
<1>1. /\ call[t] \in Call /\ LocksOf(t) /\ CallFormed(t) /\ Becomes(t, r)
  BY DEF LockInv, TypeOK, LocksKept, CallsFormed
<1>2. put \subseteq Rows /\ del \subseteq Rows /\ put \subseteq call[t].put
  BY <1>1, CallFields DEF LockInv, TypeOK
<1> HIDE DEF put, del
<1>3. /\ r \in Call /\ r.op = call[t].op /\ r.p = call[t].p /\ r.c = call[t].c /\ r.d = d
      /\ r.put = put /\ r.at = "rows" /\ r.held = call[t].held
  BY <1>1, <1>2 DEF Call
<1> HIDE DEF r
<1>4. call'[t] = r
  BY <1>1, <1>3, BecomesType DEF LockInv
<1>5. LocksOf(t)' /\ CallFormed(t)'
  BY <1>1, <1>3, <1>4 DEF LocksOf, CallFormed, Doing, Busy, CatalogFirst, Edits, Local
<1>6. PutsGiven(t) => PutsGiven(t)'
  BY <1>2, <1>3, <1>4 DEF PutsGiven, Doing, Local, Given
<1>7. PutsInMind(t) /\ ~Removing(t)'
  BY <1>2, <1>3, <1>4 DEF PutsInMind, Removing, Busy
<1> QED
  BY <1>1, <1>3, <1>4, <1>5, <1>6, <1>7 DEF Goes

LEMMA InvalidateDocumentGoes ==
    ASSUME LockInv, NEW t \in Threads, InvalidateDocument(t) PROVE Goes(t)
<1> DEFINE held == call[t].held \cup {"permissions"}
           del == cache \cap (Permissions \X {call[t].d})
           r == [call[t] EXCEPT !.at = "invalidated", !.held = held, !.del = del]
<1>1. /\ call[t] \in Call /\ Busy(t, "invalidate") /\ Becomes(t, r) /\ Local
      /\ LocksOf(t) /\ CallFormed(t) /\ Free(t, "permissions")
  BY DEF InvalidateDocument, Invalidator, Local, LockInv, TypeOK, LocksKept, CallsFormed
<1>2. held \subseteq Locks /\ del \subseteq Rows /\ call[t].held \subseteq held
  BY <1>1, CallFields DEF LockInv, TypeOK, Locks
<1>3. \A l \in held : l \in call[t].held \/ Free(t, l)
  BY <1>1
<1>4. del = cache \cap (Permissions \X {call[t].d})
  OBVIOUS
<1> HIDE DEF held, del
<1>5. /\ r \in Call /\ r.op = call[t].op /\ r.p = call[t].p /\ r.c = call[t].c /\ r.d = call[t].d
      /\ r.put = call[t].put /\ r.at = "invalidated" /\ r.held = held /\ r.del = del
  BY <1>1, <1>2 DEF Call
<1> HIDE DEF r
<1>6. call'[t] = r
  BY <1>1, <1>5, BecomesType DEF LockInv
<1>7. Doing(t, {"add", "remove"})
  BY <1>1 DEF Call, CallFormed, Doing, Busy, CatalogFirst, Edits
<1>8. LocksOf(t)' /\ CallFormed(t)' /\ ~Removing(t)
  BY <1>1, <1>2, <1>5, <1>6, <1>7 DEF LocksOf, CallFormed, Removing, Doing, Busy, CatalogFirst, Edits, Local
<1>9. (PutsGiven(t) => PutsGiven(t)') /\ PutsInMind(t)
  BY <1>1, <1>5, <1>6 DEF PutsGiven, PutsInMind, Doing, Busy, Local, Given
<1> QED
  BY <1>1, <1>3, <1>4, <1>5, <1>6, <1>8, <1>9 DEF Goes

LEMMA DocumentInvalidatedGoes ==
    ASSUME LockInv, NEW t \in Threads, DocumentInvalidated(t) PROVE Goes(t)
<1> DEFINE held == call[t].held \ {"permissions"}
           r == [call[t] EXCEPT !.at = "commit", !.held = held]
<1>1. /\ call[t] \in Call /\ Busy(t, "invalidated") /\ Becomes(t, r) /\ Local
      /\ LocksOf(t) /\ CallFormed(t)
  BY DEF DocumentInvalidated, Local, LockInv, TypeOK, LocksKept, CallsFormed
<1>2. held \subseteq Locks /\ held \subseteq call[t].held
      /\ ("collections" \in call[t].held => "collections" \in held)
  BY <1>1, CallFields
<1> HIDE DEF held
<1>3. /\ r \in Call /\ r.op = call[t].op /\ r.p = call[t].p /\ r.c = call[t].c /\ r.d = call[t].d
      /\ r.put = call[t].put /\ r.at = "commit" /\ r.held = held /\ r.del = call[t].del
  BY <1>1, <1>2 DEF Call
<1> HIDE DEF r
<1>4. call'[t] = r
  BY <1>1, <1>3, BecomesType DEF LockInv
<1>5. Doing(t, {"add", "remove"})
  BY <1>1 DEF Call, CallFormed, Doing, Busy, CatalogFirst, Edits
<1>6. LocksOf(t)' /\ CallFormed(t)'
  BY <1>1, <1>2, <1>3, <1>4, <1>5 DEF LocksOf, CallFormed, Doing, Busy, CatalogFirst, Edits, Local
<1>7. /\ PutsGiven(t) => PutsGiven(t)'
      /\ PutsInMind(t)
      /\ Removing(t)' => Removing(t)
  BY <1>1, <1>3, <1>4 DEF PutsGiven, PutsInMind, Removing, Doing, Busy, Local, Given
<1> QED
  BY <1>1, <1>2, <1>3, <1>4, <1>6, <1>7 DEF Goes

-----------------------------------------------------------------------------
(* Every step.                                                               *)

\* The end of a decision.
Answers(t) ==
    /\ Busy(t, "answer")
    /\ Expired(t) # {} => Unwritten(t, Permissions \X {call[t].d})
    /\ \/ /\ Doing(t, {"read"})
          /\ cache' = cache \ Expired(t)
          /\ Becomes(t, NoCall)
       \/ /\ Doing(t, {"list"})
          /\ cache' = ((cache \ call[t].del) \cup call[t].put) \ Expired(t)
          /\ call' = [u \in Threads |->
                        IF u = t THEN NoCall ELSE [call[u] EXCEPT !.del = @ \ call[t].put]]
    /\ UNCHANGED <<permission, mapping, deleted, event>>

ThreadStep(t) ==
    \/ Begins(t) \/ Goes(t)
    \/ Doing(t, {"read"}) /\ Put(t)
    \/ Answers(t)
    \/ CommitGrant(t) \/ CommitRevoke(t) \/ CommitRefresh(t) \/ CommitEdit(t) \/ CommitDelete(t)

LEMMA Steps ==
    ASSUME LockInv, Next
    PROVE  (\E t \in Threads : ThreadStep(t)) \/ (\E p \in Permissions : Expire(p))
<1>1. ASSUME NEW t \in Clients, ClientStep(t) PROVE ThreadStep(t)
  <2>1. t \in Threads
    OBVIOUS
  <2>2. CASE \/ \E d \in Documents : Decide(t, "read", d) \/ Decide(t, "list", d)
             \/ \E p \in Permissions : Grant(t, p) \/ Revoke(t, p)
             \/ \E c \in Collections, d \in Documents : Edit(t, "add", c, d) \/ Edit(t, "remove", c, d)
             \/ \E c \in Collections : Change(t, c) \/ DeleteCollection(t, c)
    BY <2>1, <2>2, Beginnings DEF ThreadStep
  <2>3. CASE DocumentRows(t) \/ CachedGrants(t) \/ NextRow(t)
    BY <2>1, <2>3, DocumentRowsGoes, CachedGrantsGoes, NextRowGoes DEF ThreadStep
  <2>4. CASE LockResource(t) \/ RequireResource(t)
    BY <2>1, <2>4, LockResourceGoes, RequireResourceGoes DEF ThreadStep
  <2>5. CASE LockCollection(t) \/ InvalidateDocument(t) \/ DocumentInvalidated(t) \/ LockCatalog(t)
    BY <2>1, <2>5, LockCollectionGoes, InvalidateDocumentGoes, DocumentInvalidatedGoes,
       LockCatalogGoes
    DEF ThreadStep
  <2>6. CASE Answer(t)
    <3>1. CASE Answers(t)
      BY <3>1 DEF ThreadStep
    <3>2. CASE ~Answers(t)
      <4>1. PICK d \in Documents :
                /\ Doing(t, {"list"}) /\ Busy(t, "answer")
                /\ Becomes(t, [call[t] EXCEPT !.at = "rows", !.d = d, !.put = @ \ Expired(t),
                                              !.del = @ \cup (cache \cap Expired(t))])
                /\ Local
        BY <2>6, <3>2 DEF Answer, Answers, Local
      <4> QED
        BY <2>1, <4>1, AnswerGoes DEF ThreadStep
    <3> QED
      BY <3>1, <3>2
  <2>7. CASE CommitGrant(t) \/ CommitRevoke(t) \/ CommitEdit(t) \/ CommitDelete(t)
    BY <2>7 DEF ThreadStep
  <2> QED
    BY <1>1, <2>2, <2>3, <2>4, <2>5, <2>6, <2>7 DEF ClientStep
<1>2. ASSUME NEW t \in Dispatchers, DispatcherStep(t) PROVE ThreadStep(t)
  <2>1. t \in Threads
    OBVIOUS
  <2>2. CASE \E p \in Permissions, action \in {"GRANT", "REVOKE"} : Refresh(t, p, action)
    BY <2>1, <2>2, Beginnings DEF ThreadStep
  <2>3. CASE InvalidatePermission(t) \/ Invalidated(t)
    BY <2>1, <2>3, InvalidatePermissionGoes, InvalidatedGoes DEF ThreadStep
  <2>4. CASE CommitRefresh(t)
    BY <2>4 DEF ThreadStep
  <2> QED
    BY <1>2, <2>2, <2>3, <2>4 DEF DispatcherStep
<1>3. ASSUME NEW t \in Threads, Project(t) \/ Put(t) \/ Fails(t) PROVE ThreadStep(t)
  BY <1>3, ProjectGoes, PutGoes, FailsGoes DEF ThreadStep
<1> QED
  BY <1>1, <1>2, <1>3 DEF Next

-----------------------------------------------------------------------------
(* Locks and the shape of calls.                                             *)

\* The lock of the permission service keeps out all but edits and a refresh that is
\* about to commit.
LEMMA PermissionsExclusive ==
    ASSUME LockInv, NEW t \in Threads, NEW u \in Threads, t # u, "permissions" \in call[t].held
    PROVE  ~Doing(u, {"read", "list", "grant", "revoke", "delete"})
  BY DEF LockInv, LocksKept, LocksOf, Doing

LEMMA IdleFormed ==
    ASSUME NEW t \in Threads, call'[t] = NoCall
    PROVE  /\ LocksOf(t)' /\ CallFormed(t)' /\ ~Removing(t)'
           /\ call'[t].put = {} /\ ~Busy(t, "put")'
  BY DEF LocksOf, CallFormed, Removing, Doing, Busy, NoCall, CatalogFirst

\* What a read puts: a row at once.
LEMMA PutsAtOnce ==
    ASSUME LockInv, NEW t \in Threads, Doing(t, {"read"}), Put(t)
    PROVE  /\ call'[t] \in Call /\ Becomes(t, call'[t])
           /\ call'[t].op = "read" /\ call'[t].at = "project" /\ call'[t].held = call[t].held
           /\ call'[t].put = {} /\ call[t].put = {}
           /\ call[t].p \in Permissions
           /\ \A x \in Inserted(t) : /\ x \in Rows /\ x[1] = call[t].p /\ x[2] \in call[t].docs
                                     /\ Given(call[t].p)
<1> DEFINE r == [call[t] EXCEPT !.at = "project", !.p = None, !.docs = {}]
<1>1. /\ call[t] \in Call /\ Busy(t, "put") /\ Becomes(t, r) /\ CallFormed(t)
  BY DEF Put, LockInv, TypeOK, CallsFormed
<1>2. call[t].put = {} /\ call[t].p \in Permissions
  BY <1>1 DEF CallFormed, Doing
<1>3. /\ r \in Call /\ r.op = call[t].op /\ r.put = call[t].put /\ r.at = "project"
      /\ r.held = call[t].held
  BY <1>1 DEF Call
<1> HIDE DEF r
<1>4. call'[t] = r
  BY <1>1, <1>3, BecomesType DEF LockInv
<1>5. \A x \in Inserted(t) : /\ x \in Rows /\ x[1] = call[t].p /\ x[2] \in call[t].docs
                             /\ Given(call[t].p)
  BY <1>1, <1>2, CallFields DEF Inserted, Rows, Doing
<1> QED
  BY <1>1, <1>2, <1>3, <1>4, <1>5 DEF Doing

LEMMA RacedRows ==
    ASSUME LockInv, [Next]_vars
    PROVE  raced' \in SUBSET Rows
<1>1. raced \subseteq Rows /\ Missed \subseteq Rows
  BY CallFields DEF LockInv, TypeOK, Missed, Pending
<1> QED
  BY <1>1 DEF Next, Races, vars

LEMMA LocksStep ==
    ASSUME LockInv, [Next]_vars
    PROVE  LockInv'
<1>0. raced' \in SUBSET Rows
  BY RacedRows
<1>1. CASE UNCHANGED vars
  BY <1>1
  DEF vars, LockInv, TypeOK, LocksKept, LocksOf, CallsFormed, CallFormed, Doing, Busy
<1>2. ASSUME NEW p \in Permissions, Expire(p) PROVE LockInv'
  <2>1. TypeOK'
    BY <1>0, <1>2 DEF Expire, LockInv, TypeOK
  <2>2. LocksKept'
    BY <1>2 DEF Expire, LockInv, LocksKept, LocksOf, Doing, Busy
  <2>3. \A q \in Permissions : permission[q] = "NONE" => permission'[q] = "NONE"
    BY <1>2 DEF Expire, LockInv, TypeOK
  <2>4. CallsFormed'
    BY <1>2, <2>3 DEF Expire, LockInv, CallsFormed, CallFormed, Doing, Busy
  <2> QED
    BY <2>1, <2>2, <2>4 DEF LockInv
<1>3. ASSUME NEW t \in Threads, ThreadStep(t) PROVE LockInv'
  <2> USE <1>0 DEF Typed
  <2>10. Typed /\ call[t] \in Call /\ LocksOf(t) /\ CallFormed(t) /\ TypeOK
    BY DEF LockInv, TypeOK, LocksKept, CallsFormed
  <2>1. CASE Begins(t)
    BY <2>1, LocksBegin DEF Begins
  <2>2. CASE Goes(t)
    <3>1. Typed' /\ permission' = permission
      BY <2>10, <2>2 DEF Goes, Local
    <3> QED
      BY <2>2, <3>1, LocksMove DEF Goes
  <2>3. CASE Doing(t, {"read"}) /\ Put(t)
    <3>1. /\ call'[t] \in Call /\ Becomes(t, call'[t])
          /\ call'[t].op = "read" /\ call'[t].at = "project" /\ call'[t].held = call[t].held
          /\ call'[t].put = {}
          /\ \A x \in Inserted(t) : x \in Rows
      BY <2>3, PutsAtOnce
    <3>2. cache' = cache \cup Inserted(t) /\ UNCHANGED <<permission, mapping, deleted, event>>
      BY <2>3 DEF Put
    <3>3. Typed'
      BY <2>10, <3>1, <3>2
    <3>4. LocksOf(t)' /\ CallFormed(t)'
      BY <2>10, <2>3, <3>1 DEF LocksOf, CallFormed, Doing, Busy, CatalogFirst
    <3> QED
      BY <3>1, <3>2, <3>3, <3>4, LocksMove
  <2>4. CASE Answers(t)
    <3>1. Typed' /\ permission' = permission
      BY <2>10, <2>4, CallFields DEF Answers
    <3>2. CASE Doing(t, {"read"})
      <4>1. Becomes(t, NoCall)
        BY <2>4, <3>2 DEF Answers, Doing
      <4> QED
        BY <3>1, <4>1, <2>10, BecomesType, NoCallIsCall, IdleFormed, LocksMove DEF NoCall
    <3>3. CASE Doing(t, {"list"})
      <4>1. call' = [u \in Threads |->
                       IF u = t THEN NoCall ELSE [call[u] EXCEPT !.del = @ \ call[t].put]]
        BY <2>4, <3>3 DEF Answers, Doing
      <4> QED
        BY <2>10, <3>1, <4>1, Commits, LocksCommit
    <3> QED
      BY <2>4, <3>2, <3>3 DEF Answers
  <2>5. CASE CommitGrant(t)
    <3>1. "permissions" \in call[t].held /\ call[t].p \in Permissions
      BY <2>10, <2>5 DEF CommitGrant, LocksOf, CallFormed, Doing
    <3>2. permission' \in [Permissions -> {"NONE", "ACTIVE", "EXPIRED", "REVOKED"}]
      BY <2>10, <2>5 DEF CommitGrant
    <3>3. event' \in SUBSET (Permissions \X {"GRANT", "REVOKE"}) /\ UNCHANGED <<mapping, deleted>>
      BY <2>10, <2>5, <3>1 DEF CommitGrant
    <3>4. cache' \in SUBSET Rows
      BY <2>10, <2>5, CallFields DEF CommitGrant, Committed
    <3>5. Typed'
      BY <2>10, <3>2, <3>3, <3>4
    <3>6. call' \in [Threads -> Call] /\ call'[t] = NoCall /\ OthersKept(t, call[t].put)
      BY <2>10, <2>5, Commits DEF CommitGrant, Committed
    <3>7. \A u \in Threads \ {t} : ~Doing(u, {"grant"})
      BY <3>1, PermissionsExclusive DEF Doing
    <3> QED
      BY <3>5, <3>6, <3>7, LocksCommit
  <2>6. CASE CommitRevoke(t)
    <3>1. "permissions" \in call[t].held /\ call[t].p \in Permissions
      BY <2>10, <2>6 DEF CommitRevoke, LocksOf, CallFormed, Doing
    <3>2. permission' \in [Permissions -> {"NONE", "ACTIVE", "EXPIRED", "REVOKED"}]
      BY <2>10, <2>6 DEF CommitRevoke
    <3>3. /\ cache' \in SUBSET Rows /\ event' \in SUBSET (Permissions \X {"GRANT", "REVOKE"})
          /\ UNCHANGED <<mapping, deleted>>
      BY <2>10, <2>6, <3>1 DEF CommitRevoke
    <3>4. Typed'
      BY <2>10, <3>2, <3>3
    <3>5. \A u \in Threads \ {t} : ~Doing(u, {"grant"})
      BY <3>1, PermissionsExclusive DEF Doing
    <3>6. Becomes(t, NoCall) /\ call'[t] = NoCall /\ NoCall.held = {}
      BY <2>10, <2>6, BecomesType, NoCallIsCall DEF CommitRevoke, NoCall
    <3> QED
      BY <3>4, <3>5, <3>6, NoCallIsCall, IdleFormed, LocksMove
  <2>7. CASE CommitRefresh(t)
    <3>1. Typed' /\ permission' = permission
      BY <2>10, <2>7, CallFields DEF CommitRefresh, Committed
    <3> QED
      BY <2>10, <2>7, <3>1, Commits, LocksCommit DEF CommitRefresh, Committed
  <2>8. CASE CommitEdit(t)
    <3>1. Typed' /\ permission' = permission
      BY <2>10, <2>8, CallFields DEF CommitEdit, Committed, CallFormed, Doing, CatalogFirst
    <3> QED
      BY <2>10, <2>8, <3>1, Commits, LocksCommit DEF CommitEdit, Committed
  <2>9. CASE CommitDelete(t)
    <3>1. Typed' /\ "permissions" \in call[t].held
      BY <2>10, <2>9 DEF CommitDelete, LocksOf, CallFormed, PermissionsOf, Doing
    <3>2. \A u \in Threads \ {t} : ~Doing(u, {"grant"})
      BY <3>1, PermissionsExclusive DEF Doing
    <3>3. Becomes(t, NoCall) /\ call'[t] = NoCall
      BY <2>10, <2>9, BecomesType, NoCallIsCall DEF CommitDelete
    <3>4. NoCall.held = {}
      BY DEF NoCall
    <3> QED
      BY <3>1, <3>2, <3>3, <3>4, NoCallIsCall, IdleFormed, LocksMove
  <2> QED
    BY <1>3, <2>1, <2>2, <2>3, <2>4, <2>5, <2>6, <2>7, <2>8, <2>9 DEF ThreadStep
<1> QED
  BY <1>1, <1>2, <1>3, Steps

\* In every reachable state the locks of both services are held by one thread each,
\* every operation holds those its steps rely on, and its arguments are well formed:
\* with any threads, whichever operations overlap.
THEOREM LocksAlwaysKept == Spec => []LockInv
<1>1. Init => LockInv
  BY InitSound DEF CacheSound, LockInv
<1>2. LockInv /\ [Next]_vars => LockInv'
  BY LocksStep
<1> QED
  BY <1>1, <1>2, PTL DEF Spec

\* A thread that is in none of the operations that take the lock of the collections
\* first and holds anything holds the lock of the permissions, so no two of them can
\* wait for each other.
THEOREM OnlyEditsInvertLocksAlways == Spec => []OnlyEditsInvertLocks
<1>1. LockInv => OnlyEditsInvertLocks
  <2> SUFFICES ASSUME LockInv, NEW t \in Threads, NEW u \in Threads, t # u, Stuck(t, u)
               PROVE  Doing(t, CatalogFirst) \/ Doing(u, CatalogFirst)
    BY DEF OnlyEditsInvertLocks
  <2>1. call[t].held # {} /\ call[u].held # {}
    BY DEF Stuck
  <2>2. ASSUME NEW x \in Threads, call[x].held # {}, ~Doing(x, CatalogFirst)
        PROVE  "permissions" \in call[x].held
    <3>1. call[x] \in Call /\ LocksOf(x)
      BY DEF LockInv, TypeOK, LocksKept
    <3> QED
      BY <2>2, <3>1 DEF LocksOf, Call, Doing, CatalogFirst, Edits
  <2> QED
    BY <2>1, <2>2 DEF LockInv, LocksKept
<1> QED
  BY <1>1, LocksAlwaysKept, PTL

-----------------------------------------------------------------------------
(* The cache.                                                                *)

Covered == CoveredOrRaced /\ PendingCovered /\ RemovalComplete

\* While one thread removes a mapping nobody else has the lock of the collections.
LEMMA RemovingExclusive ==
    ASSUME LockInv, NEW t \in Threads, NEW u \in Threads, t # u, Removing(t)
    PROVE  /\ ~Doing(u, {"add", "remove", "change"}) /\ ~(Doing(u, {"delete"}) /\ Busy(u, "lock"))
           /\ ~Free(u, "collections")
           /\ call[t].c \in Collections
  BY DEF LockInv, LocksKept, LocksOf, CallsFormed, CallFormed, Removing, Doing, CatalogFirst, Free

\* Who has not the lock of the permissions is about to put nothing, and only a refresh
\* that is about to commit has put rows.
LEMMA Outsider ==
    ASSUME LockInv, NEW u \in Threads, "permissions" \notin call[u].held
    PROVE  ~Busy(u, "put") /\ ~Doing(u, {"grant"})
<1>1. call[u] \in Call /\ LocksOf(u) /\ CallFormed(u)
  BY DEF LockInv, TypeOK, LocksKept, CallsFormed
<1>2. Busy(u, "put") => Doing(u, {"read", "list", "grant", "refresh"})
  BY <1>1 DEF Call, CallFormed, Doing, Busy, CatalogFirst, Edits
<1> QED
  BY <1>1, <1>2 DEF LocksOf, Doing, Busy

\* A row that is covered, or raced before, is covered or raced after the step.
LEMMA StillCovered ==
    ASSUME Races, NEW r, r \in cache' \/ r \in Pending',
           r \in raced \/ (r[2] \in Reached(r[1]))'
    PROVE  Covers(r)'
  BY DEF Races, Covers

\* A raced row is kept as long as there is a removal that makes it wrong.
LEMMA StillRaced ==
    ASSUME Races, NEW r, r \in cache' \/ r \in Pending', r \in raced \/ r \in Missed,
           NEW x \in Threads, Removes(x, r)'
    PROVE  r \in raced'
  BY DEF Races

LEMMA LocalCovers ==
    ASSUME Covered, Races, Local
    PROVE  CoveredOrRaced'
<1>1. \A q : (Reached(q)' = Reached(q)) /\ (Given(q)' = Given(q))
  BY DEF Local, Reached, OnCollection, Given
<1>2. ASSUME NEW r \in cache' PROVE Covers(r)'
  BY <1>1, <1>2, StillCovered DEF Local, Covered, CoveredOrRaced, Covers
<1> QED
  BY <1>1, <1>2 DEF Local, Covered, CoveredOrRaced

\* A call other than t's is as covered as before, if nothing it relies on is taken back.
LEMMA OtherCovered ==
    ASSUME LockInv, Covered, Races, NEW t \in Threads, NEW rows, OthersKept(t, rows),
           NEW u \in Threads \ {t},
           \A r \in call[u].put :
              /\ Given(r[1]) => Given(r[1])'
              /\ r \in raced \/ (r[2] \in Reached(r[1]) => (r[2] \in Reached(r[1]))'),
           \A q \in Permissions : Busy(u, "put") /\ q = call[u].p => Reached(q) \subseteq Reached(q)'
    PROVE  CallCovered(u)'
<1>1. CallCovered(u)
  BY DEF Covered, PendingCovered
<1>2. /\ call'[u].op = call[u].op /\ call'[u].at = call[u].at /\ call'[u].p = call[u].p
      /\ call'[u].docs = call[u].docs /\ call'[u].put = call[u].put
  BY DEF OthersKept
<1>3. ASSUME NEW r \in call'[u].put
      PROVE  Covers(r)' /\ (Given(r[1])' \/ (Doing(u, {"grant"})' /\ r[1] = call'[u].p))
  <2>1. r \in Pending'
    BY DEF Pending
  <2>2. r \in raced \/ (r[2] \in Reached(r[1]))'
    BY <1>1, <1>2 DEF CallCovered, Covers
  <2>3. Covers(r)'
    BY <2>1, <2>2, StillCovered
  <2> QED
    BY <1>1, <1>2, <2>3 DEF CallCovered, Doing
<1>4. ASSUME Busy(u, "put")' PROVE call'[u].docs \subseteq Reached(call[u].p)'
  <2>1. PICK q \in Permissions : q = call[u].p
    BY <1>2, <1>4 DEF LockInv, CallsFormed, CallFormed, Busy
  <2>2. call[u].docs \subseteq Reached(q)'
    BY <1>1, <1>2, <1>4, <2>1 DEF CallCovered, Busy
  <2> QED
    BY <1>2, <2>1, <2>2 DEF Reached, OnCollection
<1> QED
  BY <1>3, <1>4 DEF CallCovered, Reached, OnCollection

\* Neither does it write more for a document that is removed.
LEMMA OtherApart ==
    ASSUME LockInv, Covered, Races, NEW t \in Threads, NEW rows, OthersKept(t, rows),
           NEW u \in Threads \ {t}, NEW x \in Threads \ {u}, Removing(x), Removing(x)',
           call'[x].c = call[x].c, call'[x].d = call[x].d
    PROVE  PutsApart(u, call[x].c, call[x].d)'
<1>1. PutsApart(u, call[x].c, call[x].d)
  BY DEF Covered, RemovalComplete
<1>2. /\ call'[u].at = call[u].at /\ call'[u].p = call[u].p /\ call'[u].put = call[u].put
  BY DEF OthersKept
<1>3. ASSUME NEW r \in call'[u].put, Resource[r[1]] = call'[x].c, r[2] = call'[x].d
      PROVE  r \in raced'
  <2>1. r \in raced
    BY <1>1, <1>2, <1>3 DEF PutsApart
  <2>2. r \in Pending' /\ Removes(x, r)'
    BY <1>3 DEF Pending, Removes
  <2> QED
    BY <2>1, <2>2, StillRaced
<1> QED
  BY <1>1, <1>2, <1>3 DEF PutsApart, OnCollection, Busy

\* A thread writes to the ledgers or the cache and has put nothing more: what it must not
\* do to the others.
LEMMA CoveredWrites ==
    ASSUME LockInv, Covered, Races, NEW t \in Threads, NEW rows, OthersKept(t, rows),
           call'[t].put = {}, ~Busy(t, "put")', ~Removing(t)',
           CoveredOrRaced',
           \A u \in Threads \ {t} : \A r \in call[u].put :
              /\ Given(r[1]) => Given(r[1])'
              /\ r \in raced \/ (r[2] \in Reached(r[1]) => (r[2] \in Reached(r[1]))'),
           \A u \in Threads \ {t} : \A q \in Permissions :
              Busy(u, "put") /\ q = call[u].p => Reached(q) \subseteq Reached(q)',
           \A x \in Threads \ {t} : Removing(x) =>
              \A r \in cache' : Removes(x, r) => r \in raced \/ (r \in cache /\ r \notin rows)
    PROVE  Covered'
<1>1. CallCovered(t)'
  BY DEF CallCovered
<1>2. \A u \in Threads \ {t} : CallCovered(u)'
  BY OtherCovered
<1>3. PendingCovered'
  BY <1>1, <1>2 DEF PendingCovered
<1>4. ASSUME NEW x \in Threads, Removing(x)'
      PROVE  /\ \A r \in cache' : Removes(x, r)' => r \in call'[x].del \cup raced'
             /\ \A u \in Threads \ {x} : PutsApart(u, call[x].c, call[x].d)'
  <2>1. /\ x # t /\ Removing(x) /\ call'[x].c = call[x].c /\ call'[x].d = call[x].d
        /\ call'[x].del = call[x].del \ rows
    BY <1>4 DEF OthersKept, Removing, Doing, Busy
  <2>2. ASSUME NEW r \in cache', Removes(x, r)' PROVE r \in call'[x].del \cup raced'
    <3>1. Removes(x, r)
      BY <2>1, <2>2 DEF Removes
    <3>2. CASE r \in raced
      BY <2>2, <3>2, StillRaced
    <3>3. CASE r \notin raced
      <4>1. r \in cache /\ r \notin rows
        BY <2>1, <3>1, <3>3
      <4>2. r \in call[x].del
        BY <2>1, <3>1, <3>3, <4>1 DEF Covered, RemovalComplete
      <4> QED
        BY <2>1, <4>1, <4>2
    <3> QED
      BY <3>2, <3>3
  <2>3. ASSUME NEW u \in Threads \ {x} PROVE PutsApart(u, call[x].c, call[x].d)'
    <3>1. CASE u = t
      BY <3>1 DEF PutsApart
    <3>2. CASE u # t
      BY <1>4, <2>1, <3>2, OtherApart
    <3> QED
      BY <3>1, <3>2
  <2> QED
    BY <2>2, <2>3
<1>5. RemovalComplete'
  BY <1>4 DEF RemovalComplete, PutsApart, OnCollection
<1> QED
  BY <1>3, <1>5 DEF Covered

\* A call ends, or goes on, without a commit of its own.
LEMMA OthersSame ==
    ASSUME NEW t \in Threads, \A u \in Threads \ {t} : call'[u] = call[u]
    PROVE  OthersKept(t, {})
  BY DEF OthersKept

LEMMA CoveredBegins ==
    ASSUME LockInv, Covered, Races, NEW t \in Threads, Begins(t)
    PROVE  Covered'
<1>1. PICK r \in Call, lock \in Locks : Begin(t, lock, r) /\ Opening(r, lock)
  BY DEF Begins
<1>2. /\ call'[t].op = r.op /\ call'[t].at = r.at /\ call'[t].put = {} /\ Local
      /\ \A u \in Threads \ {t} : call'[u] = call[u]
  BY <1>1, Opens, BecomesType DEF LockInv
<1>3. r.at \in {"rows", "lock", "delete", "catalog"}
  BY <1>1 DEF Opening
<1>4. ~Busy(t, "put")' /\ ~Removing(t)'
  BY <1>2, <1>3 DEF Removing, Busy
<1>5. \A q : (Reached(q)' = Reached(q)) /\ (Given(q)' = Given(q))
  BY <1>2 DEF Local, Reached, OnCollection, Given
<1>6. cache' = cache /\ CoveredOrRaced' /\ OthersKept(t, {})
  BY <1>2, LocalCovers, OthersSame DEF Local
<1> QED
  BY <1>2, <1>4, <1>5, <1>6, CoveredWrites

\* The rows a removal has to see: those of transactions it cannot see are raced, and
\* nobody who goes on to put others has the lock.
LEMMA CoveredGoes ==
    ASSUME LockInv, Covered, Races, NEW t \in Threads, Goes(t)
    PROVE  Covered'
<1>1. Local /\ OthersKept(t, {}) /\ \A u \in Threads \ {t} : call'[u] = call[u]
  BY BecomesType, OthersSame DEF Goes, LockInv
<1>2. \A q : (Reached(q)' = Reached(q)) /\ (Given(q)' = Given(q)) /\ (OnCollection(q)' = OnCollection(q))
  BY <1>1 DEF Local, Reached, OnCollection, Given
<1>3. CoveredOrRaced' /\ cache' = cache
  BY <1>1, LocalCovers DEF Local
<1>4. CallCovered(t)'
  <2>1. CallCovered(t) /\ PutsGiven(t)'
    BY DEF Covered, PendingCovered, CallCovered, Goes, PutsGiven
  <2>2. ASSUME NEW r \in call'[t].put PROVE Covers(r)'
    <3>1. r \in raced \/ r[2] \in Reached(r[1])
      BY <2>1 DEF Goes, PutsInMind, CallCovered, Covers
    <3>2. r \in Pending'
      BY DEF Pending
    <3> QED
      BY <1>2, <3>1, <3>2, StillCovered
  <2>3. Busy(t, "put")' => call'[t].docs \subseteq Reached(call[t].p)'
    BY <1>2 DEF Goes, PutsInMind
  <2> QED
    BY <2>1, <2>2, <2>3 DEF CallCovered, PutsGiven, Reached, OnCollection
<1>5. \A u \in Threads \ {t} : CallCovered(u)'
  BY <1>1, <1>2, OtherCovered
<1>6. PendingCovered'
  BY <1>4, <1>5 DEF PendingCovered
<1>7. ASSUME NEW x \in Threads, Removing(x)', Removing(x), call'[x].c = call[x].c,
             call'[x].d = call[x].d, call'[x].del = call[x].del
      PROVE  /\ \A r \in cache' : Removes(x, r)' => r \in call'[x].del \cup raced'
             /\ \A u \in Threads \ {x} : PutsApart(u, call[x].c, call[x].d)'
  <2>1. ASSUME NEW r \in cache', Removes(x, r)' PROVE r \in call'[x].del \cup raced'
    <3>1. r \in cache /\ Removes(x, r)
      BY <1>3, <1>7, <2>1 DEF Removes
    <3>2. r \in call[x].del \/ r \in raced
      BY <1>7, <3>1 DEF Covered, RemovalComplete
    <3> QED
      BY <1>7, <2>1, <3>2, StillRaced
  <2>2. ASSUME x # t PROVE PutsApart(t, call[x].c, call[x].d)'
    <3>1. PutsApart(t, call[x].c, call[x].d)
      BY <1>7, <2>2 DEF Covered, RemovalComplete
    <3>2. ~Free(t, "collections") /\ call[x].c \in Collections
      BY <1>7, <2>2, RemovingExclusive
    <3>3. ~Busy(t, "put")' \/ ~OnCollection(call'[t].p)
      BY <3>2 DEF Goes, PutsInMind
    <3>4. ASSUME NEW r \in call'[t].put, Resource[r[1]] = call'[x].c, r[2] = call'[x].d
          PROVE  r \in raced'
      <4>1. r \in call[t].put
        BY <1>7, <3>1, <3>2, <3>4 DEF Goes, PutsInMind, PutsApart, OnCollection
      <4>2. r \in raced
        BY <1>7, <3>1, <3>4, <4>1 DEF PutsApart
      <4>3. r \in Pending' /\ Removes(x, r)'
        BY <1>7, <3>4 DEF Pending, Removes
      <4> QED
        BY <4>2, <4>3, StillRaced
    <3> QED
      BY <3>3, <3>4 DEF PutsApart, OnCollection
  <2>3. ASSUME NEW u \in Threads \ {x}, u # t PROVE PutsApart(u, call[x].c, call[x].d)'
    BY <1>1, <1>7, <2>3, OtherApart
  <2> QED
    BY <2>1, <2>2, <2>3
<1>8. ASSUME Removing(t)', ~Removing(t), call'[t].c = call[t].c, call'[t].d = call[t].d,
             Free(t, "permissions"), call'[t].del = cache \cap (Permissions \X {call[t].d})
      PROVE  /\ \A r \in cache' : Removes(t, r)' => r \in call'[t].del \cup raced'
             /\ \A u \in Threads \ {t} : PutsApart(u, call[t].c, call[t].d)'
  <2>1. ASSUME NEW r \in cache', Removes(t, r)' PROVE r \in call'[t].del
    <3>1. r \in cache /\ r \in Rows /\ r[2] = call[t].d
      BY <1>3, <1>8, <2>1 DEF Removes, LockInv, TypeOK
    <3> QED
      BY <1>8, <3>1 DEF Rows
  <2>2. ASSUME NEW u \in Threads \ {t} PROVE PutsApart(u, call[t].c, call[t].d)'
    <3>1. ~Busy(u, "put") /\ call'[u] = call[u]
      BY <1>1, <1>8, Outsider DEF Free
    <3>2. ASSUME NEW r \in call'[u].put, Resource[r[1]] = call'[t].c, r[2] = call'[t].d
          PROVE  r \in raced'
      <4>1. r \in Pending /\ r \in Pending'
        BY <3>1, <3>2 DEF Pending
      <4>2. ~Removes(t, r) /\ Removes(t, r)'
        BY <1>8, <3>2 DEF Removes
      <4>3. r \in Missed
        BY <4>1, <4>2 DEF Missed
      <4> QED
        BY <4>1, <4>2, <4>3, StillRaced
    <3> QED
      BY <3>1, <3>2 DEF PutsApart, Busy
  <2> QED
    BY <2>1, <2>2
<1>9. ASSUME NEW x \in Threads, Removing(x)'
      PROVE  /\ \A r \in cache' : Removes(x, r)' => r \in call'[x].del \cup raced'
             /\ \A u \in Threads \ {x} : PutsApart(u, call[x].c, call[x].d)'
  <2>1. CASE x # t
    <3>1. call'[x] = call[x]
      BY <1>1, <2>1
    <3>2. Removing(x)
      BY <1>9, <3>1 DEF Removing, Doing, Busy
    <3> QED
      BY <1>7, <1>9, <3>1, <3>2
  <2>2. CASE x = t
    <3>1. CASE Removing(t) /\ call'[t].del = call[t].del
      BY <1>7, <1>9, <2>2, <3>1 DEF Goes
    <3>2. CASE ~(Removing(t) /\ call'[t].del = call[t].del)
      <4>1. /\ call'[t].c = call[t].c /\ call'[t].d = call[t].d
            /\ ~Removing(t) /\ Free(t, "permissions")
            /\ call'[t].del = cache \cap (Permissions \X {call[t].d})
        BY <1>9, <2>2, <3>2 DEF Goes
      <4> QED
        BY <1>8, <1>9, <2>2, <4>1
    <3> QED
      BY <3>1, <3>2
  <2> QED
    BY <2>1, <2>2
<1>10. RemovalComplete'
  BY <1>9 DEF RemovalComplete, PutsApart, OnCollection
<1> QED
  BY <1>3, <1>6, <1>10 DEF Covered

LEMMA CoveredExpire ==
    ASSUME LockInv, Covered, Races, NEW p \in Permissions, Expire(p)
    PROVE  Covered'
<1>1. /\ \A q : Given(q) => Given(q)'
      /\ \A q : Reached(q)' = Reached(q)
      /\ call' = call /\ cache' = cache
  BY DEF Expire, Given, Reached, OnCollection, LockInv, TypeOK
<1>2. ASSUME NEW r \in cache PROVE Given(r[1])' /\ Covers(r)'
  BY <1>1, <1>2, StillCovered DEF Covered, CoveredOrRaced, Covers
<1>3. ASSUME NEW u \in Threads PROVE CallCovered(u)'
  <2>1. CallCovered(u)
    BY DEF Covered, PendingCovered
  <2>2. ASSUME NEW r \in call[u].put PROVE Covers(r)'
    <3>1. r \in Pending' /\ Covers(r)
      BY <1>1, <2>1 DEF Pending, CallCovered
    <3> QED
      BY <1>1, <3>1, StillCovered DEF Covers
  <2>3. Busy(u, "put")' => call'[u].docs \subseteq Reached(call[u].p)'
    BY <1>1, <2>1 DEF CallCovered, Busy
  <2> QED
    BY <1>1, <2>1, <2>2, <2>3 DEF CallCovered, Doing, Reached, OnCollection
<1>4. ASSUME NEW x \in Threads, Removing(x)'
      PROVE  /\ \A r \in cache' : Removes(x, r)' => r \in call'[x].del \cup raced'
             /\ \A u \in Threads \ {x} : PutsApart(u, call[x].c, call[x].d)'
  <2>1. Removing(x) /\ \A r : Removes(x, r)' = Removes(x, r)
    BY <1>1, <1>4 DEF Removing, Removes, Doing, Busy
  <2>2. ASSUME NEW r \in cache, Removes(x, r) PROVE r \in call[x].del \cup raced'
    BY <1>1, <2>1, <2>2, StillRaced DEF Covered, RemovalComplete
  <2>3. ASSUME NEW u \in Threads \ {x} PROVE PutsApart(u, call[x].c, call[x].d)'
    <3>1. PutsApart(u, call[x].c, call[x].d)
      BY <2>1 DEF Covered, RemovalComplete
    <3>2. ASSUME NEW r \in call[u].put, Resource[r[1]] = call[x].c, r[2] = call[x].d
          PROVE  r \in raced'
      <4>1. r \in raced /\ r \in Pending'
        BY <1>1, <3>1, <3>2 DEF PutsApart, Pending
      <4>2. Removes(x, r)'
        BY <2>1, <3>2 DEF Removes
      <4> QED
        BY <4>1, <4>2, StillRaced
    <3> QED
      BY <1>1, <3>1, <3>2 DEF PutsApart, OnCollection, Busy
  <2> QED
    BY <1>1, <2>1, <2>2, <2>3
<1>5. CoveredOrRaced' /\ PendingCovered'
  BY <1>1, <1>2, <1>3 DEF CoveredOrRaced, PendingCovered
<1>6. RemovalComplete'
  BY <1>4 DEF RemovalComplete, PutsApart, OnCollection
<1> QED
  BY <1>5, <1>6 DEF Covered

\* A call ends with a commit that takes nothing back from a permission or a mapping.
LEMMA CoveredCommits ==
    ASSUME LockInv, Covered, Races, NEW t \in Threads, NEW rows, OthersKept(t, rows),
           call'[t] = NoCall, CoveredOrRaced',
           \A q \in Permissions : (Given(q) => Given(q)') /\ Reached(q)' = Reached(q),
           \A x \in Threads \ {t} : Removing(x) =>
              \A r \in cache' : Removes(x, r) => r \in raced \/ (r \in cache /\ r \notin rows)
    PROVE  Covered'
<1>1. call'[t].put = {} /\ ~Busy(t, "put")' /\ ~Removing(t)'
  BY IdleFormed
<1>2. ASSUME NEW u \in Threads, NEW r \in call[u].put PROVE r[1] \in Permissions
  BY CallFields DEF LockInv, TypeOK, Rows
<1>3. \A u \in Threads \ {t} : \A r \in call[u].put :
         /\ Given(r[1]) => Given(r[1])'
         /\ r[2] \in Reached(r[1]) => (r[2] \in Reached(r[1]))'
  BY <1>2
<1> QED
  BY <1>1, <1>3, CoveredWrites

\* The rows of a cache that only lost some, or gained covered ones, are as covered as before.
LEMMA CacheStays ==
    ASSUME Covered, Races, NEW r \in cache', Covers(r),
           r[2] \in Reached(r[1]) => (r[2] \in Reached(r[1]))'
    PROVE  Covers(r)'
  BY StillCovered DEF Covers

LEMMA CoveredPut ==
    ASSUME LockInv, Covered, Races, NEW t \in Threads, Doing(t, {"read"}), Put(t)
    PROVE  Covered'
<1>1. /\ call'[t].op = "read" /\ call'[t].at = "project" /\ call'[t].put = {}
      /\ call[t].p \in Permissions
      /\ \A u \in Threads \ {t} : call'[u] = call[u]
      /\ \A x \in Inserted(t) : x[1] = call[t].p /\ x[2] \in call[t].docs /\ Given(call[t].p)
  BY PutsAtOnce, BecomesType DEF LockInv
<1>2. /\ Busy(t, "put") /\ cache' = cache \cup Inserted(t)
      /\ permission' = permission /\ mapping' = mapping
  BY DEF Put
<1>3. ~Busy(t, "put")' /\ ~Removing(t)'
  BY <1>1 DEF Removing, Doing, Busy
<1>4. /\ \A q : Given(q)' = Given(q)
      /\ \A q : Reached(q)' = Reached(q)
  BY <1>2 DEF Given, Reached, OnCollection
<1>5. ASSUME NEW r \in cache' PROVE Given(r[1])' /\ Covers(r)'
  <2>1. CASE r \in cache
    BY <1>4, <2>1, CacheStays DEF Covered, CoveredOrRaced
  <2>2. CASE r \in Inserted(t)
    <3>1. Given(r[1]) /\ r[2] \in Reached(r[1])
      BY <1>1, <1>2, <2>2 DEF Covered, PendingCovered, CallCovered
    <3> QED
      BY <1>4, <3>1, StillCovered
  <2> QED
    BY <1>2, <2>1, <2>2
<1>6. ASSUME NEW x \in Threads \ {t}, Removing(x), NEW r \in cache', Removes(x, r)
      PROVE  r \in cache
  <2>1. ~OnCollection(call[t].p) /\ call[x].c \in Collections
    BY <1>2, <1>6, RemovingExclusive DEF Covered, RemovalComplete, PutsApart
  <2> QED
    BY <1>1, <1>2, <1>6, <2>1 DEF OnCollection, Removes
<1>7. CoveredOrRaced'
  BY <1>5 DEF CoveredOrRaced
<1> QED
  BY <1>1, <1>3, <1>4, <1>6, <1>7, OthersSame, CoveredWrites

\* What a committed call wrote: of a mapping that is removed only raced rows.
LEMMA PutsWhileRemoving ==
    ASSUME Covered, NEW t \in Threads, NEW x \in Threads \ {t}, Removing(x),
           NEW r \in call[t].put, Removes(x, r)
    PROVE  r \in raced
  BY DEF Covered, RemovalComplete, PutsApart, Removes

LEMMA CoveredAnswers ==
    ASSUME LockInv, Covered, Races, NEW t \in Threads, Answers(t)
    PROVE  Covered'
<1>1. permission' = permission /\ mapping' = mapping /\ TypeOK
  BY DEF Answers, LockInv
<1>2. /\ \A q : Given(q)' = Given(q)
      /\ \A q : Reached(q)' = Reached(q)
  BY <1>1 DEF Given, Reached, OnCollection
<1>3. CASE Becomes(t, NoCall) /\ cache' \subseteq cache
  <2>1. call'[t] = NoCall /\ OthersKept(t, {})
    BY <1>1, <1>3, BecomesType, NoCallIsCall, OthersSame
  <2>2. CoveredOrRaced'
    BY <1>2, <1>3, CacheStays DEF Covered, CoveredOrRaced
  <2> QED
    BY <1>2, <1>3, <2>1, <2>2, CoveredCommits
<1>4. CASE /\ Doing(t, {"list"})
           /\ cache' = ((cache \ call[t].del) \cup call[t].put) \ Expired(t)
           /\ call' = [u \in Threads |->
                         IF u = t THEN NoCall ELSE [call[u] EXCEPT !.del = @ \ call[t].put]]
  <2>1. call'[t] = NoCall /\ OthersKept(t, call[t].put)
    BY <1>1, <1>4, Commits
  <2>2. \A r \in cache' : Given(r[1]) /\ Covers(r)
    BY <1>4 DEF Covered, CoveredOrRaced, PendingCovered, CallCovered, Doing
  <2>3. CoveredOrRaced'
    BY <1>2, <2>2, CacheStays DEF CoveredOrRaced
  <2>4. \A x \in Threads \ {t} : Removing(x) =>
           \A r \in cache' : Removes(x, r) => r \in raced \/ (r \in cache /\ r \notin call[t].put)
    BY <1>4, PutsWhileRemoving
  <2> QED
    BY <1>2, <2>1, <2>3, <2>4, CoveredCommits
<1> QED
  BY <1>3, <1>4 DEF Answers

LEMMA CoveredRefresh ==
    ASSUME LockInv, Covered, Races, NEW t \in Threads, CommitRefresh(t)
    PROVE  Covered'
<1>1. /\ permission' = permission /\ mapping' = mapping /\ Doing(t, {"refresh"})
      /\ cache' = (cache \ call[t].del) \cup call[t].put
  BY DEF CommitRefresh, Committed
<1>2. /\ \A q : Given(q)' = Given(q)
      /\ \A q : Reached(q)' = Reached(q)
  BY <1>1 DEF Given, Reached, OnCollection
<1>3. call'[t] = NoCall /\ OthersKept(t, call[t].put)
  BY Commits DEF CommitRefresh, Committed, LockInv
<1>4. \A r \in cache' : Given(r[1]) /\ Covers(r)
  BY <1>1 DEF Covered, CoveredOrRaced, PendingCovered, CallCovered, Doing
<1>5. CoveredOrRaced'
  BY <1>2, <1>4, CacheStays DEF CoveredOrRaced
<1>6. \A x \in Threads \ {t} : Removing(x) =>
         \A r \in cache' : Removes(x, r) => r \in raced \/ (r \in cache /\ r \notin call[t].put)
  BY <1>1, PutsWhileRemoving
<1> QED
  BY <1>2, <1>3, <1>5, <1>6, CoveredCommits

\* The permission of a grant becomes active with the rows put for it.
LEMMA CoveredGrant ==
    ASSUME LockInv, Covered, Races, NEW t \in Threads, CommitGrant(t)
    PROVE  Covered'
<1>1. /\ permission' = [permission EXCEPT ![call[t].p] = "ACTIVE"] /\ mapping' = mapping
      /\ cache' = (cache \ call[t].del) \cup call[t].put
      /\ call[t].p \in Permissions
  BY DEF CommitGrant, Committed, LockInv, CallsFormed, CallFormed, Doing
<1>2. /\ \A q \in Permissions : Given(q) => Given(q)'
      /\ \A q : q = call[t].p => Given(q)'
      /\ \A q : Reached(q)' = Reached(q)
  BY <1>1 DEF Given, Reached, OnCollection, LockInv, TypeOK
<1>3. call'[t] = NoCall /\ OthersKept(t, call[t].put)
  BY Commits DEF CommitGrant, Committed, LockInv
<1>4. ASSUME NEW r \in cache' PROVE Given(r[1])' /\ Covers(r)
  <2>1. CASE r \in cache
    <3>1. r \in Rows
      BY <2>1 DEF LockInv, TypeOK
    <3> QED
      BY <1>2, <2>1, <3>1 DEF Covered, CoveredOrRaced, Rows
  <2>2. CASE r \in call[t].put
    <3>1. Covers(r) /\ (Given(r[1]) \/ r[1] = call[t].p)
      BY <2>2 DEF Covered, PendingCovered, CallCovered
    <3>2. r[1] \in Permissions
      BY <2>2, CallFields DEF LockInv, TypeOK, Rows
    <3> QED
      BY <1>2, <3>1, <3>2
  <2> QED
    BY <1>1, <2>1, <2>2
<1>5. CoveredOrRaced'
  BY <1>2, <1>4, CacheStays DEF CoveredOrRaced
<1>6. \A x \in Threads \ {t} : Removing(x) =>
         \A r \in cache' : Removes(x, r) => r \in raced \/ (r \in cache /\ r \notin call[t].put)
  BY <1>1, PutsWhileRemoving
<1> QED
  BY <1>2, <1>3, <1>5, <1>6, CoveredCommits

\* Nobody else is writing a row of the revoked permission, and those there are go.
LEMMA CoveredRevoke ==
    ASSUME LockInv, Covered, Races, NEW t \in Threads, CommitRevoke(t)
    PROVE  Covered'
<1> DEFINE p == call[t].p
<1>1. /\ TypeOK /\ p \in Permissions /\ mapping' = mapping /\ Unwritten(t, {p} \X Documents)
      /\ \/ permission' = permission /\ cache' = cache
         \/ /\ permission' = [permission EXCEPT ![p] = "REVOKED"]
            /\ cache' = cache \ ({p} \X Documents)
  BY DEF CommitRevoke, LockInv, CallsFormed, CallFormed, Doing
<1>2. /\ \A q \in Permissions \ {p} : Given(q) => Given(q)'
      /\ \A q : Reached(q)' = Reached(q)
  BY <1>1 DEF Given, Reached, OnCollection, TypeOK
<1>3. call'[t] = NoCall /\ OthersKept(t, {})
  BY <1>1, BecomesType, NoCallIsCall, OthersSame DEF CommitRevoke
<1>4. ASSUME NEW r \in cache' PROVE Given(r[1])' /\ Covers(r)'
  <2>1. r \in cache /\ r \in Rows /\ Given(r[1]) /\ Covers(r)
    BY <1>1 DEF Covered, CoveredOrRaced, TypeOK
  <2>2. Covers(r)'
    BY <1>2, <2>1, CacheStays
  <2>3. CASE permission' = permission
    BY <2>1, <2>2, <2>3 DEF Given
  <2>4. CASE cache' = cache \ ({p} \X Documents)
    BY <1>2, <2>1, <2>2, <2>4 DEF Rows
  <2> QED
    BY <1>1, <2>3, <2>4
<1>5. ASSUME NEW u \in Threads \ {t}, NEW r \in call[u].put, Given(r[1]) PROVE Given(r[1])'
  <2>1. r \in Rows
    BY CallFields, <1>1 DEF TypeOK
  <2>2. r[1] # p
    BY <1>1, <2>1 DEF Unwritten, Rows
  <2> QED
    BY <1>2, <1>5, <2>1, <2>2 DEF Rows
<1>6. call'[t].put = {} /\ ~Busy(t, "put")' /\ ~Removing(t)'
  BY <1>3, IdleFormed
<1>7. CoveredOrRaced' /\ cache' \subseteq cache
  BY <1>1, <1>4 DEF CoveredOrRaced
<1>8. \A u \in Threads \ {t} : \A r \in call[u].put :
         /\ Given(r[1]) => Given(r[1])'
         /\ r \in raced \/ (r[2] \in Reached(r[1]) => (r[2] \in Reached(r[1]))')
  BY <1>2, <1>5
<1> QED
  BY <1>2, <1>3, <1>6, <1>7, <1>8, CoveredWrites

\* The commit of an edit: a removal has all rows of its mapping on its list but the raced
\* ones, and the calls of the others write no more of them.
LEMMA CoveredEdit ==
    ASSUME LockInv, Covered, Races, NEW t \in Threads, CommitEdit(t)
    PROVE  Covered'
<1> DEFINE c == call[t].c
           d == call[t].d
<1>1. /\ permission' = permission /\ Busy(t, "commit") /\ Doing(t, CatalogFirst)
      /\ call[t].put = {} /\ cache' = cache \ call[t].del
      /\ \/ mapping' = mapping
         \/ Doing(t, {"add"}) /\ mapping' = mapping \cup {<<c, d>>}
         \/ Doing(t, {"remove"}) /\ mapping' = mapping \ {<<c, d>>}
  <2>1. call[t].put = {}
    BY DEF CommitEdit, LockInv, CallsFormed, CallFormed, Doing, CatalogFirst
  <2> QED
    BY <2>1 DEF CommitEdit, Committed
<1>2. call'[t] = NoCall /\ OthersKept(t, {})
  BY <1>1, Commits DEF CommitEdit, Committed, LockInv
<1>3. call'[t].put = {} /\ ~Busy(t, "put")' /\ ~Removing(t)'
  BY <1>2, IdleFormed
<1>4. \A x \in Threads \ {t} : ~Removing(x)
  BY <1>1, RemovingExclusive DEF Doing, CatalogFirst
<1>5. \A q : Given(q)' = Given(q)
  BY <1>1 DEF Given
<1>6. CASE \A m \in mapping : m \in mapping'
  <2>1. \A q : Reached(q) \subseteq Reached(q)'
    BY <1>6 DEF Reached, OnCollection
  <2>2. \A r \in cache' : Given(r[1])' /\ Covers(r)'
    BY <1>1, <1>5, <2>1, CacheStays DEF Covered, CoveredOrRaced
  <2>3. CoveredOrRaced'
    BY <2>2 DEF CoveredOrRaced
  <2> QED
    BY <1>2, <1>3, <1>4, <1>5, <2>1, <2>3, CoveredWrites
<1>7. CASE Doing(t, {"remove"}) /\ mapping' = mapping \ {<<c, d>>}
  <2>1. Removing(t)
    BY <1>1, <1>7 DEF Removing
  <2>2. \A q \in Permissions : ~OnCollection(q) => Reached(q)' = Reached(q)
    BY DEF Reached, OnCollection
  <2>3. ASSUME NEW r \in Rows, r[2] \in Reached(r[1]), ~Removes(t, r)
        PROVE  (r[2] \in Reached(r[1]))'
    <3>1. r[1] \in Permissions /\ r[2] \in Documents
      BY <2>3 DEF Rows
    <3>2. CASE OnCollection(r[1])
      <4>1. Resource[r[1]] # c \/ r[2] # d
        BY <2>1, <2>3 DEF Removes
      <4>2. <<Resource[r[1]], r[2]>> \in mapping'
        BY <1>7, <2>3, <3>2, <4>1 DEF Reached
      <4> QED
        BY <3>1, <3>2, <4>2 DEF Reached, OnCollection
    <3>3. CASE ~OnCollection(r[1])
      BY <2>2, <2>3, <3>1, <3>3
    <3> QED
      BY <3>2, <3>3
  <2>4. ASSUME NEW r \in cache' PROVE Given(r[1])' /\ Covers(r)'
    <3>1. /\ r \in cache /\ r \notin call[t].del /\ r \in Rows
          /\ Given(r[1]) /\ Covers(r)
      BY <1>1 DEF Covered, CoveredOrRaced, LockInv, TypeOK
    <3>2. r \in raced \/ (r[2] \in Reached(r[1]))'
      BY <2>1, <2>3, <3>1 DEF Covered, RemovalComplete, Covers
    <3> QED
      BY <1>5, <3>1, <3>2, StillCovered
  <2>5. CoveredOrRaced'
    BY <2>4 DEF CoveredOrRaced
  <2>6. \A u \in Threads \ {t} : PutsApart(u, c, d)
    BY <2>1 DEF Covered, RemovalComplete
  <2>7. ASSUME NEW u \in Threads \ {t}, NEW r \in call[u].put
        PROVE  /\ Given(r[1]) => Given(r[1])'
               /\ r \in raced \/ (r[2] \in Reached(r[1]) => (r[2] \in Reached(r[1]))')
    <3>1. r \in Rows
      BY CallFields DEF LockInv, TypeOK
    <3>2. Removes(t, r) => r \in raced
      BY <2>6 DEF PutsApart, Removes
    <3> QED
      BY <1>5, <2>3, <3>1, <3>2
  <2>8. ASSUME NEW u \in Threads \ {t}, NEW q \in Permissions, Busy(u, "put"), q = call[u].p
        PROVE  Reached(q) \subseteq Reached(q)'
    BY <2>2, <2>6, <2>8 DEF PutsApart
  <2> QED
    BY <1>2, <1>3, <1>4, <2>5, <2>7, <2>8, CoveredWrites
<1> QED
  BY <1>1, <1>6, <1>7

\* The deletion of a collection keeps everyone out who could write to the cache, but a
\* refresh that is about to commit; it waits for one of a permission of the collection.
LEMMA CoveredDelete ==
    ASSUME LockInv, Covered, Races, NEW t \in Threads, CommitDelete(t)
    PROVE  Covered'
<1> DEFINE c == call[t].c
<1>1. /\ Doing(t, {"delete"}) /\ Busy(t, "lock")
      /\ "permissions" \in call[t].held /\ "collections" \in call[t].held /\ TypeOK
  BY DEF CommitDelete, LockInv, LocksKept, LocksOf, Doing
<1>2. ASSUME NEW u \in Threads \ {t}
      PROVE  ~Busy(u, "put") /\ ~Doing(u, {"grant"}) /\ ~Removing(u)
  <2>1. "permissions" \notin call[u].held
    BY <1>1 DEF LockInv, LocksKept
  <2> QED
    BY <1>1, <2>1, Outsider, RemovingExclusive
<1>3. call'[t] = NoCall /\ OthersKept(t, {})
  BY <1>1, BecomesType, NoCallIsCall, OthersSame DEF CommitDelete
<1>4. call'[t].put = {} /\ ~Busy(t, "put")' /\ ~Removing(t)'
  BY <1>3, IdleFormed
<1>5. CASE permission' = permission /\ mapping' = mapping /\ cache' = cache
  <2>1. \A q : (Given(q)' = Given(q)) /\ (Reached(q)' = Reached(q))
    BY <1>5 DEF Given, Reached, OnCollection
  <2>2. \A r \in cache' : Given(r[1])' /\ Covers(r)'
    BY <1>5, <2>1, CacheStays DEF Covered, CoveredOrRaced
  <2>3. CoveredOrRaced'
    BY <2>2 DEF CoveredOrRaced
  <2> QED
    BY <1>2, <1>3, <1>4, <2>1, <2>3, CoveredWrites
<1>6. CASE /\ Unwritten(t, (cache \cap Cleaned(c)) \cup (PermissionsOf(c) \X Documents))
           /\ permission' = [p \in Permissions |->
                               IF p \in PermissionsOf(c) THEN "REVOKED" ELSE permission[p]]
           /\ mapping' = {m \in mapping : m[1] # c}
           /\ cache' = cache \ Cleaned(c)
  <2>1. ASSUME NEW r \in Rows, Given(r[1]), r[1] \notin PermissionsOf(c)
        PROVE  /\ Given(r[1])'
               /\ r[2] \in Reached(r[1]) => (r[2] \in Reached(r[1]))'
    <3>1. r[1] \in Permissions /\ r[2] \in Documents
      BY <2>1 DEF Rows
    <3>2. Given(r[1])' /\ Resource[r[1]] # c
      BY <1>6, <2>1, <3>1 DEF Given, PermissionsOf
    <3>3. ASSUME OnCollection(r[1]), r[2] \in Reached(r[1]) PROVE (r[2] \in Reached(r[1]))'
      <4>1. <<Resource[r[1]], r[2]>> \in mapping'
        BY <1>6, <3>2, <3>3 DEF Reached
      <4> QED
        BY <3>1, <3>3, <4>1 DEF Reached, OnCollection
    <3>4. ASSUME ~OnCollection(r[1]), r[2] \in Reached(r[1]) PROVE (r[2] \in Reached(r[1]))'
      BY <3>4 DEF Reached, OnCollection
    <3> QED
      BY <3>2, <3>3, <3>4
  <2>2. ASSUME NEW r \in cache' PROVE Given(r[1])' /\ Covers(r)'
    <3>1. /\ r \in cache /\ r \in Rows /\ r \notin Cleaned(c)
          /\ Given(r[1]) /\ Covers(r)
      BY <1>1, <1>6 DEF Covered, CoveredOrRaced, TypeOK
    <3>2. r[1] \notin PermissionsOf(c)
      BY <3>1 DEF Cleaned
    <3> QED
      BY <2>1, <3>1, <3>2, CacheStays
  <2>3. CoveredOrRaced'
    BY <2>2 DEF CoveredOrRaced
  <2>4. ASSUME NEW u \in Threads \ {t}, NEW r \in call[u].put
        PROVE  /\ Given(r[1])'
               /\ r[2] \in Reached(r[1]) => (r[2] \in Reached(r[1]))'
    <3>1. r \in Rows /\ Given(r[1])
      BY <1>1, <1>2, CallFields DEF TypeOK, Covered, PendingCovered, CallCovered
    <3>2. r[1] \notin PermissionsOf(c)
      BY <1>6, <3>1 DEF Unwritten, Rows
    <3> QED
      BY <2>1, <3>1, <3>2
  <2> QED
    BY <1>2, <1>3, <1>4, <2>3, <2>4, CoveredWrites
<1> QED
  BY <1>5, <1>6 DEF CommitDelete

LEMMA CoveredStep ==
    ASSUME LockInv, Covered, [Next]_vars
    PROVE  Covered'
<1>1. CASE UNCHANGED vars
  BY <1>1
  DEF vars, Covered, CoveredOrRaced, Covers, PendingCovered, CallCovered, RemovalComplete, Removing,
      Removes, PutsApart, Reached, OnCollection, Given, Doing, Busy
<1>2. ASSUME Races, NEW t \in Threads, ThreadStep(t) PROVE Covered'
  <2>1. CASE Begins(t) \/ Goes(t)
    BY <1>2, <2>1, CoveredBegins, CoveredGoes
  <2>2. CASE (Doing(t, {"read"}) /\ Put(t)) \/ Answers(t)
    BY <1>2, <2>2, CoveredPut, CoveredAnswers
  <2>3. CASE CommitGrant(t) \/ CommitRevoke(t) \/ CommitRefresh(t)
    BY <1>2, <2>3, CoveredGrant, CoveredRevoke, CoveredRefresh
  <2>4. CASE CommitEdit(t) \/ CommitDelete(t)
    BY <1>2, <2>4, CoveredEdit, CoveredDelete
  <2> QED
    BY <1>2, <2>1, <2>2, <2>3, <2>4 DEF ThreadStep
<1>3. Next => Races
  BY DEF Next
<1> QED
  BY <1>1, <1>2, <1>3, CoveredExpire, Steps

LEMMA SoundStep ==
    ASSUME CacheSound, [Next]_vars
    PROVE  CacheSound'
<1>1. LockInv /\ Covered
  BY DEF CacheSound, LockInv, Covered
<1>2. LockInv' /\ Covered'
  BY <1>1, LocksStep, CoveredStep
<1> QED
  BY <1>2 DEF CacheSound, LockInv, Covered

\* Whatever requests, refreshes, edits and deletions overlap, for any number of them and of
\* permissions and collections, the access cache never holds a row that the ledger does not
\* cover, but one that was written and not committed when a removal deleted the rows of its
\* document; what each call has written and not committed is covered alike.
THEOREM CacheSoundAlways == Spec => []CacheSound
<1>1. CacheSound /\ [Next]_vars => CacheSound'
  BY SoundStep
<1> QED
  BY <1>1, InitSound, PTL DEF Spec

\* No removal deletes the rows of a document while another of them is not committed.
NothingMissed == Missed = {}

\* The rows that a removal cannot see are all that is wrong: in a behaviour in which no
\* removal deletes rows of a document while another of its rows is written and not
\* committed, the cache never holds more than the ledger.  The code does not prevent it
\* (the run access_stale), but there is no other way to a stale row.
THEOREM CoveredUnlessMissed == Spec /\ [][NothingMissed]_vars => []CacheCovered
<1> DEFINE Kept == CacheSound /\ raced = {}
<1>1. Init => Kept
  BY InitSound DEF Init
<1>2. Kept /\ [Next]_vars /\ [NothingMissed]_vars => Kept'
  BY SoundStep DEF Next, Races, NothingMissed, vars
<1>3. Kept => CacheCovered
  BY DEF CacheSound, CoveredOrRaced, Covers, CacheCovered
<1> HIDE DEF Kept
<1> QED
  BY <1>1, <1>2, <1>3, PTL DEF Spec

-----------------------------------------------------------------------------
(* What no race spoils.                                                      *)

\* The cache only has rows of permissions of the ledger that are not revoked.
NoneRevoked == \A r \in cache : Given(r[1])

GivenInv == NoneRevoked /\ \A t \in Threads : PutsGiven(t)

LEMMA GivenSame ==
    ASSUME permission' = permission, cache' \subseteq cache, GivenInv,
           NEW t \in Threads, PutsGiven(t)', NEW rows, OthersKept(t, rows)
    PROVE  GivenInv'
  BY DEF GivenInv, NoneRevoked, PutsGiven, OthersKept, Given, Doing

\* A call ends with rows it has put; no other call has rows of a permission that goes.
LEMMA GivenWrites ==
    ASSUME LockInv, GivenInv, NEW t \in Threads, NEW rows, OthersKept(t, rows), call'[t] = NoCall,
           NoneRevoked',
           \A u \in Threads \ {t} : \A r \in call[u].put : Given(r[1]) => Given(r[1])'
    PROVE  GivenInv'
<1>1. PutsGiven(t)'
  BY DEF PutsGiven, NoCall
<1>2. ASSUME NEW u \in Threads \ {t} PROVE PutsGiven(u)'
  BY DEF GivenInv, PutsGiven, OthersKept, Doing
<1> QED
  BY <1>1, <1>2 DEF GivenInv

LEMMA GivenStep ==
    ASSUME LockInv, GivenInv, [Next]_vars
    PROVE  GivenInv'
<1> USE DEF NoneRevoked
<1>1. CASE UNCHANGED vars
  BY <1>1 DEF vars, GivenInv, PutsGiven, Given, Doing
<1>2. ASSUME NEW p \in Permissions, Expire(p) PROVE GivenInv'
  <2>1. \A q : Given(q) => Given(q)'
    BY <1>2 DEF Expire, Given, LockInv, TypeOK
  <2> QED
    BY <1>2, <2>1 DEF Expire, GivenInv, PutsGiven, Doing
<1>3. ASSUME NEW t \in Threads, ThreadStep(t) PROVE GivenInv'
  <2>1. TypeOK /\ PutsGiven(t)
    BY DEF LockInv, GivenInv
  <2>2. \A u \in Threads : \A r \in call[u].put : r[1] \in Permissions /\ r \in Rows
    BY <2>1, CallFields DEF TypeOK, Rows
  <2>3. CASE Begins(t)
    <3>1. PICK r \in Call, lock \in Locks : Begin(t, lock, r) /\ Opening(r, lock)
      BY <2>3 DEF Begins
    <3>2. call'[t].put = {} /\ Local /\ Becomes(t, call'[t]) /\ call'[t] \in Call
      BY <2>1, <3>1, Opens
    <3>3. PutsGiven(t)' /\ OthersKept(t, {})
      BY <2>1, <3>2, BecomesType, OthersSame DEF PutsGiven
    <3> QED
      BY <3>2, <3>3, GivenSame DEF Local
  <2>4. CASE Goes(t)
    <3>1. OthersKept(t, {})
      BY <2>1, <2>4, BecomesType, OthersSame DEF Goes
    <3> QED
      BY <2>1, <2>4, <3>1, GivenSame DEF Goes, Local
  <2>5. CASE Doing(t, {"read"}) /\ Put(t)
    <3>1. /\ call'[t].put = {} /\ Becomes(t, call'[t]) /\ call'[t] \in Call
          /\ \A x \in Inserted(t) : x[1] = call[t].p /\ Given(call[t].p)
      BY <2>5, PutsAtOnce
    <3>2. \A u \in Threads \ {t} : call'[u] = call[u]
      BY <2>1, <3>1, BecomesType
    <3>3. permission' = permission /\ cache' = cache \cup Inserted(t)
      BY <2>5 DEF Put
    <3> QED
      BY <3>1, <3>2, <3>3 DEF GivenInv, PutsGiven, Given, Doing
  <2>6. CASE Answers(t)
    <3>1. permission' = permission
      BY <2>6 DEF Answers
    <3>2. CASE Becomes(t, NoCall) /\ cache' \subseteq cache
      <4>1. PutsGiven(t)' /\ OthersKept(t, {})
        BY <2>1, <3>2, BecomesType, NoCallIsCall, OthersSame DEF PutsGiven, NoCall
      <4> QED
        BY <3>1, <3>2, <4>1, GivenSame
    <3>3. CASE /\ Doing(t, {"list"})
               /\ cache' = ((cache \ call[t].del) \cup call[t].put) \ Expired(t)
               /\ call' = [u \in Threads |->
                             IF u = t THEN NoCall ELSE [call[u] EXCEPT !.del = @ \ call[t].put]]
      <4>1. call'[t] = NoCall /\ OthersKept(t, call[t].put)
        BY <2>1, <3>3, Commits
      <4>2. \A r \in cache' : Given(r[1])'
        BY <2>1, <3>1, <3>3 DEF GivenInv, PutsGiven, Given, Doing
      <4> QED
        BY <3>1, <4>1, <4>2, GivenWrites DEF Given
    <3> QED
      BY <2>6, <3>2, <3>3 DEF Answers
  <2>7. CASE CommitRefresh(t)
    <3>1. /\ permission' = permission /\ Doing(t, {"refresh"})
          /\ cache' = (cache \ call[t].del) \cup call[t].put
          /\ call'[t] = NoCall /\ OthersKept(t, call[t].put)
      BY <2>1, <2>7, Commits DEF CommitRefresh, Committed
    <3>2. \A r \in cache' : Given(r[1])'
      BY <2>1, <3>1 DEF GivenInv, PutsGiven, Given, Doing
    <3> QED
      BY <3>1, <3>2, GivenWrites DEF Given
  <2>8. CASE CommitEdit(t)
    <3>1. /\ permission' = permission /\ call[t].put = {} /\ cache' = cache \ call[t].del
          /\ call'[t] = NoCall /\ OthersKept(t, call[t].put)
      BY <2>1, <2>8, Commits
      DEF CommitEdit, Committed, LockInv, CallsFormed, CallFormed, Doing, CatalogFirst
    <3>2. \A r \in cache' : Given(r[1])'
      BY <3>1 DEF GivenInv, Given
    <3> QED
      BY <3>1, <3>2, GivenWrites DEF Given
  <2>9. CASE CommitGrant(t)
    <3>1. /\ permission' = [permission EXCEPT ![call[t].p] = "ACTIVE"] /\ call[t].p \in Permissions
          /\ cache' = (cache \ call[t].del) \cup call[t].put
          /\ call'[t] = NoCall /\ OthersKept(t, call[t].put)
      BY <2>1, <2>9, Commits DEF CommitGrant, Committed, LockInv, CallsFormed, CallFormed, Doing
    <3>2. \A q \in Permissions : Given(q) \/ q = call[t].p => Given(q)'
      BY <2>1, <3>1 DEF Given, TypeOK
    <3>3. \A r \in cache' : Given(r[1])'
      <4>1. \A r \in cache : r[1] \in Permissions
        BY <2>1 DEF TypeOK, Rows
      <4> QED
        BY <2>1, <2>2, <3>1, <3>2, <4>1 DEF GivenInv, PutsGiven
    <3> QED
      BY <2>2, <3>1, <3>2, <3>3, GivenWrites
  <2>10. CASE CommitRevoke(t)
    <3> DEFINE p == call[t].p
    <3>1. /\ p \in Permissions /\ Unwritten(t, {p} \X Documents)
          /\ \/ permission' = permission /\ cache' = cache
             \/ /\ permission' = [permission EXCEPT ![p] = "REVOKED"]
                /\ cache' = cache \ ({p} \X Documents)
          /\ call'[t] = NoCall /\ OthersKept(t, {})
      BY <2>1, <2>10, BecomesType, NoCallIsCall, OthersSame
      DEF CommitRevoke, LockInv, CallsFormed, CallFormed, Doing
    <3>2. \A q \in Permissions \ {p} : Given(q) => Given(q)'
      BY <2>1, <3>1 DEF Given, TypeOK
    <3>3. \A u \in Threads \ {t} : \A r \in call[u].put : r[1] # p
      BY <2>2, <3>1 DEF Unwritten, Rows
    <3>4. ASSUME NEW r \in cache' PROVE Given(r[1])'
      <4>1. r \in cache /\ r \in Rows /\ Given(r[1])
        BY <2>1, <3>1 DEF GivenInv, TypeOK
      <4>2. CASE permission' = permission
        BY <4>1, <4>2 DEF Given
      <4>3. CASE cache' = cache \ ({p} \X Documents)
        BY <3>2, <4>1, <4>3 DEF Rows
      <4> QED
        BY <3>1, <4>2, <4>3
    <3> QED
      BY <2>2, <3>1, <3>2, <3>3, <3>4, GivenWrites
  <2>11. CASE CommitDelete(t)
    <3> DEFINE gone == PermissionsOf(call[t].c)
    <3>1. call'[t] = NoCall /\ OthersKept(t, {})
      BY <2>1, <2>11, BecomesType, NoCallIsCall, OthersSame DEF CommitDelete
    <3>2. CASE permission' = permission /\ cache' = cache
      BY <3>1, <3>2, GivenWrites DEF GivenInv, Given
    <3>3. CASE /\ Unwritten(t, (cache \cap Cleaned(call[t].c)) \cup (gone \X Documents))
               /\ permission' = [p \in Permissions |->
                                   IF p \in gone THEN "REVOKED" ELSE permission[p]]
               /\ cache' = cache \ Cleaned(call[t].c)
      <4>1. \A q \in Permissions \ gone : Given(q) => Given(q)'
        BY <3>3 DEF Given
      <4>2. \A u \in Threads \ {t} : \A r \in call[u].put : r[1] \notin gone
        BY <2>2, <3>3 DEF Unwritten, Rows
      <4>3. \A r \in cache' : /\ r \in cache /\ r[1] \in Permissions
                              /\ r[1] \notin gone
        BY <2>1, <3>3 DEF TypeOK, Rows, Cleaned
      <4> QED
        BY <2>2, <3>1, <4>1, <4>2, <4>3, GivenWrites DEF GivenInv
    <3> QED
      BY <2>11, <3>2, <3>3 DEF CommitDelete
  <2> QED
    BY <1>3, <2>3, <2>4, <2>5, <2>6, <2>7, <2>8, <2>9, <2>10, <2>11 DEF ThreadStep
<1> QED
  BY <1>1, <1>2, <1>3, Steps

\* A revoked permission is never in the cache, raced rows included: a pending row keeps
\* its permission from being revoked.  What a race can leave behind is a document that the
\* collection of a permission has lost.
THEOREM RevokedNeverCached == Spec => []NoneRevoked
<1>1. Init => LockInv /\ GivenInv
  <2>1. ASSUME Init PROVE GivenInv
    BY <2>1 DEF Init, GivenInv, NoneRevoked, PutsGiven, NoCall
  <2> QED
    BY <2>1, InitSound DEF CacheSound, LockInv
<1>2. LockInv /\ GivenInv /\ [Next]_vars => LockInv' /\ GivenInv'
  BY LocksStep, GivenStep
<1>3. GivenInv => NoneRevoked
  BY DEF GivenInv
<1> QED
  BY <1>1, <1>2, <1>3, PTL DEF Spec

=============================================================================
