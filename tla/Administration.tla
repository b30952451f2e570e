--------------------------- MODULE Administration ---------------------------
(***************************************************************************)
(* The accounts and the tree of collections: src/src/users/core.py with    *)
(* src/src/infra/postgres/identity_store.py, the signup and the login of   *)
(* src/src/auth/core.py, and src/src/collections/core.py with              *)
(* src/src/infra/postgres/collection_store.py.  An account is its e-mail   *)
(* address.  Requests run in threads; the lock of the collections is one   *)
(* per process, row locks and the unique index are PostgreSQL's.  A        *)
(* transaction is invisible until it commits, and a row that is read with  *)
(* FOR UPDATE after a wait comes with roles as they were before the wait,  *)
(* which are read by a subquery.                                           *)
(***************************************************************************)
EXTENDS Integers, FiniteSets

CONSTANTS Emails, RoleCodes, UserRole,
          CollectionIds,   \* 1 .. n: identifiers, given out in order
          Papers,          \* documents in collections
          Clerks,          \* threads that handle a request
          ProcessOf,       \* the process of a thread
          MaxGrants,       \* bound: grants of one role to one user
          Nobody           \* the owner of a lock that nobody holds

ASSUME AdministrationAssumption ==
    /\ UserRole \in RoleCodes /\ Nobody \notin Clerks
    /\ ProcessOf \in [Clerks -> Clerks]
    /\ CollectionIds = 1 .. Cardinality(CollectionIds) /\ {1, 2} \subseteq CollectionIds
    /\ MaxGrants \in Nat

VARIABLES users,        \* the rows of an e-mail address
          roleLog,      \* committed signups, grants and removals of roles, by address
          catalog,      \* the rows of the collections
          contents,     \* collection_documents
          rowOwner,     \* who has locked the row of an account or a collection
          catalogLock,  \* CollectionWorkspace._lock of a process
          clerk         \* what each thread is doing

administrationVars == <<users, roleLog, catalog, contents, rowOwner, catalogLock, clerk>>

NoAccount == [exists |-> FALSE, roles |-> {}, status |-> "NONE"]
NoCollection == [parent |-> 0, status |-> "NONE"]
IdleClerk == [op |-> "none", at |-> "idle", email |-> Nobody, role |-> UserRole, seen |-> {},
              collection |-> 0, paper |-> Nobody, plan |-> {}, locked |-> {}]

\* A root with one document and a child; nobody has signed up.
AdministrationInit ==
    /\ users = [e \in Emails |-> NoAccount]
    /\ roleLog = [e \in Emails |-> [r \in RoleCodes |-> [granted |-> 0, removed |-> 0]]]
    /\ catalog = [i \in CollectionIds |->
          IF i <= 2 THEN [parent |-> i - 1, status |-> "ACTIVE"] ELSE NoCollection]
    /\ contents = {<<1, d>> : d \in Papers}
    /\ rowOwner = [x \in Emails \union CollectionIds |-> Nobody]
    /\ catalogLock = [p \in Clerks |-> Nobody]
    /\ clerk = [c \in Clerks |-> IdleClerk]

At(c, op, place) == clerk[c].op = op /\ clerk[c].at = place
Goto(c, place) == clerk' = [clerk EXCEPT ![c].at = place]
Done(c) == clerk' = [clerk EXCEPT ![c] = IdleClerk]

\* The rows of a transaction are unlocked when it ends.
Unlocked(c) == [x \in DOMAIN rowOwner |-> IF rowOwner[x] = c THEN Nobody ELSE rowOwner[x]]
LockRow(c, x) == rowOwner[x] = Nobody /\ rowOwner' = [rowOwner EXCEPT ![x] = c]

AccountsKept == UNCHANGED <<users, roleLog>>
CollectionsKept == UNCHANGED <<catalog, contents, catalogLock>>

\* The transaction is undone: by a refusal, or because its commit fails.
Undone(c) ==
    /\ Done(c) /\ rowOwner' = Unlocked(c)
    /\ UNCHANGED <<users, roleLog, catalog, contents>>
    /\ catalogLock' = [p \in Clerks |-> IF catalogLock[p] = c THEN Nobody ELSE catalogLock[p]]

----------------------------------------------------------------------------
(* AuthService.signup and UserDirectory.create_user *)

FindByEmail(e) == users[e].exists

Signup(c, e) ==
    /\ clerk[c].at = "idle" /\ ~FindByEmail(e)
    /\ clerk' = [clerk EXCEPT ![c] = [IdleClerk EXCEPT !.op = "signup", !.at = "create", !.email = e]]
    /\ UNCHANGED rowOwner /\ AccountsKept /\ CollectionsKept

CreateUser(c) ==
    /\ At(c, "signup", "create")
    /\ IF FindByEmail(clerk[c].email) THEN Undone(c)
       ELSE Goto(c, "insert") /\ UNCHANGED rowOwner /\ AccountsKept /\ CollectionsKept

\* Mutant of InsertedUser: the unique index is not there.
InsertedUserTwice(e) == TRUE

\* ON CONFLICT DO NOTHING: an insert of the same address is waited for.
InsertedUser(e) == ~users[e].exists

InsertUser(c) ==
    LET e == clerk[c].email
    IN  /\ At(c, "signup", "insert") /\ rowOwner[e] = Nobody
        /\ IF ~InsertedUser(e) THEN Undone(c)
           ELSE /\ LockRow(c, e) /\ Goto(c, "commit")
                /\ AccountsKept /\ CollectionsKept

CommitCreate(c) ==
    LET e == clerk[c].email
    IN  /\ At(c, "signup", "commit")
        /\ users' = [users EXCEPT ![e] = [exists |-> TRUE, roles |-> {UserRole}, status |-> "ACTIVE"]]
        /\ roleLog' = [roleLog EXCEPT ![e][UserRole].granted = @ + 1]
        /\ Done(c) /\ rowOwner' = Unlocked(c) /\ CollectionsKept

----------------------------------------------------------------------------
(* UserDirectory: one row, read FOR UPDATE *)

\* get_user(for_update=True) takes its snapshot when it starts to wait.
RequireUser(c, op, e, r) ==
    /\ clerk[c].at = "idle" /\ users[e].exists
    /\ clerk' = [clerk EXCEPT ![c] = [IdleClerk EXCEPT !.op = op, !.at = "wait", !.email = e,
                                                       !.role = r, !.seen = users[e].roles]]
    /\ UNCHANGED rowOwner /\ AccountsKept /\ CollectionsKept

AssignRole(c, e, r) == roleLog[e][r].granted < MaxGrants /\ RequireUser(c, "assign_role", e, r)
RemoveRole(c, e, r) == RequireUser(c, "remove_role", e, r)
SetStatus(c, e) == RequireUser(c, "set_status", e, UserRole)

\* AuthService.login has found the user ACTIVE before record_login locks it.
Login(c, e) == users[e].status = "ACTIVE" /\ RequireUser(c, "record_login", e, UserRole)

UserLocked(c) ==
    /\ clerk[c].op \in {"assign_role", "remove_role", "set_status", "record_login"}
    /\ clerk[c].at = "wait"
    /\ LockRow(c, clerk[c].email) /\ Goto(c, "write")
    /\ AccountsKept /\ CollectionsKept

\* Mutant of RoleInserted: what FOR UPDATE has read decides.
RoleInsertedAsSeen(c) == clerk[c].role \notin clerk[c].seen

\* The roles that were read must not have it, and nor must the table.
RoleInserted(c) ==
    clerk[c].role \notin clerk[c].seen \union users[clerk[c].email].roles

RoleDeleted(c) == clerk[c].role \in clerk[c].seen \intersect users[clerk[c].email].roles

WriteRole(c) ==
    LET e == clerk[c].email
        r == clerk[c].role
    IN  /\ clerk[c].op \in {"assign_role", "remove_role"} /\ clerk[c].at = "write"
        /\ \/ /\ clerk[c].op = "assign_role" /\ RoleInserted(c)
              /\ users' = [users EXCEPT ![e].roles = @ \union {r}]
              /\ roleLog' = [roleLog EXCEPT ![e][r].granted = @ + 1]
              /\ Done(c) /\ rowOwner' = Unlocked(c) /\ CollectionsKept
           \/ /\ clerk[c].op = "remove_role" /\ RoleDeleted(c)
              /\ users' = [users EXCEPT ![e].roles = @ \ {r}]
              /\ roleLog' = [roleLog EXCEPT ![e][r].removed = @ + 1]
              /\ Done(c) /\ rowOwner' = Unlocked(c) /\ CollectionsKept
           \/ /\ \/ clerk[c].op = "assign_role" /\ ~RoleInserted(c)
                 \/ clerk[c].op = "remove_role" /\ ~RoleDeleted(c)
              /\ Undone(c)

UpdateUser(c) ==
    /\ clerk[c].op \in {"set_status", "record_login"} /\ clerk[c].at = "write"
    /\ IF clerk[c].op = "record_login" THEN UNCHANGED users
       ELSE \E s \in {"ACTIVE", "INACTIVE"} :
               users' = [users EXCEPT ![clerk[c].email].status = s]
    /\ Done(c) /\ rowOwner' = Unlocked(c)
    /\ UNCHANGED roleLog /\ CollectionsKept

----------------------------------------------------------------------------
(* CollectionWorkspace *)

ActiveCollection(i) == catalog[i].status = "ACTIVE"
CatalogFree(c) == catalogLock[ProcessOf[c]] = Nobody
Taken(c) == [catalogLock EXCEPT ![ProcessOf[c]] = c]
Released(c) == [catalogLock EXCEPT ![ProcessOf[c]] = Nobody]

\* The first look is under a lock that is released before access is decided.
Propose(c, op, i, d) ==
    /\ clerk[c].at = "idle" /\ CatalogFree(c)
    /\ ActiveCollection(i)
    /\ clerk' = [clerk EXCEPT ![c] = [IdleClerk EXCEPT !.op = op, !.at = "enter",
                                                       !.collection = i, !.paper = d]]
    /\ UNCHANGED rowOwner /\ AccountsKept /\ CollectionsKept

Create(c, i) == Propose(c, "create", i, Nobody)
AddDocument(c, i, d) == Propose(c, "add", i, d)
RemoveDocument(c, i, d) == <<i, d>> \in contents /\ Propose(c, "remove", i, d)

\* update_visibility and delete look only under the lock of the row.
ChangeVisibility(c, i) ==
    /\ clerk[c].at = "idle" /\ CatalogFree(c) /\ catalogLock' = Taken(c)
    /\ clerk' = [clerk EXCEPT ![c] = [IdleClerk EXCEPT !.op = "visibility", !.at = "lock",
                                                       !.collection = i]]
    /\ UNCHANGED <<catalog, contents, rowOwner>> /\ AccountsKept

\* A root has no parent: nothing to look at and nothing to lock.
CreateRoot(c) ==
    /\ clerk[c].at = "idle" /\ CatalogFree(c)
    /\ \E i \in CollectionIds :
          /\ catalog[i] = NoCollection /\ \A j \in CollectionIds : catalog[j] = NoCollection => i <= j
          /\ catalog' = [catalog EXCEPT ![i].status = "ACTIVE"]
    /\ UNCHANGED <<contents, rowOwner, catalogLock, clerk>> /\ AccountsKept

\* The second: the lock, the transaction, the row.
Enter(c) ==
    /\ clerk[c].at = "enter"
    /\ CatalogFree(c) /\ catalogLock' = Taken(c)
    /\ Goto(c, "lock")
    /\ UNCHANGED <<catalog, contents, rowOwner>> /\ AccountsKept

LockCollections(c) ==
    /\ clerk[c].op \in {"create", "add", "remove", "visibility"} /\ clerk[c].at = "lock"
    /\ LockRow(c, clerk[c].collection) /\ Goto(c, "change")
    /\ AccountsKept /\ CollectionsKept

\* Mutant of ActiveStill: the first look is enough.
ActiveStillUnread(i) == TRUE

ActiveStill(i) == ActiveCollection(i)

CreateCollection(c) ==
    /\ clerk[c].op = "create"
    /\ \E i \in CollectionIds :
          /\ catalog[i] = NoCollection /\ \A j \in CollectionIds : catalog[j] = NoCollection => i <= j
          /\ catalog' = [catalog EXCEPT ![i] = [parent |-> clerk[c].collection, status |-> "ACTIVE"]]
    /\ UNCHANGED contents

AddMapping(c) ==
    /\ clerk[c].op = "add" /\ <<clerk[c].collection, clerk[c].paper>> \notin contents
    /\ contents' = contents \union {<<clerk[c].collection, clerk[c].paper>>}
    /\ UNCHANGED catalog

RemoveMapping(c) ==
    /\ clerk[c].op = "remove" /\ <<clerk[c].collection, clerk[c].paper>> \in contents
    /\ contents' = contents \ {<<clerk[c].collection, clerk[c].paper>>}
    /\ UNCHANGED catalog

\* The visibility decides nothing here.
SetVisibility(c) == clerk[c].op = "visibility" /\ UNCHANGED <<catalog, contents>>

ChangeCatalog(c) ==
    /\ clerk[c].at = "change" /\ ActiveStill(clerk[c].collection)
    /\ CreateCollection(c) \/ AddMapping(c) \/ RemoveMapping(c) \/ SetVisibility(c)
    /\ Done(c) /\ rowOwner' = Unlocked(c) /\ catalogLock' = Released(c)
    /\ AccountsKept

HasChildren(tree) ==
    \A j \in CollectionIds : ActiveCollection(j) /\ catalog[j].parent \in tree => j \in tree

\* _descendant_ids: what the tree hangs under a collection, the least set that holds it
\* and all children of what it holds.
Descendants(i) ==
    {j \in CollectionIds :
        \A tree \in SUBSET CollectionIds : i \in tree /\ HasChildren(tree) => j \in tree}

DeleteTree(c, i) ==
    /\ clerk[c].at = "idle" /\ CatalogFree(c) /\ catalogLock' = Taken(c)
    /\ ActiveCollection(i)
    /\ clerk' = [clerk EXCEPT ![c] = [IdleClerk EXCEPT !.op = "delete", !.at = "lock",
                                        !.collection = i, !.plan = Descendants(i)]]
    /\ UNCHANGED <<catalog, contents, rowOwner>> /\ AccountsKept

\* One row after another, in the order of the identifiers.
LockPlan(c) ==
    /\ At(c, "delete", "lock")
    /\ LET rest == clerk[c].plan \ clerk[c].locked
       IN  IF rest = {} THEN Goto(c, "apply") /\ UNCHANGED rowOwner
           ELSE \E i \in rest :
                   /\ \A j \in rest : i <= j
                   /\ LockRow(c, i)
                   /\ clerk' = [clerk EXCEPT ![c].locked = @ \union {i}]
    /\ AccountsKept /\ CollectionsKept

ApplyPlan(c) ==
    /\ At(c, "delete", "apply")
    /\ ActiveStill(clerk[c].collection)
    /\ contents' = {m \in contents : m[1] \notin clerk[c].plan}
    /\ catalog' = [i \in CollectionIds |->
          IF i \in clerk[c].plan THEN [catalog[i] EXCEPT !.status = "DELETED"] ELSE catalog[i]]
    /\ Done(c) /\ rowOwner' = Unlocked(c) /\ catalogLock' = Released(c)
    /\ AccountsKept

\* A refusal, an error of the database, or a commit that fails.
Refused(c) == clerk[c].at \in {"enter", "create", "commit", "write", "lock", "change", "apply"} /\ Undone(c)

AccountStep ==
    \E c \in Clerks :
       \/ \E e \in Emails : \/ Signup(c, e) \/ SetStatus(c, e) \/ Login(c, e)
                            \/ \E r \in RoleCodes : AssignRole(c, e, r) \/ RemoveRole(c, e, r)
       \/ CreateUser(c) \/ InsertUser(c) \/ CommitCreate(c)
       \/ UserLocked(c) \/ WriteRole(c) \/ UpdateUser(c)

CollectionStep ==
    \E c \in Clerks :
       \/ \E i \in CollectionIds : \/ Create(c, i) \/ ChangeVisibility(c, i) \/ DeleteTree(c, i)
                                 \/ \E d \in Papers : AddDocument(c, i, d) \/ RemoveDocument(c, i, d)
       \/ CreateRoot(c) \/ Enter(c) \/ LockCollections(c) \/ ChangeCatalog(c)
       \/ LockPlan(c) \/ ApplyPlan(c)

RefusedStep == \E c \in Clerks : Refused(c)

AdministrationNext == AccountStep \/ CollectionStep \/ RefusedStep

AdministrationSpec == AdministrationInit /\ [][AdministrationNext]_administrationVars

----------------------------------------------------------------------------
(* Properties *)

\* Every signup, grant and removal that was answered as done has changed the
\* ledger, once: an address has one account however many sign up at once, and
\* two administrators who change a role of one user cannot both have done it,
\* although the roles they read under the lock of the row may be old.
\* users/core.py:225-254, 345-380, infra/postgres/identity_store.py:222-265, 317-347.
ChangesAccounted ==
    \A e \in Emails :
       /\ ~users[e].exists => \A r \in RoleCodes : roleLog[e][r].granted = 0
       /\ \A r \in RoleCodes : roleLog[e][r].granted - roleLog[e][r].removed
                                  = Cardinality({r} \intersect users[e].roles)

\* A deletion takes the whole subtree with it, what is added to it meanwhile
\* included: no collection outlives its parent, and a deleted collection has no
\* documents.  With one process: the subtree is read before its rows are
\* locked, and only the lock of the process keeps a child from being added.
\* collections/core.py:143-171, 325-357.
CascadeComplete ==
    /\ \A i \in CollectionIds :
          ActiveCollection(i) /\ catalog[i].parent # 0 => ActiveCollection(catalog[i].parent)
    /\ \A m \in contents : ActiveCollection(m[1])

\* What the administrators of accounts and of collections were told is what the
\* ledgers hold: see ChangesAccounted and CascadeComplete.
AdministrationSound == ChangesAccounted /\ CascadeComplete
=============================================================================
