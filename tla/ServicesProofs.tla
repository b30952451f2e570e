--------------------------- MODULE ServicesProofs ---------------------------
(***************************************************************************)
(* Theorems about the transaction of a thread, about who a request is,     *)
(* about the process of a worker, about the migration of a database, about *)
(* the administration of accounts and collections, about how a server      *)
(* comes up and goes down and about the client that embeds texts.          *)
(***************************************************************************)
EXTENDS Transactions, Identity, WorkerRuntime, Migrations, Administration, Startup,
        Embedding, FiniteSetTheorems, SequenceTheorems, WellFoundedInduction, TLAPS

----------------------------------------------------------------------------
(* Transactions                                                             *)

\* Nothing is told before the outermost block ends, and a block that failed has
\* marked the transaction.
Told == depth > 0 => verdict = "none"
Marked == depth > 0 /\ failed => rollbackOnly
TxInv == depth \in Nat /\ VerdictHolds /\ Told /\ Marked

\* The caller of a transaction is told what happened: a transaction that returns
\* has committed every statement and no block of it failed, one that raises has
\* committed nothing unless it says that it does not know.
\* infra/postgres/transaction.py.
THEOREM VerdictAlwaysHolds == TxSpec => []VerdictHolds
<1>1. TxInit => TxInv
  BY DEF TxInit, TxInv, VerdictHolds, Told, Marked
<1>2. TxInv /\ [TxNext]_txVars => TxInv'
  <2> SUFFICES ASSUME TxInv, [TxNext]_txVars PROVE TxInv'
    OBVIOUS
  <2> USE DEF TxInv
  <2>1. CASE UNCHANGED txVars
    BY <2>1 DEF txVars, VerdictHolds, Told, Marked
  <2>2. CASE OpenConnection
    <3>1. /\ failed' = FALSE /\ writes' = 0 /\ applied' = 0
          /\ \/ depth' = 0 /\ verdict' = "error"
             \/ depth' = 1 /\ verdict' = "none"
      BY <2>2 DEF OpenConnection
    <3>2. QED BY <3>1 DEF VerdictHolds, Told, Marked
  <2>3. CASE EnterNested \/ Write \/ Raise
    <3>1. /\ depth' \in Nat /\ depth > 0 /\ UNCHANGED <<rollbackOnly, failed, applied, verdict>>
      BY <2>3 DEF EnterNested, Write, Raise
    <3>2. verdict = "none" /\ applied = 0
      BY <3>1 DEF Told, VerdictHolds
    <3>3. VerdictHolds' /\ Told'
      BY <3>1, <3>2 DEF VerdictHolds, Told
    <3>4. Marked'
      BY <3>1, Zenon DEF Marked
    <3>5. QED BY <3>1, <3>3, <3>4
  <2>4. CASE LeaveNested
    <3>1. depth' \in Nat /\ depth > 0 /\ UNCHANGED <<writes, applied, verdict>>
      BY <2>4 DEF LeaveNested
    <3>2. verdict = "none" /\ applied = 0
      BY <3>1 DEF Told, VerdictHolds
    <3>3. VerdictHolds' /\ Told'
      BY <3>1, <3>2 DEF VerdictHolds, Told
    <3>4. Marked'
      BY <2>4, <3>1, Zenon DEF Marked, LeaveNested, Poisoned
    <3>5. QED BY <3>1, <3>3, <3>4
  <2>5. CASE LeaveOuter
    <3>1. depth' = 0 /\ UNCHANGED <<failed, writes>>
      BY <2>5 DEF LeaveOuter, Close
    <3>2. Told' /\ Marked' /\ depth' \in Nat
      BY <3>1 DEF Told, Marked
    <3>3. CASE verdict' = "error" /\ applied' = 0
      BY <3>1, <3>2, <3>3 DEF VerdictHolds
    <3>4. CASE ~(raising \/ rollbackOnly)
      <4>1. PICK outcome \in CommitOutcomes : Close(outcome[1], outcome[2])
        BY <2>5, <3>4 DEF LeaveOuter
      <4>2. \/ outcome = <<"returned", writes>> \/ outcome = <<"error", 0>>
            \/ outcome = <<"unknown", 0>> \/ outcome = <<"unknown", writes>>
        BY <4>1, Zenon DEF CommitOutcomes
      <4>3. \/ verdict' = "returned" /\ applied' = writes
            \/ verdict' = "error" /\ applied' = 0
            \/ verdict' = "unknown" /\ applied' \in {0, writes}
        <5>1. verdict' = outcome[1] /\ applied' = outcome[2]
          BY <4>1 DEF Close
        <5>2. CASE outcome = <<"returned", writes>>
          BY <5>1, <5>2
        <5>3. CASE outcome = <<"error", 0>>
          BY <5>1, <5>3
        <5>4. CASE outcome = <<"unknown", 0>> \/ outcome = <<"unknown", writes>>
          BY <5>1, <5>4
        <5>5. QED BY <4>2, <5>2, <5>3, <5>4
      <4>4. ~failed
        <5>1. depth > 0
          BY <2>5 DEF LeaveOuter
        <5>2. QED BY <3>4, <5>1, Zenon DEF Marked
      <4>5. failed' = failed
        BY <3>1
      <4>6. ~failed'
        BY <4>4, <4>5, Zenon
      <4>7. QED BY <3>1, <3>2, <4>3, <4>6 DEF VerdictHolds
    <3>5. CASE raising \/ rollbackOnly
      BY <2>5, <3>3, <3>5 DEF LeaveOuter, Close
    <3>6. QED BY <3>4, <3>5
  <2>6. QED BY <2>1, <2>2, <2>3, <2>4, <2>5 DEF TxNext
<1>3. TxInv => VerdictHolds
  BY DEF TxInv
<1>4. QED BY <1>1, <1>2, <1>3, PTL DEF TxSpec

----------------------------------------------------------------------------
(* Identity                                                                 *)

LEMMA MaxOfTwo ==
    ASSUME NEW a \in Nat, NEW b \in Nat
    PROVE  Max({a, b}) = IF a >= b THEN a ELSE b
  BY DEF Max

\* Once it has been looked up whether a token is revoked.
Admitted == {"generation", "lookup", "hit", "miss", "ledger", "fill", "answered"}
RequestRows == [at : Admitted \union {"new", "check", "refused"}, generation : Nat, roles : Nat,
                by : Processes, read : Nat, from : [Processes -> Nat],
                barred : BOOLEAN, unsure : BOOLEAN, excused : BOOLEAN]
Entries == [roles : Nat, until : Nat, by : Processes, read : Nat]

CacheTypes == /\ now \in Nat /\ cached \in Entries /\ revoked \in Nat
              /\ missed \in BOOLEAN /\ loggedOut \in BOOLEAN
              /\ request \in [Requests -> RequestRows]
RoleTypes == /\ roles \in 1 .. MaxChanges + 1 /\ superseded \in [1 .. MaxChanges + 1 -> Nat]
             /\ announced \in [Processes -> Nat] /\ generation \in [Processes -> Nat]
             /\ admin \in [Admins -> Nat]

\* What was announced is committed.
AnnouncedCommitted == /\ \A p \in Processes : announced[p] <= roles
                      /\ \A a \in Admins : admin[a] <= roles

\* A live entry has what its reader announced, unless it missed an invalidation.
CacheFresh == Live(cached) => cached.roles >= announced[cached.by] \/ missed

\* What was read of the ledger was read before the change that made it old.
Dated(entry) == /\ entry.read <= now /\ entry.roles <= roles
                /\ entry.roles < roles => entry.read <= superseded[entry.roles + 1]

\* A request that process p serves knows what it began with.  What it has read of the
\* ledger is as new as what p announced, as long as the generation has not moved.
RowFresh(row, p) ==
    /\ \A q \in Processes : row.from[q] <= announced[q]
    /\ row.generation <= generation[p]
    /\ row.at = "fill" =>
          /\ row.by = p /\ row.roles >= row.from[p] /\ Dated(row)
          /\ row.generation = generation[p] => row.roles >= announced[p]
    /\ row.at \in {"hit", "answered"} => row.roles >= row.from[row.by] \/ row.excused

\* A logout is in the cache for the rest of the token's life.
LogoutKept == loggedOut => revoked >= Expiration

RowKept(row) ==
    /\ row.barred /\ row.at # "new" => loggedOut
    /\ row.barred /\ row.at \in Admitted => row.unsure

RequestsSound == \A r \in Requests : RowFresh(request[r], HomeOf[r]) /\ RowKept(request[r])

RolesInv == /\ CacheTypes /\ RoleTypes /\ AnnouncedCommitted /\ CacheFresh /\ LogoutKept
            /\ Dated(cached) /\ RequestsSound

LEMMA HomeIsProcess ==
    /\ \A r \in Requests : HomeOf[r] \in Processes
    /\ \A a \in Admins : HomeOf[a] \in Processes
    /\ NoEntry.by \in Processes
<1>1. Anyone \in Requests
  BY IdentityAssumption DEF Anyone
<1>2. QED BY <1>1, IdentityAssumption DEF NoEntry

\* A step of a request changes its row, and no other.
LEMMA RequestRow ==
    ASSUME RolesInv, NEW r \in Requests, NEW row \in RequestRows, Proceed(r, row),
           cached' \in Entries, missed' \in BOOLEAN, UNCHANGED revoked, CacheFresh',
           Dated(cached)', RowFresh(row, HomeOf[r]), RowKept(row)
    PROVE  RolesInv'
<1>1. /\ UNCHANGED <<now, roles, superseded, announced, admin, generation, loggedOut, revoked>>
      /\ request' = [request EXCEPT ![r] = row]
  BY DEF Proceed, rolesVars
<1>2. request'[r] = row /\ \A q \in Requests \ {r} : request'[q] = request[q]
  BY <1>1 DEF RolesInv, CacheTypes
<1>3. CacheTypes'
  BY <1>1 DEF RolesInv, CacheTypes
<1>4. RoleTypes' /\ AnnouncedCommitted' /\ LogoutKept'
  BY <1>1 DEF RolesInv, RoleTypes, AnnouncedCommitted, LogoutKept
<1>5. ASSUME NEW q \in Requests, NEW old, RowFresh(old, HomeOf[q]), RowKept(old), request'[q] = old
      PROVE  RowFresh(request[q], HomeOf[q])' /\ RowKept(request[q])'
  BY <1>1, <1>5 DEF RowFresh, Dated, RowKept
<1>6. ASSUME NEW q \in Requests
      PROVE  RowFresh(request[q], HomeOf[q])' /\ RowKept(request[q])'
  BY <1>2, <1>5 DEF RolesInv, RequestsSound
<1>7. QED BY <1>3, <1>4, <1>6 DEF RolesInv, RequestsSound

\* The row of a request that goes on to another place.
LEMMA MovedRow ==
    ASSUME NEW r \in Requests, request[r] \in RequestRows,
           NEW place \in Admitted \union {"new", "check", "refused"}
    PROVE  /\ Moved(r, place) \in RequestRows /\ Moved(r, place).at = place
           /\ Moved(r, place).generation = request[r].generation
           /\ Moved(r, place).roles = request[r].roles /\ Moved(r, place).from = request[r].from
           /\ Moved(r, place).by = request[r].by /\ Moved(r, place).read = request[r].read
           /\ Moved(r, place).barred = request[r].barred
           /\ Moved(r, place).unsure = request[r].unsure
           /\ Moved(r, place).excused = request[r].excused
  BY DEF Moved, RequestRows

LEMMA CacheKept ==
    ASSUME RolesInv, NEW r \in Requests, NEW row, Proceed(r, row), UNCHANGED cacheVars
    PROVE  /\ cached' \in Entries /\ missed' \in BOOLEAN /\ UNCHANGED revoked /\ CacheFresh'
           /\ Dated(cached)'
  BY DEF RolesInv, CacheTypes, CacheFresh, Live, Dated, Proceed, rolesVars, cacheVars

\* A request that goes on with what it has.
LEMMA RequestMoves ==
    ASSUME RolesInv, NEW r \in Requests, UNCHANGED cacheVars,
           NEW place \in Admitted \ {"hit", "fill"}, Proceed(r, Moved(r, place)),
           request[r].at \in Admitted,
           place = "answered" => request[r].at \in {"hit", "fill"}
    PROVE  RolesInv'
<1>1. /\ request[r] \in RequestRows /\ RowFresh(request[r], HomeOf[r]) /\ RowKept(request[r])
  BY DEF RolesInv, RequestsSound, CacheTypes
<1>2. PICK row : row = Moved(r, place)
  OBVIOUS
<1>3. /\ row \in RequestRows /\ row.at = place
      /\ row.generation = request[r].generation /\ row.roles = request[r].roles
      /\ row.from = request[r].from /\ row.by = request[r].by /\ row.barred = request[r].barred
      /\ row.unsure = request[r].unsure /\ row.excused = request[r].excused
  BY <1>1, <1>2, MovedRow DEF Admitted
<1>4. RowFresh(row, HomeOf[r])
  BY <1>1, <1>3 DEF RowFresh
<1>5. RowKept(row)
  BY <1>1, <1>3 DEF RowKept, Admitted
<1>6. Proceed(r, row)
  BY <1>2
<1>7. QED BY <1>3, <1>4, <1>5, <1>6, CacheKept, RequestRow

LEMMA ValidateKeeps ==
    ASSUME RolesInv, NEW r \in Requests, Validate(r)
    PROVE  RolesInv'
<1>1. /\ request[r] \in RequestRows /\ RowFresh(request[r], HomeOf[r])
      /\ RoleTypes /\ CacheTypes /\ HomeOf[r] \in Processes
  BY HomeIsProcess DEF RolesInv, RequestsSound, CacheTypes
<1>2. PICK place \in {"check", "refused"} : place = IF Valid THEN "check" ELSE "refused"
  OBVIOUS
<1>3. PICK row : row = [Moved(r, place) EXCEPT !.from = announced, !.barred = loggedOut]
  OBVIOUS
<1>4. Proceed(r, row) /\ UNCHANGED cacheVars
  BY <1>2, <1>3 DEF Validate
<1>5. Moved(r, place) \in RequestRows /\ Moved(r, place).at = place
      /\ Moved(r, place).generation = request[r].generation
  BY <1>1, MovedRow
<1>6. /\ row \in RequestRows /\ row.at = place /\ row.from = announced
      /\ row.barred = loggedOut /\ row.generation = request[r].generation
  BY <1>1, <1>3, <1>5 DEF RequestRows, RoleTypes, CacheTypes
<1>7. \A q \in Processes : row.from[q] <= announced[q]
  BY <1>1, <1>6 DEF RoleTypes
<1>8. RowFresh(row, HomeOf[r])
  BY <1>1, <1>6, <1>7 DEF RowFresh
<1>9. row.barred => loggedOut
  BY <1>6, Zenon
<1>10. RowKept(row)
  BY <1>6, <1>9 DEF RowKept, Admitted
<1>11. QED BY <1>4, <1>6, <1>8, <1>10, CacheKept, RequestRow

LEMMA IsRevokedKeeps ==
    ASSUME RolesInv, NEW r \in Requests, IsRevoked(r)
    PROVE  RolesInv'
<1>1. /\ request[r] \in RequestRows /\ RowFresh(request[r], HomeOf[r]) /\ RowKept(request[r])
      /\ CacheTypes /\ LogoutKept
  BY DEF RolesInv, RequestsSound, CacheTypes
<1>2. PICK place : place = IF cacheUp /\ now < revoked THEN "refused" ELSE "generation"
  OBVIOUS
<1>3. PICK unsure : unsure = (request[r].barred /\ Unsure)
  OBVIOUS
<1>4. PICK row : row = [Moved(r, place) EXCEPT !.unsure = unsure]
  OBVIOUS
<1>5. Proceed(r, row) /\ UNCHANGED cacheVars /\ request[r].at = "check"
  BY <1>2, <1>3, <1>4 DEF IsRevoked, Resolving
<1>6. place \in {"refused", "generation"} /\ unsure \in BOOLEAN
  BY <1>2, <1>3
<1>7. /\ Moved(r, place) \in RequestRows /\ Moved(r, place).at = place
      /\ Moved(r, place).generation = request[r].generation
      /\ Moved(r, place).from = request[r].from /\ Moved(r, place).barred = request[r].barred
  BY <1>1, <1>6, MovedRow DEF Admitted
<1>8. /\ row \in RequestRows /\ row.at = place /\ row.generation = request[r].generation
      /\ row.from = request[r].from /\ row.barred = request[r].barred /\ row.unsure = unsure
  BY <1>4, <1>6, <1>7 DEF RequestRows
<1>9. RowFresh(row, HomeOf[r])
  BY <1>1, <1>6, <1>8 DEF RowFresh
<1>10. row.barred => loggedOut
  BY <1>1, <1>5, <1>8 DEF RowKept
<1>11. ASSUME row.barred, row.at \in Admitted PROVE row.unsure
  <2>1. ~(cacheUp /\ now < revoked)
    BY <1>2, <1>8, <1>11 DEF Admitted
  <2>2. revoked >= Expiration
    BY <1>1, <1>10, <1>11 DEF LogoutKept
  <2>3. ~cacheUp \/ now >= Expiration
    BY <1>1, <2>1, <2>2, IdentityAssumption DEF CacheTypes
  <2>4. request[r].barred
    BY <1>8, <1>11
  <2>5. unsure
    BY <1>3, <2>3, <2>4, Zenon DEF Unsure
  <2>6. QED BY <1>8, <2>5
<1>12. RowKept(row)
  BY <1>10, <1>11 DEF RowKept
<1>13. QED BY <1>5, <1>8, <1>9, <1>12, CacheKept, RequestRow

LEMMA ReadGenerationKeeps ==
    ASSUME RolesInv, NEW r \in Requests, ReadGeneration(r)
    PROVE  RolesInv'
<1>1. /\ request[r] \in RequestRows /\ RowFresh(request[r], HomeOf[r]) /\ RowKept(request[r])
      /\ RoleTypes /\ HomeOf[r] \in Processes
  BY HomeIsProcess DEF RolesInv, RequestsSound, CacheTypes
<1>2. PICK row : row = [Moved(r, "lookup") EXCEPT !.generation = generation[HomeOf[r]]]
  OBVIOUS
<1>3. Proceed(r, row) /\ UNCHANGED cacheVars /\ request[r].at = "generation"
  BY <1>2 DEF ReadGeneration, Resolving
<1>4. /\ Moved(r, "lookup") \in RequestRows /\ Moved(r, "lookup").at = "lookup"
      /\ Moved(r, "lookup").from = request[r].from
      /\ Moved(r, "lookup").barred = request[r].barred
      /\ Moved(r, "lookup").unsure = request[r].unsure
  BY <1>1, MovedRow DEF Admitted
<1>5. generation[HomeOf[r]] \in Nat
  BY <1>1 DEF RoleTypes
<1>6. /\ row \in RequestRows /\ row.at = "lookup" /\ row.generation = generation[HomeOf[r]]
      /\ row.from = request[r].from /\ row.barred = request[r].barred
      /\ row.unsure = request[r].unsure
  BY <1>2, <1>4, <1>5 DEF RequestRows
<1>7. RowFresh(row, HomeOf[r])
  BY <1>1, <1>5, <1>6 DEF RowFresh
<1>8. RowKept(row)
  BY <1>1, <1>3, <1>6 DEF RowKept, Admitted
<1>9. QED BY <1>3, <1>6, <1>7, <1>8, CacheKept, RequestRow

LEMMA LookupKeeps ==
    ASSUME RolesInv, NEW r \in Requests, Lookup(r)
    PROVE  RolesInv'
<1>1. /\ request[r] \in RequestRows /\ RowFresh(request[r], HomeOf[r]) /\ RowKept(request[r])
      /\ CacheTypes /\ RoleTypes /\ CacheFresh
  BY DEF RolesInv, RequestsSound, CacheTypes
<1>2. request[r].at = "lookup" /\ UNCHANGED cacheVars
  BY DEF Lookup, Resolving
<1>3. CASE /\ Live(cached)
           /\ Proceed(r, [Moved(r, "hit") EXCEPT !.roles = cached.roles, !.by = cached.by,
                                                 !.excused = missed])
  <2>1. PICK row : row = [Moved(r, "hit") EXCEPT !.roles = cached.roles, !.by = cached.by,
                                                 !.excused = missed]
    OBVIOUS
  <2>2. /\ Moved(r, "hit") \in RequestRows /\ Moved(r, "hit").at = "hit"
        /\ Moved(r, "hit").from = request[r].from /\ Moved(r, "hit").barred = request[r].barred
        /\ Moved(r, "hit").unsure = request[r].unsure
        /\ Moved(r, "hit").generation = request[r].generation
    BY <1>1, MovedRow DEF Admitted
  <2>3. /\ row \in RequestRows /\ row.at = "hit" /\ row.roles = cached.roles
        /\ row.by = cached.by /\ row.from = request[r].from /\ row.barred = request[r].barred
        /\ row.unsure = request[r].unsure /\ row.generation = request[r].generation
        /\ row.excused = missed
    BY <1>1, <2>1, <2>2 DEF RequestRows, CacheTypes, Entries
  <2>4. row.roles >= row.from[row.by] \/ row.excused
    <3>1. cached.roles >= announced[cached.by] \/ missed
      BY <1>1, <1>3 DEF CacheFresh
    <3>2. CASE missed
      BY <2>3, <3>2
    <3>3. CASE cached.roles >= announced[cached.by]
      <4>1. /\ row.from[row.by] <= announced[row.by] /\ row.from[row.by] \in Nat
            /\ announced[row.by] \in Nat /\ row.roles \in Nat
        BY <1>1, <2>3 DEF RowFresh, RoleTypes, RequestRows
      <4>2. QED BY <2>3, <3>3, <4>1
    <3>4. QED BY <3>1, <3>2, <3>3
  <2>5. RowFresh(row, HomeOf[r])
    BY <1>1, <2>3, <2>4 DEF RowFresh
  <2>6. RowKept(row)
    BY <1>1, <1>2, <2>3 DEF RowKept, Admitted
  <2>7. QED BY <1>2, <1>3, <2>1, <2>3, <2>5, <2>6, CacheKept, RequestRow
<1>4. CASE Proceed(r, Moved(r, "miss"))
  BY <1>2, <1>4, RequestMoves DEF Admitted
<1>5. QED BY <1>3, <1>4 DEF Lookup

LEMMA ReadLedgerKeeps ==
    ASSUME RolesInv, NEW r \in Requests, ReadLedger(r)
    PROVE  RolesInv'
<1>1. /\ request[r] \in RequestRows /\ RowFresh(request[r], HomeOf[r]) /\ RowKept(request[r])
      /\ RoleTypes /\ AnnouncedCommitted /\ HomeOf[r] \in Processes /\ now \in Nat
  BY HomeIsProcess DEF RolesInv, RequestsSound, CacheTypes
<1>2. PICK row : row = [Moved(r, "fill") EXCEPT !.roles = roles, !.by = HomeOf[r], !.read = now]
  OBVIOUS
<1>3. Proceed(r, row) /\ UNCHANGED cacheVars /\ request[r].at = "ledger"
  BY <1>2 DEF ReadLedger, Resolving
<1>4. /\ Moved(r, "fill") \in RequestRows /\ Moved(r, "fill").at = "fill"
      /\ Moved(r, "fill").from = request[r].from /\ Moved(r, "fill").barred = request[r].barred
      /\ Moved(r, "fill").unsure = request[r].unsure
      /\ Moved(r, "fill").generation = request[r].generation
  BY <1>1, MovedRow DEF Admitted
<1>5. roles \in Nat
  BY <1>1 DEF RoleTypes
<1>6. /\ row \in RequestRows /\ row.at = "fill" /\ row.generation = request[r].generation
      /\ row.from = request[r].from /\ row.barred = request[r].barred
      /\ row.unsure = request[r].unsure /\ row.roles = roles /\ row.by = HomeOf[r]
      /\ row.read = now
  BY <1>1, <1>2, <1>4, <1>5 DEF RequestRows
<1>7. row.roles >= announced[HomeOf[r]] /\ row.roles >= row.from[HomeOf[r]]
  <2>1. /\ announced[HomeOf[r]] <= roles /\ announced[HomeOf[r]] \in Nat
        /\ row.from[HomeOf[r]] <= announced[HomeOf[r]] /\ row.from[HomeOf[r]] \in Nat
    BY <1>1, <1>6 DEF AnnouncedCommitted, RowFresh, RoleTypes, RequestRows
  <2>2. QED BY <1>5, <1>6, <2>1
<1>8. Dated(row)
  BY <1>1, <1>5, <1>6 DEF Dated
<1>9. RowFresh(row, HomeOf[r])
  BY <1>1, <1>6, <1>7, <1>8 DEF RowFresh
<1>10. RowKept(row)
  BY <1>1, <1>3, <1>6 DEF RowKept, Admitted
<1>11. QED BY <1>3, <1>6, <1>9, <1>10, CacheKept, RequestRow

LEMMA FillKeeps ==
    ASSUME RolesInv, NEW r \in Requests, Fill(r)
    PROVE  RolesInv'
<1>1. /\ request[r] \in RequestRows /\ RowFresh(request[r], HomeOf[r]) /\ RowKept(request[r])
      /\ CacheTypes /\ RoleTypes /\ HomeOf[r] \in Processes
  BY HomeIsProcess DEF RolesInv, RequestsSound, CacheTypes
<1>2. request[r].at = "fill" /\ UNCHANGED revoked
  BY DEF Fill, Resolving
<1>3. CASE UNCHANGED cacheVars
  <2>1. Proceed(r, Moved(r, "answered")) \/ Proceed(r, Moved(r, "generation"))
    BY DEF Fill
  <2>2. QED BY <1>2, <1>3, <2>1, RequestMoves DEF Admitted
<1>4. CASE /\ Current(r) /\ Proceed(r, Moved(r, "answered")) /\ missed' = FALSE
           /\ cached' = [roles |-> request[r].roles, until |-> now + RoleTTL, by |-> HomeOf[r],
                         read |-> request[r].read]
  <2>1. PICK row : row = Moved(r, "answered")
    OBVIOUS
  <2>2. /\ row \in RequestRows /\ row.at = "answered"
        /\ row.generation = request[r].generation /\ row.roles = request[r].roles
        /\ row.by = request[r].by /\ row.from = request[r].from /\ row.barred = request[r].barred
        /\ row.unsure = request[r].unsure /\ row.excused = request[r].excused
    BY <1>1, <2>1, MovedRow DEF Admitted
  <2>3. RowFresh(row, HomeOf[r])
    BY <1>1, <1>2, <2>2 DEF RowFresh
  <2>4. RowKept(row)
    BY <1>1, <1>2, <2>2 DEF RowKept, Admitted
  <2>5. cached' \in Entries /\ missed' \in BOOLEAN
    <3>1. now + RoleTTL \in Nat /\ request[r].roles \in Nat /\ request[r].read \in Nat
      BY <1>1, IdentityAssumption DEF CacheTypes, RequestRows
    <3>2. QED BY <1>1, <1>4, <3>1 DEF Entries
  <2>6. /\ cached'.roles = request[r].roles /\ cached'.by = HomeOf[r]
        /\ cached'.read = request[r].read
        /\ UNCHANGED <<now, roles, superseded, announced>>
    BY <1>4 DEF Proceed, rolesVars
  <2>7. CacheFresh'
    <3>1. request[r].roles >= announced[HomeOf[r]]
      BY <1>1, <1>2, <1>4 DEF Current, RowFresh
    <3>2. QED BY <2>6, <3>1 DEF CacheFresh
  <2>8. Dated(cached)'
    <3>1. Dated(request[r])
      BY <1>1, <1>2 DEF RowFresh
    <3>2. QED BY <2>6, <3>1 DEF Dated
  <2>9. QED BY <1>2, <1>4, <2>1, <2>2, <2>3, <2>4, <2>5, <2>7, <2>8, RequestRow
<1>5. QED BY <1>2, <1>3, <1>4 DEF Fill, cacheVars

LEMMA RequestStepKeeps ==
    ASSUME RolesInv, NEW r \in Requests,
           \/ Validate(r) \/ IsRevoked(r) \/ ReadGeneration(r) \/ Lookup(r)
           \/ TakeHit(r) \/ AfterMiss(r) \/ ReadLedger(r) \/ Fill(r)
    PROVE  RolesInv'
<1>1. CASE TakeHit(r) \/ AfterMiss(r)
  <2>1. UNCHANGED cacheVars /\ request[r].at \in {"hit", "miss"}
    BY <1>1 DEF TakeHit, AfterMiss, Resolving
  <2>2. \/ Proceed(r, Moved(r, "generation")) \/ Proceed(r, Moved(r, "ledger"))
        \/ Proceed(r, Moved(r, "answered")) /\ request[r].at = "hit"
    BY <1>1 DEF TakeHit, AfterMiss, Resolving
  <2>3. QED BY <2>1, <2>2, RequestMoves DEF Admitted
<1>2. QED BY <1>1, ValidateKeeps, IsRevokedKeeps, ReadGenerationKeeps, LookupKeeps,
             ReadLedgerKeeps, FillKeeps

\* What was known stays so when time passes, when the generations move and when more of
\* the changes are announced.
LEMMA RowOutlives ==
    ASSUME NEW row \in RequestRows, NEW p \in Processes, RowFresh(row, p), RoleTypes, CacheTypes,
           UNCHANGED <<roles, superseded>>, now' \in Nat, now <= now',
           announced' \in [Processes -> Nat], generation' \in [Processes -> Nat],
           \A q \in Processes : announced[q] <= announced'[q],
           \/ generation'[p] = generation[p] /\ announced'[p] = announced[p]
           \/ generation'[p] = generation[p] + 1
    PROVE  RowFresh(row, p)'
<1>1. ASSUME NEW q \in Processes PROVE row.from[q] <= announced'[q]
  <2>1. row.from[q] \in Nat /\ announced[q] \in Nat /\ announced'[q] \in Nat
    BY DEF RequestRows, RoleTypes
  <2>2. QED BY <2>1 DEF RowFresh
<1>2. generation[p] \in Nat /\ generation'[p] \in Nat /\ row.generation \in Nat
  BY DEF RoleTypes, RequestRows
<1>3. row.generation <= generation'[p] /\ generation[p] <= generation'[p]
  BY <1>2 DEF RowFresh
<1>4. ASSUME Dated(row) PROVE Dated(row)'
  <2>1. row.read \in Nat /\ now \in Nat
    BY DEF RequestRows, CacheTypes
  <2>2. QED BY <1>4, <2>1 DEF Dated
<1>5. ASSUME row.at = "fill", row.generation = generation'[p]
      PROVE  row.roles >= announced'[p]
  <2>1. generation'[p] = generation[p]
    BY <1>2, <1>5 DEF RowFresh
  <2>2. announced'[p] = announced[p]
    BY <1>2, <2>1
  <2>3. QED BY <1>5, <2>1, <2>2 DEF RowFresh
<1>6. QED BY <1>1, <1>3, <1>4, <1>5 DEF RowFresh

LEMMA OthersKeepRoles ==
    ASSUME RolesInv, RoleStep \/ Logout \/ Tick \/ CacheFails \/ ApiKeyStep
    PROVE  RolesInv'
<1>1. /\ CacheTypes /\ RoleTypes /\ AnnouncedCommitted /\ CacheFresh /\ LogoutKept /\ Dated(cached)
      /\ \A r \in Requests :
            /\ request[r] \in RequestRows /\ HomeOf[r] \in Processes
            /\ RowFresh(request[r], HomeOf[r]) /\ RowKept(request[r])
  BY HomeIsProcess DEF RolesInv, RequestsSound, CacheTypes
<1>2. CASE Tick
  <2>1. now' = now + 1 /\ now' \in Nat /\ now <= now'
        /\ UNCHANGED <<roles, superseded, announced, admin, generation, cached, missed, revoked,
                       loggedOut, request>>
    BY <1>1, <1>2 DEF Tick, rolesVars, cacheVars, CacheTypes
  <2>2. CacheTypes' /\ RoleTypes' /\ AnnouncedCommitted' /\ LogoutKept'
    BY <1>1, <2>1 DEF CacheTypes, RoleTypes, AnnouncedCommitted, LogoutKept
  <2>3. Live(cached)' => Live(cached)
    BY <1>1, <2>1 DEF Live, CacheTypes, Entries
  <2>4. CacheFresh'
    BY <1>1, <2>1, <2>3 DEF CacheFresh
  <2>5. Dated(cached)'
    BY <1>1, <2>1 DEF Dated, CacheTypes, Entries
  <2>6. \A p \in Processes : announced[p] <= announced'[p]
    BY <1>1, <2>1 DEF RoleTypes
  <2>7. ASSUME NEW r \in Requests PROVE RowFresh(request[r], HomeOf[r])' /\ RowKept(request[r])'
    <3>1. PICK row, p : row = request[r] /\ p = HomeOf[r]
      OBVIOUS
    <3>2. RowFresh(row, p)'
      BY <1>1, <2>1, <2>2, <2>6, <3>1, RowOutlives DEF RoleTypes
    <3>3. request'[r] = row
      BY <2>1, <3>1
    <3>4. RowFresh(request[r], HomeOf[r])'
      BY <3>1, <3>2, <3>3
    <3>5. QED BY <1>1, <2>1, <3>4 DEF RowKept
  <2>8. QED BY <2>2, <2>4, <2>5, <2>7 DEF RolesInv, RequestsSound
<1>3. CASE CacheFails \/ ApiKeyStep
  <2>1. UNCHANGED <<now, roles, superseded, announced, admin, generation, cached, missed, revoked,
                    loggedOut, request>>
    BY <1>3 DEF CacheFails, ApiKeyStep, ReadKey, RevokeKey, FindKey, LoadPrincipal, PrincipalGone,
                Touch, KeyStep, rolesVars, cacheVars
  <2>2. QED BY <1>1, <2>1 DEF RolesInv, CacheTypes, RoleTypes, AnnouncedCommitted, LogoutKept,
                CacheFresh, Live, Dated, RequestsSound, RowFresh, RowKept
<1>4. CASE Logout
  <2>1. /\ UNCHANGED <<now, roles, superseded, announced, admin, generation, cached, missed, request>>
        /\ ~loggedOut
        /\ \/ UNCHANGED <<revoked, loggedOut>>
           \/ /\ Remaining > 0 /\ loggedOut' = TRUE
              /\ revoked' = now + Remaining + (Remaining % 2)
    BY <1>4 DEF Logout, rolesVars
  <2>2. revoked' \in Nat /\ loggedOut' \in BOOLEAN /\ (loggedOut' => revoked' >= Expiration)
    <3>1. CASE UNCHANGED <<revoked, loggedOut>>
      BY <1>1, <3>1 DEF CacheTypes, LogoutKept
    <3>2. CASE Remaining > 0 /\ loggedOut' = TRUE /\ revoked' = now + Remaining + (Remaining % 2)
      <4>1. now \in Nat /\ Expiration \in Nat /\ Remaining = Expiration - now
        BY <1>1, IdentityAssumption DEF CacheTypes, Remaining
      <4>2. PICK n \in Int : n = Remaining
        BY <4>1
      <4>3. n % 2 \in 0 .. 1 /\ revoked' = now + n + (n % 2) /\ now + n = Expiration
        BY <3>2, <4>1, <4>2
      <4>4. QED BY <3>2, <4>1, <4>2, <4>3
    <3>3. QED BY <2>1, <3>1, <3>2
  <2>3. /\ CacheTypes' /\ RoleTypes' /\ AnnouncedCommitted' /\ LogoutKept' /\ CacheFresh'
        /\ Dated(cached)'
    BY <1>1, <2>1, <2>2 DEF CacheTypes, RoleTypes, AnnouncedCommitted, LogoutKept, CacheFresh, Live,
       Dated
  <2>4. ASSUME NEW r \in Requests PROVE RowFresh(request[r], HomeOf[r])' /\ RowKept(request[r])'
    BY <1>1, <2>1 DEF RowFresh, Dated, RowKept
  <2>5. QED BY <2>3, <2>4 DEF RolesInv, RequestsSound
<1>5. ASSUME NEW a \in Admins, ChangeRoles(a) PROVE RolesInv'
  <2>1. /\ UNCHANGED <<now, announced, generation, cached, missed, revoked, loggedOut, request>>
        /\ roles' = roles + 1 /\ admin' = [admin EXCEPT ![a] = roles + 1]
        /\ superseded' = [superseded EXCEPT ![roles + 1] = now] /\ roles <= MaxChanges
    BY <1>5 DEF ChangeRoles, cacheVars
  <2>2. roles \in Nat /\ roles + 1 \in 1 .. MaxChanges + 1 /\ now \in Nat
    BY <1>1, <2>1, IdentityAssumption DEF RoleTypes, CacheTypes
  <2>3. /\ superseded'[roles + 1] = now
        /\ \A v \in 1 .. MaxChanges + 1 : v # roles + 1 => superseded'[v] = superseded[v]
    BY <1>1, <2>1, <2>2 DEF RoleTypes
  <2>4. CacheTypes' /\ RoleTypes' /\ AnnouncedCommitted' /\ LogoutKept' /\ CacheFresh'
    <3>1. CacheTypes' /\ LogoutKept' /\ CacheFresh'
      BY <1>1, <2>1 DEF CacheTypes, LogoutKept, CacheFresh, Live
    <3>2. RoleTypes'
      BY <1>1, <2>1, <2>2 DEF RoleTypes
    <3>3. ASSUME NEW p \in Processes PROVE announced'[p] <= roles'
      <4>1. announced[p] \in Nat /\ announced[p] <= roles
        BY <1>1 DEF RoleTypes, AnnouncedCommitted
      <4>2. QED BY <2>1, <2>2, <4>1
    <3>4. ASSUME NEW b \in Admins PROVE admin'[b] <= roles'
      <4>1. admin[b] \in Nat /\ admin[b] <= roles /\ (admin'[b] = admin[b] \/ admin'[b] = roles + 1)
        BY <1>1, <2>1 DEF RoleTypes, AnnouncedCommitted
      <4>2. QED BY <2>1, <2>2, <4>1
    <3>5. QED BY <3>1, <3>2, <3>3, <3>4 DEF AnnouncedCommitted
  <2>5. ASSUME NEW entry, Dated(entry), entry.read \in Nat, entry.roles \in Nat PROVE Dated(entry)'
    <3>1. entry.read <= now /\ entry.roles <= roles
          /\ (entry.roles < roles => entry.read <= superseded[entry.roles + 1])
      BY <2>5 DEF Dated
    <3>2. CASE entry.roles < roles
      <4>1. entry.roles + 1 \in 1 .. MaxChanges + 1 /\ entry.roles + 1 # roles + 1
        BY <2>1, <2>2, <2>5, <3>2, IdentityAssumption
      <4>2. QED BY <2>1, <2>2, <2>3, <2>5, <3>1, <3>2, <4>1 DEF Dated
    <3>3. CASE entry.roles = roles
      BY <2>1, <2>2, <2>3, <2>5, <3>1, <3>3 DEF Dated
    <3>4. QED BY <2>2, <2>5, <3>1, <3>2, <3>3
  <2>6. Dated(cached)'
    <3>1. PICK entry : entry = cached
      OBVIOUS
    <3>2. Dated(entry)'
      BY <1>1, <2>5, <3>1 DEF CacheTypes, Entries
    <3>3. QED BY <2>1, <3>1, <3>2
  <2>7. ASSUME NEW r \in Requests PROVE RowFresh(request[r], HomeOf[r])' /\ RowKept(request[r])'
    <3>1. PICK row, p : row = request[r] /\ p = HomeOf[r]
      OBVIOUS
    <3>2. row \in RequestRows /\ RowFresh(row, p)
      BY <1>1, <3>1
    <3>3. Dated(row) => Dated(row)'
      BY <2>5, <3>2 DEF RequestRows
    <3>4. RowFresh(row, p)'
      BY <2>1, <3>2, <3>3 DEF RowFresh
    <3>5. request'[r] = row
      BY <2>1, <3>1
    <3>6. RowFresh(request[r], HomeOf[r])'
      BY <3>1, <3>4, <3>5
    <3>7. QED BY <1>1, <2>1, <3>6 DEF RowKept
  <2>8. QED BY <2>4, <2>6, <2>7 DEF RolesInv, RequestsSound
<1>6. ASSUME NEW a \in Admins, Announce(a) PROVE RolesInv'
  <2>1. PICK home \in Processes : home = HomeOf[a]
    BY HomeIsProcess
  <2>2. /\ UNCHANGED <<now, roles, superseded, revoked, loggedOut, request>>
        /\ generation' = [generation EXCEPT ![home] = @ + 1]
        /\ announced' = [announced EXCEPT ![home] = Max({@, admin[a]})]
        /\ admin' = [admin EXCEPT ![a] = 0]
        /\ \/ cached' = NoEntry /\ missed' = FALSE
           \/ cached' = cached /\ missed' = (missed \/ Live(cached))
    BY <1>6, <2>1 DEF Announce
  <2>3. PICK latest : latest = Max({announced[home], admin[a]})
    OBVIOUS
  <2>4. latest \in Nat /\ latest >= announced[home] /\ latest <= roles
    <3>1. PICK one, other : one = announced[home] /\ other = admin[a]
      OBVIOUS
    <3>2. one \in Nat /\ other \in Nat /\ one <= roles /\ other <= roles /\ roles \in Nat
      BY <1>1, <1>6, <3>1 DEF RoleTypes, AnnouncedCommitted
    <3>3. latest = IF one >= other THEN one ELSE other
      BY <2>3, <3>1, <3>2, MaxOfTwo
    <3>4. QED BY <3>1, <3>2, <3>3
  <2>5. announced' = [announced EXCEPT ![home] = latest]
    BY <2>2, <2>3
  <2>6. generation[home] \in Nat
    BY <1>1 DEF RoleTypes
  <2>7. RoleTypes' /\ AnnouncedCommitted' /\ LogoutKept'
    <3>1. RoleTypes' /\ LogoutKept'
      BY <1>1, <2>2, <2>4, <2>5, <2>6 DEF RoleTypes, LogoutKept
    <3>2. ASSUME NEW p \in Processes PROVE announced'[p] <= roles'
      BY <1>1, <2>2, <2>4, <2>5 DEF RoleTypes, AnnouncedCommitted
    <3>3. ASSUME NEW b \in Admins PROVE admin'[b] <= roles'
      BY <1>1, <2>2 DEF RoleTypes, AnnouncedCommitted
    <3>4. QED BY <3>1, <3>2, <3>3 DEF AnnouncedCommitted
  <2>8. CacheTypes' /\ CacheFresh' /\ Dated(cached)'
    <3>1. CASE cached' = NoEntry /\ missed' = FALSE
      <4>1. /\ cached' \in Entries /\ cached'.until = 0 /\ cached'.read = 0 /\ cached'.roles = 0
            /\ now' \in Nat
        BY <1>1, <2>2, <3>1, HomeIsProcess DEF CacheTypes, NoEntry, Entries
      <4>2. ~Live(cached)'
        BY <4>1 DEF Live
      <4>3. CacheTypes'
        BY <1>1, <2>2, <3>1, <4>1 DEF CacheTypes
      <4>4. superseded'[1] \in Nat /\ roles' \in Nat
        BY <2>7, IdentityAssumption DEF RoleTypes
      <4>5. Dated(cached)'
        BY <4>1, <4>4 DEF Dated
      <4>6. QED BY <4>2, <4>3, <4>5 DEF CacheFresh
    <3>2. CASE cached' = cached /\ missed' = (missed \/ Live(cached))
      <4>1. missed' \in BOOLEAN
        BY <3>2
      <4>2. CacheFresh'
        BY <2>2, <3>2 DEF CacheFresh, Live
      <4>3. Dated(cached)'
        BY <1>1, <2>2, <3>2 DEF Dated
      <4>4. QED BY <1>1, <2>2, <3>2, <4>1, <4>2, <4>3 DEF CacheTypes
    <3>3. QED BY <2>2, <3>1, <3>2
  <2>9. \A p \in Processes : announced[p] <= announced'[p]
    BY <1>1, <2>4, <2>5 DEF RoleTypes
  <2>10. ASSUME NEW r \in Requests PROVE RowFresh(request[r], HomeOf[r])' /\ RowKept(request[r])'
    <3>1. PICK row, p : row = request[r] /\ p = HomeOf[r]
      OBVIOUS
    <3>2. p \in Processes /\ row \in RequestRows /\ RowFresh(row, p)
      BY <1>1, <3>1
    <3>3. \/ generation'[p] = generation[p] /\ announced'[p] = announced[p]
          \/ generation'[p] = generation[p] + 1
      BY <1>1, <2>2, <2>5, <3>2 DEF RoleTypes
    <3>4. RowFresh(row, p)'
      <4>1. announced' \in [Processes -> Nat] /\ generation' \in [Processes -> Nat]
        BY <2>7 DEF RoleTypes
      <4>2. now' \in Nat /\ now <= now'
        BY <1>1, <2>2 DEF CacheTypes
      <4>3. QED BY <1>1, <2>2, <2>9, <3>2, <3>3, <4>1, <4>2, RowOutlives
    <3>5. request'[r] = row
      BY <2>2, <3>1
    <3>6. RowFresh(request[r], HomeOf[r])'
      BY <3>1, <3>4, <3>5
    <3>7. QED BY <1>1, <2>2, <3>6 DEF RowKept
  <2>11. QED BY <2>7, <2>8, <2>10 DEF RolesInv, RequestsSound
<1>7. QED BY <1>2, <1>3, <1>4, <1>5, <1>6 DEF RoleStep

LEMMA RolesInvariant == IdentitySpec => []RolesInv
<1>1. IdentityInit => RolesInv
  <2> SUFFICES ASSUME IdentityInit PROVE RolesInv
    OBVIOUS
  <2> USE DEF IdentityInit
  <2>1. CacheTypes
    BY HomeIsProcess DEF CacheTypes, Entries, NoEntry, RequestRows, Admitted
  <2>2. RoleTypes /\ AnnouncedCommitted
    BY IdentityAssumption DEF RoleTypes, AnnouncedCommitted
  <2>3. CacheFresh /\ LogoutKept /\ Dated(cached)
    BY IdentityAssumption DEF CacheFresh, LogoutKept, Live, NoEntry, Dated
  <2>4. ASSUME NEW r \in Requests PROVE RowFresh(request[r], HomeOf[r]) /\ RowKept(request[r])
    BY HomeIsProcess DEF RowFresh, RowKept, Admitted
  <2>5. QED BY <2>1, <2>2, <2>3, <2>4 DEF RolesInv, RequestsSound
<1>2. RolesInv /\ [IdentityNext]_identityVars => RolesInv'
  <2> SUFFICES ASSUME RolesInv, [IdentityNext]_identityVars PROVE RolesInv'
    OBVIOUS
  <2>1. CASE UNCHANGED identityVars
    BY <2>1 DEF identityVars, rolesVars, cacheVars, RolesInv, CacheTypes, RoleTypes,
       AnnouncedCommitted, LogoutKept, CacheFresh, Live, Dated, RequestsSound, RowFresh, RowKept
  <2>2. CASE RequestStep
    BY <2>2, RequestStepKeeps, OthersKeepRoles DEF RequestStep
  <2>3. CASE RoleStep \/ Logout \/ ApiKeyStep \/ Tick
    BY <2>3, OthersKeepRoles
  <2>4. QED BY <2>1, <2>2, <2>3 DEF IdentityNext
<1>3. QED BY <1>1, <1>2, PTL DEF IdentitySpec

\* Whoever is authenticated has roles at least as new as every change that the process
\* which read them had answered before, though requests fill the cache with what they read
\* before the change: but for an entry that an unreachable cache could not delete.  What
\* another process puts back is served no longer than the life of an entry and the time it
\* took to put it.  For any processes, requests and changes; auth/core.py, users/core.py.
THEOREM RolesAlwaysFresh == IdentitySpec => []RolesFresh
<1>1. ASSUME RolesInv PROVE AsNewAsItsReader
  <2> SUFFICES ASSUME NEW r \in Requests, Resolving(r, "answered"),
                      request[r].roles < request[r].from[request[r].by]
               PROVE  request[r].excused
    BY DEF AsNewAsItsReader
  <2>1. request[r] \in RequestRows /\ RowFresh(request[r], HomeOf[r])
    BY <1>1 DEF RolesInv, RequestsSound, CacheTypes
  <2>2. QED BY <2>1 DEF RowFresh, RequestRows, Resolving
<1>2. ASSUME RolesInv PROVE StaleNoLonger
  <2> SUFFICES ASSUME Live(cached), cached.roles < roles
               PROVE  now < superseded[cached.roles + 1] + RoleTTL + (Put - cached.read)
    BY DEF StaleNoLonger
  <2>1. /\ cached.until \in Nat /\ cached.read \in Nat /\ cached.roles \in Nat /\ now \in Nat
        /\ RoleTTL \in Nat /\ MaxChanges \in Nat /\ roles \in 1 .. MaxChanges + 1
        /\ now < cached.until /\ cached.read <= superseded[cached.roles + 1]
    BY <1>2, IdentityAssumption DEF RolesInv, CacheTypes, RoleTypes, Entries, Dated, Live
  <2>2. superseded[cached.roles + 1] \in Nat
    BY <1>2, <2>1 DEF RolesInv, RoleTypes
  <2>3. QED BY <2>1, <2>2 DEF Put
<1>3. RolesInv => RolesFresh
  BY <1>1, <1>2 DEF RolesFresh
<1>4. QED BY <1>3, RolesInvariant, PTL

----------------------------------------------------------------------------
(* API keys                                                                 *)

\* A key is used before it is revoked, which is known to every revoker that was
\* answered; a call that begins after such an answer is refused.
KeyTypes == /\ token \in [used : Nat, revoked : Nat]
            /\ revoker \in [Revokers -> {"new", "update", "answered"}]
            /\ call \in [Calls -> [at : {"new", "principal", "touch", "answered", "refused"},
                                   barred : BOOLEAN]]
KeyInv == /\ KeyTypes
          /\ token.used <= MaxTime + Skew /\ token.used <= token.revoked
          /\ \A k \in Revokers : revoker[k] = "answered" => token.revoked # Never
          /\ \A c \in Calls : call[c].barred => call[c].at = "refused"

\* The first instant of a revocation stays, and nothing is used after it.
Revocation == token.revoked # Never => token' = token

LEMMA KeyStepKeeps ==
    ASSUME KeyInv, [IdentityNext]_identityVars
    PROVE  KeyInv' /\ Revocation
<1>0. MaxTime + Skew \in Nat /\ Never = MaxTime + Skew + 1
  BY IdentityAssumption DEF Never
<1>1. CASE UNCHANGED keyVars
  BY <1>1 DEF keyVars, KeyInv, KeyTypes, Revocation
<1>2. ASSUME NEW k \in Revokers, ReadKey(k) PROVE KeyInv' /\ Revocation
  BY <1>2 DEF ReadKey, KeyInv, KeyTypes, Revocation
<1>3. ASSUME NEW k \in Revokers, RevokeKey(k) PROVE KeyInv' /\ Revocation
  <2>1. PICK t \in Clock : token' = [token EXCEPT !.revoked = RevocationTime(t)]
    BY <1>3 DEF RevokeKey
  <2>2. t \in Nat /\ t <= MaxTime + Skew
    BY <1>0 DEF Clock
  <2>3. PICK instant : instant = RevocationTime(t)
    OBVIOUS
  <2>4. /\ instant \in Nat /\ token.used <= instant /\ instant # Never
        /\ token.revoked # Never => instant = token.revoked
    BY <1>0, <2>2, <2>3, MaxOfTwo DEF RevocationTime, KeyInv, KeyTypes
  <2>5. /\ token' \in [used : Nat, revoked : Nat] /\ token'.used = token.used
        /\ token'.revoked = instant /\ (token.revoked # Never => token' = token)
    BY <2>1, <2>3, <2>4 DEF KeyInv, KeyTypes
  <2>6. revoker' = [revoker EXCEPT ![k] = "answered"] /\ call' = call
    BY <1>3 DEF RevokeKey
  <2>7. KeyTypes'
    BY <2>5, <2>6 DEF KeyInv, KeyTypes
  <2>8. QED BY <2>4, <2>5, <2>6, <2>7 DEF KeyInv, Revocation, KeyTypes
<1>4. ASSUME NEW c \in Calls, FindKey(c) PROVE KeyInv' /\ Revocation
  <2>1. token' = token /\ revoker' = revoker
    BY <1>4 DEF FindKey
  <2>2. PICK place : place = IF token.revoked = Never THEN "principal" ELSE "refused"
    OBVIOUS
  <2>3. PICK barred : barred = \E k \in Revokers : revoker[k] = "answered"
    OBVIOUS
  <2>4. call' = [call EXCEPT ![c] = [at |-> place, barred |-> barred]]
    BY <1>4, <2>2, <2>3 DEF FindKey
  <2>5. barred \in BOOLEAN /\ place \in {"principal", "refused"}
    BY <2>2, <2>3
  <2>6. ASSUME barred PROVE place = "refused"
    <3>1. \E k \in Revokers : revoker[k] = "answered"
      BY <2>3, <2>6, Zenon
    <3>2. QED BY <2>2, <3>1 DEF KeyInv
  <2>7. QED BY <2>1, <2>4, <2>5, <2>6 DEF KeyInv, KeyTypes, Revocation
<1>5. ASSUME NEW c \in Calls, LoadPrincipal(c) \/ PrincipalGone(c) PROVE KeyInv' /\ Revocation
  BY <1>5 DEF LoadPrincipal, PrincipalGone, KeyInv, KeyTypes, Revocation
<1>6. ASSUME NEW c \in Calls, Touch(c) PROVE KeyInv' /\ Revocation
  <2>1. revoker' = revoker /\ call[c].at = "touch"
    BY <1>6 DEF Touch
  <2>2. CASE ~StillActive
    BY <1>6, <2>1, <2>2 DEF Touch, KeyInv, KeyTypes, Revocation
  <2>3. CASE StillActive
    <3>1. PICK t \in Clock : token' = [token EXCEPT !.used = Max({t, token.used})]
      BY <1>6, <2>3 DEF Touch
    <3>2. t \in Nat /\ t <= MaxTime + Skew
      BY <1>0 DEF Clock
    <3>3. PICK used : used = Max({t, token.used})
      OBVIOUS
    <3>4. used \in Nat /\ used <= MaxTime + Skew
      BY <3>2, <3>3, MaxOfTwo DEF KeyInv, KeyTypes
    <3>5. token.revoked = Never
      BY <2>3 DEF StillActive
    <3>6. /\ token' \in [used : Nat, revoked : Nat] /\ token'.used = used
          /\ token'.revoked = Never
      BY <3>1, <3>3, <3>4, <3>5 DEF KeyInv, KeyTypes
    <3>7. call' = [call EXCEPT ![c].at = "answered"]
      BY <1>6, <2>3 DEF Touch
    <3>8. KeyTypes'
      BY <2>1, <3>6, <3>7 DEF KeyInv, KeyTypes
    <3>9. QED BY <1>0, <2>1, <3>4, <3>5, <3>6, <3>7, <3>8 DEF KeyInv, Revocation, KeyTypes
  <2>4. QED BY <2>2, <2>3
<1>7. QED
  BY <1>1, <1>2, <1>3, <1>4, <1>5, <1>6 DEF IdentityNext, identityVars, RoleStep, ChangeRoles,
     Announce, Logout, Tick, ApiKeyStep, RequestStep, CacheFails, Validate, IsRevoked,
     ReadGeneration, Lookup, TakeHit, AfterMiss, ReadLedger, Fill, Proceed

\* Whoever begins after a logout or a revocation was answered is not let in, unless
\* the cache could not tell, a key is not used after the instant of its revocation,
\* whatever the clocks of the nodes say, and that instant is the first for good.
\* auth/core.py, mcp/tokens.py.
THEOREM RevokedAlwaysStaysOut == IdentitySpec => RevokedStaysOut
<1>1. IdentityInit => KeyInv
  BY IdentityAssumption DEF IdentityInit, KeyInv, KeyTypes, Never
<1>2. KeyInv /\ [IdentityNext]_identityVars => KeyInv'
  BY KeyStepKeeps
<1>3. KeyInv /\ [IdentityNext]_identityVars => [token.revoked # Never => token' = token]_token
  BY KeyStepKeeps DEF Revocation
<1>4. RolesInv => \A r \in Requests : Resolving(r, "answered") /\ request[r].barred =>
                                         request[r].unsure
  BY DEF RolesInv, RequestsSound, RowKept, Resolving, Admitted
<1>5. KeyInv => /\ \A c \in Calls : call[c].at = "answered" => ~call[c].barred
                /\ token.used <= token.revoked
  BY DEF KeyInv
<1>6. QED BY <1>1, <1>2, <1>3, <1>4, <1>5, RolesInvariant, PTL DEF IdentitySpec, RevokedStaysOut

----------------------------------------------------------------------------
(* The process of a worker                                                  *)

HoldingPlaces == {"given", "queued", "starting", "registered", "executing", "stopping",
                  "releasing", "cancelled"}
ClaimPlaces == HoldingPlaces \union {"none", "released", "ended"}
RegisteredPlaces == {"registered", "executing", "stopping"}
ClaimRows == [at : ClaimPlaces, job : Jobs \union {NoJob}, tracked : BOOLEAN,
              renewal : {"none", "unstarted", "waiting", "calling", "ended"}, stop : BOOLEAN]
PollRows == [at : {"idle", "slot", "asking", "submit", "track"}, claim : 0 .. MaxClaims]

\* A claim has a job, and while its renewal is registered the entry of that job; its
\* future is kept until the executor has the claim.
ClaimFormed(row, c, entries) ==
    /\ row \in ClaimRows
    /\ row.at # "none" => row.job \in Jobs
    /\ row.at \in {"none", "given"} => row.tracked
    /\ row.at \in RegisteredPlaces => entries[row.job] = c
    /\ row.renewal \in {"waiting", "calling"} => row.at \in {"executing", "stopping"}

\* The claim in the hands of the poll thread.
PollFormed == /\ poll.at \in {"submit", "track"} => poll.claim \in Claims
              /\ poll.at = "submit" => claim[poll.claim].at = "given"

RuntimeInv == /\ RuntimeTypeOK /\ SlotsBalance /\ PollFormed
              /\ \A c \in Claims : ClaimFormed(claim[c], c, renewals)

\* What a claim adds to the permits that are held, and to those given back twice.
Weight(row) == IF row.at \in HoldingPlaces /\ row.tracked THEN 1 ELSE 0
Again(row) == IF row.at \in {"released", "ended"} /\ ~row.tracked THEN 1 ELSE 0

LEMMA RuntimeFacts ==
    ASSUME RuntimeInv
    PROVE  /\ claim \in [Claims -> ClaimRows] /\ poll \in PollRows
           /\ slots \in 0 .. MaxConcurrency /\ poolThreads \in 0 .. MaxConcurrency
           /\ renewals \in [Jobs -> 0 .. MaxClaims] /\ futures \subseteq Claims
           /\ \A c \in Claims : ClaimFormed(claim[c], c, renewals)
           /\ PollHolds \in 0 .. 1 /\ PollHolds' \in 0 .. 1
           /\ MaxConcurrency \in Nat \ {0} /\ NoClaim \in 0 .. MaxClaims /\ NoClaim \notin Claims
           /\ Claims \subseteq 0 .. MaxClaims
  BY RuntimeAssumption DEF RuntimeInv, RuntimeTypeOK, ClaimRows, ClaimPlaces, HoldingPlaces,
     PollRows, PollHolds, NoClaim, Claims

\* Sets of claims that differ in one claim at most differ in its presence.
LEMMA SetsOfClaims ==
    ASSUME NEW S \in SUBSET Claims, NEW T \in SUBSET Claims, NEW c \in Claims,
           S \ {c} = T \ {c}
    PROVE  /\ Cardinality(S) \in Nat /\ Cardinality(T) \in Nat
           /\ Cardinality(T) + (IF c \in S THEN 1 ELSE 0)
                = Cardinality(S) + (IF c \in T THEN 1 ELSE 0)
<1>1. IsFiniteSet(S) /\ IsFiniteSet(T)
  <2>1. IsFiniteSet(Claims)
    BY RuntimeAssumption, FS_Interval DEF Claims
  <2>2. S \subseteq Claims /\ T \subseteq Claims
    OBVIOUS
  <2>3. QED BY <2>1, <2>2, FS_Subset
<1>2. Cardinality(S) \in Nat /\ Cardinality(T) \in Nat
  BY <1>1, FS_CardinalityType
<1>3. CASE c \in S <=> c \in T
  <2>1. S = T
    BY <1>3
  <2>2. QED BY <1>2, <2>1
<1>4. CASE c \in S /\ c \notin T
  <2>1. T = S \ {c}
    BY <1>4
  <2>2. Cardinality(T) = Cardinality(S) - 1
    BY <1>1, <1>4, <2>1, FS_RemoveElement
  <2>3. QED BY <1>2, <1>4, <2>2
<1>5. CASE c \notin S /\ c \in T
  <2>1. T = S \union {c}
    BY <1>5
  <2>2. Cardinality(T) = Cardinality(S) + 1
    BY <1>1, <1>5, <2>1, FS_AddElement
  <2>3. QED BY <1>2, <1>5, <2>2
<1>6. QED BY <1>3, <1>4, <1>5

LEMMA HoldersAre ==
    /\ Holders = {c \in Claims : Weight(claim[c]) = 1}
    /\ GivenTwice = {c \in Claims : Again(claim[c]) = 1}
BY DEF Holders, GivenTwice, ClaimsAt, Weight, Again, HoldingPlaces

\* Permits that move as a claim does, or that are all back, stay balanced.
LEMMA BalanceKept ==
    ASSUME RuntimeInv, NEW c \in Claims, NEW row, claim' = [claim EXCEPT ![c] = row],
           slots' \in 0 .. MaxConcurrency,
           \/ slots' = MaxConcurrency
           \/ slots' + PollHolds' + Weight(row) >= slots + PollHolds + Weight(claim[c]),
           slots' + PollHolds' + Weight(row) + Again(claim[c])
             <= slots + PollHolds + Weight(claim[c]) + Again(row)
    PROVE  SlotsBalance'
<1>1. claim'[c] = row /\ \A b \in Claims \ {c} : claim'[b] = claim[b]
  BY RuntimeFacts
<1>2. /\ Holders = {b \in Claims : Weight(claim[b]) = 1}
      /\ GivenTwice = {b \in Claims : Again(claim[b]) = 1}
  BY HoldersAre
<1>3. /\ Holders' = {b \in Claims : Weight(claim'[b]) = 1}
      /\ GivenTwice' = {b \in Claims : Again(claim'[b]) = 1}
  BY DEF Holders, GivenTwice, ClaimsAt, Weight, Again, HoldingPlaces
<1>4. /\ Weight(row) \in 0 .. 1 /\ Weight(claim[c]) \in 0 .. 1
      /\ Again(row) \in 0 .. 1 /\ Again(claim[c]) \in 0 .. 1
  BY DEF Weight, Again
<1>5. /\ Cardinality(Holders) \in Nat /\ Cardinality(Holders)' \in Nat
      /\ Cardinality(Holders)' + Weight(claim[c]) = Cardinality(Holders) + Weight(row)
  <2>1. Holders \ {c} = Holders' \ {c}
    BY <1>1, <1>2, <1>3
  <2>2. (c \in Holders <=> Weight(claim[c]) = 1) /\ (c \in Holders' <=> Weight(row) = 1)
    BY <1>1, <1>2, <1>3
  <2>3. Holders \in SUBSET Claims /\ Holders' \in SUBSET Claims
    BY <1>2, <1>3
  <2>4. /\ Cardinality(Holders) \in Nat /\ Cardinality(Holders') \in Nat
        /\ Cardinality(Holders') + (IF c \in Holders THEN 1 ELSE 0)
             = Cardinality(Holders) + (IF c \in Holders' THEN 1 ELSE 0)
    BY <2>1, <2>3, SetsOfClaims
  <2>5. QED BY <1>4, <2>2, <2>4
<1>6. /\ Cardinality(GivenTwice) \in Nat /\ Cardinality(GivenTwice)' \in Nat
      /\ Cardinality(GivenTwice)' + Again(claim[c]) = Cardinality(GivenTwice) + Again(row)
  <2>1. GivenTwice \ {c} = GivenTwice' \ {c}
    BY <1>1, <1>2, <1>3
  <2>2. (c \in GivenTwice <=> Again(claim[c]) = 1) /\ (c \in GivenTwice' <=> Again(row) = 1)
    BY <1>1, <1>2, <1>3
  <2>3. GivenTwice \in SUBSET Claims /\ GivenTwice' \in SUBSET Claims
    BY <1>2, <1>3
  <2>4. /\ Cardinality(GivenTwice) \in Nat /\ Cardinality(GivenTwice') \in Nat
        /\ Cardinality(GivenTwice') + (IF c \in GivenTwice THEN 1 ELSE 0)
             = Cardinality(GivenTwice) + (IF c \in GivenTwice' THEN 1 ELSE 0)
    BY <2>1, <2>3, SetsOfClaims
  <2>5. QED BY <1>4, <2>2, <2>4
<1>7. /\ slots + PollHolds + Cardinality(Holders) >= MaxConcurrency
      /\ slots + PollHolds + Cardinality(Holders) <= MaxConcurrency + Cardinality(GivenTwice)
  BY DEF RuntimeInv, SlotsBalance, Permits
<1>8. /\ slots \in Nat /\ slots' \in Nat /\ MaxConcurrency \in Nat
      /\ PollHolds \in 0 .. 1 /\ PollHolds' \in 0 .. 1
  BY RuntimeFacts
<1>9. slots' + PollHolds' + Cardinality(Holders)' >= MaxConcurrency
  BY <1>4, <1>5, <1>7, <1>8
<1>10. slots' + PollHolds' + Cardinality(Holders)' <= MaxConcurrency + Cardinality(GivenTwice)'
  BY <1>4, <1>5, <1>6, <1>7, <1>8
<1>11. QED BY <1>9, <1>10 DEF SlotsBalance, Permits

\* The other claims, when one of them moves and leaves them their entries.
LEMMA ClaimMoved ==
    ASSUME RuntimeInv, NEW c \in Claims, NEW row, claim' = [claim EXCEPT ![c] = row],
           ClaimFormed(row, c, renewals'), renewals' \in [Jobs -> 0 .. MaxClaims],
           \A b \in Claims \ {c} : claim[b].at \in RegisteredPlaces =>
                                      renewals'[claim[b].job] = renewals[claim[b].job]
    PROVE  claim' \in [Claims -> ClaimRows] /\ \A b \in Claims : ClaimFormed(claim[b], b, renewals)'
<1>1. claim \in [Claims -> ClaimRows]
  BY RuntimeFacts
<1>2. claim' \in [Claims -> ClaimRows]
  BY <1>1 DEF ClaimFormed
<1>3. claim'[c] = row /\ \A b \in Claims \ {c} : claim'[b] = claim[b]
  BY <1>1
<1>4. ASSUME NEW b \in Claims PROVE ClaimFormed(claim[b], b, renewals)'
  <2>1. CASE b = c
    BY <1>3, <2>1
  <2>2. CASE b # c
    BY <1>3, <2>2 DEF RuntimeInv, ClaimFormed
  <2>3. QED BY <2>1, <2>2
<1>5. QED BY <1>2, <1>4

\* A claim that goes on, is given no other job and has no thread that renews it.
LEMMA ClaimGoes ==
    ASSUME NEW c \in Claims, NEW old, NEW entries, NEW later, ClaimFormed(old, c, entries),
           NEW place \in ClaimPlaces \ ({"none", "given"} \union RegisteredPlaces),
           NEW row, row = [old EXCEPT !.at = place], old.at # "none",
           old.renewal \notin {"waiting", "calling"}
    PROVE  ClaimFormed(row, c, later) /\ row.at = place /\ row.tracked = old.tracked
<1>1. old \in ClaimRows /\ old.job \in Jobs
  BY DEF ClaimFormed
<1>2. /\ row \in ClaimRows /\ row.at = place /\ row.job = old.job /\ row.tracked = old.tracked
      /\ row.renewal = old.renewal
  BY <1>1 DEF ClaimRows
<1>3. QED BY <1>1, <1>2 DEF ClaimFormed

LEMMA RuntimeTyped ==
    ASSUME claim' \in [Claims -> ClaimRows], slots' \in 0 .. MaxConcurrency,
           poolThreads' \in 0 .. MaxConcurrency, poll' \in PollRows,
           futures' \subseteq Claims, pending' \subseteq Claims, joins' \subseteq Claims,
           renewals' \in [Jobs -> 0 .. MaxClaims], accepting' \in BOOLEAN, pool' \in BOOLEAN,
           shutdown' \in {"up", "stopping", "closing", "joining", "draining", "drained",
                          "cancelling", "closed", "raised"}
    PROVE  RuntimeTypeOK'
<1>1. claim' \in [Claims ->
          [at : {"none", "given", "queued", "starting", "registered", "executing", "stopping",
                 "releasing", "released", "ended", "cancelled"},
           job : Jobs \union {NoJob}, tracked : BOOLEAN,
           renewal : {"none", "unstarted", "waiting", "calling", "ended"}, stop : BOOLEAN]]
  BY DEF ClaimRows, ClaimPlaces, HoldingPlaces
<1>2. QED BY <1>1 DEF RuntimeTypeOK, PollRows

\* A step that moves one claim and gives and takes permits as it does.
LEMMA StepKeeps ==
    ASSUME RuntimeInv, NEW c \in Claims, NEW row, claim' = [claim EXCEPT ![c] = row],
           ClaimFormed(row, c, renewals'), renewals' \in [Jobs -> 0 .. MaxClaims],
           \A b \in Claims \ {c} : claim[b].at \in RegisteredPlaces =>
                                      renewals'[claim[b].job] = renewals[claim[b].job],
           slots' \in 0 .. MaxConcurrency,
           \/ slots' = MaxConcurrency
           \/ slots' + PollHolds' + Weight(row) >= slots + PollHolds + Weight(claim[c]),
           slots' + PollHolds' + Weight(row) + Again(claim[c])
             <= slots + PollHolds + Weight(claim[c]) + Again(row),
           poolThreads' \in 0 .. MaxConcurrency, poll' \in PollRows, PollFormed',
           futures' \subseteq Claims, UNCHANGED closingVars
    PROVE  RuntimeInv'
<1>1. claim' \in [Claims -> ClaimRows] /\ \A b \in Claims : ClaimFormed(claim[b], b, renewals)'
  BY ClaimMoved
<1>2. SlotsBalance'
  BY BalanceKept
<1>3. RuntimeTypeOK'
  BY <1>1, RuntimeTyped DEF RuntimeInv, RuntimeTypeOK, closingVars
<1>4. QED BY <1>1, <1>2, <1>3 DEF RuntimeInv

\* A step of the poll thread that has no claim in its hands.
LEMMA PollStepKeeps ==
    ASSUME RuntimeInv, UNCHANGED <<claim, renewals, poolThreads, closingVars>>,
           slots' \in 0 .. MaxConcurrency,
           slots' = MaxConcurrency \/ slots' + PollHolds' >= slots + PollHolds,
           slots' + PollHolds' <= slots + PollHolds,
           poll' \in PollRows, poll'.at \in {"slot", "asking", "idle"}, futures' \subseteq Claims
    PROVE  RuntimeInv'
<1>1. Holders' = Holders /\ GivenTwice' = GivenTwice
  BY DEF Holders, GivenTwice, ClaimsAt
<1>2. Cardinality(Holders) \in Nat /\ Cardinality(GivenTwice) \in Nat
  <2>1. Holders \subseteq Claims /\ GivenTwice \subseteq Claims
    BY DEF Holders, GivenTwice, ClaimsAt
  <2>2. IsFiniteSet(Holders) /\ IsFiniteSet(GivenTwice)
    <3>1. IsFiniteSet(Claims)
      BY RuntimeAssumption, FS_Interval DEF Claims
    <3>2. QED BY <2>1, <3>1, FS_Subset
  <2>3. QED BY <2>2, FS_CardinalityType
<1>3. /\ slots \in Nat /\ slots' \in Nat /\ MaxConcurrency \in Nat
      /\ PollHolds \in 0 .. 1 /\ PollHolds' \in 0 .. 1
  BY RuntimeFacts
<1>4. SlotsBalance'
  <2>1. /\ slots + PollHolds + Cardinality(Holders) >= MaxConcurrency
        /\ slots + PollHolds + Cardinality(Holders) <= MaxConcurrency + Cardinality(GivenTwice)
    BY DEF RuntimeInv, SlotsBalance, Permits
  <2>2. Permits' = slots' + PollHolds' + Cardinality(Holders)
    BY <1>1 DEF Permits
  <2>3. /\ slots' + PollHolds' + Cardinality(Holders) >= MaxConcurrency
        /\ slots' + PollHolds' + Cardinality(Holders) <= MaxConcurrency + Cardinality(GivenTwice)
    <3>1. PICK held \in 0 .. 1, later \in 0 .. 1, all \in Nat, twice \in Nat :
             /\ held = PollHolds /\ later = PollHolds'
             /\ all = Cardinality(Holders) /\ twice = Cardinality(GivenTwice)
      BY <1>2, <1>3
    <3>2. slots' = MaxConcurrency \/ slots' + later >= slots + held
      BY <3>1
    <3>3. slots' + later <= slots + held
      BY <3>1
    <3>4. slots + held + all >= MaxConcurrency /\ slots + held + all <= MaxConcurrency + twice
      BY <2>1, <3>1
    <3>5. slots' + later + all >= MaxConcurrency /\ slots' + later + all <= MaxConcurrency + twice
      <4>1. ASSUME NEW s \in Nat, NEW t \in Nat, NEW m \in Nat,
                   t = m \/ t + later >= s + held, t + later <= s + held,
                   s + held + all >= m, s + held + all <= m + twice
            PROVE  t + later + all >= m /\ t + later + all <= m + twice
        BY <4>1
      <4>2. QED BY <1>3, <3>2, <3>3, <3>4, <4>1
    <3>6. QED BY <3>1, <3>5
  <2>4. QED BY <1>1, <2>2, <2>3 DEF SlotsBalance
<1>5. PollFormed'
  BY DEF PollFormed
<1>6. claim' \in [Claims -> ClaimRows] /\ \A b \in Claims : ClaimFormed(claim[b], b, renewals)'
  BY RuntimeFacts DEF ClaimFormed
<1>7. RuntimeTypeOK'
  BY <1>6, RuntimeTyped DEF RuntimeInv, RuntimeTypeOK, closingVars
<1>8. QED BY <1>4, <1>5, <1>6, <1>7 DEF RuntimeInv

\* What the semaphore has after a release.
LEMMA GivenBackIs ==
    ASSUME RuntimeInv
    PROVE  /\ GivenBack \in 0 .. MaxConcurrency /\ GivenBack \in {slots, slots + 1}
           /\ GivenBack = MaxConcurrency \/ GivenBack = slots + 1
BY RuntimeFacts DEF GivenBack

LEMMA PollKeeps ==
    ASSUME RuntimeInv, PollStep
    PROVE  RuntimeInv'
<1>1. /\ claim \in [Claims -> ClaimRows] /\ poll \in PollRows
      /\ slots \in 0 .. MaxConcurrency /\ MaxConcurrency \in Nat
      /\ renewals \in [Jobs -> 0 .. MaxClaims] /\ PollFormed /\ futures \subseteq Claims
      /\ poolThreads \in 0 .. MaxConcurrency
      /\ \A c \in Claims : ClaimFormed(claim[c], c, renewals)
      /\ NoClaim \in 0 .. MaxClaims /\ Claims \subseteq 0 .. MaxClaims
      /\ GivenBack \in 0 .. MaxConcurrency /\ GivenBack \in {slots, slots + 1}
      /\ GivenBack = MaxConcurrency \/ GivenBack = slots + 1
  BY RuntimeFacts, GivenBackIs DEF RuntimeInv
<1>2. CASE TakeSlot \/ LookAgain \/ NoClaimAnswered
  <2>1. /\ UNCHANGED <<claim, futures, renewals, poolThreads, closingVars>>
        /\ \E place \in {"slot", "asking", "idle"} : poll' = [poll EXCEPT !.at = place]
    BY <1>2 DEF TakeSlot, LookAgain, NoClaimAnswered
  <2>2. poll' \in PollRows /\ poll'.at \in {"slot", "asking", "idle"}
    BY <1>1, <2>1 DEF PollRows
  <2>3. /\ slots' \in 0 .. MaxConcurrency
        /\ slots' = MaxConcurrency \/ slots' + PollHolds' >= slots + PollHolds
        /\ slots' + PollHolds' <= slots + PollHolds
    <3>1. CASE TakeSlot
      BY <1>1, <3>1 DEF TakeSlot, PollHolds, PollRows
    <3>2. CASE LookAgain
      BY <1>1, <3>2 DEF LookAgain, PollHolds, PollRows
    <3>3. CASE NoClaimAnswered
      BY <1>1, <3>3 DEF NoClaimAnswered, PollHolds, PollRows
    <3>4. QED BY <1>2, <3>1, <3>2, <3>3
  <2>4. QED BY <1>1, <2>1, <2>2, <2>3, PollStepKeeps
<1>3. CASE Track
  <2>1. /\ UNCHANGED <<claim, slots, renewals, poolThreads, closingVars>>
        /\ poll' = [at |-> "idle", claim |-> NoClaim] /\ poll.at = "track"
        /\ futures' \in {futures, futures \union {poll.claim}}
    BY <1>3 DEF Track
  <2>2. slots' + PollHolds' = slots + PollHolds
    BY <1>1, <2>1 DEF PollHolds
  <2>3. poll' \in PollRows /\ poll'.at \in {"slot", "asking", "idle"}
    BY <1>1, <2>1 DEF PollRows
  <2>4. futures' \subseteq Claims
    BY <1>1, <2>1 DEF PollFormed
  <2>5. PollHolds \in 0 .. 1 /\ PollHolds' \in 0 .. 1
    BY DEF PollHolds
  <2>6. slots' + PollHolds' >= slots + PollHolds /\ slots' + PollHolds' <= slots + PollHolds
        /\ slots' \in 0 .. MaxConcurrency
    <3>1. PICK held \in 0 .. 1, later \in 0 .. 1 : held = PollHolds /\ later = PollHolds'
      BY <2>5
    <3>2. slots' = slots /\ slots \in 0 .. MaxConcurrency /\ slots + later = slots + held
      BY <1>1, <2>1, <2>2, <3>1
    <3>3. slots' + later >= slots + held /\ slots' + later <= slots + held
      BY <1>1, <3>2
    <3>4. QED BY <3>1, <3>2, <3>3
  <2>7. QED BY <2>1, <2>3, <2>4, <2>6, PollStepKeeps
<1>4. CASE ClaimAnswered
  <2>1. PICK c \in Claims, j \in Jobs :
           /\ claim[c].at = "none"
           /\ claim' = [claim EXCEPT ![c].at = "given", ![c].job = j]
           /\ poll' = [at |-> "submit", claim |-> c]
    BY <1>4 DEF ClaimAnswered
  <2>2. UNCHANGED <<slots, futures, renewals, poolThreads, closingVars>> /\ poll.at = "asking"
    BY <1>4 DEF ClaimAnswered
  <2>3. PICK row : row = [claim[c] EXCEPT !.at = "given", !.job = j]
    OBVIOUS
  <2>4. claim' = [claim EXCEPT ![c] = row]
    BY <2>1, <2>3
  <2>5. claim[c] \in ClaimRows /\ claim[c].tracked /\ claim[c].renewal \notin {"waiting", "calling"}
    BY <1>1, <2>1 DEF ClaimFormed
  <2>6. /\ row \in ClaimRows /\ row.at = "given" /\ row.job = j /\ row.tracked
        /\ row.renewal = claim[c].renewal
    BY <2>3, <2>5 DEF ClaimRows, ClaimPlaces, HoldingPlaces
  <2>7. ClaimFormed(row, c, renewals')
    BY <2>5, <2>6 DEF ClaimFormed, RegisteredPlaces
  <2>8. /\ Weight(row) = 1 /\ Weight(claim[c]) = 0 /\ Again(row) = 0 /\ Again(claim[c]) = 0
        /\ PollHolds = 1 /\ PollHolds' = 0
    BY <2>1, <2>2, <2>6 DEF PollHolds, Weight, Again, HoldingPlaces
  <2>9. poll' \in PollRows /\ PollFormed'
    BY <1>1, <2>1, <2>4, <2>6 DEF PollRows, PollFormed
  <2>10. /\ slots' \in 0 .. MaxConcurrency
         /\ slots' + PollHolds' + Weight(row) >= slots + PollHolds + Weight(claim[c])
         /\ slots' + PollHolds' + Weight(row) + Again(claim[c])
              <= slots + PollHolds + Weight(claim[c]) + Again(row)
    BY <1>1, <2>2, <2>8
  <2>11. /\ renewals' \in [Jobs -> 0 .. MaxClaims] /\ poolThreads' \in 0 .. MaxConcurrency
         /\ futures' \subseteq Claims
         /\ \A b \in Claims \ {c} : renewals'[claim[b].job] = renewals[claim[b].job]
    BY <1>1, <2>2
  <2>12. QED BY <2>2, <2>4, <2>7, <2>9, <2>10, <2>11, StepKeeps
<1>5. CASE Submit
  <2>1. PICK c \in Claims : c = poll.claim /\ claim[c].at = "given"
    BY <1>1, <1>5 DEF Submit, PollFormed
  <2>2. UNCHANGED <<futures, renewals, closingVars>> /\ poll.at = "submit" /\ PollHolds = 0
    BY <1>5 DEF Submit, PollHolds
  <2>3. claim[c] \in ClaimRows /\ claim[c].tracked /\ claim[c].renewal \notin {"waiting", "calling"}
    BY <1>1, <2>1 DEF ClaimFormed
  <2>4. Weight(claim[c]) = 1 /\ Again(claim[c]) = 0
    BY <2>1, <2>3 DEF Weight, Again, HoldingPlaces
  <2>5. CASE Accepted \/ TurnedAway
    <3>1. PICK place \in {"queued", "ended"} :
             /\ claim' = [claim EXCEPT ![c].at = place]
             /\ poolThreads' \in 0 .. MaxConcurrency
             /\ place = "queued" => slots' = slots /\ poll' = [poll EXCEPT !.at = "track"]
             /\ place = "ended" => slots' = GivenBack /\ poll' = [at |-> "idle", claim |-> NoClaim]
      BY <1>1, <2>1, <2>5 DEF Accepted, TurnedAway
    <3>2. PICK row : row = [claim[c] EXCEPT !.at = place]
      OBVIOUS
    <3>3. claim' = [claim EXCEPT ![c] = row]
      BY <3>1, <3>2
    <3>4. ClaimFormed(row, c, renewals') /\ row.at = place /\ row.tracked = claim[c].tracked
      <4>1. place \in ClaimPlaces \ ({"none", "given"} \union RegisteredPlaces)
        BY DEF ClaimPlaces, HoldingPlaces, RegisteredPlaces
      <4>2. ClaimFormed(claim[c], c, renewals) /\ claim[c].at # "none"
        BY <1>1, <2>1
      <4>3. claim[c].renewal \notin {"waiting", "calling"}
        BY <2>3
      <4>4. QED BY <3>2, <4>1, <4>2, <4>3, ClaimGoes
    <3>5. /\ place = "queued" => Weight(row) = 1 
          /\ place = "ended" => Weight(row) = 0
          /\ Again(row) = 0
      BY <2>3, <3>4 DEF Weight, Again, HoldingPlaces
    <3>6. poll' \in PollRows /\ PollFormed' /\ PollHolds' = 0
      BY <1>1, <2>1, <2>2, <3>1 DEF PollRows, PollFormed, PollHolds
    <3>7. /\ slots' \in 0 .. MaxConcurrency
          /\ slots' = MaxConcurrency \/ slots' + Weight(row) >= slots + 1
          /\ slots' + Weight(row) <= slots + 1
      BY <1>1, <3>1, <3>5
    <3>8. /\ \/ slots' = MaxConcurrency
             \/ slots' + PollHolds' + Weight(row) >= slots + PollHolds + Weight(claim[c])
          /\ slots' + PollHolds' + Weight(row) + Again(claim[c])
               <= slots + PollHolds + Weight(claim[c]) + Again(row)
      BY <1>1, <2>2, <2>4, <3>1, <3>5, <3>6, <3>7
    <3>9. QED BY <1>1, <2>2, <3>1, <3>3, <3>4, <3>6, <3>7, <3>8, StepKeeps
  <2>6. CASE ThreadNotStarted
    <3>1. /\ claim' = [claim EXCEPT ![c].at = "queued", ![c].tracked = FALSE]
          /\ poll' = [at |-> "idle", claim |-> NoClaim] /\ slots' = GivenBack /\ poolThreads' = poolThreads
      BY <2>1, <2>6 DEF ThreadNotStarted
    <3>2. PICK row : row = [claim[c] EXCEPT !.at = "queued", !.tracked = FALSE]
      OBVIOUS
    <3>3. claim' = [claim EXCEPT ![c] = row]
      BY <3>1, <3>2
    <3>4. /\ row \in ClaimRows /\ row.at = "queued" /\ ~row.tracked /\ row.job = claim[c].job
          /\ row.renewal = claim[c].renewal /\ claim[c].job \in Jobs
      BY <1>1, <2>1, <2>3, <3>2 DEF ClaimRows, ClaimPlaces, HoldingPlaces, ClaimFormed
    <3>5. ClaimFormed(row, c, renewals')
      BY <2>3, <3>4 DEF ClaimFormed, RegisteredPlaces
    <3>6. Weight(row) = 0 /\ Again(row) = 0
      BY <3>4 DEF Weight, Again
    <3>7. poll' \in PollRows /\ PollFormed' /\ PollHolds' = 0
      BY <1>1, <3>1 DEF PollRows, PollFormed, PollHolds
    <3>8. /\ slots' = MaxConcurrency \/ slots' >= slots + 1
          /\ slots' <= slots + 1
      BY <1>1, <3>1
    <3>9. /\ \/ slots' = MaxConcurrency
             \/ slots' + PollHolds' + Weight(row) >= slots + PollHolds + Weight(claim[c])
          /\ slots' + PollHolds' + Weight(row) + Again(claim[c])
               <= slots + PollHolds + Weight(claim[c]) + Again(row)
      BY <1>1, <2>2, <2>4, <3>1, <3>6, <3>7, <3>8
    <3>10. QED BY <1>1, <2>2, <3>1, <3>3, <3>5, <3>7, <3>9, StepKeeps
  <2>7. QED BY <1>5, <2>5, <2>6 DEF Submit
<1>6. QED BY <1>2, <1>3, <1>4, <1>5 DEF PollStep

\* A step of a claim that the poll thread has handed over.
LEMMA ClaimStepped ==
    ASSUME RuntimeInv, NEW c \in Claims, NEW row, claim' = [claim EXCEPT ![c] = row],
           ClaimFormed(row, c, renewals'), renewals' \in [Jobs -> 0 .. MaxClaims],
           \A b \in Claims \ {c} : claim[b].at \in RegisteredPlaces =>
                                      renewals'[claim[b].job] = renewals[claim[b].job],
           claim[c].at # "given", slots' \in 0 .. MaxConcurrency,
           slots' = MaxConcurrency \/ slots' + Weight(row) >= slots + Weight(claim[c]),
           slots' + Weight(row) + Again(claim[c]) <= slots + Weight(claim[c]) + Again(row),
           futures' \subseteq futures, UNCHANGED <<poll, poolThreads, closingVars>>
    PROVE  RuntimeInv'
<1>1. /\ claim \in [Claims -> ClaimRows] /\ poll \in PollRows /\ slots \in Nat /\ PollFormed
      /\ poolThreads \in 0 .. MaxConcurrency /\ futures \subseteq Claims /\ MaxConcurrency \in Nat
  BY RuntimeFacts DEF RuntimeInv
<1>2. PollHolds' = PollHolds /\ PollHolds \in 0 .. 1
  BY DEF PollHolds
<1>3. /\ Weight(row) \in 0 .. 1 /\ Weight(claim[c]) \in 0 .. 1
      /\ Again(row) \in 0 .. 1 /\ Again(claim[c]) \in 0 .. 1
  BY DEF Weight, Again
<1>4. /\ \/ slots' = MaxConcurrency
         \/ slots' + PollHolds' + Weight(row) >= slots + PollHolds + Weight(claim[c])
      /\ slots' + PollHolds' + Weight(row) + Again(claim[c])
           <= slots + PollHolds + Weight(claim[c]) + Again(row)
  BY <1>1, <1>2, <1>3
<1>5. \A b \in Claims : claim[b].at = "given" => claim'[b] = claim[b]
  BY <1>1
<1>6. PollFormed'
  BY <1>1, <1>5 DEF PollFormed
<1>7. poolThreads' \in 0 .. MaxConcurrency /\ poll' \in PollRows /\ futures' \subseteq Claims
  BY <1>1
<1>8. QED BY <1>4, <1>6, <1>7, StepKeeps

LEMMA ClaimKeeps ==
    ASSUME RuntimeInv, NEW c \in Claims, ClaimStep(c)
    PROVE  RuntimeInv'
<1>1. /\ claim \in [Claims -> ClaimRows] /\ slots \in 0 .. MaxConcurrency
      /\ MaxConcurrency \in Nat /\ renewals \in [Jobs -> 0 .. MaxClaims]
      /\ \A b \in Claims : ClaimFormed(claim[b], b, renewals)
      /\ c \in 0 .. MaxClaims /\ NoClaim \in 0 .. MaxClaims /\ NoClaim \notin Claims
      /\ GivenBack \in 0 .. MaxConcurrency /\ GivenBack \in {slots, slots + 1}
      /\ GivenBack = MaxConcurrency \/ GivenBack = slots + 1
  BY RuntimeFacts, GivenBackIs
<1>2. ClaimFormed(claim[c], c, renewals) /\ claim[c] \in ClaimRows /\ claim[c].tracked \in BOOLEAN
  BY <1>1 DEF ClaimRows
\* The entries of the others, when one that is registered is taken off.
<1>3. ASSUME renewals[claim[c].job] = c,
             renewals' = [renewals EXCEPT ![claim[c].job] = NoClaim],
             NEW b \in Claims \ {c}, claim[b].at \in RegisteredPlaces
      PROVE  renewals'[claim[b].job] = renewals[claim[b].job]
  <2>1. renewals[claim[b].job] = b /\ claim[b].job \in Jobs
    BY <1>1, <1>3 DEF ClaimFormed, RegisteredPlaces
  <2>2. claim[b].job # claim[c].job
    BY <1>3, <2>1
  <2>3. QED BY <1>1, <1>3, <2>1, <2>2
<1>4. ASSUME NEW place \in ClaimPlaces \ ({"none", "given"} \union RegisteredPlaces),
             claim[c].renewal \notin {"waiting", "calling"},
             claim[c].at \notin {"none", "given"}, claim' = [claim EXCEPT ![c].at = place],
             \/ slots' = slots /\ (claim[c].at \in HoldingPlaces <=> place \in HoldingPlaces)
             \/ slots' = GivenBack /\ claim[c].at \in HoldingPlaces /\ place = "released",
             futures' \subseteq futures, renewals' \in [Jobs -> 0 .. MaxClaims],
             \A b \in Claims \ {c} : claim[b].at \in RegisteredPlaces =>
                                        renewals'[claim[b].job] = renewals[claim[b].job],
             UNCHANGED <<poll, poolThreads, closingVars>>
      PROVE  RuntimeInv'
  <2>1. PICK row : row = [claim[c] EXCEPT !.at = place]
    OBVIOUS
  <2>2. claim' = [claim EXCEPT ![c] = row]
    BY <1>4, <2>1
  <2>3. ClaimFormed(row, c, renewals') /\ row.at = place /\ row.tracked = claim[c].tracked
    BY <1>2, <1>4, <2>1, ClaimGoes
  <2>4. /\ slots' \in 0 .. MaxConcurrency
        /\ slots' = MaxConcurrency \/ slots' + Weight(row) >= slots + Weight(claim[c])
        /\ slots' + Weight(row) + Again(claim[c]) <= slots + Weight(claim[c]) + Again(row)
    <3>1. claim[c].at \in ClaimPlaces
      BY <1>2 DEF ClaimRows
    <3>2. CASE claim[c].tracked
      <4>1. Again(row) = 0 /\ Again(claim[c]) = 0
        BY <2>3, <3>2 DEF Again
      <4>2. Weight(row) = (IF place \in HoldingPlaces THEN 1 ELSE 0)
        BY <2>3, <3>2 DEF Weight
      <4>3. Weight(claim[c]) = (IF claim[c].at \in HoldingPlaces THEN 1 ELSE 0)
        BY <3>2 DEF Weight
      <4>4. "released" \notin HoldingPlaces
        BY DEF HoldingPlaces
      <4>5. QED BY <1>1, <1>4, <4>1, <4>2, <4>3, <4>4
    <3>3. CASE ~claim[c].tracked
      <4>1. Weight(row) = 0 /\ Weight(claim[c]) = 0
        BY <2>3, <3>3 DEF Weight
      <4>2. Again(row) = (IF place \in {"released", "ended"} THEN 1 ELSE 0)
        BY <2>3, <3>3 DEF Again
      <4>3. Again(claim[c]) = (IF claim[c].at \in {"released", "ended"} THEN 1 ELSE 0)
        BY <3>3 DEF Again
      <4>4. /\ claim[c].at \in {"released", "ended"} <=> claim[c].at \notin HoldingPlaces
            /\ place \in {"released", "ended"} <=> place \notin HoldingPlaces
        BY <1>4, <3>1 DEF ClaimPlaces, HoldingPlaces
      <4>5. QED BY <1>1, <1>4, <4>1, <4>2, <4>3, <4>4
    <3>4. QED BY <3>2, <3>3
  <2>5. QED BY <1>4, <2>2, <2>3, <2>4, ClaimStepped
\* A step that leaves the claim a permit, as it holds one or does not.
<1>5. ASSUME NEW row \in ClaimRows, claim' = [claim EXCEPT ![c] = row],
             ClaimFormed(row, c, renewals'), renewals' \in [Jobs -> 0 .. MaxClaims],
             \A b \in Claims \ {c} : claim[b].at \in RegisteredPlaces =>
                                        renewals'[claim[b].job] = renewals[claim[b].job],
             claim[c].at \in {"starting", "registered", "executing"},
             row.at \in {"registered", "executing", "stopping"}, row.tracked = claim[c].tracked,
             UNCHANGED <<slots, futures, poll, poolThreads, closingVars>>
      PROVE  RuntimeInv'
  <2>1. Weight(row) = Weight(claim[c]) /\ Again(row) = 0 /\ Again(claim[c]) = 0
    BY <1>5 DEF Weight, Again, HoldingPlaces
  <2>2. Weight(row) \in 0 .. 1
    BY DEF Weight
  <2>3. /\ slots' \in 0 .. MaxConcurrency /\ slots' + Weight(row) >= slots + Weight(claim[c])
        /\ slots' + Weight(row) + Again(claim[c]) <= slots + Weight(claim[c]) + Again(row)
    BY <1>1, <1>5, <2>1, <2>2
  <2>4. QED BY <1>5, <2>3, ClaimStepped
<1>6. CASE RunClaim(c)
  <2>1. claim[c].renewal \notin {"waiting", "calling"}
    BY <1>2, <1>6 DEF RunClaim, ClaimFormed
  <2>2. "starting" \in ClaimPlaces \ ({"none", "given"} \union RegisteredPlaces)
    BY DEF ClaimPlaces, HoldingPlaces, RegisteredPlaces
  <2>3. QED BY <1>1, <1>4, <1>6, <2>1, <2>2 DEF RunClaim, HoldingPlaces
<1>7. CASE ReleaseSlot(c)
  <2>1. claim[c].renewal \notin {"waiting", "calling"}
    BY <1>2, <1>7 DEF ReleaseSlot, ClaimFormed
  <2>2. "released" \in ClaimPlaces \ ({"none", "given"} \union RegisteredPlaces)
    BY DEF ClaimPlaces, HoldingPlaces, RegisteredPlaces
  <2>3. QED BY <1>1, <1>4, <1>7, <2>1, <2>2 DEF ReleaseSlot, HoldingPlaces
<1>8. CASE ForgetFuture(c)
  <2>1. claim[c].renewal \notin {"waiting", "calling"}
    BY <1>2, <1>8 DEF ForgetFuture, ClaimFormed
  <2>2. "ended" \in ClaimPlaces \ ({"none", "given"} \union RegisteredPlaces)
    BY DEF ClaimPlaces, HoldingPlaces, RegisteredPlaces
  <2>3. futures' \subseteq futures
    BY <1>8 DEF ForgetFuture
  <2>4. QED BY <1>1, <1>4, <1>8, <2>1, <2>2, <2>3 DEF ForgetFuture, HoldingPlaces
<1>9. "releasing" \in ClaimPlaces \ ({"none", "given"} \union RegisteredPlaces)
  BY DEF ClaimPlaces, HoldingPlaces, RegisteredPlaces
<1>10. CASE StartRenewal(c)
  <2>1. claim[c].at = "starting" /\ claim[c].renewal \notin {"waiting", "calling"}
        /\ claim[c].job \in Jobs
    BY <1>2, <1>10 DEF StartRenewal, ClaimFormed
  <2>2. CASE claim' = [claim EXCEPT ![c].at = "releasing"] /\ UNCHANGED renewals
    BY <1>1, <1>4, <1>9, <1>10, <2>1, <2>2 DEF StartRenewal, HoldingPlaces
  <2>3. CASE /\ MayRenew(c) /\ renewals' = [renewals EXCEPT ![claim[c].job] = c]
             /\ claim' = [claim EXCEPT ![c].at = "registered", ![c].renewal = "unstarted"]
    <3>1. PICK row : row = [claim[c] EXCEPT !.at = "registered", !.renewal = "unstarted"]
      OBVIOUS
    <3>2. claim' = [claim EXCEPT ![c] = row]
      BY <2>3, <3>1
    <3>3. /\ row \in ClaimRows /\ row.at = "registered" /\ row.job = claim[c].job
          /\ row.renewal = "unstarted" /\ row.tracked = claim[c].tracked
      BY <1>2, <3>1 DEF ClaimRows, ClaimPlaces, HoldingPlaces
    <3>4. renewals' \in [Jobs -> 0 .. MaxClaims] /\ renewals'[claim[c].job] = c
      BY <1>1, <2>1, <2>3
    <3>5. ClaimFormed(row, c, renewals')
      BY <2>1, <3>3, <3>4 DEF ClaimFormed, RegisteredPlaces
    <3>6. ASSUME NEW b \in Claims \ {c}, claim[b].at \in RegisteredPlaces
          PROVE  renewals'[claim[b].job] = renewals[claim[b].job]
      <4>1. renewals[claim[b].job] = b /\ claim[b].job \in Jobs
        BY <1>1, <3>6 DEF ClaimFormed, RegisteredPlaces
      <4>2. claim[b].job # claim[c].job
        BY <1>1, <2>3, <4>1 DEF MayRenew
      <4>3. QED BY <1>1, <2>3, <4>1, <4>2
    <3>7. UNCHANGED <<slots, futures, poll, poolThreads, closingVars>>
      BY <1>10 DEF StartRenewal
    <3>8. QED BY <1>5, <2>1, <3>2, <3>3, <3>4, <3>5, <3>6, <3>7
  <2>4. QED BY <1>10, <2>2, <2>3 DEF StartRenewal
<1>11. CASE StartThread(c)
  <2>1. /\ claim[c].at = "registered" /\ claim[c].renewal \notin {"waiting", "calling"}
        /\ claim[c].job \in Jobs /\ renewals[claim[c].job] = c
    BY <1>2, <1>11 DEF StartThread, ClaimFormed, RegisteredPlaces
  <2>2. CASE /\ claim' = [claim EXCEPT ![c].at = "executing", ![c].renewal = "waiting"]
             /\ UNCHANGED renewals
    <3>1. PICK row : row = [claim[c] EXCEPT !.at = "executing", !.renewal = "waiting"]
      OBVIOUS
    <3>2. claim' = [claim EXCEPT ![c] = row]
      BY <2>2, <3>1
    <3>3. /\ row \in ClaimRows /\ row.at = "executing" /\ row.job = claim[c].job
          /\ row.tracked = claim[c].tracked
      BY <1>2, <3>1 DEF ClaimRows, ClaimPlaces, HoldingPlaces
    <3>4. ClaimFormed(row, c, renewals')
      BY <2>1, <2>2, <3>3 DEF ClaimFormed
    <3>5. renewals' \in [Jobs -> 0 .. MaxClaims] /\ UNCHANGED <<slots, futures, poll, poolThreads, closingVars>>
      BY <1>1, <1>11, <2>2 DEF StartThread
    <3>6. QED BY <1>5, <2>1, <2>2, <3>2, <3>3, <3>4, <3>5
  <2>3. CASE /\ claim' = [claim EXCEPT ![c].at = "releasing"]
             /\ renewals' = [renewals EXCEPT ![claim[c].job] = NoClaim]
    <3>1. renewals' \in [Jobs -> 0 .. MaxClaims]
      BY <1>1, <2>3
    <3>2. \A b \in Claims \ {c} : claim[b].at \in RegisteredPlaces =>
                                     renewals'[claim[b].job] = renewals[claim[b].job]
      BY <1>3, <2>1, <2>3
    <3>3. "registered" \in HoldingPlaces /\ "releasing" \in HoldingPlaces
      BY DEF HoldingPlaces
    <3>4. QED BY <1>4, <1>9, <1>11, <2>1, <2>3, <3>1, <3>2, <3>3 DEF StartThread
  <2>4. QED BY <1>11, <2>2, <2>3 DEF StartThread
<1>12. CASE EndExecution(c)
  <2>1. PICK row : row = [claim[c] EXCEPT !.at = "stopping", !.stop = TRUE]
    OBVIOUS
  <2>2. claim' = [claim EXCEPT ![c] = row]
    BY <1>12, <2>1 DEF EndExecution
  <2>3. /\ row \in ClaimRows /\ row.at = "stopping" /\ row.job = claim[c].job
        /\ row.tracked = claim[c].tracked
    BY <1>2, <2>1 DEF ClaimRows, ClaimPlaces, HoldingPlaces
  <2>4. /\ claim[c].at = "executing" /\ UNCHANGED renewals
        /\ UNCHANGED <<slots, futures, poll, poolThreads, closingVars>>
    BY <1>12 DEF EndExecution
  <2>5. ClaimFormed(row, c, renewals')
    BY <1>2, <2>3, <2>4 DEF ClaimFormed, RegisteredPlaces
  <2>6. QED BY <1>1, <1>5, <2>2, <2>3, <2>4, <2>5
<1>13. CASE StopRenewal(c)
  <2>1. /\ claim[c].at = "stopping" /\ claim[c].renewal \notin {"waiting", "calling"}
        /\ claim[c].job \in Jobs /\ renewals[claim[c].job] = c
    BY <1>2, <1>13 DEF StopRenewal, ClaimFormed, RegisteredPlaces
  <2>2. renewals' = [renewals EXCEPT ![claim[c].job] = NoClaim]
    BY <1>1, <1>13, <2>1 DEF StopRenewal
  <2>3. renewals' \in [Jobs -> 0 .. MaxClaims]
    BY <1>1, <2>2
  <2>4. \A b \in Claims \ {c} : claim[b].at \in RegisteredPlaces =>
                                   renewals'[claim[b].job] = renewals[claim[b].job]
    BY <1>3, <2>1, <2>2
  <2>5. "stopping" \in HoldingPlaces /\ "releasing" \in HoldingPlaces
    BY DEF HoldingPlaces
  <2>6. QED BY <1>4, <1>9, <1>13, <2>1, <2>3, <2>4, <2>5 DEF StopRenewal
<1>14. QED BY <1>6, <1>7, <1>8, <1>10, <1>11, <1>12, <1>13 DEF ClaimStep

LEMMA RenewalKeeps ==
    ASSUME RuntimeInv, NEW c \in Claims, RenewalStep(c)
    PROVE  RuntimeInv'
<1>1. /\ claim \in [Claims -> ClaimRows] /\ slots \in 0 .. MaxConcurrency
      /\ renewals \in [Jobs -> 0 .. MaxClaims]
      /\ ClaimFormed(claim[c], c, renewals) /\ claim[c] \in ClaimRows
  BY RuntimeFacts DEF ClaimFormed
<1>2. PICK next \in {"waiting", "calling", "ended"} :
         claim' = [claim EXCEPT ![c].renewal = next]
  BY DEF RenewalStep, RenewalEnds, CallRenew, RenewAnswered, LoseClaim, StopNoticed
<1>3. /\ claim[c].renewal \in {"waiting", "calling"}
      /\ UNCHANGED <<slots, poll, futures, renewals, poolThreads, closingVars>>
  BY DEF RenewalStep, RenewalEnds, CallRenew, RenewAnswered, LoseClaim, StopNoticed
<1>4. PICK row : row = [claim[c] EXCEPT !.renewal = next]
  OBVIOUS
<1>5. claim' = [claim EXCEPT ![c] = row]
  BY <1>2, <1>4
<1>6. /\ row \in ClaimRows /\ row.at = claim[c].at /\ row.job = claim[c].job
      /\ row.tracked = claim[c].tracked
  BY <1>1, <1>4 DEF ClaimRows
<1>7. claim[c].at \in {"executing", "stopping"}
  BY <1>1, <1>3 DEF ClaimFormed
<1>8. ClaimFormed(row, c, renewals')
  BY <1>1, <1>3, <1>6, <1>7 DEF ClaimFormed
<1>9. Weight(row) = Weight(claim[c]) /\ Again(row) = Again(claim[c])
      /\ Weight(row) \in 0 .. 1 /\ Again(row) \in 0 .. 1
  BY <1>6 DEF Weight, Again
<1>10. /\ slots' \in 0 .. MaxConcurrency /\ slots' + Weight(row) >= slots + Weight(claim[c])
       /\ slots' + Weight(row) + Again(claim[c]) <= slots + Weight(claim[c]) + Again(row)
  BY <1>1, <1>3, <1>9, RuntimeFacts
<1>11. QED BY <1>1, <1>3, <1>5, <1>7, <1>8, <1>10, ClaimStepped

\* What the steps of a shutdown have in common: they take no permit and give none.
LEMMA ClosingKeeps ==
    ASSUME RuntimeInv, UNCHANGED heldVars, claim' \in [Claims -> ClaimRows],
           \A b \in Claims :
              /\ ClaimFormed(claim'[b], b, renewals)
              /\ claim'[b].tracked = claim[b].tracked
              /\ claim'[b].at = claim[b].at \/ (claim[b].at = "queued" /\ claim'[b].at = "cancelled"),
           futures' \subseteq Claims, pending' \subseteq Claims, joins' \subseteq Claims,
           accepting' \in BOOLEAN, pool' \in BOOLEAN,
           shutdown' \in {"up", "stopping", "closing", "joining", "draining", "drained",
                          "cancelling", "closed", "raised"}
    PROVE  RuntimeInv'
<1>1. UNCHANGED <<slots, poll, renewals, poolThreads>> /\ PollFormed
  BY DEF heldVars, RuntimeInv
<1>2. \A b \in Claims : ClaimFormed(claim[b], b, renewals)'
  BY <1>1
<1>3. PollFormed'
  BY <1>1 DEF PollFormed
<1>4. Holders' = Holders /\ GivenTwice' = GivenTwice
  <2>1. /\ Holders' = {b \in Claims : claim'[b].at \in HoldingPlaces /\ claim'[b].tracked}
        /\ Holders = {b \in Claims : claim[b].at \in HoldingPlaces /\ claim[b].tracked}
    BY DEF Holders, ClaimsAt, HoldingPlaces
  <2>2. "queued" \in HoldingPlaces /\ "cancelled" \in HoldingPlaces
    BY DEF HoldingPlaces
  <2>3. QED BY <2>1, <2>2 DEF GivenTwice, ClaimsAt
<1>5. SlotsBalance'
  BY <1>1, <1>4 DEF SlotsBalance, Permits, PollHolds, RuntimeInv
<1>6. RuntimeTypeOK'
  BY <1>1, RuntimeFacts, RuntimeTyped
<1>7. QED BY <1>2, <1>3, <1>5, <1>6 DEF RuntimeInv

LEMMA ShutdownKeeps ==
    ASSUME RuntimeInv, ShutdownStep \/ Stop \/ UNCHANGED runtimeVars
    PROVE  RuntimeInv'
<1>1. /\ claim \in [Claims -> ClaimRows] /\ \A b \in Claims : ClaimFormed(claim[b], b, renewals)
      /\ futures \subseteq Claims /\ pending \subseteq Claims /\ joins \subseteq Claims
      /\ accepting \in BOOLEAN /\ pool \in BOOLEAN
      /\ shutdown \in {"up", "stopping", "closing", "joining", "draining", "drained",
                       "cancelling", "closed", "raised"}
  BY RuntimeFacts DEF RuntimeInv, RuntimeTypeOK
<1>2. CASE \/ StopAccepting \/ ClosePool \/ LookAtFutures \/ Drained \/ JoinRenewal
           \/ JoinUnstarted \/ RecordStopped \/ Stop \/ UNCHANGED runtimeVars
  <2>1. /\ UNCHANGED <<claim, futures, heldVars>> /\ pending' \subseteq Claims
        /\ joins' \subseteq Claims /\ accepting' \in BOOLEAN /\ pool' \in BOOLEAN
        /\ shutdown' \in {"up", "stopping", "closing", "joining", "draining", "drained",
                          "cancelling", "closed", "raised"}
    BY <1>1, <1>2 DEF StopAccepting, ClosePool, LookAtFutures, Drained, JoinRenewal,
       JoinUnstarted, RecordStopped, Stop, runtimeVars, heldVars
  <2>2. QED BY <1>1, <2>1, ClosingKeeps
<1>3. CASE GraceOver
  <2>1. /\ UNCHANGED <<accepting, pool, pending, joins, heldVars>> /\ shutdown' = "drained"
        /\ futures' \subseteq Claims
    BY <1>1, <1>3 DEF GraceOver
  <2>2. ASSUME NEW b \in Claims
        PROVE  /\ ClaimFormed(claim'[b], b, renewals) /\ claim'[b].tracked = claim[b].tracked
               /\ \/ claim'[b].at = claim[b].at
                  \/ claim[b].at = "queued" /\ claim'[b].at = "cancelled"
    <3>1. \/ claim'[b] = claim[b]
          \/ claim[b].at = "queued" /\ claim'[b] = [claim[b] EXCEPT !.at = "cancelled"]
      BY <1>3 DEF GraceOver
    <3>2. ASSUME claim[b].at = "queued", claim'[b] = [claim[b] EXCEPT !.at = "cancelled"]
          PROVE  /\ ClaimFormed(claim'[b], b, renewals) /\ claim'[b].tracked = claim[b].tracked
                 /\ claim'[b].at = "cancelled"
      <4>1. PICK row : row = [claim[b] EXCEPT !.at = "cancelled"]
        OBVIOUS
      <4>2. /\ ClaimFormed(claim[b], b, renewals) /\ claim[b].at # "none"
            /\ claim[b].renewal \notin {"waiting", "calling"}
        BY <1>1, <3>2 DEF ClaimFormed
      <4>3. "cancelled" \in ClaimPlaces \ ({"none", "given"} \union RegisteredPlaces)
        BY DEF ClaimPlaces, HoldingPlaces, RegisteredPlaces
      <4>4. ClaimFormed(row, b, renewals) /\ row.at = "cancelled" /\ row.tracked = claim[b].tracked
        BY <4>1, <4>2, <4>3, ClaimGoes
      <4>5. QED BY <3>2, <4>1, <4>4
    <3>3. QED BY <1>1, <3>1, <3>2
  <2>3. claim' \in [Claims -> ClaimRows]
    <3>1. \A b \in Claims : claim'[b] \in ClaimRows
      BY <2>2 DEF ClaimFormed
    <3>2. claim' = [b \in Claims |-> claim'[b]]
      BY <1>3 DEF GraceOver
    <3>3. QED BY <3>1, <3>2
  <2>4. QED BY <1>1, <2>1, <2>2, <2>3, ClosingKeeps
<1>4. CASE CancelRenewals
  <2>1. /\ UNCHANGED <<futures, accepting, pool, pending, heldVars>> /\ shutdown' = "cancelling"
        /\ joins' \subseteq Claims
    BY <1>4 DEF CancelRenewals
  <2>2. ASSUME NEW b \in Claims
        PROVE  /\ ClaimFormed(claim'[b], b, renewals) /\ claim'[b].tracked = claim[b].tracked
               /\ claim'[b].at = claim[b].at
    <3>1. PICK told : told = (claim[b].stop \/ b \in joins')
      OBVIOUS
    <3>2. claim'[b] = [claim[b] EXCEPT !.stop = told]
      BY <1>4, <3>1 DEF CancelRenewals
    <3>3. ClaimFormed(claim[b], b, renewals) /\ claim[b] \in ClaimRows
      BY <1>1
    <3>4. told \in BOOLEAN
      BY <3>1, <3>3, Zenon DEF ClaimRows
    <3>5. PICK row : row = [claim[b] EXCEPT !.stop = told]
      OBVIOUS
    <3>6. /\ row \in ClaimRows /\ row.at = claim[b].at /\ row.job = claim[b].job
          /\ row.tracked = claim[b].tracked /\ row.renewal = claim[b].renewal
      BY <3>3, <3>4, <3>5 DEF ClaimRows
    <3>7. ClaimFormed(row, b, renewals)
      BY <3>3, <3>6 DEF ClaimFormed
    <3>8. QED BY <3>2, <3>5, <3>6, <3>7
  <2>3. claim' \in [Claims -> ClaimRows]
    <3>1. \A b \in Claims : claim'[b] \in ClaimRows
      BY <2>2 DEF ClaimFormed
    <3>2. claim' = [b \in Claims |-> claim'[b]]
      BY <1>4 DEF CancelRenewals
    <3>3. QED BY <3>1, <3>2
  <2>4. QED BY <1>1, <2>1, <2>2, <2>3, ClosingKeeps
<1>5. QED BY <1>2, <1>3, <1>4 DEF ShutdownStep

LEMMA RuntimeInvariant == RuntimeSpec => []RuntimeInv
<1>1. RuntimeInit => RuntimeInv
  <2> SUFFICES ASSUME RuntimeInit PROVE RuntimeInv
    OBVIOUS
  <2> USE RuntimeAssumption DEF RuntimeInit
  <2>1. RuntimeTypeOK
    BY DEF RuntimeTypeOK, NoClaim
  <2>2. SlotsBalance
    <3>1. Holders = {} /\ GivenTwice = {}
      BY DEF Holders, GivenTwice, ClaimsAt
    <3>2. Cardinality(Holders) = 0 /\ Cardinality(GivenTwice) = 0
      BY <3>1, FS_EmptySet
    <3>3. PollHolds = 0
      BY DEF PollHolds
    <3>4. QED BY <3>2, <3>3 DEF SlotsBalance, Permits
  <2>3. PollFormed
    BY DEF PollFormed
  <2>4. ASSUME NEW c \in Claims PROVE ClaimFormed(claim[c], c, renewals)
    BY DEF ClaimFormed, ClaimRows, ClaimPlaces, RegisteredPlaces
  <2>5. QED BY <2>1, <2>2, <2>3, <2>4 DEF RuntimeInv
<1>2. RuntimeInv /\ [RuntimeNext]_runtimeVars => RuntimeInv'
  BY PollKeeps, ClaimKeeps, RenewalKeeps, ShutdownKeeps DEF RuntimeNext
<1>3. QED BY <1>1, <1>2, PTL DEF RuntimeSpec

\* Whatever a poll, a claim, a renewal or the shutdown does, however they interleave and
\* whichever thread cannot be started, the worker never loses a permit, has one too many
\* only for a claim that was queued when its thread could not be started, executes no job
\* twice at a time in one process, and no renewal outlives its claim.
\* worker/core.py:270-388, worker/renewal.py:33-117.
THEOREM WorkerAlwaysSound == RuntimeSpec => []WorkerSound
<1>1. RuntimeInv => WorkerSound
  <2> SUFFICES ASSUME RuntimeInv PROVE OneExecutionPerJob
    BY DEF RuntimeInv, WorkerSound
  <2>1. ASSUME NEW c \in ClaimsAt({"executing", "stopping"})
        PROVE  c \in Claims /\ renewals[claim[c].job] = c
    BY <2>1 DEF ClaimsAt, RuntimeInv, ClaimFormed, RegisteredPlaces
  <2>2. ASSUME NEW b \in ClaimsAt({"executing", "stopping"}),
               NEW c \in ClaimsAt({"executing", "stopping"}), claim[b].job = claim[c].job
        PROVE  b = c
    BY <2>1, <2>2
  <2>3. ASSUME NEW c \in Claims, RenewalAlive(c)
        PROVE  claim[c].at \in {"executing", "stopping"}
    BY <2>3 DEF RuntimeInv, ClaimFormed, RenewalAlive
  <2>4. QED BY <2>2, <2>3 DEF OneExecutionPerJob
<1>2. QED BY <1>1, RuntimeInvariant, PTL

----------------------------------------------------------------------------
(* Migrations                                                               *)

Inside == {"history", "rehistory", "loop", "commit"}
Reopening == {"reopen", "relock", "rehistory"}
RunPlaces == {"open", "lock", "reported", "failed", "unknown"} \union Inside \union Reopening
RunRows == [at : RunPlaces, known : Seq(Digests), first : Nat, index : Nat \ {0},
            applied : Seq(Nat), already : Seq(Nat), recovered : SUBSET Nat, excused : BOOLEAN]

MigrationTypes == /\ schema \in Seq(Digests)
                  /\ runner \in [Runners -> RunRows]
                  /\ orphan \in [Runners -> Seq(Digests)]

\* A prefix, element by element.
Follows(s, t) == Len(s) <= Len(t) /\ \A i \in 1 .. Len(s) : s[i] = t[i]

\* Each file before the next one is listed once: as there before, then as applied.
Listed(row) ==
    /\ \A i \in 1 .. Len(row.already) : row.already[i] = i
    /\ \A i \in 1 .. Len(row.applied) : row.applied[i] = Len(row.already) + i
    /\ Len(row.already) + Len(row.applied) = row.index - 1
    /\ Len(row.already) <= row.first
    /\ Len(row.applied) > 0 => Len(row.already) = row.first

\* What a run knows of the history at its place.
Positioned(row, files, history) ==
    /\ row.at \in {"open", "lock", "history"} => row.index = 1
    /\ row.at \in {"loop", "commit"} =>
          /\ row.known = history /\ Follows(history, files)
          /\ row.first <= Len(history) /\ row.index <= Len(history) + 1
          /\ row.index <= Len(files) + 1
    /\ row.at = "commit" => row.index = Len(history) + 1
    /\ row.at \in {"commit"} \union Reopening =>
          /\ row.index <= Len(files) /\ row.index > row.first
          /\ row.index <= Len(history) + 1
    /\ row.at = "reported" => row.index = Len(files) + 1 /\ Follows(files, history)
    /\ row.at \in {"failed", "unknown"} => row.excused

\* A broken commit is one of the next file.
OrphanFits(r) ==
    /\ Len(schema) < Len(Package[r]) /\ Follows(schema, Package[r])
    /\ orphan[r] = <<Package[r][Len(schema) + 1]>>

RunnerSound(r) ==
    /\ runner[r].at \in Inside => advisory = Session(r)
    /\ orphan[r] # Nothing => advisory = BrokenSession(r) /\ OrphanFits(r)
    /\ Listed(runner[r]) /\ Positioned(runner[r], Package[r], schema)

MigrationInv == /\ MigrationTypes
                /\ \E r \in Runners : Follows(schema, Package[r])
                /\ \A r \in Runners : RunnerSound(r)

LEMMA PrefixFollows ==
    ASSUME NEW s \in Seq(Digests), NEW t \in Seq(Digests)
    PROVE  IsPrefix(s, t) <=> Follows(s, t)
<1>1. Len(s) \in Nat /\ Len(t) \in Nat
  BY LenProperties
<1>2. CASE ~ (Len(s) <= Len(t))
  BY <1>2 DEF IsPrefix, Follows
<1>3. CASE Len(s) <= Len(t)
  <2> DEFINE p == SubSeq(t, 1, Len(s))
  <2>1. SubSeq(s, 1, Len(s)) = s
    BY SubSeqFull
  <2>2. \A i \in 1 .. Len(s) : t[i] \in Digests
    BY <1>1, <1>3, ElementOfSeq
  <2>3. p \in Seq(Digests) /\ Len(p) = Len(s) /\ \A i \in 1 .. Len(s) : p[i] = t[i]
    <3>1. /\ p \in Seq(Digests)
          /\ Len(p) = IF 1 <= Len(s) THEN Len(s) - 1 + 1 ELSE 0
          /\ \A i \in 1 .. Len(s) - 1 + 1 : p[i] = t[1 + i - 1]
      BY <1>1, <2>2, SubSeqProperties
    <3>2. Len(p) = Len(s)
      BY <1>1, <3>1
    <3>3. ASSUME NEW i \in 1 .. Len(s) PROVE p[i] = t[i]
      <4>1. i \in 1 .. Len(s) - 1 + 1 /\ 1 + i - 1 = i
        BY <1>1
      <4>2. QED BY <3>1, <4>1
    <3>4. QED BY <3>1, <3>2, <3>3
  <2> HIDE DEF p
  <2>4. ASSUME Follows(s, t) PROVE s = p
    BY <2>3, <2>4, SeqEqual DEF Follows
  <2>5. ASSUME s = p PROVE Follows(s, t)
    BY <1>3, <2>3, <2>5 DEF Follows
  <2>6. IsPrefix(s, t) <=> s = p
    BY <1>3, <2>1 DEF IsPrefix, p
  <2>7. QED BY <2>4, <2>5, <2>6
<1>4. QED BY <1>2, <1>3

\* The history with the next file of a package.
LEMMA NextFileFollows ==
    ASSUME NEW s \in Seq(Digests), NEW t \in Seq(Digests), Follows(s, t), Len(s) < Len(t)
    PROVE  LET longer == Append(s, t[Len(s) + 1])
           IN  /\ longer \in Seq(Digests) /\ longer = s \o <<t[Len(s) + 1]>>
               /\ Len(longer) = Len(s) + 1 /\ Follows(longer, t)
               /\ \A i \in 1 .. Len(s) : longer[i] = s[i]
<1> DEFINE x == t[Len(s) + 1]
           longer == Append(s, x)
<1>1. Len(s) \in Nat /\ Len(t) \in Nat /\ Len(s) + 1 \in 1 .. Len(t)
  BY LenProperties
<1>2. x \in Digests
  BY <1>1, ElementOfSeq
<1> HIDE DEF x
<1>3. /\ longer \in Seq(Digests) /\ Len(longer) = Len(s) + 1
      /\ \A i \in 1 .. Len(s) : longer[i] = s[i]
      /\ longer[Len(s) + 1] = x
  BY <1>1, <1>2
<1>4. longer = s \o <<x>>
  BY <1>2
<1>5. ASSUME NEW i \in 1 .. Len(longer) PROVE longer[i] = t[i]
  <2>1. CASE i \in 1 .. Len(s)
    BY <1>3, <2>1 DEF Follows
  <2>2. CASE i = Len(s) + 1
    BY <1>3, <2>2 DEF x
  <2>3. QED BY <1>1, <1>3, <2>1, <2>2
<1>6. Follows(longer, t)
  BY <1>1, <1>3, <1>5 DEF Follows
<1>7. QED BY <1>3, <1>4, <1>6 DEF x

\* The history only grows.
Grows(s, t) == /\ t \in Seq(Digests) /\ Len(s) <= Len(t)
               /\ \A i \in 1 .. Len(s) : t[i] = s[i]

\* Who steps holds the lock, or nobody does.
Quiet(r) == \/ advisory' = advisory /\ schema' = schema
            \/ advisory \in {NoHolder, Session(r), BrokenSession(r)}

LEMMA HoldersDiffer ==
    ASSUME NEW r, NEW u, r # u
    PROVE  Session(u) \notin {NoHolder, Session(r), BrokenSession(r)}
           /\ BrokenSession(u) \notin {NoHolder, Session(r), BrokenSession(r)}
  BY DEF Session, BrokenSession, NoHolder

LEMMA OthersSound ==
    ASSUME MigrationInv, NEW r \in Runners, NEW u \in Runners, u # r, Quiet(r),
           Grows(schema, schema'), runner'[u] = runner[u], orphan'[u] = orphan[u]
    PROVE  RunnerSound(u)'
<1> DEFINE row == runner[u]
<1>1. /\ RunnerSound(u) /\ row \in RunRows /\ Package[u] \in Seq(Digests)
      /\ schema \in Seq(Digests) /\ schema' \in Seq(Digests)
  BY MigrationAssumption DEF MigrationInv, MigrationTypes, Grows
<1>2. CASE advisory' = advisory /\ schema' = schema
  BY <1>1, <1>2 DEF RunnerSound, OrphanFits
<1>3. CASE advisory \in {NoHolder, Session(r), BrokenSession(r)}
  <2>1. row.at \notin Inside /\ orphan[u] = Nothing
    BY <1>1, <1>3, HoldersDiffer DEF RunnerSound
  <2>2. Len(schema) \in Nat /\ Len(schema') \in Nat /\ Len(Package[u]) \in Nat
        /\ Len(schema) <= Len(schema') /\ row.index \in Nat
    BY <1>1, LenProperties DEF Grows, RunRows
  <2>3. Positioned(row, Package[u], schema)
    BY <1>1 DEF RunnerSound
  <2>4. ASSUME Follows(Package[u], schema) PROVE Follows(Package[u], schema')
    BY <1>1, <2>2, <2>4 DEF Follows, Grows
  <2>5. Positioned(row, Package[u], schema')
    BY <2>1, <2>2, <2>3, <2>4 DEF Positioned, Inside
  <2>6. QED BY <1>1, <2>1, <2>5 DEF RunnerSound
<1>4. QED BY <1>2, <1>3 DEF Quiet

\* A step of one run: it leaves the rows of the others alone.
LEMMA StepSound ==
    ASSUME MigrationInv, NEW r \in Runners, Quiet(r), Grows(schema, schema'),
           NEW row \in RunRows, runner' = [runner EXCEPT ![r] = row],
           NEW commit \in Seq(Digests), orphan' = [orphan EXCEPT ![r] = commit],
           \E u \in Runners : Follows(schema', Package[u]),
           row.at \in Inside => advisory' = Session(r),
           commit # Nothing => advisory' = BrokenSession(r) /\ schema' = schema /\
               Len(schema) < Len(Package[r]) /\ Follows(schema, Package[r])
               /\ commit = <<Package[r][Len(schema) + 1]>>,
           Listed(row), Positioned(row, Package[r], schema')
    PROVE  MigrationInv'
<1>1. runner'[r] = row /\ orphan'[r] = commit
  BY DEF MigrationInv, MigrationTypes
<1>2. MigrationTypes'
  BY DEF MigrationInv, MigrationTypes, Grows
<1>3. RunnerSound(r)'
  BY <1>1 DEF RunnerSound, OrphanFits
<1>4. ASSUME NEW u \in Runners, u # r PROVE RunnerSound(u)'
  <2>1. runner'[u] = runner[u] /\ orphan'[u] = orphan[u]
    BY <1>4 DEF MigrationInv, MigrationTypes
  <2>2. QED BY <1>4, <2>1, OthersSound
<1>5. QED BY <1>2, <1>3, <1>4 DEF MigrationInv

\* What is known of the run that steps.
LEMMA RunFacts ==
    ASSUME MigrationInv, NEW r \in Runners
    PROVE  /\ runner[r] \in RunRows /\ runner \in [Runners -> RunRows]
           /\ orphan[r] \in Seq(Digests) /\ orphan \in [Runners -> Seq(Digests)]
           /\ Package[r] \in Seq(Digests) /\ Len(Package[r]) \in Nat
           /\ schema \in Seq(Digests) /\ Len(schema) \in Nat /\ Grows(schema, schema)
           /\ Listed(runner[r]) /\ Positioned(runner[r], Package[r], schema) /\ RunnerSound(r)
           /\ \E u \in Runners : Follows(schema, Package[u])
<1>1. /\ runner \in [Runners -> RunRows] /\ schema \in Seq(Digests) /\ orphan \in [Runners -> Seq(Digests)]
      /\ Package[r] \in Seq(Digests) /\ RunnerSound(r) /\ \E u \in Runners : Follows(schema, Package[u])
  BY MigrationAssumption DEF MigrationInv, MigrationTypes
<1>2. Len(Package[r]) \in Nat /\ Len(schema) \in Nat
  BY <1>1, LenProperties
<1>3. Grows(schema, schema)
  BY <1>1, <1>2 DEF Grows
<1>4. QED BY <1>1, <1>2, <1>3 DEF RunnerSound

\* A step that touches neither the history nor a broken commit.
LEMMA MoveSound ==
    ASSUME MigrationInv, NEW r \in Runners, Quiet(r), UNCHANGED <<schema, orphan>>,
           NEW row \in RunRows, runner' = [runner EXCEPT ![r] = row],
           orphan[r] # Nothing => advisory' = advisory,
           row.at \in Inside => advisory' = Session(r),
           Listed(row), Positioned(row, Package[r], schema)
    PROVE  MigrationInv'
<1>1. orphan' = [orphan EXCEPT ![r] = orphan[r]] /\ orphan[r] \in Seq(Digests)
  BY RunFacts
<1>2. orphan[r] # Nothing =>
         /\ advisory' = BrokenSession(r) /\ schema' = schema
         /\ Len(schema) < Len(Package[r]) /\ Follows(schema, Package[r])
         /\ orphan[r] = <<Package[r][Len(schema) + 1]>>
  BY RunFacts DEF RunnerSound, OrphanFits
<1>3. QED BY <1>1, <1>2, RunFacts, StepSound

\* The end of a run.
LEMMA EndSound ==
    ASSUME MigrationInv, NEW r \in Runners, NEW outcome \in {"reported", "failed", "unknown"},
           NEW excused \in BOOLEAN, EndRun(r, outcome, excused), UNCHANGED <<schema, orphan>>,
           outcome = "reported" => /\ runner[r].index = Len(Package[r]) + 1
                                   /\ Follows(Package[r], schema),
           outcome # "reported" => excused = TRUE
    PROVE  MigrationInv'
<1> DEFINE old == runner[r]
           said == old.excused \/ excused
           row == [old EXCEPT !.at = outcome, !.excused = said]
<1>1. old \in RunRows /\ Listed(old)
  BY RunFacts
<1>2. said \in BOOLEAN /\ (excused = TRUE => said = TRUE)
  BY <1>1, Zenon DEF RunRows
<1>3. runner' = [runner EXCEPT ![r] = row]
  BY DEF EndRun
<1> HIDE DEF said
<1>4. /\ row \in RunRows /\ row.at = outcome /\ row.excused = said /\ row.index = old.index
      /\ row.applied = old.applied /\ row.already = old.already /\ row.first = old.first
  BY <1>1, <1>2 DEF RunRows, RunPlaces
<1> HIDE DEF row
<1>5. Listed(row)
  BY <1>1, <1>4 DEF Listed
<1>6. Positioned(row, Package[r], schema)
  BY <1>2, <1>4 DEF Positioned, Inside, Reopening
<1>7. Quiet(r) /\ (orphan[r] # Nothing => advisory' = advisory)
  <2>1. orphan[r] # Nothing => advisory = BrokenSession(r)
    BY RunFacts DEF RunnerSound
  <2>2. BrokenSession(r) # Session(r)
    BY DEF BrokenSession, Session
  <2>3. QED BY <2>1, <2>2 DEF EndRun, Release, Quiet
<1>8. row.at \notin Inside
  BY <1>4 DEF Inside
<1>9. QED BY <1>3, <1>4, <1>5, <1>6, <1>7, <1>8, MoveSound

\* A step from one place to another that changes nothing else.
LEMMA PlaceSound ==
    ASSUME MigrationInv, NEW r \in Runners, NEW place \in RunPlaces,
           runner' = [runner EXCEPT ![r].at = place], UNCHANGED <<schema, orphan>>, Quiet(r),
           orphan[r] # Nothing => advisory' = advisory,
           place \in Inside => advisory' = Session(r),
           LET row == [runner[r] EXCEPT !.at = place] IN Positioned(row, Package[r], schema)
    PROVE  MigrationInv'
<1> DEFINE row == [runner[r] EXCEPT !.at = place]
<1>1. runner[r] \in RunRows /\ Listed(runner[r])
  BY RunFacts
<1>2. /\ row \in RunRows /\ row.at = place /\ row.index = runner[r].index
      /\ row.applied = runner[r].applied /\ row.already = runner[r].already
      /\ row.first = runner[r].first
  BY <1>1 DEF RunRows
<1>3. Listed(row)
  BY <1>1, <1>2 DEF Listed
<1>4. runner' = [runner EXCEPT ![r] = row] /\ Positioned(row, Package[r], schema)
  OBVIOUS
<1> HIDE DEF row
<1>5. QED BY <1>2, <1>3, <1>4, MoveSound

LEMMA OpenSound ==
    ASSUME MigrationInv, NEW r \in Runners, Open(r) \/ Reopen(r) \/ AcquireLock(r)
    PROVE  MigrationInv'
<1>1. runner[r] \in RunRows /\ Positioned(runner[r], Package[r], schema)
  BY RunFacts
<1>2. CASE Open(r)
  <2> DEFINE row == [runner[r] EXCEPT !.at = "lock"]
  <2>1. row.at = "lock" /\ row.index = runner[r].index
    BY <1>1 DEF RunRows
  <2>2. Positioned(row, Package[r], schema)
    BY <1>1, <1>2, <2>1 DEF Positioned, Open, Reopening
  <2>3. "lock" \in RunPlaces /\ "lock" \notin Inside /\ Quiet(r)
    BY <1>2 DEF RunPlaces, Inside, Open, Quiet
  <2>4. QED BY <1>2, <2>2, <2>3, PlaceSound DEF Open
<1>3. CASE Reopen(r)
  <2> DEFINE row == [runner[r] EXCEPT !.at = "relock"]
  <2>1. row.at = "relock" /\ row.index = runner[r].index /\ row.first = runner[r].first
    BY <1>1 DEF RunRows
  <2>2. Positioned(row, Package[r], schema)
    BY <1>1, <1>3, <2>1 DEF Positioned, Reopen, Reopening
  <2>3. "relock" \in RunPlaces /\ "relock" \notin Inside /\ Quiet(r)
    BY <1>3 DEF RunPlaces, Inside, Reopening, Reopen, Quiet
  <2>4. QED BY <1>3, <2>2, <2>3, PlaceSound DEF Reopen
<1>4. CASE AcquireLock(r)
  <2> DEFINE place == IF runner[r].at = "lock" THEN "history" ELSE "rehistory"
             row == [runner[r] EXCEPT !.at = place]
  <2>1. row.at = place /\ row.index = runner[r].index /\ row.first = runner[r].first
    BY <1>1 DEF RunRows
  <2>2. Positioned(row, Package[r], schema)
    BY <1>1, <1>4, <2>1 DEF Positioned, AcquireLock, Reopening
  <2>3. place \in RunPlaces /\ Quiet(r) /\ advisory' = Session(r)
    BY <1>4 DEF RunPlaces, Inside, Reopening, AcquireLock, LockFree, Quiet
  <2>4. orphan[r] # Nothing => FALSE
    <3>1. advisory = NoHolder /\ BrokenSession(r) # NoHolder
      BY <1>4 DEF AcquireLock, LockFree, BrokenSession, NoHolder
    <3>2. QED BY <3>1, RunFacts DEF RunnerSound
  <2>5. runner' = [runner EXCEPT ![r].at = place] /\ UNCHANGED <<schema, orphan>>
    BY <1>4 DEF AcquireLock
  <2> HIDE DEF place
  <2>6. QED BY <2>2, <2>3, <2>4, <2>5, PlaceSound
<1>5. QED BY <1>2, <1>3, <1>4

\* A fault of a run, a history that does not fit or an outcome that stays unknown.
LEMMA FailureSound ==
    ASSUME MigrationInv, NEW r \in Runners, NEW outcome \in {"failed", "unknown"},
           EndRun(r, outcome, TRUE), UNCHANGED <<schema, orphan>>
    PROVE  MigrationInv'
  BY EndSound

LEMMA ReadHistorySound ==
    ASSUME MigrationInv, NEW r \in Runners, ReadHistory(r) PROVE MigrationInv'
<1> DEFINE old == runner[r]
           row == [old EXCEPT !.at = "loop", !.known = schema, !.first = Len(schema)]
<1>1. /\ old \in RunRows /\ Listed(old) /\ Positioned(old, Package[r], schema)
      /\ old.at = "history" /\ advisory = Session(r) /\ UNCHANGED <<schema, orphan>>
      /\ schema \in Seq(Digests) /\ Package[r] \in Seq(Digests)
      /\ Len(schema) \in Nat /\ Len(Package[r]) \in Nat
  BY RunFacts DEF ReadHistory, RunnerSound, Inside
<1>2. CASE ~ValidHistory(r)
  BY <1>1, <1>2, FailureSound DEF ReadHistory
<1>3. CASE ValidHistory(r)
  <2>1. runner' = [runner EXCEPT ![r] = row] /\ advisory' = advisory
    BY <1>3 DEF ReadHistory
  <2>2. /\ row \in RunRows /\ row.at = "loop" /\ row.known = schema /\ row.first = Len(schema)
        /\ row.index = old.index /\ row.applied = old.applied /\ row.already = old.already
    BY <1>1 DEF RunRows, RunPlaces, Inside
  <2> HIDE DEF row
  <2>3. old.index = 1
    BY <1>1 DEF Positioned
  <2>4. Len(old.already) = 0 /\ Len(old.applied) = 0
    <3>1. Len(old.already) \in Nat /\ Len(old.applied) \in Nat
      BY <1>1, LenProperties DEF RunRows
    <3>2. Len(old.already) + Len(old.applied) = 1 - 1
      BY <1>1, <2>3, Zenon DEF Listed
    <3> DEFINE m == Len(old.already)
               n == Len(old.applied)
    <3>3. m \in Nat /\ n \in Nat /\ m + n = 1 - 1
      BY <3>1, <3>2
    <3> HIDE DEF m, n
    <3>4. m = 0 /\ n = 0
      BY <3>3
    <3>5. QED BY <3>4 DEF m, n
  <2>5. Listed(row)
    BY <1>1, <2>2, <2>4 DEF Listed
  <2>6. Follows(schema, Package[r]) /\ Len(schema) <= Len(Package[r])
    BY <1>1, <1>3, PrefixFollows DEF ValidHistory, Follows
  <2>7. Positioned(row, Package[r], schema)
    BY <1>1, <2>2, <2>3, <2>6 DEF Positioned, Reopening
  <2>8. row.at \in Inside => advisory' = Session(r)
    BY <1>1, <2>1
  <2>9. Quiet(r)
    BY <1>1, <2>1 DEF Quiet
  <2>10. QED BY <1>1, <2>1, <2>2, <2>5, <2>7, <2>8, <2>9, MoveSound
<1>4. QED BY <1>2, <1>3

\* One file more is listed as applied.
LEMMA AppliedListed ==
    ASSUME NEW old \in RunRows, NEW row \in RunRows, Listed(old), old.index > old.first,
           row.index = old.index + 1, row.applied = Append(old.applied, old.index),
           row.already = old.already, row.first = old.first
    PROVE  Listed(row)
<1> DEFINE m == Len(old.already)
           n == Len(old.applied)
           k == old.index
<1>1. /\ old.applied \in Seq(Nat) /\ k \in Nat \ {0} /\ old.first \in Nat
      /\ n \in Nat /\ m \in Nat
  BY LenProperties DEF RunRows
<1>2. /\ Len(Append(old.applied, k)) = n + 1
      /\ \A i \in 1 .. n : Append(old.applied, k)[i] = old.applied[i]
      /\ Append(old.applied, k)[n + 1] = k
  BY <1>1, AppendProperties
<1>3. /\ m + n = k - 1 /\ m <= old.first /\ (n > 0 => m = old.first)
      /\ \A i \in 1 .. n : old.applied[i] = m + i
      /\ \A i \in 1 .. m : old.already[i] = i
  BY DEF Listed
<1>4. k > old.first
  OBVIOUS
<1>5. Len(row.applied) = n + 1 /\ Len(row.already) = m
      /\ (\A i \in 1 .. n : row.applied[i] = m + i) /\ row.applied[n + 1] = k
      /\ (\A i \in 1 .. m : row.already[i] = i) /\ row.index = k + 1 /\ row.first = old.first
  BY <1>2, <1>3, Zenon
<1> HIDE DEF m, n, k
<1>6. m = old.first /\ k = m + (n + 1)
  BY <1>1, <1>3, <1>4
<1>7. ASSUME NEW i \in 1 .. n + 1 PROVE row.applied[i] = m + i
  <2>1. i \in 1 .. n \/ i = n + 1
    BY <1>1
  <2>2. QED BY <1>5, <1>6, <2>1, Zenon
<1>8. m + (n + 1) = (k + 1) - 1 /\ m <= old.first
  BY <1>1, <1>6
<1>9. QED BY <1>5, <1>6, <1>7, <1>8, Zenon DEF Listed

\* One file more is listed as there before.
LEMMA AlreadyListed ==
    ASSUME NEW old \in RunRows, NEW row \in RunRows, Listed(old), old.index <= old.first,
           row.index = old.index + 1, row.already = Append(old.already, old.index),
           row.applied = old.applied, row.first = old.first
    PROVE  Listed(row)
<1> DEFINE m == Len(old.already)
           n == Len(old.applied)
           k == old.index
<1>1. /\ old.already \in Seq(Nat) /\ k \in Nat \ {0} /\ old.first \in Nat
      /\ n \in Nat /\ m \in Nat
  BY LenProperties DEF RunRows
<1>2. /\ Len(Append(old.already, k)) = m + 1
      /\ \A i \in 1 .. m : Append(old.already, k)[i] = old.already[i]
      /\ Append(old.already, k)[m + 1] = k
  BY <1>1, AppendProperties
<1>3. /\ m + n = k - 1 /\ m <= old.first /\ (n > 0 => m = old.first)
      /\ \A i \in 1 .. m : old.already[i] = i
  BY DEF Listed
<1>4. k <= old.first
  OBVIOUS
<1>5. Len(row.already) = m + 1 /\ Len(row.applied) = n
      /\ (\A i \in 1 .. m : row.already[i] = i) /\ row.already[m + 1] = k
      /\ row.index = k + 1 /\ row.first = old.first
  BY <1>2, <1>3, Zenon
<1> HIDE DEF m, n, k
<1>6. n = 0 /\ k = m + 1
  BY <1>1, <1>3, <1>4
<1>7. ASSUME NEW i \in 1 .. m + 1 PROVE row.already[i] = i
  <2>1. i \in 1 .. m \/ i = m + 1
    BY <1>1
  <2>2. QED BY <1>5, <1>6, <2>1, Zenon
<1>8. (m + 1) + n = (k + 1) - 1 /\ m + 1 <= old.first /\ ~ (n > 0) /\ 1 .. n = {}
  BY <1>1, <1>4, <1>6
<1>9. \A i \in 1 .. n : row.applied[i] = (m + 1) + i
  BY <1>8, Zenon
<1>10. QED BY <1>5, <1>7, <1>8, <1>9, Zenon DEF Listed

LEMMA SkipRecordedSound ==
    ASSUME MigrationInv, NEW r \in Runners, SkipRecorded(r) PROVE MigrationInv'
<1> DEFINE old == runner[r]
           i == old.index
           older == IF i <= old.first THEN Append(old.already, i) ELSE old.already
           newer == IF i > old.first /\ ~Contains(old.applied, i) THEN Append(old.applied, i)
                                                                   ELSE old.applied
           row == [old EXCEPT !.index = i + 1, !.already = older, !.applied = newer]
<1>1. /\ old \in RunRows /\ Listed(old) /\ Positioned(old, Package[r], schema)
      /\ old.at = "loop" /\ advisory = Session(r) /\ UNCHANGED <<schema, orphan, advisory>>
      /\ i <= Len(Package[r]) /\ i <= Len(old.known)
      /\ Len(schema) \in Nat /\ Len(Package[r]) \in Nat
      /\ runner' = [runner EXCEPT ![r] = row]
  BY RunFacts DEF SkipRecorded, MoreFiles, IsRecorded, RunnerSound, Inside
<1>2. /\ old.applied \in Seq(Nat) /\ old.already \in Seq(Nat) /\ i \in Nat \ {0} /\ old.first \in Nat
      /\ Len(old.applied) \in Nat /\ Len(old.already) \in Nat
  BY <1>1, LenProperties DEF RunRows
<1>3. ~Contains(old.applied, i)
  <2> SUFFICES ASSUME NEW k \in 1 .. Len(old.applied), old.applied[k] = i PROVE FALSE
    BY DEF Contains
  <2> DEFINE m == Len(old.already)
             n == Len(old.applied)
  <2>1. i = m + k /\ m + n = i - 1 /\ m \in Nat /\ n \in Nat /\ k \in 1 .. n /\ i \in Nat
    BY <1>1, <1>2 DEF Listed
  <2> HIDE DEF i, m, n
  <2>2. QED BY <2>1
<1>4. older \in Seq(Nat) /\ newer \in Seq(Nat)
  BY <1>2
<1>5. CASE i <= old.first
  <2>1. older = Append(old.already, i) /\ newer = old.applied
    BY <1>2, <1>5
  <2> HIDE DEF older, newer
  <2>2. /\ row \in RunRows /\ row.at = "loop" /\ row.known = old.known /\ row.first = old.first
        /\ row.index = i + 1 /\ row.applied = newer /\ row.already = older
    <3>1. /\ old \in RunRows /\ i + 1 \in Nat \ {0} /\ old.at = "loop"
          /\ older \in Seq(Nat) /\ newer \in Seq(Nat)
      BY <1>1, <1>2, <1>4
    <3> HIDE DEF i
    <3>2. QED BY <3>1 DEF RunRows
  <2> HIDE DEF row
  <2>3. Listed(row)
    BY <1>1, <1>5, <2>1, <2>2, AlreadyListed
  <2>4. Positioned(row, Package[r], schema)
    BY <1>1, <1>2, <2>2 DEF Positioned, Reopening
  <2>5. Quiet(r)
    BY <1>1 DEF Quiet
  <2>6. QED BY <1>1, <2>2, <2>3, <2>4, <2>5, MoveSound
<1>6. CASE i > old.first
  <2>1. older = old.already /\ newer = Append(old.applied, i)
    BY <1>2, <1>3, <1>6
  <2> HIDE DEF older, newer
  <2>2. /\ row \in RunRows /\ row.at = "loop" /\ row.known = old.known /\ row.first = old.first
        /\ row.index = i + 1 /\ row.applied = newer /\ row.already = older
    <3>1. /\ old \in RunRows /\ i + 1 \in Nat \ {0} /\ old.at = "loop"
          /\ older \in Seq(Nat) /\ newer \in Seq(Nat)
      BY <1>1, <1>2, <1>4
    <3> HIDE DEF i
    <3>2. QED BY <3>1 DEF RunRows
  <2> HIDE DEF row
  <2>3. Listed(row)
    BY <1>1, <1>6, <2>1, <2>2, AppliedListed
  <2>4. Positioned(row, Package[r], schema)
    BY <1>1, <1>2, <2>2 DEF Positioned, Reopening
  <2>5. Quiet(r)
    BY <1>1 DEF Quiet
  <2>6. QED BY <1>1, <2>2, <2>3, <2>4, <2>5, MoveSound
<1>7. QED BY <1>2, <1>5, <1>6

\* The lock keeps others out, so that the version an apply inserts is not there.
LEMMA ApplySound ==
    ASSUME MigrationInv, NEW r \in Runners, Apply(r) PROVE MigrationInv'
<1> DEFINE old == runner[r]
           row == [old EXCEPT !.at = "commit"]
<1>1. /\ old \in RunRows /\ Positioned(old, Package[r], schema)
      /\ old.at = "loop" /\ advisory = Session(r) /\ UNCHANGED <<schema, orphan>>
      /\ old.index <= Len(Package[r]) /\ ~ (old.index <= Len(old.known))
      /\ Len(schema) \in Nat /\ Len(Package[r]) \in Nat /\ old.index \in Nat /\ old.first \in Nat
  BY RunFacts DEF Apply, MoreFiles, IsRecorded, RunnerSound, Inside, RunRows
<1>2. old.known = schema /\ Follows(schema, Package[r]) /\ old.first <= Len(schema)
      /\ old.index = Len(schema) + 1
  BY <1>1 DEF Positioned
<1>3. runner' = [runner EXCEPT ![r].at = "commit"] /\ advisory' = advisory
  BY <1>1, <1>2 DEF Apply
<1>4. /\ row.at = "commit" /\ row.index = old.index /\ row.first = old.first /\ row.known = old.known
  BY <1>1 DEF RunRows
<1>5. Positioned(row, Package[r], schema)
  BY <1>1, <1>2, <1>4 DEF Positioned, Reopening
<1>6. "commit" \in RunPlaces /\ Quiet(r)
  BY <1>1, <1>3 DEF RunPlaces, Inside, Quiet
<1>7. QED BY <1>1, <1>3, <1>5, <1>6, PlaceSound

LEMMA CommitSound ==
    ASSUME MigrationInv, NEW r \in Runners, Commit(r) PROVE MigrationInv'
<1> DEFINE old == runner[r]
           i == old.index
           file == Package[r][i]
           known == Append(old.known, file)
           newer == Append(old.applied, i)
           row == [old EXCEPT !.at = "loop", !.index = i + 1, !.known = known, !.applied = newer]
<1>1. /\ old \in RunRows /\ Listed(old) /\ Positioned(old, Package[r], schema)
      /\ old.at = "commit" /\ advisory = Session(r) /\ UNCHANGED <<advisory, orphan>>
      /\ schema \in Seq(Digests) /\ Package[r] \in Seq(Digests)
      /\ Len(schema) \in Nat /\ Len(Package[r]) \in Nat /\ orphan[r] \in Seq(Digests)
      /\ runner' = [runner EXCEPT ![r] = row] /\ schema' = Append(schema, file)
  BY RunFacts DEF Commit, RunnerSound, Inside
<1>2. /\ old.known = schema /\ Follows(schema, Package[r]) /\ old.first <= Len(schema)
      /\ i = Len(schema) + 1 /\ i <= Len(Package[r]) /\ i > old.first
  BY <1>1 DEF Positioned
<1>3. /\ i \in Nat \ {0} /\ old.first \in Nat /\ old.applied \in Seq(Nat)
  BY <1>1 DEF RunRows
<1>4. /\ schema' \in Seq(Digests) /\ Len(schema') = Len(schema) + 1
      /\ Follows(schema', Package[r]) /\ \A k \in 1 .. Len(schema) : schema'[k] = schema[k]
  <2>1. Len(schema) < Len(Package[r]) /\ schema' = Append(schema, Package[r][Len(schema) + 1])
    BY <1>1, <1>2
  <2>2. Follows(schema, Package[r]) /\ schema \in Seq(Digests) /\ Package[r] \in Seq(Digests)
    BY <1>1, <1>2
  <2> HIDE DEF row
  <2>3. QED BY <2>1, <2>2, NextFileFollows, Zenon
<1>5. Append(old.known, file) = schema' /\ Append(old.applied, i) \in Seq(Nat)
  BY <1>1, <1>2, <1>3, AppendProperties
<1>6. /\ row \in RunRows /\ row.at = "loop" /\ row.known = schema' /\ row.first = old.first
      /\ row.index = i + 1 /\ row.applied = newer /\ row.already = old.already
  <2>1. /\ known \in Seq(Digests) /\ newer \in Seq(Nat) /\ i + 1 \in Nat \ {0} /\ old \in RunRows
        /\ known = schema'
    BY <1>1, <1>3, <1>4, <1>5
  <2> HIDE DEF i, known, newer
  <2>2. QED BY <2>1 DEF RunRows, RunPlaces, Inside
<1> HIDE DEF row
<1>7. Listed(row)
  BY <1>1, <1>2, <1>6, AppliedListed
<1>8. Positioned(row, Package[r], schema')
  BY <1>1, <1>2, <1>3, <1>4, <1>6 DEF Positioned, Reopening
<1>9. Grows(schema, schema') /\ Quiet(r)
  BY <1>1, <1>4 DEF Grows, Quiet
<1>10. orphan[r] = Nothing
  <2>1. BrokenSession(r) # Session(r)
    BY DEF BrokenSession, Session
  <2>2. QED BY <1>1, <2>1, RunFacts DEF RunnerSound
<1>11. orphan' = [orphan EXCEPT ![r] = orphan[r]]
  BY <1>1, RunFacts
<1>12. row.at \in Inside => advisory' = Session(r)
  BY <1>1
<1>13. \E u \in Runners : Follows(schema', Package[u])
  BY <1>4
<1>14. QED BY <1>1, <1>6, <1>7, <1>8, <1>9, <1>10, <1>11, <1>12, <1>13, StepSound

\* The commit that goes on at the server is of the next file.
LEMMA CommitBreaksSound ==
    ASSUME MigrationInv, NEW r \in Runners, CommitBreaks(r) PROVE MigrationInv'
<1> DEFINE old == runner[r]
           row == [old EXCEPT !.at = "reopen", !.excused = TRUE]
           commit == <<Package[r][old.index]>>
<1>1. /\ old \in RunRows /\ Listed(old) /\ Positioned(old, Package[r], schema)
      /\ old.at = "commit" /\ advisory = Session(r) /\ schema' = schema
      /\ advisory' = BrokenSession(r)
      /\ schema \in Seq(Digests) /\ Package[r] \in Seq(Digests) /\ Grows(schema, schema')
      /\ Len(schema) \in Nat /\ Len(Package[r]) \in Nat
      /\ runner' = [runner EXCEPT ![r] = row] /\ orphan' = [orphan EXCEPT ![r] = commit]
  BY RunFacts DEF CommitBreaks, RunnerSound, Inside
<1>2. /\ Follows(schema, Package[r]) /\ old.index = Len(schema) + 1
      /\ old.index <= Len(Package[r]) /\ old.index > old.first
  BY <1>1 DEF Positioned
<1>3. commit \in Seq(Digests)
  <2>1. Package[r][old.index] \in Digests
    BY <1>1, <1>2, ElementOfSeq
  <2>2. QED BY <2>1
<1>4. /\ row \in RunRows /\ row.at = "reopen" /\ row.first = old.first
      /\ row.index = old.index /\ row.applied = old.applied /\ row.already = old.already
  BY <1>1 DEF RunRows, RunPlaces, Reopening
<1> HIDE DEF row
<1>5. Listed(row)
  BY <1>1, <1>4 DEF Listed
<1>6. Positioned(row, Package[r], schema')
  BY <1>1, <1>2, <1>4 DEF Positioned, Reopening
<1>7. Quiet(r) /\ row.at \notin Inside
  BY <1>1, <1>4 DEF Quiet, Inside
<1>8. Len(schema) < Len(Package[r]) /\ commit = <<Package[r][Len(schema) + 1]>>
  BY <1>1, <1>2
<1>9. \E u \in Runners : Follows(schema', Package[u])
  BY <1>1, <1>2
<1> HIDE DEF commit
<1>10. QED BY <1>1, <1>2, <1>3, <1>4, <1>5, <1>6, <1>7, <1>8, <1>9, StepSound

\* Whatever becomes of a broken commit, its run is still reopening or has ended,
\* and what it knows of the history holds of the longer one.
LEMMA OrphanEndsSound ==
    ASSUME MigrationInv, NEW r \in Runners, OrphanEnds(r) PROVE MigrationInv'
<1> DEFINE old == runner[r]
<1>1. /\ old \in RunRows /\ Listed(old) /\ Positioned(old, Package[r], schema)
      /\ runner \in [Runners -> RunRows] /\ RunnerSound(r)
      /\ schema \in Seq(Digests) /\ Package[r] \in Seq(Digests) /\ Grows(schema, schema)
      /\ Len(schema) \in Nat /\ Len(Package[r]) \in Nat
      /\ \E u \in Runners : Follows(schema, Package[u])
  BY RunFacts
<1>2. /\ orphan[r] # Nothing /\ runner' = runner /\ orphan' = [orphan EXCEPT ![r] = Nothing]
      /\ (schema' = schema \o orphan[r] \/ schema' = schema)
  BY DEF OrphanEnds
<1>3. advisory = BrokenSession(r) /\ OrphanFits(r) /\ old.at \notin Inside
  <2>1. BrokenSession(r) # Session(r)
    BY DEF BrokenSession, Session
  <2>2. QED BY <1>1, <1>2, <2>1 DEF RunnerSound
<1>4. /\ Grows(schema, schema') /\ \E u \in Runners : Follows(schema', Package[u])
  <2>1. CASE schema' = schema \o orphan[r]
    <3>1. schema' = Append(schema, Package[r][Len(schema) + 1])
      BY <1>1, <1>3, <2>1, NextFileFollows DEF OrphanFits
    <3>2. /\ schema' \in Seq(Digests) /\ Len(schema') = Len(schema) + 1
          /\ Follows(schema', Package[r]) /\ \A k \in 1 .. Len(schema) : schema'[k] = schema[k]
      BY <1>1, <1>3, <3>1, NextFileFollows DEF OrphanFits
    <3>3. QED BY <1>1, <3>2 DEF Grows
  <2>2. CASE schema' = schema
    BY <1>1, <2>2
  <2>3. QED BY <1>2, <2>1, <2>2
<1>5. Positioned(old, Package[r], schema')
  <2>1. /\ Len(schema') \in Nat /\ Len(schema) <= Len(schema') /\ old.index \in Nat
    BY <1>1, <1>4, LenProperties DEF Grows, RunRows
  <2>2. ASSUME Follows(Package[r], schema) PROVE Follows(Package[r], schema')
    BY <1>1, <1>4, <2>1, <2>2 DEF Follows, Grows
  <2>3. QED BY <1>1, <1>3, <2>1, <2>2 DEF Positioned, Inside
<1>6. runner' = [runner EXCEPT ![r] = old] /\ Quiet(r)
  BY <1>1, <1>2, <1>3 DEF Quiet
<1>7. Nothing \in Seq(Digests)
  BY DEF Nothing
<1> HIDE DEF old
<1>8. QED BY <1>1, <1>2, <1>3, <1>4, <1>5, <1>6, <1>7, StepSound

\* The history read back holds the version or it does not.
LEMMA ReadBackSound ==
    ASSUME MigrationInv, NEW r \in Runners, ReadBack(r) PROVE MigrationInv'
<1> DEFINE old == runner[r]
           i == old.index
           newer == Append(old.applied, i)
           tried == old.recovered \union {i}
           there == [old EXCEPT !.at = "loop", !.known = schema, !.applied = newer, !.index = i + 1]
           again == [old EXCEPT !.at = "loop", !.known = schema, !.recovered = tried]
<1>1. /\ old \in RunRows /\ Listed(old) /\ Positioned(old, Package[r], schema)
      /\ old.at = "rehistory" /\ advisory = Session(r) /\ UNCHANGED <<schema, orphan>>
      /\ schema \in Seq(Digests) /\ Package[r] \in Seq(Digests)
      /\ Len(schema) \in Nat /\ Len(Package[r]) \in Nat
  BY RunFacts DEF ReadBack, RunnerSound, Inside
<1>2. /\ i <= Len(Package[r]) /\ i > old.first /\ i <= Len(schema) + 1
  BY <1>1 DEF Positioned, Reopening
<1>3. /\ i \in Nat \ {0} /\ old.first \in Nat /\ old.applied \in Seq(Nat)
      /\ Append(old.applied, i) \in Seq(Nat) /\ old.recovered \union {i} \in SUBSET Nat
  <2>1. /\ i \in Nat \ {0} /\ old.first \in Nat /\ old.applied \in Seq(Nat) /\ old.recovered \in SUBSET Nat
    BY <1>1 DEF RunRows
  <2> HIDE DEF i
  <2>2. QED BY <2>1, AppendProperties
<1>4. CASE EndRun(r, "unknown", TRUE)
  BY <1>1, <1>4, FailureSound
<1>5. CASE /\ ValidHistory(r) /\ i <= Len(schema) /\ advisory' = advisory
           /\ runner' = [runner EXCEPT ![r] = there]
  <2>1. /\ there \in RunRows /\ there.at = "loop" /\ there.known = schema /\ there.first = old.first
        /\ there.index = i + 1 /\ there.applied = newer
        /\ there.already = old.already
    <3>1. newer \in Seq(Nat) /\ i + 1 \in Nat \ {0} /\ old \in RunRows /\ schema \in Seq(Digests)
      BY <1>1, <1>3
    <3> HIDE DEF i, newer
    <3>2. QED BY <3>1 DEF RunRows, RunPlaces, Inside
  <2> HIDE DEF there
  <2>2. Listed(there)
    BY <1>1, <1>2, <2>1, AppliedListed
  <2>3. Follows(schema, Package[r])
    BY <1>1, <1>5, PrefixFollows DEF ValidHistory
  <2>4. Positioned(there, Package[r], schema)
    BY <1>1, <1>2, <1>3, <1>5, <2>1, <2>3 DEF Positioned, Follows, Reopening
  <2>5. Quiet(r) /\ advisory' = Session(r)
    BY <1>1, <1>5 DEF Quiet
  <2>6. QED BY <1>1, <1>5, <2>1, <2>2, <2>4, <2>5, MoveSound
<1>6. CASE /\ ValidHistory(r) /\ i > Len(schema) /\ advisory' = advisory
           /\ runner' = [runner EXCEPT ![r] = again]
  <2>1. /\ again \in RunRows /\ again.at = "loop" /\ again.known = schema /\ again.first = old.first
        /\ again.index = i /\ again.applied = old.applied /\ again.already = old.already
    <3>1. tried \in SUBSET Nat /\ old \in RunRows /\ schema \in Seq(Digests)
      BY <1>1, <1>3
    <3> HIDE DEF tried
    <3>2. QED BY <3>1 DEF RunRows, RunPlaces, Inside
  <2> HIDE DEF again
  <2>2. Listed(again)
    BY <1>1, <2>1 DEF Listed
  <2>3. Follows(schema, Package[r])
    BY <1>1, <1>6, PrefixFollows DEF ValidHistory
  <2>4. Positioned(again, Package[r], schema)
    BY <1>1, <1>2, <1>3, <1>6, <2>1, <2>3 DEF Positioned, Reopening
  <2>5. Quiet(r) /\ advisory' = Session(r)
    BY <1>1, <1>6 DEF Quiet
  <2>6. QED BY <1>1, <1>6, <2>1, <2>2, <2>4, <2>5, MoveSound
<1>7. QED BY <1>4, <1>5, <1>6 DEF ReadBack

\* At the end of the loop the history and the package are the same.
LEMMA FinishSound ==
    ASSUME MigrationInv, NEW r \in Runners, Finish(r) PROVE MigrationInv'
<1> DEFINE old == runner[r]
<1>1. /\ old \in RunRows /\ Positioned(old, Package[r], schema)
      /\ old.at = "loop" /\ UNCHANGED <<schema, orphan>> /\ EndRun(r, "reported", FALSE)
      /\ ~ (old.index <= Len(Package[r]))
      /\ Len(schema) \in Nat /\ Len(Package[r]) \in Nat /\ old.index \in Nat
  BY RunFacts DEF Finish, MoreFiles, RunRows
<1>2. Follows(schema, Package[r]) /\ old.index <= Len(schema) + 1 /\ old.index <= Len(Package[r]) + 1
  BY <1>1 DEF Positioned
<1>3. old.index = Len(Package[r]) + 1 /\ Len(schema) = Len(Package[r])
  BY <1>1, <1>2 DEF Follows
<1>4. Follows(Package[r], schema)
  BY <1>1, <1>2, <1>3 DEF Follows
<1>5. QED BY <1>1, <1>3, <1>4, EndSound

LEMMA StatementFailsSound ==
    ASSUME MigrationInv, NEW r \in Runners, StatementFails(r) PROVE MigrationInv'
<1> DEFINE outcome == IF runner[r].at \in {"reopen", "relock", "rehistory"} THEN "unknown" ELSE "failed"
<1>1. outcome \in {"failed", "unknown"} /\ EndRun(r, outcome, TRUE) /\ UNCHANGED <<schema, orphan>>
  BY DEF StatementFails
<1> HIDE DEF outcome
<1>2. QED BY <1>1, FailureSound

LEMMA MigrationInitSound == MigrationInit => MigrationInv
<1> SUFFICES ASSUME MigrationInit PROVE MigrationInv
  OBVIOUS
<1> DEFINE row == [at |-> "open", known |-> <<>>, first |-> 0, index |-> 1,
                   applied |-> <<>>, already |-> <<>>, recovered |-> {}, excused |-> FALSE]
<1>1. /\ row \in RunRows /\ row.at = "open" /\ row.index = 1 /\ row.first = 0
      /\ Len(row.applied) = 0 /\ Len(row.already) = 0
  BY DEF RunRows, RunPlaces
<1>2. /\ runner = [r \in Runners |-> row] /\ orphan = [r \in Runners |-> Nothing] /\ schema = <<>>
  BY DEF MigrationInit
<1> HIDE DEF row
<1>3. MigrationTypes
  BY <1>1, <1>2 DEF MigrationTypes, Nothing
<1>4. Listed(row)
  BY <1>1 DEF Listed
<1>5. ASSUME NEW r \in Runners PROVE RunnerSound(r)
  <2>1. runner[r] = row /\ orphan[r] = Nothing
    BY <1>2
  <2>2. Positioned(row, Package[r], schema)
    BY <1>1 DEF Positioned, Reopening
  <2>3. row.at \notin Inside
    BY <1>1 DEF Inside
  <2>4. QED BY <1>4, <2>1, <2>2, <2>3 DEF RunnerSound
<1>6. \E r \in Runners : Follows(schema, Package[r])
  <2>1. PICK r \in Runners : TRUE
    BY MigrationAssumption
  <2>2. Len(schema) = 0 /\ Len(Package[r]) \in Nat
    BY <1>2, MigrationAssumption, LenProperties
  <2>3. QED BY <2>1, <2>2 DEF Follows
<1>7. QED BY <1>3, <1>5, <1>6 DEF MigrationInv

LEMMA MigrationInvPreserved == MigrationInv /\ [MigrationNext]_migrationVars => MigrationInv'
<1> SUFFICES ASSUME MigrationInv, [MigrationNext]_migrationVars PROVE MigrationInv'
  OBVIOUS
<1>1. ASSUME NEW r \in Runners, RunnerStep(r) PROVE MigrationInv'
  <2>1. CASE Open(r) \/ Reopen(r) \/ AcquireLock(r)
    BY <2>1, OpenSound
  <2>2. CASE ReadHistory(r)
    BY <2>2, ReadHistorySound
  <2>3. CASE SkipRecorded(r)
    BY <2>3, SkipRecordedSound
  <2>4. CASE Apply(r)
    BY <2>4, ApplySound
  <2>5. CASE Commit(r)
    BY <2>5, CommitSound
  <2>6. CASE CommitBreaks(r)
    BY <2>6, CommitBreaksSound
  <2>7. CASE OrphanEnds(r)
    BY <2>7, OrphanEndsSound
  <2>8. CASE ReadBack(r)
    BY <2>8, ReadBackSound
  <2>9. CASE Finish(r)
    BY <2>9, FinishSound
  <2>10. CASE StatementFails(r)
    BY <2>10, StatementFailsSound
  <2>11. QED BY <1>1, <2>1, <2>2, <2>3, <2>4, <2>5, <2>6, <2>7, <2>8, <2>9, <2>10 DEF RunnerStep
<1>2. CASE UNCHANGED migrationVars
  BY <1>2 DEF migrationVars, MigrationInv, MigrationTypes, RunnerSound, OrphanFits
<1>3. QED BY <1>1, <1>2 DEF MigrationNext

\* A finished report lists the files of the package in order, each once.
LEMMA ReportComplete ==
    ASSUME NEW row \in RunRows, Listed(row), NEW n \in Nat, row.index = n + 1
    PROVE  row.already \o row.applied = [i \in 1 .. n |-> i]
<1> DEFINE both == row.already \o row.applied
           a == Len(row.already)
           b == Len(row.applied)
<1>1. row.already \in Seq(Nat) /\ row.applied \in Seq(Nat) /\ a \in Nat /\ b \in Nat
  BY LenProperties DEF RunRows
<1>2. /\ both \in Seq(Nat) /\ Len(both) = a + b
      /\ \A i \in 1 .. a + b : both[i] = IF i <= a THEN row.already[i] ELSE row.applied[i - a]
  BY <1>1, ConcatProperties
<1>3. /\ a + b = (n + 1) - 1 /\ \A i \in 1 .. a : row.already[i] = i
      /\ \A i \in 1 .. b : row.applied[i] = a + i
  BY Zenon DEF Listed
<1> HIDE DEF both, a, b
<1>4. both = [i \in 1 .. Len(both) |-> both[i]]
  BY <1>2
<1>5. Len(both) = n
  BY <1>1, <1>2, <1>3
<1>6. ASSUME NEW i \in 1 .. n PROVE both[i] = i
  <2>1. CASE i <= a
    <3>1. i \in 1 .. a /\ i \in 1 .. a + b
      BY <1>1, <1>3, <2>1
    <3>2. QED BY <1>2, <1>3, <2>1, <3>1, Zenon
  <2>2. CASE ~ (i <= a)
    <3>1. i - a \in 1 .. b /\ a + (i - a) = i /\ i \in 1 .. a + b
      BY <1>1, <1>3, <2>2
    <3>2. QED BY <1>2, <1>3, <2>2, <3>1
  <2>3. QED BY <2>1, <2>2
<1>7. both = [i \in 1 .. n |-> i]
  BY <1>4, <1>5, <1>6
<1>8. QED BY <1>7 DEF both

LEMMA MigrationInvTruthful == MigrationInv => MigrationsTruthful
<1> SUFFICES ASSUME MigrationInv PROVE MigrationsTruthful
  OBVIOUS
<1>1. \E r \in Runners : IsPrefix(schema, Package[r])
  <2>1. PICK r \in Runners : Follows(schema, Package[r])
    BY DEF MigrationInv
  <2>2. QED BY <2>1, RunFacts, PrefixFollows
<1>2. ASSUME NEW r \in Runners, runner[r].at = "reported"
      PROVE  /\ IsPrefix(Package[r], schema)
             /\ runner[r].already \o runner[r].applied = [i \in 1 .. Len(Package[r]) |-> i]
  <2>1. runner[r].index = Len(Package[r]) + 1 /\ Follows(Package[r], schema)
    BY <1>2, RunFacts DEF Positioned
  <2>2. QED BY <2>1, RunFacts, PrefixFollows, ReportComplete
<1>3. ASSUME NEW r \in Runners, runner[r].at \in {"failed", "unknown"} PROVE runner[r].excused
  BY <1>3, RunFacts DEF Positioned
<1>4. QED BY <1>1, <1>2, <1>3 DEF MigrationsTruthful

\* However many processes migrate one database at once, whatever breaks and
\* however a broken COMMIT ends at the server, the database follows a package, a
\* report is complete and true, and a run fails only for a fault of its own or a
\* package that does not fit.  infra/postgres/migrate.py:240-343.
THEOREM MigrationsAlwaysTruthful == MigrationSpec => []MigrationsTruthful
<1>1. QED BY MigrationInitSound, MigrationInvPreserved, MigrationInvTruthful, PTL DEF MigrationSpec

----------------------------------------------------------------------------
(* Administration                                                           *)

AccountRows == [exists : BOOLEAN, roles : SUBSET RoleCodes, status : {"NONE", "ACTIVE", "INACTIVE"}]
LogRows == [granted : Nat, removed : Nat]
CollectionRows == [parent : CollectionIds \union {0}, status : {"NONE", "ACTIVE", "DELETED"}]
Operations == {"none", "signup", "assign_role", "remove_role", "set_status", "record_login",
               "create", "add", "remove", "visibility", "delete"}
ClerkPlaces == {"idle", "create", "insert", "commit", "wait", "write", "enter", "lock", "change", "apply"}
ClerkRows == [op : Operations, at : ClerkPlaces, email : Emails \union {Nobody}, role : RoleCodes,
              seen : SUBSET RoleCodes, collection : CollectionIds \union {0},
              paper : Papers \union {Nobody}, plan : SUBSET CollectionIds,
              locked : SUBSET CollectionIds]

ClerkTypes == clerk \in [Clerks -> ClerkRows]
AccountTypes == /\ ClerkTypes
                /\ users \in [Emails -> AccountRows]
                /\ roleLog \in [Emails -> [RoleCodes -> LogRows]]
                /\ rowOwner \in [Emails \union CollectionIds -> Clerks \union {Nobody}]
CatalogTypes == /\ ClerkTypes
                /\ catalog \in [CollectionIds -> CollectionRows]
                /\ contents \subseteq CollectionIds \X (Papers \union {Nobody})
                /\ catalogLock \in [Clerks -> Clerks \union {Nobody}]

\* The log of an address, and a role it has granted once more than removed.
Counted(e) ==
    /\ ~users[e].exists => \A r \in RoleCodes : roleLog[e][r].granted = 0
    /\ \A r \in RoleCodes : roleLog[e][r].granted =
          roleLog[e][r].removed + (IF r \in users[e].roles THEN 1 ELSE 0)

\* A signup that is about to commit holds the row of an account there is not yet; who
\* waits for the row of an account or holds it has found one.
AccountPlaces == {"create", "insert", "commit", "wait", "write"}
AccountClerk(c) ==
    /\ clerk[c].at \in AccountPlaces => clerk[c].email \in Emails
    /\ clerk[c].at = "commit" =>
          rowOwner[clerk[c].email] = c /\ ~users[clerk[c].email].exists
    /\ clerk[c].at \in {"wait", "write"} => users[clerk[c].email].exists

AccountsInv == /\ AccountTypes
               /\ \A e \in Emails : Counted(e)
               /\ \A c \in Clerks : AccountClerk(c)

\* Who works at the collections holds the lock of its process, and what a deletion has
\* planned is still a whole subtree.
HeldPlaces == {"lock", "change", "apply"}
CatalogClerk(c) ==
    /\ clerk[c].at \in HeldPlaces \union {"enter"} => clerk[c].collection \in CollectionIds
    /\ clerk[c].at \in HeldPlaces => catalogLock[ProcessOf[c]] = c
    /\ clerk[c].op = "delete" /\ clerk[c].at \in HeldPlaces => HasChildren(clerk[c].plan)
    /\ clerk[c].at = "enter" => clerk[c].op # "delete"

CatalogInv == /\ CatalogTypes /\ CascadeComplete
              /\ \A c \in Clerks : CatalogClerk(c)

\* What a step of one clerk leaves to the others.
ClerkMoved(c) == ClerkTypes' /\ \A d \in Clerks \ {c} : clerk'[d] = clerk[d]
RowsKept(c) ==
    /\ rowOwner' \in [Emails \union CollectionIds -> Clerks \union {Nobody}]
    /\ \A x \in Emails, d \in Clerks \ {c} : rowOwner[x] = d => rowOwner'[x] = d
CatalogKept(c) ==
    /\ catalogLock' \in [Clerks -> Clerks \union {Nobody}]
    /\ \A p \in Clerks, d \in Clerks \ {c} : catalogLock[p] = d => catalogLock'[p] = d

LEMMA RecordIsRow ==
    ASSUME NEW op \in Operations, NEW at \in ClerkPlaces, NEW email \in Emails \union {Nobody},
           NEW role \in RoleCodes, NEW seen \in SUBSET RoleCodes,
           NEW collection \in CollectionIds \union {0}, NEW paper \in Papers \union {Nobody},
           NEW plan \in SUBSET CollectionIds, NEW locked \in SUBSET CollectionIds
    PROVE  [op |-> op, at |-> at, email |-> email, role |-> role, seen |-> seen,
            collection |-> collection, paper |-> paper, plan |-> plan, locked |-> locked] \in ClerkRows
  BY DEF ClerkRows

LEMMA IdleIsRow == IdleClerk \in ClerkRows /\ IdleClerk.at = "idle"
<1>1. UserRole \in RoleCodes
  BY AdministrationAssumption
<1>2. /\ IdleClerk.op \in Operations /\ IdleClerk.at \in ClerkPlaces /\ IdleClerk.email \in Emails \union {Nobody}
      /\ IdleClerk.role \in RoleCodes /\ IdleClerk.seen \in SUBSET RoleCodes
      /\ IdleClerk.collection \in CollectionIds \union {0} /\ IdleClerk.paper \in Papers \union {Nobody}
      /\ IdleClerk.plan \in SUBSET CollectionIds /\ IdleClerk.locked \in SUBSET CollectionIds
  <2>1. /\ IdleClerk.op = "none" /\ IdleClerk.at = "idle" /\ IdleClerk.email = Nobody
        /\ IdleClerk.role = UserRole /\ IdleClerk.seen = {} /\ IdleClerk.collection = 0
        /\ IdleClerk.paper = Nobody /\ IdleClerk.plan = {} /\ IdleClerk.locked = {}
    BY DEF IdleClerk
  <2>2. QED BY <1>1, <2>1 DEF Operations, ClerkPlaces
<1>3. IdleClerk = [op |-> IdleClerk.op, at |-> IdleClerk.at, email |-> IdleClerk.email,
                   role |-> IdleClerk.role, seen |-> IdleClerk.seen,
                   collection |-> IdleClerk.collection, paper |-> IdleClerk.paper,
                   plan |-> IdleClerk.plan, locked |-> IdleClerk.locked]
  BY DEF IdleClerk
<1>4. QED BY <1>2, <1>3, RecordIsRow DEF IdleClerk

\* One field of a row is written.
LEMMA FieldIsRow ==
    ASSUME NEW row \in ClerkRows
    PROVE  /\ \A x \in Operations : [row EXCEPT !.op = x] \in ClerkRows
           /\ \A x \in ClerkPlaces : [row EXCEPT !.at = x] \in ClerkRows
           /\ \A x \in Emails \union {Nobody} : [row EXCEPT !.email = x] \in ClerkRows
           /\ \A x \in RoleCodes : [row EXCEPT !.role = x] \in ClerkRows
           /\ \A x \in SUBSET RoleCodes : [row EXCEPT !.seen = x] \in ClerkRows
           /\ \A x \in CollectionIds \union {0} : [row EXCEPT !.collection = x] \in ClerkRows
           /\ \A x \in Papers \union {Nobody} : [row EXCEPT !.paper = x] \in ClerkRows
           /\ \A x \in SUBSET CollectionIds : [row EXCEPT !.plan = x] \in ClerkRows
<1>1. ASSUME NEW x \in Operations PROVE [row EXCEPT !.op = x] \in ClerkRows
  BY DEF ClerkRows
<1>2. ASSUME NEW x \in ClerkPlaces PROVE [row EXCEPT !.at = x] \in ClerkRows
  BY DEF ClerkRows
<1>3. ASSUME NEW x \in Emails \union {Nobody} PROVE [row EXCEPT !.email = x] \in ClerkRows
  BY DEF ClerkRows
<1>4. ASSUME NEW x \in RoleCodes PROVE [row EXCEPT !.role = x] \in ClerkRows
  BY DEF ClerkRows
<1>5. ASSUME NEW x \in SUBSET RoleCodes PROVE [row EXCEPT !.seen = x] \in ClerkRows
  BY DEF ClerkRows
<1>6. ASSUME NEW x \in CollectionIds \union {0} PROVE [row EXCEPT !.collection = x] \in ClerkRows
  BY DEF ClerkRows
<1>7. ASSUME NEW x \in Papers \union {Nobody} PROVE [row EXCEPT !.paper = x] \in ClerkRows
  BY DEF ClerkRows
<1>8. ASSUME NEW x \in SUBSET CollectionIds PROVE [row EXCEPT !.plan = x] \in ClerkRows
  BY DEF ClerkRows
<1>9. QED BY <1>1, <1>2, <1>3, <1>4, <1>5, <1>6, <1>7, <1>8

\* The rows with which a request starts.
LEMMA StartedIsRow ==
    ASSUME NEW op \in Operations, NEW at \in ClerkPlaces
    PROVE  /\ \A email \in Emails :
                 /\ [IdleClerk EXCEPT !.op = op, !.at = at, !.email = email] \in ClerkRows
                 /\ \A role \in RoleCodes, seen \in SUBSET RoleCodes :
                       [IdleClerk EXCEPT !.op = op, !.at = at, !.email = email,
                                         !.role = role, !.seen = seen] \in ClerkRows
           /\ \A i \in CollectionIds :
                 /\ [IdleClerk EXCEPT !.op = op, !.at = at, !.collection = i] \in ClerkRows
                 /\ \A paper \in Papers \union {Nobody} :
                       [IdleClerk EXCEPT !.op = op, !.at = at, !.collection = i, !.paper = paper]
                          \in ClerkRows
                 /\ \A plan \in SUBSET CollectionIds :
                       [IdleClerk EXCEPT !.op = op, !.at = at, !.collection = i, !.plan = plan]
                          \in ClerkRows
<1>1. PICK r : r = [IdleClerk EXCEPT !.op = op]
  OBVIOUS
<1>2. PICK s : s = [r EXCEPT !.at = at]
  OBVIOUS
<1>3. r \in ClerkRows
  BY <1>1, IdleIsRow, FieldIsRow
<1>4. s \in ClerkRows
  BY <1>2, <1>3, FieldIsRow
<1>5. ASSUME NEW email \in Emails, NEW role \in RoleCodes, NEW seen \in SUBSET RoleCodes
      PROVE  /\ [IdleClerk EXCEPT !.op = op, !.at = at, !.email = email] \in ClerkRows
             /\ [IdleClerk EXCEPT !.op = op, !.at = at, !.email = email,
                                   !.role = role, !.seen = seen] \in ClerkRows
  <2>1. PICK t : t = [s EXCEPT !.email = email]
    OBVIOUS
  <2>2. PICK u : u = [t EXCEPT !.role = role]
    OBVIOUS
  <2>3. t \in ClerkRows
    BY <1>4, <2>1, FieldIsRow
  <2>4. u \in ClerkRows
    BY <2>2, <2>3, FieldIsRow
  <2>5. [u EXCEPT !.seen = seen] \in ClerkRows
    BY <2>4, FieldIsRow
  <2>6. [IdleClerk EXCEPT !.op = op, !.at = at, !.email = email] = t
    BY <1>1, <1>2, <2>1
  <2>7. [IdleClerk EXCEPT !.op = op, !.at = at, !.email = email, !.role = role, !.seen = seen]
           = [u EXCEPT !.seen = seen]
    BY <1>1, <1>2, <2>1, <2>2
  <2>8. QED BY <2>3, <2>5, <2>6, <2>7
<1>6. ASSUME NEW i \in CollectionIds, NEW paper \in Papers \union {Nobody},
             NEW plan \in SUBSET CollectionIds
      PROVE  /\ [IdleClerk EXCEPT !.op = op, !.at = at, !.collection = i] \in ClerkRows
             /\ [IdleClerk EXCEPT !.op = op, !.at = at, !.collection = i, !.paper = paper]
                   \in ClerkRows
             /\ [IdleClerk EXCEPT !.op = op, !.at = at, !.collection = i, !.plan = plan]
                   \in ClerkRows
  <2>1. PICK v : v = [s EXCEPT !.collection = i]
    OBVIOUS
  <2>2. v \in ClerkRows
    BY <1>4, <2>1, FieldIsRow
  <2>3. [v EXCEPT !.paper = paper] \in ClerkRows /\ [v EXCEPT !.plan = plan] \in ClerkRows
    BY <2>2, FieldIsRow
  <2>4. [IdleClerk EXCEPT !.op = op, !.at = at, !.collection = i] = v
    BY <1>1, <1>2, <2>1
  <2>5. [IdleClerk EXCEPT !.op = op, !.at = at, !.collection = i, !.paper = paper]
           = [v EXCEPT !.paper = paper]
    BY <1>1, <1>2, <2>1
  <2>6. [IdleClerk EXCEPT !.op = op, !.at = at, !.collection = i, !.plan = plan]
           = [v EXCEPT !.plan = plan]
    BY <1>1, <1>2, <2>1
  <2>7. QED BY <2>2, <2>3, <2>4, <2>5, <2>6
<1>7. UserRole \in RoleCodes
  BY AdministrationAssumption
<1>8. QED BY <1>5, <1>6, <1>7, Zenon

LEMMA StartMoves ==
    ASSUME ClerkTypes, NEW c \in Clerks, NEW row \in ClerkRows, clerk' = [clerk EXCEPT ![c] = row]
    PROVE  ClerkMoved(c) /\ clerk'[c] = row
  BY DEF ClerkTypes, ClerkMoved

LEMMA GotoMoves ==
    ASSUME ClerkTypes, NEW c \in Clerks, NEW place \in ClerkPlaces, Goto(c, place)
    PROVE  /\ ClerkMoved(c) /\ clerk'[c].at = place /\ clerk'[c].op = clerk[c].op
           /\ clerk'[c].email = clerk[c].email /\ clerk'[c].collection = clerk[c].collection
           /\ clerk'[c].plan = clerk[c].plan
<1> DEFINE row == [clerk[c] EXCEPT !.at = place]
<1>1. clerk[c] \in ClerkRows
  BY DEF ClerkTypes
<1>2. /\ row \in ClerkRows /\ row.at = place /\ row.op = clerk[c].op
      /\ row.email = clerk[c].email /\ row.collection = clerk[c].collection
      /\ row.plan = clerk[c].plan
  BY <1>1 DEF ClerkRows
<1>3. clerk' = [clerk EXCEPT ![c] = row]
  BY DEF Goto
<1> HIDE DEF row
<1>4. QED BY <1>2, <1>3, StartMoves

LEMMA DoneMoves ==
    ASSUME ClerkTypes, NEW c \in Clerks, Done(c) PROVE ClerkMoved(c) /\ clerk'[c].at = "idle"
<1>1. clerk' = [clerk EXCEPT ![c] = IdleClerk]
  BY DEF Done
<1>2. QED BY <1>1, IdleIsRow, StartMoves

LEMMA UnlockedKeeps ==
    ASSUME AccountTypes, NEW c \in Clerks, rowOwner' = Unlocked(c) PROVE RowsKept(c)
  BY DEF AccountTypes, Unlocked, RowsKept

LEMMA LockRowKeeps ==
    ASSUME AccountTypes, NEW c \in Clerks, NEW x, LockRow(c, x)
    PROVE  RowsKept(c) /\ (x \in Emails => rowOwner'[x] = c)
<1>1. /\ rowOwner' = [rowOwner EXCEPT ![x] = c] /\ rowOwner[x] = Nobody
      /\ rowOwner \in [Emails \union CollectionIds -> Clerks \union {Nobody}]
  BY DEF LockRow, AccountTypes
<1>2. ASSUME NEW y \in Emails, NEW d \in Clerks, rowOwner[y] = d PROVE rowOwner'[y] = d
  BY <1>1, <1>2, AdministrationAssumption
<1>3. QED BY <1>1, <1>2 DEF RowsKept

LEMMA UnchangedKeeps ==
    ASSUME NEW c \in Clerks
    PROVE  /\ AccountTypes /\ UNCHANGED rowOwner => RowsKept(c)
           /\ CatalogTypes /\ UNCHANGED catalogLock => CatalogKept(c)
  BY DEF AccountTypes, CatalogTypes, RowsKept, CatalogKept

----------------------------------------------------------------------------
(* Accounts *)

LEMMA AccountOthers ==
    ASSUME AccountsInv, NEW c \in Clerks, NEW d \in Clerks, d # c,
           ClerkMoved(c), RowsKept(c),
           \A e \in Emails : /\ users[e].exists => users'[e].exists
                             /\ users'[e].exists => users[e].exists \/ rowOwner[e] = c
    PROVE  AccountClerk(d)'
<1>1. AccountClerk(d) /\ clerk'[d] = clerk[d]
  BY DEF AccountsInv, ClerkMoved
<1> DEFINE at == clerk[d].at
           e == clerk[d].email
<1>2. at \in AccountPlaces => e \in Emails
  BY <1>1 DEF AccountClerk
<1>3. ASSUME at = "commit" PROVE rowOwner'[e] = d /\ ~users'[e].exists
  <2>1. e \in Emails /\ rowOwner[e] = d /\ ~users[e].exists
    BY <1>1, <1>3 DEF AccountClerk, AccountPlaces
  <2>2. QED BY <2>1 DEF RowsKept
<1>4. ASSUME at \in {"wait", "write"} PROVE users'[e].exists
  <2>1. e \in Emails /\ users[e].exists
    BY <1>1, <1>4 DEF AccountClerk, AccountPlaces
  <2>2. QED BY <2>1
<1>5. QED BY <1>1, <1>2, <1>3, <1>4 DEF AccountClerk

LEMMA AccountSound ==
    ASSUME AccountsInv, NEW c \in Clerks, ClerkMoved(c), RowsKept(c), AccountTypes',
           \A e \in Emails : /\ users[e].exists => users'[e].exists
                             /\ users'[e].exists => users[e].exists \/ rowOwner[e] = c,
           \A e \in Emails : Counted(e)', AccountClerk(c)'
    PROVE  AccountsInv'
  BY AccountOthers DEF AccountsInv

\* A step that touches no account.
LEMMA AccountQuiet ==
    ASSUME AccountsInv, NEW c \in Clerks, UNCHANGED <<users, roleLog>>, ClerkMoved(c), RowsKept(c),
           AccountClerk(c)'
    PROVE  AccountsInv'
<1>1. AccountTypes'
  BY DEF AccountsInv, AccountTypes, ClerkMoved, RowsKept
<1>2. \A e \in Emails : Counted(e)'
  BY DEF AccountsInv, Counted
<1>3. QED BY <1>1, <1>2, AccountSound

\* A step that leaves the accounts alone and ends outside their places.
LEMMA AccountAway ==
    ASSUME AccountsInv, NEW c \in Clerks, UNCHANGED <<users, roleLog>>, ClerkMoved(c), RowsKept(c),
           clerk'[c].at \notin AccountPlaces
    PROVE  AccountsInv'
<1>1. AccountClerk(c)'
  BY DEF AccountClerk, AccountPlaces
<1>2. QED BY <1>1, AccountQuiet

LEMMA UndoneAccounts ==
    ASSUME AccountsInv, NEW c \in Clerks, Undone(c) PROVE AccountsInv'
<1>1. AccountTypes /\ ClerkTypes
  BY DEF AccountsInv, AccountTypes
<1>2. Done(c) /\ rowOwner' = Unlocked(c) /\ UNCHANGED <<users, roleLog>>
  BY DEF Undone
<1>3. ClerkMoved(c) /\ RowsKept(c) /\ clerk'[c].at \notin AccountPlaces
  BY <1>1, <1>2, DoneMoves, UnlockedKeeps DEF AccountPlaces
<1>4. QED BY <1>2, <1>3, AccountAway

\* One more grant, or one more removal, in the log.
LEMMA LogChanged ==
    ASSUME AccountTypes, NEW e \in Emails, NEW r \in RoleCodes
    PROVE  /\ roleLog' = [roleLog EXCEPT ![e][r].granted = @ + 1] =>
                 /\ roleLog' \in [Emails -> [RoleCodes -> LogRows]]
                 /\ \A f \in Emails \ {e} : roleLog'[f] = roleLog[f]
                 /\ \A q \in RoleCodes \ {r} : roleLog'[e][q] = roleLog[e][q]
                 /\ roleLog'[e][r].granted = roleLog[e][r].granted + 1
                 /\ roleLog'[e][r].removed = roleLog[e][r].removed
           /\ roleLog' = [roleLog EXCEPT ![e][r].removed = @ + 1] =>
                 /\ roleLog' \in [Emails -> [RoleCodes -> LogRows]]
                 /\ \A f \in Emails \ {e} : roleLog'[f] = roleLog[f]
                 /\ \A q \in RoleCodes \ {r} : roleLog'[e][q] = roleLog[e][q]
                 /\ roleLog'[e][r].granted = roleLog[e][r].granted
                 /\ roleLog'[e][r].removed = roleLog[e][r].removed + 1
<1> DEFINE entry == roleLog[e][r]
           more == [entry EXCEPT !.granted = entry.granted + 1]
           less == [entry EXCEPT !.removed = entry.removed + 1]
<1>1. roleLog \in [Emails -> [RoleCodes -> LogRows]] /\ roleLog[e] \in [RoleCodes -> LogRows]
  BY DEF AccountTypes
<1>2. entry \in LogRows
  BY <1>1
<1>3. /\ more \in LogRows /\ more.granted = entry.granted + 1 /\ more.removed = entry.removed
      /\ less \in LogRows /\ less.granted = entry.granted /\ less.removed = entry.removed + 1
  BY <1>2 DEF LogRows
<1>4. /\ [roleLog EXCEPT ![e][r].granted = @ + 1] = [roleLog EXCEPT ![e] = [roleLog[e] EXCEPT ![r] = more]]
      /\ [roleLog EXCEPT ![e][r].removed = @ + 1] = [roleLog EXCEPT ![e] = [roleLog[e] EXCEPT ![r] = less]]
  OBVIOUS
<1>5. ASSUME NEW row \in LogRows, roleLog' = [roleLog EXCEPT ![e] = [roleLog[e] EXCEPT ![r] = row]]
      PROVE  /\ roleLog' \in [Emails -> [RoleCodes -> LogRows]]
             /\ \A f \in Emails \ {e} : roleLog'[f] = roleLog[f]
             /\ \A q \in RoleCodes \ {r} : roleLog'[e][q] = roleLog[e][q]
             /\ roleLog'[e][r] = row
  <2>1. PICK log : log = [roleLog[e] EXCEPT ![r] = row]
    OBVIOUS
  <2>2. log \in [RoleCodes -> LogRows] /\ log[r] = row /\ \A q \in RoleCodes \ {r} : log[q] = roleLog[e][q]
    BY <1>1, <1>5, <2>1
  <2>3. roleLog' = [roleLog EXCEPT ![e] = log]
    BY <1>5, <2>1
  <2>4. QED BY <1>1, <2>2, <2>3
<1> HIDE DEF more, less
<1>6. QED BY <1>3, <1>4, <1>5

LEMMA SignupSound ==
    ASSUME AccountsInv, NEW c \in Clerks,
           \/ \E e \in Emails : Signup(c, e)
           \/ CreateUser(c) \/ InsertUser(c) \/ CommitCreate(c)
    PROVE  AccountsInv'
<1>1. AccountTypes /\ ClerkTypes /\ AccountClerk(c) /\ clerk[c] \in ClerkRows
  BY DEF AccountsInv, AccountTypes, ClerkTypes
<1>2. ASSUME NEW e \in Emails, Signup(c, e) PROVE AccountsInv'
  <2> DEFINE row == [IdleClerk EXCEPT !.op = "signup", !.at = "create", !.email = e]
  <2>0. row \in ClerkRows
    <3>1. "signup" \in Operations /\ "create" \in ClerkPlaces
      BY DEF Operations, ClerkPlaces
    <3>2. QED BY <3>1, StartedIsRow, Zenon
  <2>1. row \in ClerkRows /\ row.at = "create" /\ row.email = e
    BY <2>0 DEF IdleClerk
  <2>2. clerk' = [clerk EXCEPT ![c] = row] /\ UNCHANGED <<users, roleLog, rowOwner>>
    BY <1>2, Zenon DEF Signup, AccountsKept
  <2> HIDE DEF row
  <2>3. ClerkMoved(c) /\ RowsKept(c) /\ clerk'[c] = row
    BY <1>1, <2>1, <2>2, StartMoves, UnchangedKeeps
  <2>4. AccountClerk(c)'
    BY <2>1, <2>3 DEF AccountClerk
  <2>5. QED BY <2>2, <2>3, <2>4, AccountQuiet
<1>3. CASE CreateUser(c)
  <2>1. CASE Undone(c)
    BY <2>1, UndoneAccounts
  <2>2. CASE Goto(c, "insert") /\ UNCHANGED rowOwner /\ AccountsKept
    <3>0. "insert" \in ClerkPlaces /\ Goto(c, "insert") /\ UNCHANGED <<users, roleLog, rowOwner>>
      BY <2>2 DEF AccountsKept, ClerkPlaces
    <3>1. /\ ClerkMoved(c) /\ RowsKept(c) /\ clerk'[c].at = "insert" /\ clerk'[c].email = clerk[c].email
          /\ UNCHANGED <<users, roleLog>>
      BY <1>1, <3>0, GotoMoves, UnchangedKeeps
    <3>2. clerk[c].email \in Emails
      BY <1>1, <1>3 DEF CreateUser, At, AccountClerk, AccountPlaces
    <3>3. AccountClerk(c)'
      BY <3>1, <3>2 DEF AccountClerk
    <3>4. QED BY <3>1, <3>3, AccountQuiet
  <2>3. QED BY <1>3, <2>1, <2>2 DEF CreateUser
<1>4. CASE InsertUser(c)
  <2> DEFINE e == clerk[c].email
  <2>1. CASE Undone(c)
    BY <2>1, UndoneAccounts
  <2>2. CASE InsertedUser(e) /\ LockRow(c, e) /\ Goto(c, "commit") /\ AccountsKept
    <3>1. e \in Emails
      BY <1>1, <1>4 DEF InsertUser, At, AccountClerk, AccountPlaces
    <3>2. /\ ClerkMoved(c) /\ RowsKept(c) /\ clerk'[c].at = "commit" /\ clerk'[c].email = e
          /\ rowOwner'[e] = c /\ UNCHANGED <<users, roleLog>> /\ ~users[e].exists
      <4>1. "commit" \in ClerkPlaces /\ Goto(c, "commit") /\ LockRow(c, e)
        BY <2>2 DEF ClerkPlaces
      <4>2. UNCHANGED <<users, roleLog>> /\ ~users[e].exists
        BY <2>2 DEF AccountsKept, InsertedUser
      <4>3. ClerkMoved(c) /\ clerk'[c].at = "commit" /\ clerk'[c].email = e
        BY <1>1, <4>1, GotoMoves
      <4>4. RowsKept(c) /\ rowOwner'[e] = c
        BY <1>1, <3>1, <4>1, LockRowKeeps
      <4>5. QED BY <4>2, <4>3, <4>4
    <3>3. AccountClerk(c)'
      BY <3>1, <3>2 DEF AccountClerk
    <3>4. QED BY <3>2, <3>3, AccountQuiet
  <2>3. QED BY <1>4, <2>1, <2>2 DEF InsertUser
<1>5. CASE CommitCreate(c)
  <2>0. PICK e : e = clerk[c].email
    OBVIOUS
  <2> DEFINE account == [exists |-> TRUE, roles |-> {UserRole}, status |-> "ACTIVE"]
  <2>1. e \in Emails /\ rowOwner[e] = c /\ ~users[e].exists
    BY <1>1, <1>5, <2>0 DEF CommitCreate, At, AccountClerk, AccountPlaces
  <2>2. /\ users' = [users EXCEPT ![e] = account]
        /\ roleLog' = [roleLog EXCEPT ![e][UserRole].granted = @ + 1]
        /\ Done(c) /\ rowOwner' = Unlocked(c)
    BY <1>5, <2>0 DEF CommitCreate
  <2>3. account \in AccountRows /\ account.exists /\ account.roles = {UserRole} /\ UserRole \in RoleCodes
    BY AdministrationAssumption DEF AccountRows
  <2> HIDE DEF account
  <2>4. /\ users' \in [Emails -> AccountRows] /\ users'[e] = account
        /\ \A f \in Emails \ {e} : users'[f] = users[f]
    BY <1>1, <2>1, <2>2, <2>3 DEF AccountTypes
  <2>5. ClerkMoved(c) /\ RowsKept(c) /\ clerk'[c].at \notin AccountPlaces
    BY <1>1, <2>2, DoneMoves, UnlockedKeeps DEF AccountPlaces
  <2>6. AccountClerk(c)'
    BY <2>5 DEF AccountClerk, AccountPlaces
  <2>7. /\ roleLog' \in [Emails -> [RoleCodes -> LogRows]]
        /\ \A f \in Emails \ {e} : roleLog'[f] = roleLog[f]
        /\ \A q \in RoleCodes \ {UserRole} : roleLog'[e][q] = roleLog[e][q]
        /\ roleLog'[e][UserRole].granted = roleLog[e][UserRole].granted + 1
        /\ roleLog'[e][UserRole].removed = roleLog[e][UserRole].removed
    BY <1>1, <2>1, <2>2, <2>3, LogChanged, Zenon
  <2>8. Counted(e) /\ \A r \in RoleCodes : roleLog[e][r].granted = 0 /\ roleLog[e][r].removed = 0
    <3>1. Counted(e) /\ \A r \in RoleCodes : roleLog[e][r] \in LogRows
      BY <1>1, <2>1 DEF AccountsInv, AccountTypes
    <3>2. QED BY <2>1, <3>1 DEF Counted, LogRows
  <2>9. Counted(e)'
    BY <2>3, <2>4, <2>7, <2>8 DEF Counted
  <2>10. ASSUME NEW f \in Emails, f # e PROVE Counted(f)'
    BY <2>4, <2>7, <2>10 DEF AccountsInv, Counted
  <2>11. AccountTypes'
    BY <2>4, <2>5, <2>7 DEF AccountTypes, ClerkMoved, RowsKept
  <2>12. \A f \in Emails : /\ users[f].exists => users'[f].exists
                           /\ users'[f].exists => users[f].exists \/ rowOwner[f] = c
    BY <2>1, <2>3, <2>4
  <2>13. QED BY <2>5, <2>6, <2>9, <2>10, <2>11, <2>12, AccountSound
<1>6. QED BY <1>2, <1>3, <1>4, <1>5

\* The row of an account that is there is waited for.
LEMMA RequireSound ==
    ASSUME AccountsInv, NEW c \in Clerks, NEW e \in Emails, NEW op \in Operations, NEW r \in RoleCodes,
           RequireUser(c, op, e, r)
    PROVE  AccountsInv'
<1>1. AccountTypes /\ ClerkTypes /\ users[e].roles \in SUBSET RoleCodes
  BY DEF AccountsInv, AccountTypes, AccountRows
<1> DEFINE row == [IdleClerk EXCEPT !.op = op, !.at = "wait", !.email = e, !.role = r,
                                    !.seen = users[e].roles]
<1>2. row \in ClerkRows /\ row.at = "wait" /\ row.email = e
  <2>1. row \in ClerkRows
    <3>1. "wait" \in ClerkPlaces
      BY DEF ClerkPlaces
    <3>2. QED BY <1>1, <3>1, StartedIsRow, Zenon
  <2>2. QED BY <2>1 DEF IdleClerk
<1>3. /\ clerk' = [clerk EXCEPT ![c] = row] /\ UNCHANGED <<users, roleLog, rowOwner>>
      /\ users[e].exists
  BY DEF RequireUser, AccountsKept
<1> HIDE DEF row
<1>4. ClerkMoved(c) /\ RowsKept(c) /\ clerk'[c] = row
  BY <1>1, <1>2, <1>3, StartMoves, UnchangedKeeps
<1>5. AccountClerk(c)'
  BY <1>2, <1>3, <1>4 DEF AccountClerk
<1>6. QED BY <1>3, <1>4, <1>5, AccountQuiet

LEMMA RequireSteps ==
    ASSUME NEW c \in Clerks, NEW e \in Emails,
           \/ SetStatus(c, e) \/ Login(c, e)
           \/ \E r \in RoleCodes : AssignRole(c, e, r) \/ RemoveRole(c, e, r)
    PROVE  \E op \in Operations, r \in RoleCodes : RequireUser(c, op, e, r)
<1>1. /\ UserRole \in RoleCodes
      /\ "set_status" \in Operations /\ "record_login" \in Operations
      /\ "assign_role" \in Operations /\ "remove_role" \in Operations
  BY AdministrationAssumption DEF Operations
<1>2. CASE SetStatus(c, e)
  BY <1>1, <1>2, Zenon DEF SetStatus
<1>3. CASE Login(c, e)
  BY <1>1, <1>3, Zenon DEF Login
<1>4. ASSUME NEW r \in RoleCodes, AssignRole(c, e, r)
      PROVE  \E op \in Operations : RequireUser(c, op, e, r)
  BY <1>1, <1>4, Zenon DEF AssignRole
<1>5. ASSUME NEW r \in RoleCodes, RemoveRole(c, e, r)
      PROVE  \E op \in Operations : RequireUser(c, op, e, r)
  BY <1>1, <1>5, Zenon DEF RemoveRole
<1>6. QED BY <1>2, <1>3, <1>4, <1>5

LEMMA RoleSound ==
    ASSUME AccountsInv, NEW c \in Clerks, UserLocked(c) \/ WriteRole(c) \/ UpdateUser(c)
    PROVE  AccountsInv'
<1>0. PICK e, r : e = clerk[c].email /\ r = clerk[c].role
  OBVIOUS
<1>1. AccountTypes /\ ClerkTypes /\ AccountClerk(c) /\ r \in RoleCodes
  BY <1>0 DEF AccountsInv, AccountTypes, ClerkTypes, ClerkRows
<1>2. e \in Emails /\ users[e].exists
  BY <1>0, <1>1, Zenon DEF UserLocked, WriteRole, UpdateUser, AccountClerk, AccountPlaces
<1>3. users[e] \in AccountRows /\ users \in [Emails -> AccountRows] /\ Counted(e)
  BY <1>1, <1>2 DEF AccountTypes, AccountsInv
<1>4. CASE UserLocked(c)
  <2>1. LockRow(c, e) /\ Goto(c, "write") /\ UNCHANGED <<users, roleLog>>
    BY <1>0, <1>4 DEF UserLocked, AccountsKept
  <2>2. ClerkMoved(c) /\ RowsKept(c) /\ clerk'[c].at = "write" /\ clerk'[c].email = e
    <3>1. "write" \in ClerkPlaces
      BY DEF ClerkPlaces
    <3>2. ClerkMoved(c) /\ clerk'[c].at = "write" /\ clerk'[c].email = e
      BY <1>0, <1>1, <2>1, <3>1, GotoMoves
    <3>3. RowsKept(c)
      BY <1>1, <2>1, LockRowKeeps
    <3>4. QED BY <3>2, <3>3
  <2>3. AccountClerk(c)'
    BY <1>0, <1>2, <2>1, <2>2 DEF AccountClerk
  <2>4. QED BY <2>1, <2>2, <2>3, AccountQuiet
\* A transaction of this clerk commits one account.
<1>5. ASSUME NEW account \in AccountRows, users' = [users EXCEPT ![e] = account], account.exists,
             Done(c), rowOwner' = Unlocked(c), Counted(e)',
             roleLog' \in [Emails -> [RoleCodes -> LogRows]],
             \A f \in Emails \ {e} : roleLog'[f] = roleLog[f]
      PROVE  AccountsInv'
  <2>1. ClerkMoved(c) /\ RowsKept(c) /\ clerk'[c].at \notin AccountPlaces
    BY <1>1, <1>5, DoneMoves, UnlockedKeeps DEF AccountPlaces
  <2>2. /\ users' \in [Emails -> AccountRows] /\ users'[e] = account
        /\ \A f \in Emails \ {e} : users'[f] = users[f]
    BY <1>2, <1>3, <1>5
  <2>3. AccountClerk(c)'
    BY <2>1 DEF AccountClerk, AccountPlaces
  <2>4. AccountTypes'
    BY <1>5, <2>1, <2>2 DEF AccountTypes, ClerkMoved, RowsKept
  <2>5. ASSUME NEW f \in Emails PROVE Counted(f)'
    <3>1. CASE f # e
      BY <1>5, <2>2, <3>1 DEF AccountsInv, Counted
    <3>2. QED BY <1>5, <3>1
  <2>6. \A f \in Emails : /\ users[f].exists => users'[f].exists
                          /\ users'[f].exists => users[f].exists \/ rowOwner[f] = c
    BY <1>2, <1>5, <2>2
  <2>7. QED BY <2>1, <2>3, <2>4, <2>5, <2>6, AccountSound
<1>6. CASE WriteRole(c)
  <2>1. CASE Undone(c)
    BY <2>1, UndoneAccounts
  <2>2. CASE /\ RoleInserted(c) /\ users' = [users EXCEPT ![e].roles = @ \union {r}]
             /\ roleLog' = [roleLog EXCEPT ![e][r].granted = @ + 1]
             /\ Done(c) /\ rowOwner' = Unlocked(c)
    <3> DEFINE more == users[e].roles \union {r}
               account == [users[e] EXCEPT !.roles = more]
    <3>1. account \in AccountRows /\ account.exists = users[e].exists /\ account.roles = more
      BY <1>1, <1>3 DEF AccountRows
    <3>2. users' = [users EXCEPT ![e] = account] /\ r \notin users[e].roles
      BY <1>0, <1>2, <1>3, <2>2 DEF RoleInserted
    <3> HIDE DEF account
    <3>3. users'[e] = account
      BY <1>2, <1>3, <3>2
    <3>4. roleLog[e][r] \in LogRows /\ \A q \in RoleCodes : roleLog[e][q] \in LogRows
      BY <1>1, <1>2 DEF AccountTypes
    <3>5. /\ roleLog' \in [Emails -> [RoleCodes -> LogRows]]
          /\ \A f \in Emails \ {e} : roleLog'[f] = roleLog[f]
          /\ \A q \in RoleCodes \ {r} : roleLog'[e][q] = roleLog[e][q]
          /\ roleLog'[e][r].granted = roleLog[e][r].granted + 1
          /\ roleLog'[e][r].removed = roleLog[e][r].removed
      BY <1>1, <1>2, <2>2, LogChanged, Zenon
    <3>6. \A q \in RoleCodes : roleLog'[e][q].granted =
             roleLog'[e][q].removed + (IF q \in more THEN 1 ELSE 0)
      BY <1>3, <3>2, <3>4, <3>5 DEF Counted, LogRows
    <3>7. Counted(e)'
      BY <1>2, <3>1, <3>3, <3>6 DEF Counted
    <3>8. QED BY <1>2, <1>5, <2>2, <3>1, <3>2, <3>5, <3>7
  <2>3. CASE /\ RoleDeleted(c) /\ users' = [users EXCEPT ![e].roles = @ \ {r}]
             /\ roleLog' = [roleLog EXCEPT ![e][r].removed = @ + 1]
             /\ Done(c) /\ rowOwner' = Unlocked(c)
    <3> DEFINE less == users[e].roles \ {r}
               account == [users[e] EXCEPT !.roles = less]
    <3>1. account \in AccountRows /\ account.exists = users[e].exists /\ account.roles = less
      BY <1>1, <1>3 DEF AccountRows
    <3>2. users' = [users EXCEPT ![e] = account] /\ r \in users[e].roles
      BY <1>0, <1>2, <1>3, <2>3 DEF RoleDeleted
    <3> HIDE DEF account
    <3>3. users'[e] = account
      BY <1>2, <1>3, <3>2
    <3>4. roleLog[e][r] \in LogRows /\ \A q \in RoleCodes : roleLog[e][q] \in LogRows
      BY <1>1, <1>2 DEF AccountTypes
    <3>5. /\ roleLog' \in [Emails -> [RoleCodes -> LogRows]]
          /\ \A f \in Emails \ {e} : roleLog'[f] = roleLog[f]
          /\ \A q \in RoleCodes \ {r} : roleLog'[e][q] = roleLog[e][q]
          /\ roleLog'[e][r].granted = roleLog[e][r].granted
          /\ roleLog'[e][r].removed = roleLog[e][r].removed + 1
      BY <1>1, <1>2, <2>3, LogChanged
    <3>6. \A q \in RoleCodes : roleLog'[e][q].granted =
             roleLog'[e][q].removed + (IF q \in less THEN 1 ELSE 0)
      BY <1>3, <3>2, <3>4, <3>5 DEF Counted, LogRows
    <3>7. Counted(e)'
      BY <1>2, <3>1, <3>3, <3>6 DEF Counted
    <3>8. QED BY <1>2, <1>5, <2>3, <3>1, <3>2, <3>5, <3>7
  <2>4. QED BY <1>0, <1>6, <2>1, <2>2, <2>3, Zenon DEF WriteRole
<1>7. CASE UpdateUser(c)
  <2>1. Done(c) /\ rowOwner' = Unlocked(c) /\ UNCHANGED roleLog
    BY <1>7 DEF UpdateUser
  <2>2. roleLog' \in [Emails -> [RoleCodes -> LogRows]]
    BY <1>1, <2>1 DEF AccountTypes
  <2>3. PICK account \in AccountRows :
           /\ users' = [users EXCEPT ![e] = account]
           /\ account.exists = users[e].exists /\ account.roles = users[e].roles
    <3>1. CASE UNCHANGED users
      BY <1>2, <1>3, <3>1
    <3>2. ASSUME NEW s \in {"ACTIVE", "INACTIVE"}, users' = [users EXCEPT ![e].status = s]
          PROVE  LET account == [users[e] EXCEPT !.status = s]
                 IN  /\ account \in AccountRows /\ users' = [users EXCEPT ![e] = account]
                     /\ account.exists = users[e].exists /\ account.roles = users[e].roles
      BY <1>2, <1>3, <3>2 DEF AccountRows
    <3>3. QED BY <1>0, <1>7, <3>1, <3>2 DEF UpdateUser
  <2>4. users'[e] = account
    BY <1>2, <1>3, <2>3
  <2>5. Counted(e)'
    BY <1>2, <1>3, <2>1, <2>3, <2>4 DEF Counted
  <2>6. QED BY <1>2, <1>5, <2>1, <2>2, <2>3, <2>5
<1>8. QED BY <1>4, <1>6, <1>7

----------------------------------------------------------------------------
(* Collections *)

\* The clerks are threads of one process.
OneProcess == \A c, d \in Clerks : ProcessOf[c] = ProcessOf[d]

\* While one works at the collections no other one does.
LEMMA OneHolds ==
    ASSUME OneProcess, CatalogInv, NEW c \in Clerks, NEW d \in Clerks, d # c,
           catalogLock[ProcessOf[c]] \in {Nobody, c}
    PROVE  clerk[d].at \notin HeldPlaces
<1>1. ProcessOf[d] = ProcessOf[c]
  BY DEF OneProcess
<1>2. CatalogClerk(d) /\ d # Nobody
  BY AdministrationAssumption DEF CatalogInv
<1>3. QED BY <1>1, <1>2 DEF CatalogClerk

LEMMA CatalogSound ==
    ASSUME CatalogInv, NEW c \in Clerks, ClerkMoved(c), CatalogKept(c), CatalogTypes',
           CascadeComplete', CatalogClerk(c)',
           UNCHANGED catalog \/ \A d \in Clerks \ {c} : clerk[d].at \notin HeldPlaces
    PROVE  CatalogInv'
<1>1. ASSUME NEW d \in Clerks, d # c PROVE CatalogClerk(d)'
  <2>1. CatalogClerk(d) /\ clerk'[d] = clerk[d] /\ ProcessOf[d] \in Clerks
    BY <1>1, AdministrationAssumption DEF CatalogInv, ClerkMoved
  <2>2. clerk[d].at \in HeldPlaces => catalogLock'[ProcessOf[d]] = d
    BY <1>1, <2>1 DEF CatalogClerk, CatalogKept
  <2>3. CASE UNCHANGED catalog
    BY <2>1, <2>2, <2>3 DEF CatalogClerk, HasChildren, ActiveCollection
  <2>4. CASE clerk[d].at \notin HeldPlaces
    BY <2>1, <2>4 DEF CatalogClerk
  <2>5. QED BY <1>1, <2>3, <2>4
<1>2. QED BY <1>1 DEF CatalogInv

\* A step that leaves the collections as they are.
LEMMA CatalogQuiet ==
    ASSUME CatalogInv, NEW c \in Clerks, UNCHANGED <<catalog, contents>>, ClerkMoved(c), CatalogKept(c),
           CatalogClerk(c)'
    PROVE  CatalogInv'
<1>1. CatalogTypes'
  BY DEF CatalogInv, CatalogTypes, ClerkMoved, CatalogKept
<1>2. CascadeComplete'
  BY DEF CatalogInv, CascadeComplete, ActiveCollection
<1>3. QED BY <1>1, <1>2, CatalogSound

\* A step of an account, or the end of a transaction.
LEMMA CatalogAway ==
    ASSUME CatalogInv, NEW c \in Clerks, UNCHANGED <<catalog, contents>>, ClerkMoved(c), CatalogKept(c),
           clerk'[c].at \notin HeldPlaces \union {"enter"}
    PROVE  CatalogInv'
<1>1. CatalogClerk(c)'
  BY DEF CatalogClerk
<1>2. QED BY <1>1, CatalogQuiet

LEMMA UndoneCatalog ==
    ASSUME CatalogInv, NEW c \in Clerks, Undone(c) PROVE CatalogInv'
<1>1. CatalogTypes /\ ClerkTypes /\ Done(c) /\ UNCHANGED <<catalog, contents>>
  BY DEF CatalogInv, CatalogTypes, Undone
<1>2. CatalogKept(c)
  BY <1>1 DEF Undone, CatalogKept, CatalogTypes
<1>3. ClerkMoved(c) /\ clerk'[c].at \notin HeldPlaces \union {"enter"}
  BY <1>1, DoneMoves DEF HeldPlaces
<1>4. QED BY <1>1, <1>2, <1>3, CatalogAway

LEMMA TakenKeeps ==
    ASSUME CatalogInv, NEW c \in Clerks, CatalogFree(c), catalogLock' = Taken(c)
    PROVE  CatalogKept(c) /\ catalogLock'[ProcessOf[c]] = c
  BY AdministrationAssumption DEF CatalogInv, CatalogTypes, CatalogFree, Taken, CatalogKept

LEMMA ReleasedKeeps ==
    ASSUME CatalogInv, NEW c \in Clerks, clerk[c].at \in HeldPlaces, catalogLock' = Released(c)
    PROVE  CatalogKept(c)
  BY AdministrationAssumption DEF CatalogInv, CatalogTypes, CatalogClerk, Released, CatalogKept

\* The steps that lead to the row of a collection.
LEMMA ProposeMoves ==
    ASSUME ClerkTypes, NEW c \in Clerks, NEW op \in Operations, NEW i \in CollectionIds,
           NEW d \in Papers \union {Nobody}, Propose(c, op, i, d)
    PROVE  /\ ClerkMoved(c) /\ clerk'[c].at = "enter" /\ clerk'[c].collection = i /\ clerk'[c].op = op
           /\ UNCHANGED <<catalog, contents, catalogLock, users, roleLog, rowOwner>>
<1> DEFINE row == [IdleClerk EXCEPT !.op = op, !.at = "enter", !.collection = i, !.paper = d]
<1>1. row \in ClerkRows /\ row.at = "enter" /\ row.collection = i /\ row.op = op
  <2>1. row \in ClerkRows
    <3>1. "enter" \in ClerkPlaces
      BY DEF ClerkPlaces
    <3>2. QED BY <3>1, StartedIsRow, Zenon
  <2>2. QED BY <2>1 DEF IdleClerk
<1>2. /\ clerk' = [clerk EXCEPT ![c] = row]
      /\ UNCHANGED <<catalog, contents, catalogLock, users, roleLog, rowOwner>>
  BY DEF Propose, AccountsKept, CollectionsKept
<1> HIDE DEF row
<1>3. ClerkMoved(c) /\ clerk'[c] = row
  BY <1>1, <1>2, StartMoves
<1>4. QED BY <1>1, <1>2, <1>3

LEMMA ProposeSteps ==
    ASSUME NEW c \in Clerks, NEW i \in CollectionIds,
           \/ Create(c, i) \/ \E d \in Papers : AddDocument(c, i, d) \/ RemoveDocument(c, i, d)
    PROVE  \E op \in Operations \ {"delete"}, d \in Papers \union {Nobody} : Propose(c, op, i, d)
<1>1. /\ "create" \in Operations \ {"delete"} /\ "add" \in Operations \ {"delete"}
      /\ "remove" \in Operations \ {"delete"}
  BY DEF Operations
<1>2. CASE Create(c, i)
  BY <1>1, <1>2, Zenon DEF Create
<1>3. ASSUME NEW d \in Papers, AddDocument(c, i, d) \/ RemoveDocument(c, i, d)
      PROVE  \E op \in Operations \ {"delete"} : Propose(c, op, i, d)
  BY <1>1, <1>3, Zenon DEF AddDocument, RemoveDocument
<1>4. QED BY <1>2, <1>3

LEMMA ReserveMoves ==
    ASSUME ClerkTypes, NEW c \in Clerks, NEW i \in CollectionIds,
           ChangeVisibility(c, i) \/ DeleteTree(c, i)
    PROVE  /\ ClerkMoved(c) /\ clerk'[c].at = "lock" /\ clerk'[c].collection = i
           /\ clerk'[c].op = "delete" => HasChildren(clerk[c].plan)'
           /\ CatalogFree(c) /\ catalogLock' = Taken(c)
           /\ UNCHANGED <<catalog, contents, users, roleLog, rowOwner>>
<1>1. /\ UNCHANGED <<catalog, contents, users, roleLog, rowOwner>>
      /\ CatalogFree(c) /\ catalogLock' = Taken(c)
  BY DEF ChangeVisibility, DeleteTree, AccountsKept
<1>2. CASE ChangeVisibility(c, i)
  <2> DEFINE row == [IdleClerk EXCEPT !.op = "visibility", !.at = "lock", !.collection = i]
  <2>1. row \in ClerkRows /\ row.at = "lock" /\ row.collection = i /\ row.op = "visibility"
    <3>1. row \in ClerkRows
      <4>1. "visibility" \in Operations /\ "lock" \in ClerkPlaces
        BY DEF Operations, ClerkPlaces
      <4>2. QED BY <4>1, StartedIsRow, Zenon
    <3>2. QED BY <3>1 DEF IdleClerk
  <2>2. clerk' = [clerk EXCEPT ![c] = row]
    BY <1>2 DEF ChangeVisibility
  <2> HIDE DEF row
  <2>3. ClerkMoved(c) /\ clerk'[c] = row
    BY <2>1, <2>2, StartMoves
  <2>4. QED BY <1>1, <2>1, <2>3
<1>3. CASE DeleteTree(c, i)
  <2>1. PICK tree : tree = Descendants(i)
    OBVIOUS
  <2>2. tree \in SUBSET CollectionIds /\ HasChildren(tree)
    BY <2>1 DEF Descendants, HasChildren
  <2> DEFINE row == [IdleClerk EXCEPT !.op = "delete", !.at = "lock", !.collection = i, !.plan = tree]
  <2>3. row \in ClerkRows /\ row.at = "lock" /\ row.collection = i /\ row.plan = tree
    <3>1. row \in ClerkRows
      <4>1. "delete" \in Operations /\ "lock" \in ClerkPlaces
        BY DEF Operations, ClerkPlaces
      <4>2. QED BY <2>2, <4>1, StartedIsRow, Zenon
    <3>2. QED BY <3>1 DEF IdleClerk
  <2>4. clerk' = [clerk EXCEPT ![c] = row]
    BY <1>3, <2>1 DEF DeleteTree
  <2> HIDE DEF row
  <2>5. ClerkMoved(c) /\ clerk'[c] = row
    BY <2>3, <2>4, StartMoves
  <2>6. HasChildren(clerk[c].plan)'
    BY <1>1, <2>2, <2>3, <2>5 DEF HasChildren, ActiveCollection
  <2>7. QED BY <1>1, <2>3, <2>5, <2>6
<1>4. QED BY <1>2, <1>3

LEMMA EnterMoves ==
    ASSUME ClerkTypes, NEW c \in Clerks, Enter(c) \/ LockCollections(c) \/ LockPlan(c)
    PROVE  /\ ClerkMoved(c) /\ clerk'[c].op = clerk[c].op /\ clerk'[c].collection = clerk[c].collection
           /\ clerk'[c].plan = clerk[c].plan /\ clerk'[c].at \in HeldPlaces
           /\ clerk[c].at \in HeldPlaces \union {"enter"}
<1>1. CASE Enter(c) \/ LockCollections(c)
  <2>1. PICK place \in {"lock", "change"} : Goto(c, place)
    BY <1>1 DEF Enter, LockCollections
  <2>2. place \in ClerkPlaces /\ place \in HeldPlaces /\ clerk[c].at \in HeldPlaces \union {"enter"}
    BY <1>1, <2>1 DEF Enter, LockCollections, HeldPlaces, ClerkPlaces
  <2>3. QED BY <2>1, <2>2, GotoMoves
<1>2. CASE LockPlan(c) /\ Goto(c, "apply")
  <2>1. PICK place : place = "apply"
    OBVIOUS
  <2>2. place \in ClerkPlaces /\ place \in HeldPlaces /\ clerk[c].at \in HeldPlaces
    BY <1>2, <2>1 DEF LockPlan, At, HeldPlaces, ClerkPlaces
  <2>3. Goto(c, place)
    BY <1>2, <2>1
  <2>4. QED BY <2>2, <2>3, GotoMoves
<1>3. ASSUME LockPlan(c), NEW i \in clerk[c].plan \ clerk[c].locked,
             clerk' = [clerk EXCEPT ![c].locked = @ \union {i}]
      PROVE  /\ ClerkMoved(c) /\ clerk'[c].op = clerk[c].op
             /\ clerk'[c].collection = clerk[c].collection
             /\ clerk'[c].plan = clerk[c].plan /\ clerk'[c].at = clerk[c].at
             /\ clerk[c].at \in HeldPlaces
  <2> DEFINE more == clerk[c].locked \union {i}
             row == [clerk[c] EXCEPT !.locked = more]
  <2>1. clerk[c] \in ClerkRows /\ clerk[c].at = "lock"
    BY <1>3 DEF ClerkTypes, LockPlan, At
  <2>2. more \in SUBSET CollectionIds
    BY <1>3, <2>1 DEF ClerkRows
  <2>3. clerk' = [clerk EXCEPT ![c] = row]
    BY <1>3
  <2> HIDE DEF more
  <2>4. /\ row \in ClerkRows /\ row.op = clerk[c].op /\ row.collection = clerk[c].collection
        /\ row.plan = clerk[c].plan /\ row.at = clerk[c].at
    BY <2>1, <2>2 DEF ClerkRows
  <2> HIDE DEF row
  <2>5. ClerkMoved(c) /\ clerk'[c] = row
    BY <2>3, <2>4, StartMoves
  <2>6. QED BY <2>1, <2>4, <2>5 DEF HeldPlaces
<1>4. QED BY <1>1, <1>2, <1>3 DEF LockPlan

\* The collections leave the accounts alone, in however many processes.
LEMMA CollectionsKeepAccounts ==
    ASSUME AccountsInv, CollectionStep PROVE AccountsInv'
<1>1. AccountTypes /\ ClerkTypes
  BY DEF AccountsInv, AccountTypes
<1>2. PICK c \in Clerks :
         \/ \E i \in CollectionIds : \/ Create(c, i) \/ ChangeVisibility(c, i) \/ DeleteTree(c, i)
                                     \/ \E d \in Papers : AddDocument(c, i, d) \/ RemoveDocument(c, i, d)
         \/ CreateRoot(c) \/ Enter(c) \/ LockCollections(c) \/ ChangeCatalog(c)
         \/ LockPlan(c) \/ ApplyPlan(c)
  BY DEF CollectionStep
<1>3. ASSUME ClerkMoved(c), UNCHANGED <<users, roleLog>>, clerk'[c].at \in HeldPlaces \union {"enter", "idle"},
             UNCHANGED rowOwner \/ rowOwner' = Unlocked(c) \/ \E x : LockRow(c, x)
      PROVE  AccountsInv'
  <2>1. RowsKept(c)
    BY <1>1, <1>3, UnchangedKeeps, UnlockedKeeps, LockRowKeeps
  <2>2. QED BY <1>3, <2>1, AccountAway DEF HeldPlaces, AccountPlaces
<1>4. ASSUME NEW op \in Operations, NEW i \in CollectionIds, NEW d \in Papers \union {Nobody},
             Propose(c, op, i, d)
      PROVE  AccountsInv'
  BY <1>1, <1>3, <1>4, ProposeMoves
<1>5. ASSUME NEW i \in CollectionIds,
             \/ Create(c, i) \/ \E d \in Papers : AddDocument(c, i, d) \/ RemoveDocument(c, i, d)
      PROVE  AccountsInv'
  BY <1>4, <1>5, ProposeSteps
<1>6. ASSUME NEW i \in CollectionIds, ChangeVisibility(c, i) \/ DeleteTree(c, i) PROVE AccountsInv'
  BY <1>1, <1>3, <1>6, ReserveMoves DEF HeldPlaces
<1>7. CASE Enter(c) \/ LockCollections(c) \/ LockPlan(c)
  <2>1. /\ UNCHANGED <<users, roleLog>>
        /\ UNCHANGED rowOwner \/ \E x : LockRow(c, x)
    BY <1>7 DEF Enter, LockCollections, LockPlan, AccountsKept
  <2>2. QED BY <1>1, <1>3, <1>7, <2>1, EnterMoves
<1>8. CASE ChangeCatalog(c) \/ ApplyPlan(c)
  <2>1. Done(c) /\ rowOwner' = Unlocked(c) /\ UNCHANGED <<users, roleLog>>
    BY <1>8 DEF ChangeCatalog, ApplyPlan, AccountsKept
  <2>2. QED BY <1>1, <1>3, <2>1, DoneMoves
<1>9. CASE CreateRoot(c)
  <2>1. UNCHANGED <<clerk, rowOwner, users, roleLog>> /\ clerk[c].at = "idle"
    BY <1>9 DEF CreateRoot, AccountsKept
  <2>2. ClerkMoved(c) /\ clerk'[c].at = "idle"
    BY <1>1, <2>1 DEF ClerkMoved, ClerkTypes
  <2>3. QED BY <1>3, <2>1, <2>2
<1>10. QED BY <1>2, <1>5, <1>6, <1>7, <1>8, <1>9

LEMMA ProposeSound ==
    ASSUME CatalogInv, NEW c \in Clerks, NEW op \in Operations, NEW i \in CollectionIds,
           NEW d \in Papers \union {Nobody}, op # "delete", Propose(c, op, i, d)
    PROVE  CatalogInv'
<1>1. CatalogTypes /\ ClerkTypes
  BY DEF CatalogInv, CatalogTypes
<1>2. /\ ClerkMoved(c) /\ clerk'[c].at = "enter" /\ clerk'[c].collection = i /\ clerk'[c].op = op
      /\ CatalogKept(c) /\ UNCHANGED <<catalog, contents>>
  BY <1>1, ProposeMoves, UnchangedKeeps
<1>3. CatalogClerk(c)'
  BY <1>2 DEF CatalogClerk, HeldPlaces
<1>4. QED BY <1>2, <1>3, CatalogQuiet

LEMMA ReserveSound ==
    ASSUME CatalogInv, NEW c \in Clerks, NEW i \in CollectionIds,
           ChangeVisibility(c, i) \/ DeleteTree(c, i)
    PROVE  CatalogInv'
<1>1. CatalogTypes /\ ClerkTypes
  BY DEF CatalogInv, CatalogTypes
<1>2. /\ ClerkMoved(c) /\ clerk'[c].at = "lock" /\ clerk'[c].collection = i
      /\ clerk'[c].op = "delete" => HasChildren(clerk[c].plan)'
      /\ CatalogFree(c) /\ catalogLock' = Taken(c) /\ UNCHANGED <<catalog, contents>>
  BY <1>1, ReserveMoves
<1>3. CatalogKept(c) /\ catalogLock'[ProcessOf[c]] = c
  BY <1>2, TakenKeeps
<1>4. CatalogClerk(c)'
  BY <1>2, <1>3 DEF CatalogClerk
<1>5. QED BY <1>2, <1>3, <1>4, CatalogQuiet

LEMMA EnterSound ==
    ASSUME CatalogInv, NEW c \in Clerks, Enter(c) \/ LockCollections(c) \/ LockPlan(c)
    PROVE  CatalogInv'
<1>1. CatalogTypes /\ ClerkTypes /\ CatalogClerk(c) /\ UNCHANGED <<catalog, contents>>
  BY DEF CatalogInv, CatalogTypes, Enter, LockCollections, LockPlan, CollectionsKept
<1>2. /\ ClerkMoved(c) /\ clerk'[c].op = clerk[c].op /\ clerk'[c].collection = clerk[c].collection
      /\ clerk'[c].plan = clerk[c].plan /\ clerk'[c].at \in HeldPlaces
      /\ clerk[c].at \in HeldPlaces \union {"enter"}
  BY <1>1, EnterMoves
<1>3. CatalogKept(c) /\ catalogLock'[ProcessOf[c]] = c
  <2>1. CASE Enter(c)
    BY <2>1, TakenKeeps DEF Enter
  <2>2. CASE LockCollections(c) \/ LockPlan(c)
    <3>1. UNCHANGED catalogLock /\ clerk[c].at \in HeldPlaces
      BY <2>2 DEF LockCollections, LockPlan, At, CollectionsKept, HeldPlaces
    <3>2. QED BY <1>1, <3>1, UnchangedKeeps DEF CatalogClerk
  <2>3. QED BY <2>1, <2>2
<1>4. clerk[c].op = "delete" => clerk[c].at \in HeldPlaces
  BY <1>1, <1>2 DEF CatalogClerk
<1>5. HasChildren(clerk[c].plan) => HasChildren(clerk[c].plan)'
  BY <1>1, <1>2 DEF HasChildren, ActiveCollection
<1>6. CatalogClerk(c)'
  BY <1>1, <1>2, <1>3, <1>4, <1>5 DEF CatalogClerk, HeldPlaces
<1>7. QED BY <1>1, <1>2, <1>3, <1>6, CatalogQuiet

\* The change of a collection whose row is locked commits; the tree stays whole.
LEMMA ChangeSound ==
    ASSUME OneProcess, CatalogInv, NEW c \in Clerks, ChangeCatalog(c) \/ ApplyPlan(c)
    PROVE  CatalogInv'
<1> DEFINE i == clerk[c].collection
<1>1. /\ CatalogTypes /\ ClerkTypes /\ CatalogClerk(c) /\ CascadeComplete /\ clerk[c] \in ClerkRows
  BY DEF CatalogInv, CatalogTypes, ClerkTypes
<1>2. /\ UNCHANGED <<users, roleLog>> /\ Done(c) /\ rowOwner' = Unlocked(c)
      /\ catalogLock' = Released(c) /\ clerk[c].at \in HeldPlaces /\ ActiveCollection(i)
  BY DEF ChangeCatalog, ApplyPlan, At, AccountsKept, ActiveStill, HeldPlaces
<1>3. i \in CollectionIds /\ catalogLock[ProcessOf[c]] = c
  BY <1>1, <1>2 DEF CatalogClerk
<1>4. ClerkMoved(c) /\ clerk'[c].at = "idle" /\ CatalogKept(c)
  BY <1>1, <1>2, DoneMoves, ReleasedKeeps
<1>5. \A d \in Clerks \ {c} : clerk[d].at \notin HeldPlaces
  BY <1>3, OneHolds
<1>6. /\ catalog' \in [CollectionIds -> CollectionRows]
      /\ contents' \subseteq CollectionIds \X (Papers \union {Nobody})
      /\ CascadeComplete'
  <2>1. CASE ChangeCatalog(c) /\ CreateCollection(c)
    <3>1. PICK k \in CollectionIds : /\ catalog[k] = NoCollection
                                     /\ catalog' = [catalog EXCEPT ![k] = [parent |-> i, status |-> "ACTIVE"]]
      BY <2>1 DEF CreateCollection
    <3>2. contents' = contents /\ catalog[k].status = "NONE" /\ k # i
      BY <1>2, <2>1, <3>1 DEF CreateCollection, NoCollection, ActiveCollection
    <3>3. /\ catalog'[k] = [parent |-> i, status |-> "ACTIVE"]
          /\ \A j \in CollectionIds \ {k} : catalog'[j] = catalog[j]
          /\ catalog' \in [CollectionIds -> CollectionRows]
      BY <1>1, <1>3, <3>1 DEF CatalogTypes, CollectionRows
    <3>4. \A j \in CollectionIds : ActiveCollection(j) => ActiveCollection(j)'
      BY <3>2, <3>3 DEF ActiveCollection
    <3>5. ASSUME NEW j \in CollectionIds, ActiveCollection(j)', catalog'[j].parent # 0
          PROVE  catalog'[catalog'[j].parent].status = "ACTIVE"
      <4>1. CASE j = k
        <5>1. catalog'[j].parent = i
          BY <3>3, <4>1
        <5>2. QED BY <1>2, <1>3, <3>4, <5>1 DEF ActiveCollection
      <4>2. CASE j # k
        <5>1. ActiveCollection(j) /\ catalog'[j].parent = catalog[j].parent
          BY <3>3, <3>5, <4>2 DEF ActiveCollection
        <5>2. PICK up : up = catalog[j].parent
          OBVIOUS
        <5>3. up \in CollectionIds /\ ActiveCollection(up)
          BY <1>1, <3>5, <5>1, <5>2 DEF CatalogTypes, CollectionRows, CascadeComplete
        <5>4. QED BY <3>4, <5>1, <5>2, <5>3 DEF ActiveCollection
      <4>3. QED BY <4>1, <4>2
    <3>6. \A m \in contents : ActiveCollection(m[1]) /\ m[1] \in CollectionIds
      BY <1>1 DEF CascadeComplete, CatalogTypes
    <3>7. CascadeComplete'
      BY <3>2, <3>4, <3>5, <3>6 DEF CascadeComplete, ActiveCollection
    <3>8. QED BY <1>1, <3>2, <3>3, <3>7 DEF CatalogTypes
  <2>2. CASE UNCHANGED catalog /\ contents' \subseteq contents \union {<<i, clerk[c].paper>>}
    <3>1. <<i, clerk[c].paper>> \in CollectionIds \X (Papers \union {Nobody})
      BY <1>1, <1>3 DEF ClerkRows
    <3>2. ASSUME NEW m \in contents' PROVE catalog[m[1]].status = "ACTIVE"
      <4>1. CASE m \in contents
        BY <1>1, <4>1 DEF CascadeComplete, ActiveCollection
      <4>2. CASE m = <<i, clerk[c].paper>>
        BY <1>2, <4>2 DEF ActiveCollection
      <4>3. QED BY <2>2, <4>1, <4>2
    <3>3. QED BY <1>1, <2>2, <3>1, <3>2 DEF CatalogTypes, CascadeComplete, ActiveCollection
  <2>3. CASE ApplyPlan(c)
    <3>1. PICK plan : plan = clerk[c].plan
      OBVIOUS
    <3>2. /\ contents' = {m \in contents : m[1] \notin plan}
          /\ catalog' = [j \in CollectionIds |->
                IF j \in plan THEN [catalog[j] EXCEPT !.status = "DELETED"] ELSE catalog[j]]
          /\ HasChildren(plan)
      BY <1>1, <1>2, <2>3, <3>1 DEF ApplyPlan, At, CatalogClerk
    <3>3. catalog' \in [CollectionIds -> CollectionRows]
      BY <1>1, <3>2 DEF CatalogTypes, CollectionRows
    <3>4. ASSUME NEW j \in CollectionIds
          PROVE  /\ j \notin plan => catalog'[j] = catalog[j]
                 /\ j \in plan => catalog'[j].status = "DELETED"
      BY <1>1, <3>2 DEF CatalogTypes, CollectionRows
    <3>5. ASSUME NEW j \in CollectionIds, ActiveCollection(j)', catalog'[j].parent # 0
          PROVE  catalog'[catalog'[j].parent].status = "ACTIVE"
      <4>1. j \notin plan /\ catalog'[j] = catalog[j] /\ ActiveCollection(j)
        BY <3>4, <3>5 DEF ActiveCollection
      <4>2. PICK up : up = catalog[j].parent
        OBVIOUS
      <4>3. up \in CollectionIds /\ ActiveCollection(up) /\ up \notin plan
        BY <1>1, <3>2, <3>5, <4>1, <4>2
           DEF CatalogTypes, CollectionRows, CascadeComplete, HasChildren
      <4>4. QED BY <3>4, <4>1, <4>2, <4>3 DEF ActiveCollection
    <3>6. ASSUME NEW m \in contents' PROVE catalog'[m[1]].status = "ACTIVE"
      <4>1. m \in contents /\ m[1] \notin plan /\ m[1] \in CollectionIds
        BY <1>1, <3>2 DEF CatalogTypes
      <4>2. QED BY <1>1, <3>4, <4>1 DEF CascadeComplete, ActiveCollection
    <3>7. CascadeComplete'
      BY <3>5, <3>6 DEF CascadeComplete, ActiveCollection
    <3>8. contents' \subseteq CollectionIds \X (Papers \union {Nobody})
      BY <1>1, <3>2 DEF CatalogTypes
    <3>9. QED BY <3>3, <3>7, <3>8
  <2>4. ChangeCatalog(c) => /\ \/ CreateCollection(c)
                               \/ UNCHANGED catalog /\ contents' \subseteq contents \union {<<i, clerk[c].paper>>}
    BY DEF ChangeCatalog, AddMapping, RemoveMapping, SetVisibility
  <2>5. QED BY <2>1, <2>2, <2>3, <2>4
<1>7. CatalogTypes'
  BY <1>4, <1>6 DEF CatalogTypes, ClerkMoved, CatalogKept
<1>8. CatalogClerk(c)'
  BY <1>4 DEF CatalogClerk, HeldPlaces
<1>9. QED BY <1>4, <1>5, <1>6, <1>7, <1>8, CatalogSound

LEMMA CreateRootSound ==
    ASSUME OneProcess, CatalogInv, NEW c \in Clerks, CreateRoot(c)
    PROVE  CatalogInv'
<1>1. CatalogTypes /\ CascadeComplete /\ CatalogFree(c) /\ clerk[c].at = "idle"
      /\ UNCHANGED <<contents, rowOwner, catalogLock, clerk, users, roleLog>>
  BY DEF CatalogInv, CreateRoot, AccountsKept
<1>2. PICK k \in CollectionIds : /\ catalog[k] = NoCollection
                                 /\ catalog' = [catalog EXCEPT ![k].status = "ACTIVE"]
  BY DEF CreateRoot
<1>3. /\ catalog'[k].status = "ACTIVE" /\ catalog'[k].parent = 0 /\ ~ActiveCollection(k)
      /\ \A j \in CollectionIds \ {k} : catalog'[j] = catalog[j]
      /\ catalog' \in [CollectionIds -> CollectionRows]
  BY <1>1, <1>2 DEF CatalogTypes, CollectionRows, NoCollection, ActiveCollection
<1>4. ClerkMoved(c) /\ CatalogKept(c) /\ CatalogTypes'
  BY <1>1, <1>3, UnchangedKeeps DEF CatalogTypes, ClerkTypes, ClerkMoved
<1>5. \A d \in Clerks \ {c} : clerk[d].at \notin HeldPlaces
  BY <1>1, OneHolds DEF CatalogFree
<1>6. \A j \in CollectionIds : ActiveCollection(j) => ActiveCollection(j)'
  BY <1>3 DEF ActiveCollection
<1>7. ASSUME NEW j \in CollectionIds, ActiveCollection(j)', catalog'[j].parent # 0
      PROVE  catalog'[catalog'[j].parent].status = "ACTIVE"
  <2>1. j # k /\ ActiveCollection(j) /\ catalog'[j].parent = catalog[j].parent
    BY <1>3, <1>7 DEF ActiveCollection
  <2>2. PICK up : up = catalog[j].parent
    OBVIOUS
  <2>3. up \in CollectionIds /\ ActiveCollection(up)
    BY <1>1, <1>7, <2>1, <2>2 DEF CatalogTypes, CollectionRows, CascadeComplete
  <2>4. QED BY <1>6, <2>1, <2>2, <2>3 DEF ActiveCollection
<1>8. \A m \in contents : ActiveCollection(m[1]) /\ m[1] \in CollectionIds
  BY <1>1 DEF CascadeComplete, CatalogTypes
<1>9. CascadeComplete'
  BY <1>1, <1>6, <1>7, <1>8 DEF CascadeComplete, ActiveCollection
<1>10. CatalogClerk(c)'
  BY <1>1 DEF CatalogClerk, HeldPlaces
<1>11. QED BY <1>4, <1>5, <1>9, <1>10, CatalogSound

----------------------------------------------------------------------------
(* The theorems about both *)

\* The steps of the accounts leave the collections alone.
LEMMA AccountsKeepCatalog ==
    ASSUME AccountsInv, CatalogInv, AccountStep PROVE CatalogInv'
<1>1. AccountTypes /\ CatalogTypes /\ ClerkTypes
  BY DEF AccountsInv, AccountTypes, CatalogInv
<1>2. PICK c \in Clerks :
         \/ \E e \in Emails : \/ Signup(c, e) \/ SetStatus(c, e) \/ Login(c, e)
                              \/ \E r \in RoleCodes : AssignRole(c, e, r) \/ RemoveRole(c, e, r)
         \/ CreateUser(c) \/ InsertUser(c) \/ CommitCreate(c)
         \/ UserLocked(c) \/ WriteRole(c) \/ UpdateUser(c)
  BY DEF AccountStep
<1>3. ASSUME ClerkMoved(c), CollectionsKept, clerk'[c].at \in AccountPlaces \union {"idle"}
      PROVE  CatalogInv'
  <2>1. UNCHANGED <<catalog, contents, catalogLock>> /\ clerk'[c].at \notin HeldPlaces \union {"enter"}
    BY <1>3 DEF CollectionsKept, AccountPlaces, HeldPlaces
  <2>2. QED BY <1>1, <1>3, <2>1, CatalogAway, UnchangedKeeps
<1>4. CASE Undone(c)
  BY <1>4, UndoneCatalog
<1>5. ASSUME NEW place \in AccountPlaces, Goto(c, place), CollectionsKept PROVE CatalogInv'
  <2>1. place \in ClerkPlaces
    BY <1>5 DEF AccountPlaces, ClerkPlaces
  <2>2. ClerkMoved(c) /\ clerk'[c].at = place
    BY <1>1, <1>5, <2>1, GotoMoves
  <2>3. QED BY <1>3, <1>5, <2>2
<1>6. CASE Done(c) /\ CollectionsKept
  BY <1>1, <1>3, <1>6, DoneMoves
<1>7. ASSUME NEW e \in Emails, Signup(c, e) PROVE CatalogInv'
  <2> DEFINE row == [IdleClerk EXCEPT !.op = "signup", !.at = "create", !.email = e]
  <2>1. row \in ClerkRows /\ row.at = "create"
    <3>1. row \in ClerkRows
      <4>1. "signup" \in Operations /\ "create" \in ClerkPlaces
        BY DEF Operations, ClerkPlaces
      <4>2. QED BY <4>1, StartedIsRow, Zenon
    <3>2. QED BY <3>1 DEF IdleClerk
  <2>2. clerk' = [clerk EXCEPT ![c] = row] /\ CollectionsKept
    BY <1>7 DEF Signup
  <2> HIDE DEF row
  <2>3. ClerkMoved(c) /\ clerk'[c] = row
    BY <1>1, <2>1, <2>2, StartMoves
  <2>4. QED BY <1>3, <2>1, <2>2, <2>3 DEF AccountPlaces
<1>8. ASSUME NEW e \in Emails, NEW op \in Operations, NEW r \in RoleCodes, RequireUser(c, op, e, r)
      PROVE  CatalogInv'
  <2>1. users[e].roles \in SUBSET RoleCodes
    BY <1>1 DEF AccountTypes, AccountRows
  <2> DEFINE row == [IdleClerk EXCEPT !.op = op, !.at = "wait", !.email = e, !.role = r,
                                      !.seen = users[e].roles]
  <2>2. row \in ClerkRows /\ row.at = "wait"
    <3>1. row \in ClerkRows
      <4>1. "wait" \in ClerkPlaces
        BY DEF Operations, ClerkPlaces
      <4>2. QED BY <2>1, <4>1, StartedIsRow, Zenon
    <3>2. QED BY <3>1 DEF IdleClerk
  <2>3. clerk' = [clerk EXCEPT ![c] = row] /\ CollectionsKept
    BY <1>8 DEF RequireUser
  <2> HIDE DEF row
  <2>4. ClerkMoved(c) /\ clerk'[c] = row
    BY <1>1, <2>2, <2>3, StartMoves
  <2>5. QED BY <1>3, <2>2, <2>3, <2>4 DEF AccountPlaces
<1>9. ASSUME NEW e \in Emails,
             \/ SetStatus(c, e) \/ Login(c, e)
             \/ \E r \in RoleCodes : AssignRole(c, e, r) \/ RemoveRole(c, e, r)
      PROVE  CatalogInv'
  BY <1>8, <1>9, RequireSteps
<1>10. CASE \/ CreateUser(c) \/ InsertUser(c) \/ CommitCreate(c)
            \/ UserLocked(c) \/ WriteRole(c) \/ UpdateUser(c)
  <2>1. \/ Undone(c)
        \/ Done(c) /\ CollectionsKept
        \/ \E place \in AccountPlaces : Goto(c, place) /\ CollectionsKept
    BY <1>10, Zenon DEF CreateUser, InsertUser, CommitCreate, UserLocked, WriteRole, UpdateUser, AccountPlaces
  <2>2. QED BY <1>4, <1>5, <1>6, <2>1
<1>11. QED BY <1>2, <1>7, <1>9, <1>10

LEMMA AccountsInvPreserved ==
    AccountsInv /\ [AdministrationNext]_administrationVars => AccountsInv'
<1> SUFFICES ASSUME AccountsInv, [AdministrationNext]_administrationVars PROVE AccountsInv'
  OBVIOUS
<1>1. CASE AccountStep
  <2>1. PICK c \in Clerks :
           \/ \E e \in Emails : \/ Signup(c, e) \/ SetStatus(c, e) \/ Login(c, e)
                                \/ \E r \in RoleCodes : AssignRole(c, e, r) \/ RemoveRole(c, e, r)
           \/ CreateUser(c) \/ InsertUser(c) \/ CommitCreate(c)
           \/ UserLocked(c) \/ WriteRole(c) \/ UpdateUser(c)
    BY <1>1 DEF AccountStep
  <2>2. ASSUME NEW e \in Emails,
               \/ SetStatus(c, e) \/ Login(c, e)
               \/ \E r \in RoleCodes : AssignRole(c, e, r) \/ RemoveRole(c, e, r)
        PROVE  AccountsInv'
    BY <2>2, RequireSteps, RequireSound
  <2>3. QED BY <2>1, <2>2, SignupSound, RoleSound
<1>2. CASE CollectionStep
  BY <1>2, CollectionsKeepAccounts
<1>3. CASE RefusedStep
  BY <1>3, UndoneAccounts DEF RefusedStep, Refused
<1>4. CASE UNCHANGED administrationVars
  BY <1>4 DEF administrationVars, AccountsInv, AccountTypes, ClerkTypes, Counted, AccountClerk
<1>5. QED BY <1>1, <1>2, <1>3, <1>4 DEF AdministrationNext

LEMMA AccountsInvCounts == AccountsInv => ChangesAccounted
<1> SUFFICES ASSUME AccountsInv PROVE ChangesAccounted
  OBVIOUS
<1>1. ASSUME NEW e \in Emails, NEW r \in RoleCodes
      PROVE  roleLog[e][r].granted - roleLog[e][r].removed = Cardinality({r} \intersect users[e].roles)
  <2>1. roleLog[e][r] \in LogRows /\ Counted(e)
    BY DEF AccountsInv, AccountTypes
  <2>2. CASE r \in users[e].roles
    <3>1. {r} \intersect users[e].roles = {r}
      BY <2>2
    <3>2. Cardinality({r} \intersect users[e].roles) = 1
      BY <3>1, FS_Singleton
    <3>3. roleLog[e][r].granted - roleLog[e][r].removed = 1
      BY <2>1, <2>2 DEF Counted, LogRows
    <3>4. QED BY <3>2, <3>3
  <2>3. CASE r \notin users[e].roles
    <3>1. {r} \intersect users[e].roles = {}
      BY <2>3
    <3>2. Cardinality({r} \intersect users[e].roles) = 0
      BY <3>1, FS_EmptySet
    <3>3. roleLog[e][r].granted - roleLog[e][r].removed = 0
      BY <2>1, <2>3 DEF Counted, LogRows
    <3>4. QED BY <3>2, <3>3
  <2>4. QED BY <2>2, <2>3
<1>2. ASSUME NEW e \in Emails, ~users[e].exists, NEW r \in RoleCodes
      PROVE  roleLog[e][r].granted = 0
  BY <1>2 DEF AccountsInv, Counted
<1>3. QED BY <1>1, <1>2 DEF ChangesAccounted

LEMMA AdministrationInitSound == AdministrationInit => AccountsInv /\ CatalogInv
<1> SUFFICES ASSUME AdministrationInit PROVE AccountsInv /\ CatalogInv
  OBVIOUS
<1>1. /\ ClerkTypes /\ \A c \in Clerks : clerk[c].at = "idle"
  BY IdleIsRow DEF AdministrationInit, ClerkTypes
<1>2. AccountTypes
  <2>1. NoAccount \in AccountRows
    BY DEF NoAccount, AccountRows
  <2>2. [granted |-> 0, removed |-> 0] \in LogRows
    BY DEF LogRows
  <2>3. QED BY <1>1, <2>1, <2>2 DEF AdministrationInit, AccountTypes
<1>3. \A e \in Emails : Counted(e)
  BY DEF AdministrationInit, Counted, NoAccount
<1>4. \A c \in Clerks : AccountClerk(c) /\ CatalogClerk(c)
  BY <1>1 DEF AccountClerk, CatalogClerk, AccountPlaces, HeldPlaces
<1>5. CatalogTypes
  <2>1. \A i \in CollectionIds :
           (IF i <= 2 THEN [parent |-> i - 1, status |-> "ACTIVE"] ELSE NoCollection) \in CollectionRows
    <3>1. ASSUME NEW i \in CollectionIds, i <= 2 PROVE i - 1 \in CollectionIds \union {0}
      <4>0. CollectionIds = 1 .. Cardinality(CollectionIds) /\ 1 \in CollectionIds
        BY AdministrationAssumption
      <4>1. i \in 1 .. Cardinality(CollectionIds)
        BY <4>0, Zenon
      <4>2. i - 1 = 0 \/ i - 1 = 1
        BY <3>1, <4>1
      <4>3. QED BY <4>0, <4>2
    <3>2. NoCollection \in CollectionRows
      BY DEF NoCollection, CollectionRows
    <3>3. QED BY <3>1, <3>2 DEF CollectionRows
  <2>2. catalog \in [CollectionIds -> CollectionRows]
    BY <2>1 DEF AdministrationInit
  <2>3. contents \subseteq CollectionIds \X (Papers \union {Nobody})
    BY AdministrationAssumption DEF AdministrationInit
  <2>4. QED BY <1>1, <2>2, <2>3 DEF AdministrationInit, CatalogTypes
<1>6. CascadeComplete
  <2>1. 1 \in CollectionIds /\ catalog[1] = [parent |-> 0, status |-> "ACTIVE"]
    BY AdministrationAssumption DEF AdministrationInit
  <2>2. ASSUME NEW i \in CollectionIds, ActiveCollection(i), catalog[i].parent # 0
        PROVE  ActiveCollection(catalog[i].parent)
    <3>1. i \in Int /\ 1 <= i
      <4>1. CollectionIds = 1 .. Cardinality(CollectionIds)
        BY AdministrationAssumption
      <4>2. i \in 1 .. Cardinality(CollectionIds)
        BY <4>1, Zenon
      <4>3. QED BY <4>2
    <3>2. catalog[i] = IF i <= 2 THEN [parent |-> i - 1, status |-> "ACTIVE"] ELSE NoCollection
      BY DEF AdministrationInit
    <3>3. i <= 2 /\ catalog[i].parent = i - 1
      BY <2>2, <3>2 DEF NoCollection, ActiveCollection
    <3>4. catalog[i].parent = 1
      BY <2>2, <3>1, <3>3
    <3>5. QED BY <2>1, <3>4 DEF ActiveCollection
  <2>3. \A m \in contents : m[1] = 1
    BY DEF AdministrationInit
  <2>4. QED BY <2>1, <2>2, <2>3 DEF CascadeComplete, ActiveCollection
<1>7. QED BY <1>2, <1>3, <1>4, <1>5, <1>6 DEF AccountsInv, CatalogInv

LEMMA CatalogInvPreserved ==
    ASSUME OneProcess
    PROVE  AccountsInv /\ CatalogInv /\ [AdministrationNext]_administrationVars => CatalogInv'
<1> SUFFICES ASSUME AccountsInv, CatalogInv, [AdministrationNext]_administrationVars PROVE CatalogInv'
  OBVIOUS
<1>1. CASE AccountStep
  BY <1>1, AccountsKeepCatalog
<1>2. CASE CollectionStep
  <2>1. PICK c \in Clerks :
           \/ \E i \in CollectionIds : \/ Create(c, i) \/ ChangeVisibility(c, i) \/ DeleteTree(c, i)
                                       \/ \E d \in Papers : AddDocument(c, i, d) \/ RemoveDocument(c, i, d)
           \/ CreateRoot(c) \/ Enter(c) \/ LockCollections(c) \/ ChangeCatalog(c)
           \/ LockPlan(c) \/ ApplyPlan(c)
    BY <1>2 DEF CollectionStep
  <2>2. ASSUME NEW i \in CollectionIds,
               \/ Create(c, i) \/ \E d \in Papers : AddDocument(c, i, d) \/ RemoveDocument(c, i, d)
        PROVE  CatalogInv'
    BY <2>2, ProposeSteps, ProposeSound
  <2>3. QED BY <2>1, <2>2, ReserveSound, EnterSound, ChangeSound, CreateRootSound
<1>3. CASE RefusedStep
  BY <1>3, UndoneCatalog DEF RefusedStep, Refused
<1>4. CASE UNCHANGED administrationVars
  BY <1>4 DEF administrationVars, CatalogInv, CatalogTypes, ClerkTypes, CascadeComplete,
              CatalogClerk, HasChildren, ActiveCollection
<1>5. QED BY <1>1, <1>2, <1>3, <1>4 DEF AdministrationNext

\* Whatever administrators, signups and logins of any number of processes do at once:
\* every grant and removal that was answered has changed the ledger, once, and an
\* address has one account.
\* users/core.py:225-254, 345-380, infra/postgres/identity_store.py:222-265, 317-347.
THEOREM ChangesAlwaysAccounted == AdministrationSpec => []ChangesAccounted
<1>1. QED BY AdministrationInitSound, AccountsInvPreserved, AccountsInvCounts, PTL
          DEF AdministrationSpec

\* With one process for the collections, what was answered about accounts and
\* collections is what the ledgers hold: besides the above, no collection outlives its
\* parent, and a deleted one has no documents.
\* collections/core.py:143-171, 325-357.
THEOREM AdministrationAlwaysSound ==
    ASSUME OneProcess
    PROVE  AdministrationSpec => []AdministrationSound
<1>1. AccountsInv /\ CatalogInv => AdministrationSound
  BY AccountsInvCounts DEF CatalogInv, AdministrationSound
<1>2. AccountsInv /\ CatalogInv /\ [AdministrationNext]_administrationVars => CatalogInv'
  BY CatalogInvPreserved
<1>3. QED BY AdministrationInitSound, AccountsInvPreserved, <1>1, <1>2, PTL DEF AdministrationSpec

----------------------------------------------------------------------------
(* Startup: the invariant. *)

Models == {ModelOf[s] : s \in Servers}
\* The settings a process may have: none, or what its layers come to.
LoadedSettings == {<<>>} \union {Aliased(layers, Overlaid(layers)) : layers \in UNION {Layers[s] : s \in Servers}}

Checked == {"validated", "opened", "listed", "modelled", "built", "created", "starting", "up", "left",
            "stopped"}
ModelKnown == {"modelled", "built", "created", "starting", "up"}
BeforeStart == {"down", "loaded", "validated", "opened", "listed", "modelled", "built", "created", "refused"}
ServerPlaces == {"down", "loaded", "refused", "failed"} \union Checked
ServerRows ==
    [at : ServerPlaces, settings : LoadedSettings, variables : SUBSET LateVariables,
     opened : BOOLEAN, saw : Seq(Models), model : Nat, worker : {"none", "accepting", "unregistered", "shut"},
     threads : SUBSET {"sync", "retention", "dashboard"}, stop : BOOLEAN]

StartupTyped == server \in [Servers -> ServerRows] /\ registry \in Seq(Models)

\* A list of models that was read is still the beginning of the list.
StillThere(saw, rows) == Len(saw) <= Len(rows) /\ \A i \in 1 .. Len(saw) : rows[i] = saw[i]

\* The tasks a server has started, in their order.
TasksFor(settings) ==
    (IF settings["sync.dispatcher.enabled"] \/ settings["sync.reconciliation.enabled"]
     THEN <<"sync">> ELSE <<>>) \o <<"retention", "dashboard">>
StartedTasks(q) ==
    \E n \in 0 .. Len(TasksFor(q.settings)) :
        /\ q.threads = {TasksFor(q.settings)[i] : i \in 1 .. n}
        /\ Cardinality(q.threads) = n

\* What is true of the process of a server at each place.
UnfitFound(q) == ~PeriodsFit(q.settings) \/ ~DetectorTakes(q.settings) \/ q.variables # {}
SettingsSound(q) ==
    /\ q.at \in Checked \/ q.opened => ValidSettings(q.settings)
    /\ q.at \in {"down", "loaded", "validated"} => ~q.opened
    /\ q.at = "refused" /\ q.opened => UnfitFound(q)
    /\ q.at = "listed" \/ q.model # 0 => PeriodsFit(q.settings)
    /\ q.at \in {"built", "created", "starting", "up"} => ~UnfitFound(q)
ModelSound(q, own, rows) ==
    /\ q.at = "listed" => StillThere(q.saw, rows)
    /\ q.at \in ModelKnown => /\ q.model \in 1 .. Len(rows) /\ rows[q.model] = own
                              /\ q.model > 1 => q.saw = <<>>
ThreadsSound(q) ==
    /\ q.at \in BeforeStart => q.worker = "none" /\ q.threads = {} /\ ~q.stop
    /\ q.at \in {"starting", "up"} => /\ ~q.stop /\ StartedTasks(q)
                                      /\ q.worker # "none" <=> q.settings["indexing.worker.enabled"]
    /\ q.at = "up" => Cardinality(q.threads) = Len(TasksFor(q.settings))
    /\ q.at = "failed" => q.worker \in {"none", "shut"} /\ q.threads = {}
    /\ q.at = "stopped" => q.worker # "accepting" /\ q.stop

StartupInv ==
    /\ StartupTyped
    /\ \A s \in Servers : /\ SettingsSound(server[s]) /\ ThreadsSound(server[s])
                          /\ ModelSound(server[s], ModelOf[s], registry)

\* What the parts check of the settings is checked by validate_settings, but for the grace
\* of orphans and the longest period.
LEMMA ValidIsTaken ==
    ASSUME NEW settings, ValidSettings(settings)
    PROVE  /\ IndexingTakes(settings) /\ SyncTakes(settings)
           /\ \A variables : AdaptersTake(settings, variables) <=> "HF_HOME" \notin variables
<1>1. \A key \in Positive : settings[key] > 0
  BY DEF ValidSettings
<1>2. \A key \in NotNegative : settings[key] >= 0
  BY DEF ValidSettings
<1>3. IndexingTakes(settings)
  <2>1. {"indexing.worker.lease-duration", "indexing.worker.dead-threshold",
         "indexing.worker.retry-initial"} \subseteq Positive
    BY DEF Positive
  <2>2. "indexing.worker.retry-jitter" \in NotNegative /\ "indexing.job.max-retries" \in NotNegative
    BY DEF NotNegative
  <2>3. QED BY <1>1, <1>2, <2>1, <2>2 DEF IndexingTakes, ValidSettings
<1>4. SyncTakes(settings)
  <2>1. {"sync.dispatcher.poll-interval", "sync.dispatcher.lease-duration",
         "sync.dispatcher.recovery-interval", "sync.dispatcher.recovery-batch",
         "sync.dispatcher.retry-initial", "sync.reconciliation.batch",
         "sync.reconciliation.period", "sync.reconciliation.stalled-threshold"} \subseteq Positive
    BY DEF Positive
  <2>2. "sync.dispatcher.max-retries" \in NotNegative
    BY DEF NotNegative
  <2>3. QED BY <1>1, <1>2, <2>1, <2>2 DEF SyncTakes, ValidSettings
<1>5. \A variables : AdaptersTake(settings, variables) <=> "HF_HOME" \notin variables
  <2>1. {"embedding.circuit-failure-threshold", "embedding.circuit-open-seconds",
         "embedding.connect-timeout", "embedding.response-timeout", "embedding.batch-size",
         "embedding.character-budget", "embedding.token-budget",
         "embedding.document-batch-response-timeout"} \subseteq Positive
    BY DEF Positive
  <2>2. QED BY <1>1, <2>1 DEF AdaptersTake, ValidSettings
<1>6. QED BY <1>3, <1>4, <1>5

LEMMA NoServerIsRow ==
    /\ NoServer \in ServerRows /\ NoServer.at = "down" /\ ~NoServer.opened /\ NoServer.saw = <<>>
    /\ NoServer.worker = "none" /\ NoServer.threads = {} /\ ~NoServer.stop /\ NoServer.model = 0
  BY DEF NoServer, ServerRows, ServerPlaces, LoadedSettings

LEMMA ServerMoved ==
    ASSUME StartupInv, NEW s \in Servers, NEW row \in ServerRows,
           server' = [server EXCEPT ![s] = row], registry' = registry,
           SettingsSound(row), ThreadsSound(row), ModelSound(row, ModelOf[s], registry)
    PROVE  StartupInv'
<1>1. \A r \in Servers : server'[r] = IF r = s THEN row ELSE server[r]
  BY DEF StartupInv, StartupTyped
<1>2. StartupTyped'
  BY DEF StartupInv, StartupTyped
<1>3. \A r \in Servers : /\ SettingsSound(server'[r]) /\ ThreadsSound(server'[r])
                         /\ ModelSound(server'[r], ModelOf[r], registry')
  BY <1>1 DEF StartupInv
<1>4. QED BY <1>2, <1>3 DEF StartupInv

\* A server that only arrives at another place.
LEMMA Arrived ==
    ASSUME StartupInv, NEW s \in Servers, NEW place \in ServerPlaces, Arrive(s, place)
    PROVE  \E row \in ServerRows :
              /\ server' = [server EXCEPT ![s] = row]
              /\ row.at = place /\ row.settings = server[s].settings /\ row.opened = server[s].opened
              /\ row.variables = server[s].variables
              /\ row.saw = server[s].saw /\ row.model = server[s].model
              /\ row.worker = server[s].worker /\ row.threads = server[s].threads
              /\ row.stop = server[s].stop
<1>1. PICK q : q = server[s]
  OBVIOUS
<1> DEFINE row == [q EXCEPT !.at = place]
<1>2. server \in [Servers -> ServerRows] /\ q \in ServerRows
  BY <1>1 DEF StartupInv, StartupTyped
<1>3. server' = [server EXCEPT ![s] = row]
  BY <1>1, <1>2 DEF Arrive
<1>4. /\ row \in ServerRows /\ row.at = place /\ row.settings = q.settings /\ row.opened = q.opened
      /\ row.variables = q.variables
      /\ row.saw = q.saw /\ row.model = q.model /\ row.worker = q.worker
      /\ row.threads = q.threads /\ row.stop = q.stop
  BY <1>2 DEF ServerRows
<1> HIDE DEF row
<1>5. QED BY <1>1, <1>3, <1>4

LEMMA ServerIsSound ==
    ASSUME StartupInv, NEW s \in Servers
    PROVE  /\ server[s] \in ServerRows /\ SettingsSound(server[s]) /\ ThreadsSound(server[s])
           /\ ModelSound(server[s], ModelOf[s], registry)
  BY DEF StartupInv, StartupTyped

LEMMA LoadSound == ASSUME StartupInv, NEW s \in Servers, LoadSettings(s) PROVE StartupInv'
<1>1. PICK layers \in Layers[s] : \E loads :
        server' = [server EXCEPT ![s] =
            IF loads THEN [NoServer EXCEPT !.at = "loaded",
                                           !.settings = Aliased(layers, Overlaid(layers)),
                                           !.variables = layers.variables]
                     ELSE [NoServer EXCEPT !.at = "refused"]]
  BY DEF LoadSettings
<1>2. PICK settings, variables :
        settings = Aliased(layers, Overlaid(layers)) /\ variables = layers.variables
  OBVIOUS
<1>3. settings \in LoadedSettings /\ variables \in SUBSET LateVariables
  BY <1>2, StartupAssumption DEF LoadedSettings
<1> DEFINE loaded == [NoServer EXCEPT !.at = "loaded", !.settings = settings, !.variables = variables]
           refused == [NoServer EXCEPT !.at = "refused"]
<1>4. /\ loaded \in ServerRows /\ loaded.at = "loaded" /\ ~loaded.opened
      /\ loaded.worker = "none" /\ loaded.threads = {} /\ ~loaded.stop /\ loaded.model = 0
  BY <1>3, NoServerIsRow DEF ServerRows, ServerPlaces
<1>5. /\ refused \in ServerRows /\ refused.at = "refused" /\ ~refused.opened
      /\ refused.worker = "none" /\ refused.threads = {} /\ ~refused.stop /\ refused.model = 0
  BY NoServerIsRow DEF ServerRows, ServerPlaces
<1>6. PICK row \in {loaded, refused} : server' = [server EXCEPT ![s] = row]
  BY <1>1, <1>2
<1> HIDE DEF loaded, refused
<1>7. /\ row \in ServerRows /\ row.at \in {"loaded", "refused"} /\ ~row.opened
      /\ row.worker = "none" /\ row.threads = {} /\ ~row.stop /\ row.model = 0
  BY <1>4, <1>5, <1>6
<1>8. SettingsSound(row) /\ ThreadsSound(row) /\ ModelSound(row, ModelOf[s], registry)
  BY <1>7 DEF SettingsSound, UnfitFound, Checked, ThreadsSound, ModelSound, ModelKnown
<1>9. registry' = registry
  BY DEF LoadSettings
<1>10. QED BY <1>6, <1>7, <1>8, <1>9, ServerMoved

LEMMA ValidateSound == ASSUME StartupInv, NEW s \in Servers, ValidateSettings(s) PROVE StartupInv'
<1>1. PICK q, place : /\ q = server[s]
                      /\ place = IF ValidSettings(q.settings) /\ q.settings["storage.type"] # "minio"
                                 THEN "validated" ELSE "refused"
  OBVIOUS
<1>2. /\ q.at = "loaded" /\ Arrive(s, place) /\ registry' = registry
      /\ place \in {"validated", "refused"}
      /\ place = "validated" => ValidSettings(q.settings)
  BY <1>1 DEF ValidateSettings
<1>3. ~q.opened /\ q.worker = "none" /\ q.threads = {} /\ ~q.stop /\ SettingsSound(q)
  BY <1>1, <1>2, ServerIsSound DEF SettingsSound, ThreadsSound, BeforeStart
<1>4. PICK row \in ServerRows :
        /\ server' = [server EXCEPT ![s] = row] /\ row.at = place /\ row.settings = q.settings
        /\ row.opened = q.opened /\ row.worker = q.worker /\ row.threads = q.threads
        /\ row.stop = q.stop /\ row.model = q.model /\ row.variables = q.variables
  <2>1. place \in ServerPlaces
    BY <1>2 DEF ServerPlaces, Checked
  <2>2. QED BY <1>1, <1>2, <2>1, Arrived
<1>5. SettingsSound(row) /\ ThreadsSound(row) /\ ModelSound(row, ModelOf[s], registry)
  BY <1>2, <1>3, <1>4 DEF SettingsSound, UnfitFound, Checked, ThreadsSound, ModelSound, ModelKnown
<1>6. QED BY <1>2, <1>4, <1>5, ServerMoved

LEMMA EnvironmentRefusesSound ==
    ASSUME StartupInv, NEW s \in Servers, EnvironmentRefuses(s) PROVE StartupInv'
<1>1. PICK q : q = server[s]
  OBVIOUS
<1>2. q.at = "validated" /\ Arrive(s, "refused") /\ registry' = registry
  BY <1>1 DEF EnvironmentRefuses
<1>3. ~q.opened /\ q.worker = "none" /\ q.threads = {} /\ ~q.stop /\ SettingsSound(q)
  BY <1>1, <1>2, ServerIsSound DEF SettingsSound, ThreadsSound, BeforeStart
<1>4. PICK row \in ServerRows :
        /\ server' = [server EXCEPT ![s] = row] /\ row.at = "refused" /\ row.settings = q.settings
        /\ row.opened = q.opened /\ row.worker = q.worker /\ row.threads = q.threads
        /\ row.stop = q.stop /\ row.model = q.model /\ row.variables = q.variables
  <2>1. "refused" \in ServerPlaces
    BY DEF ServerPlaces
  <2>2. QED BY <1>1, <1>2, <2>1, Arrived
<1>5. SettingsSound(row) /\ ThreadsSound(row) /\ ModelSound(row, ModelOf[s], registry)
  BY <1>3, <1>4 DEF SettingsSound, UnfitFound, Checked, ThreadsSound, ModelSound, ModelKnown
<1>6. QED BY <1>2, <1>4, <1>5, ServerMoved

LEMMA OpenLedgersSound == ASSUME StartupInv, NEW s \in Servers, OpenLedgers(s) PROVE StartupInv'
<1>1. PICK q : q = server[s]
  OBVIOUS
<1>2. PICK at \in {"opened", "failed"} :
        server' = [server EXCEPT ![s].at = at, ![s].opened = TRUE]
  BY DEF OpenLedgers
<1>3. /\ q.at = "validated" /\ q \in ServerRows /\ ValidSettings(q.settings) /\ registry' = registry
      /\ q.worker = "none" /\ q.threads = {} /\ ~q.stop /\ SettingsSound(q)
      /\ server \in [Servers -> ServerRows]
  BY <1>1, ServerIsSound DEF OpenLedgers, SettingsSound, UnfitFound, Checked, ThreadsSound, BeforeStart,
     StartupInv, StartupTyped
<1> DEFINE row == [q EXCEPT !.at = at, !.opened = TRUE]
<1>4. server' = [server EXCEPT ![s] = row]
  BY <1>1, <1>2, <1>3
<1>5. /\ row \in ServerRows /\ row.at = at /\ row.settings = q.settings /\ row.worker = q.worker
      /\ row.threads = q.threads /\ row.stop = q.stop /\ row.model = q.model /\ row.variables = q.variables
  BY <1>3 DEF ServerRows, ServerPlaces, Checked
<1> HIDE DEF row
<1>6. SettingsSound(row) /\ ThreadsSound(row) /\ ModelSound(row, ModelOf[s], registry)
  BY <1>3, <1>5 DEF SettingsSound, UnfitFound, Checked, ThreadsSound, BeforeStart, ModelSound, ModelKnown
<1>7. QED BY <1>3, <1>4, <1>5, <1>6, ServerMoved


LEMMA ListModelsSound == ASSUME StartupInv, NEW s \in Servers, ListModels(s) PROVE StartupInv'
<1>1. PICK q : q = server[s]
  OBVIOUS
<1>2. /\ q.at = "opened" /\ q \in ServerRows /\ ValidSettings(q.settings) /\ registry' = registry
      /\ q.worker = "none" /\ q.threads = {} /\ ~q.stop /\ server \in [Servers -> ServerRows]
      /\ registry \in Seq(Models) /\ SettingsSound(q)
  BY <1>1, ServerIsSound DEF ListModels, SettingsSound, Checked, ThreadsSound, BeforeStart,
     StartupInv, StartupTyped
<1>3. CASE PeriodsFit(q.settings)
  <2>1. server' = [server EXCEPT ![s].at = "listed", ![s].saw = registry]
    BY <1>1, <1>2, <1>3, ValidIsTaken DEF ListModels
  <2> DEFINE row == [q EXCEPT !.at = "listed", !.saw = registry]
  <2>2. server' = [server EXCEPT ![s] = row]
    BY <1>1, <1>2, <2>1
  <2>3. /\ row \in ServerRows /\ row.at = "listed" /\ row.settings = q.settings /\ row.saw = registry
        /\ row.variables = q.variables /\ row.model = q.model
        /\ row.worker = q.worker /\ row.threads = q.threads /\ row.stop = q.stop
    BY <1>2 DEF ServerRows, ServerPlaces, Checked
  <2> HIDE DEF row
  <2>4. StillThere(registry, registry)
    BY <1>2 DEF StillThere
  <2>5. SettingsSound(row) /\ ThreadsSound(row) /\ ModelSound(row, ModelOf[s], registry)
    BY <1>2, <1>3, <2>3, <2>4
       DEF SettingsSound, UnfitFound, Checked, ThreadsSound, BeforeStart, ModelSound, ModelKnown
  <2>6. QED BY <1>2, <2>2, <2>3, <2>5, ServerMoved
<1>4. CASE ~PeriodsFit(q.settings)
  <2>1. Arrive(s, "refused")
    BY <1>1, <1>4 DEF ListModels
  <2>2. PICK row \in ServerRows :
          /\ server' = [server EXCEPT ![s] = row] /\ row.at = "refused" /\ row.settings = q.settings
          /\ row.opened = q.opened /\ row.worker = q.worker /\ row.threads = q.threads
          /\ row.stop = q.stop /\ row.model = q.model /\ row.variables = q.variables
    <3>1. "refused" \in ServerPlaces
      BY DEF ServerPlaces
    <3>2. QED BY <1>1, <2>1, <3>1, Arrived
  <2>3. SettingsSound(row) /\ ThreadsSound(row) /\ ModelSound(row, ModelOf[s], registry)
    BY <1>2, <1>4, <2>2
       DEF SettingsSound, UnfitFound, Checked, ThreadsSound, BeforeStart, ModelSound, ModelKnown
  <2>4. QED BY <1>2, <2>2, <2>3, ServerMoved
<1>5. QED BY <1>3, <1>4

\* What a server knows of the list of models outlives a model that is added to it.
LEMMA ModelOutlives ==
    ASSUME NEW S, NEW rows \in Seq(S), NEW added \in S, NEW q, NEW own, ModelSound(q, own, rows),
           q.saw \in Seq(S), q.model \in Nat
    PROVE  ModelSound(q, own, Append(rows, added))
<1>1. /\ Len(Append(rows, added)) = Len(rows) + 1 /\ Len(rows) \in Nat
      /\ \A i \in 1 .. Len(rows) : Append(rows, added)[i] = rows[i]
  OBVIOUS
<1>2. PICK grown : grown = Append(rows, added)
  OBVIOUS
<1>3. ASSUME q.at = "listed" PROVE StillThere(q.saw, grown)
  <2>1. StillThere(q.saw, rows) /\ Len(q.saw) \in Nat
    BY <1>3 DEF ModelSound
  <2>2. Len(q.saw) <= Len(grown)
    BY <1>1, <1>2, <2>1 DEF StillThere
  <2>3. \A i \in 1 .. Len(q.saw) : grown[i] = q.saw[i]
    BY <1>1, <1>2, <2>1 DEF StillThere
  <2>4. QED BY <2>2, <2>3 DEF StillThere
<1>4. ASSUME q.at \in ModelKnown
      PROVE  q.model \in 1 .. Len(grown) /\ grown[q.model] = own /\ (q.model > 1 => q.saw = <<>>)
  BY <1>1, <1>2, <1>4 DEF ModelSound
<1>5. QED BY <1>2, <1>3, <1>4 DEF ModelSound

LEMMA InsertModelSound == ASSUME StartupInv, NEW s \in Servers, InsertModel(s) PROVE StartupInv'
<1>1. PICK q, added : q = server[s] /\ added = ModelOf[s]
  OBVIOUS
<1>2. /\ q.at = "listed" /\ q \in ServerRows /\ ValidSettings(q.settings) /\ q.saw = <<>>
      /\ q.worker = "none" /\ q.threads = {} /\ ~q.stop /\ server \in [Servers -> ServerRows]
      /\ registry \in Seq(Models) /\ added \in Models
  BY <1>1, ServerIsSound DEF InsertModel, SettingsSound, UnfitFound, Checked, ThreadsSound, BeforeStart,
     StartupInv, StartupTyped, Models
<1>3. PICK grown, model : grown = Append(registry, added) /\ model = Len(registry) + 1
  OBVIOUS
<1>4. registry' = grown /\ server' = [server EXCEPT ![s].at = "modelled", ![s].model = model]
  BY <1>1, <1>3 DEF InsertModel
<1>5. grown \in Seq(Models) /\ model \in 1 .. Len(grown) /\ grown[model] = added /\ model \in Nat
  BY <1>2, <1>3
<1> DEFINE row == [q EXCEPT !.at = "modelled", !.model = model]
<1>6. server' = [server EXCEPT ![s] = row]
  BY <1>1, <1>2, <1>4
<1>7. /\ row \in ServerRows /\ row.at = "modelled" /\ row.settings = q.settings /\ row.variables = q.variables /\ row.saw = q.saw
      /\ row.model = model /\ row.worker = q.worker /\ row.threads = q.threads /\ row.stop = q.stop
  BY <1>2, <1>5 DEF ServerRows, ServerPlaces, Checked
<1> HIDE DEF row
<1>8. \A r \in Servers : server'[r] = IF r = s THEN row ELSE server[r]
  BY <1>2, <1>6
<1>9. StartupTyped'
  BY <1>2, <1>4, <1>5, <1>6, <1>7 DEF StartupTyped
<1>10. SettingsSound(row) /\ ThreadsSound(row) /\ ModelSound(row, added, grown)
  BY <1>1, ServerIsSound, <1>2, <1>5, <1>7 DEF SettingsSound, UnfitFound, Checked, ThreadsSound, BeforeStart, ModelSound, ModelKnown
<1>11. ASSUME NEW r \in Servers, r # s
       PROVE  /\ SettingsSound(server[r]) /\ ThreadsSound(server[r])
              /\ ModelSound(server[r], ModelOf[r], grown)
  <2>1. /\ server[r] \in ServerRows /\ SettingsSound(server[r]) /\ ThreadsSound(server[r])
        /\ ModelSound(server[r], ModelOf[r], registry)
    BY ServerIsSound
  <2>2. server[r].saw \in Seq(Models) /\ server[r].model \in Nat
    BY <2>1 DEF ServerRows
  <2>3. QED BY <1>2, <1>3, <2>1, <2>2, ModelOutlives
<1>12. ASSUME NEW r \in Servers
       PROVE  /\ SettingsSound(server'[r]) /\ ThreadsSound(server'[r])
              /\ ModelSound(server'[r], ModelOf[r], registry')
  BY <1>1, <1>4, <1>8, <1>10, <1>11
<1>13. QED BY <1>9, <1>12 DEF StartupInv

LEMMA FindModelSound == ASSUME StartupInv, NEW s \in Servers, FindModel(s) PROVE StartupInv'
<1>1. PICK q, own : q = server[s] /\ own = ModelOf[s]
  OBVIOUS
<1>2. PICK place \in {"modelled", "failed"}, model \in {0, 1} :
        /\ place = "modelled" => Len(q.saw) = 1 /\ q.saw[1] = own /\ model = 1
        /\ server' = [server EXCEPT ![s].at = place, ![s].model = model]
  BY <1>1 DEF FindModel, MatchingModel
<1>3. /\ q.at = "listed" /\ q \in ServerRows /\ ValidSettings(q.settings) /\ registry' = registry
      /\ q.worker = "none" /\ q.threads = {} /\ ~q.stop /\ server \in [Servers -> ServerRows]
      /\ StillThere(q.saw, registry) /\ registry \in Seq(Models)
  BY <1>1, ServerIsSound DEF FindModel, SettingsSound, UnfitFound, Checked, ThreadsSound, BeforeStart,
     ModelSound, StartupInv, StartupTyped
<1> DEFINE row == [q EXCEPT !.at = place, !.model = model]
<1>4. server' = [server EXCEPT ![s] = row]
  BY <1>1, <1>2, <1>3
<1>5. /\ row.at = place /\ row.settings = q.settings /\ row.variables = q.variables /\ row.saw = q.saw
      /\ row.model = model /\ row.worker = q.worker /\ row.threads = q.threads /\ row.stop = q.stop
      /\ row \in ServerRows
  <2>1. place \in ServerPlaces /\ model \in Nat
    BY <1>2 DEF ServerPlaces, Checked
  <2>2. QED BY <1>3, <2>1 DEF ServerRows
<1> HIDE DEF row
<1>6. ASSUME place = "modelled" PROVE model \in 1 .. Len(registry) /\ registry[model] = own /\ model = 1
  <2>1. Len(q.saw) = 1 /\ q.saw[1] = own /\ model = 1
    BY <1>2, <1>6
  <2>2. Len(registry) \in Nat /\ 1 <= Len(registry) /\ registry[1] = q.saw[1]
    BY <1>3, <2>1 DEF StillThere
  <2>3. QED BY <2>1, <2>2
<1>7. ModelSound(row, own, registry)
  BY <1>2, <1>5, <1>6 DEF ModelSound, ModelKnown
<1>8. SettingsSound(row) /\ ThreadsSound(row)
  BY <1>1, ServerIsSound, <1>2, <1>3, <1>5 DEF SettingsSound, UnfitFound, Checked, ThreadsSound, BeforeStart
<1>9. QED BY <1>1, <1>3, <1>4, <1>5, <1>7, <1>8, ServerMoved

LEMMA BuildPartsSound == ASSUME StartupInv, NEW s \in Servers, BuildParts(s) PROVE StartupInv'
<1>1. PICK q, place : /\ q = server[s]
                      /\ place = IF /\ DetectorTakes(q.settings) /\ SyncTakes(q.settings)
                                    /\ AdaptersTake(q.settings, q.variables) /\ CacheTakes(q.variables)
                                 THEN "built" ELSE "refused"
  OBVIOUS
<1>2. /\ q.at = "modelled" /\ Arrive(s, place) /\ registry' = registry
      /\ place \in {"built", "refused"}
  BY <1>1 DEF BuildParts
<1>3. /\ ValidSettings(q.settings) /\ q.worker = "none" /\ q.threads = {} /\ ~q.stop
      /\ ModelSound(q, ModelOf[s], registry) /\ SettingsSound(q) /\ PeriodsFit(q.settings)
      /\ q.variables \subseteq LateVariables
  BY <1>1, <1>2, ServerIsSound DEF SettingsSound, UnfitFound, Checked, ThreadsSound, BeforeStart,
     ModelSound, ModelKnown, ServerRows
<1>4. place = "refused" <=> UnfitFound(q)
  BY <1>1, <1>3, ValidIsTaken DEF UnfitFound, CacheTakes, LateVariables
<1>5. PICK row \in ServerRows :
        /\ server' = [server EXCEPT ![s] = row] /\ row.at = place /\ row.settings = q.settings /\ row.variables = q.variables
        /\ row.opened = q.opened /\ row.saw = q.saw /\ row.model = q.model
        /\ row.worker = q.worker /\ row.threads = q.threads /\ row.stop = q.stop
  <2>1. place \in ServerPlaces
    BY <1>2 DEF ServerPlaces, Checked
  <2>2. QED BY <1>1, <1>2, <2>1, Arrived
<1>6. SettingsSound(row) /\ ThreadsSound(row) /\ ModelSound(row, ModelOf[s], registry)
  BY <1>1, ServerIsSound, <1>2, <1>3, <1>4, <1>5 DEF SettingsSound, UnfitFound, Checked, ThreadsSound, BeforeStart, ModelSound, ModelKnown
<1>7. QED BY <1>2, <1>5, <1>6, ServerMoved

LEMMA CreateApplicationSound ==
    ASSUME StartupInv, NEW s \in Servers, CreateApplication(s) PROVE StartupInv'
<1>1. PICK q : q = server[s]
  OBVIOUS
<1>2. /\ q.at = "built" /\ registry' = registry /\ ValidSettings(q.settings)
      /\ q.worker = "none" /\ q.threads = {} /\ ~q.stop /\ ModelSound(q, ModelOf[s], registry)
  BY <1>1, ServerIsSound DEF CreateApplication, SettingsSound, UnfitFound, Checked, ThreadsSound, BeforeStart
<1>3. Arrive(s, "created")
  BY <1>1, <1>2 DEF CreateApplication
<1>4. PICK row \in ServerRows :
        /\ server' = [server EXCEPT ![s] = row] /\ row.at = "created" /\ row.settings = q.settings /\ row.variables = q.variables
        /\ row.opened = q.opened /\ row.saw = q.saw /\ row.model = q.model
        /\ row.worker = q.worker /\ row.threads = q.threads /\ row.stop = q.stop
  <2>1. "created" \in ServerPlaces
    BY DEF ServerPlaces, Checked
  <2>2. QED BY <1>1, <1>3, <2>1, Arrived
<1>5. SettingsSound(row) /\ ThreadsSound(row) /\ ModelSound(row, ModelOf[s], registry)
  BY <1>1, ServerIsSound, <1>2, <1>4 DEF SettingsSound, UnfitFound, Checked, ThreadsSound, BeforeStart, ModelSound, ModelKnown
<1>6. QED BY <1>2, <1>4, <1>5, ServerMoved

\* The tasks of a server have different names, so that the next one is a new one.
LEMMA TasksDiffer ==
    ASSUME NEW settings
    PROVE  /\ TasksFor(settings) \in Seq({"sync", "retention", "dashboard"})
           /\ Len(TasksFor(settings)) \in {2, 3}
           /\ \A i, j \in 1 .. Len(TasksFor(settings)) :
                 TasksFor(settings)[i] = TasksFor(settings)[j] => i = j
<1> DEFINE S == {"sync", "retention", "dashboard"}
<1>1. PICK first \in {<<>>, <<"sync">>} : TasksFor(settings) = first \o <<"retention", "dashboard">>
  BY DEF TasksFor
<1>2. first \in Seq(S) /\ <<"retention", "dashboard">> \in Seq(S)
  <2>1. "sync" \in S /\ "retention" \in S /\ "dashboard" \in S
    OBVIOUS
  <2> HIDE DEF S
  <2>2. <<"retention", "dashboard">> \in Seq(S)
    BY <2>1
  <2>3. <<>> \in Seq(S) /\ <<"sync">> \in Seq(S)
    BY <2>1
  <2>4. QED BY <2>2, <2>3
<1>3. PICK tasks : tasks = first \o <<"retention", "dashboard">>
  OBVIOUS
<1>4. /\ tasks \in Seq(S) /\ Len(tasks) = Len(first) + 2
      /\ \A i \in 1 .. Len(first) + 2 :
            tasks[i] = IF i <= Len(first) THEN first[i] ELSE <<"retention", "dashboard">>[i - Len(first)]
  BY <1>2, <1>3, ConcatProperties
<1>5. CASE first = <<>>
  <2>1. Len(tasks) = 2 /\ tasks[1] = "retention" /\ tasks[2] = "dashboard"
    BY <1>4, <1>5
  <2>2. QED BY <1>1, <1>3, <1>4, <2>1
<1>6. CASE first = <<"sync">>
  <2>1. Len(tasks) = 3 /\ tasks[1] = "sync" /\ tasks[2] = "retention" /\ tasks[3] = "dashboard"
    BY <1>4, <1>6
  <2>2. QED BY <1>1, <1>3, <1>4, <2>1
<1>7. QED BY <1>5, <1>6

LEMMA TasksOfServer ==
    ASSUME NEW s \in Servers
    PROVE  TasksOf(s) = TasksFor(server[s].settings)
  BY DEF TasksOf, TasksFor, HasDispatcher

LEMMA StartWorkerSound == ASSUME StartupInv, NEW s \in Servers, StartWorker(s) PROVE StartupInv'
<1>1. PICK q : q = server[s]
  OBVIOUS
<1>2. /\ q.at = "created" /\ q \in ServerRows /\ registry' = registry /\ ValidSettings(q.settings)
      /\ q.worker = "none" /\ q.threads = {} /\ ~q.stop /\ ModelSound(q, ModelOf[s], registry)
      /\ server \in [Servers -> ServerRows]
  BY <1>1, ServerIsSound DEF StartWorker, SettingsSound, UnfitFound, Checked, ThreadsSound, BeforeStart,
     StartupInv, StartupTyped
<1>3. StartedTasks(q)
  <2>1. 0 \in 0 .. Len(TasksFor(q.settings))
    BY TasksDiffer
  <2>2. q.threads = {TasksFor(q.settings)[i] : i \in 1 .. 0} /\ Cardinality(q.threads) = 0
    BY <1>2, FS_EmptySet
  <2>3. QED BY <2>1, <2>2 DEF StartedTasks
<1>4. PICK place \in {"starting", "failed"},
           worker \in {"none", "accepting", "unregistered", "shut"}, stop \in BOOLEAN :
        /\ place = "starting" => /\ ~stop
                                 /\ worker # "none" <=> q.settings["indexing.worker.enabled"]
        /\ place = "failed" => worker = "shut"
        /\ server' = [server EXCEPT ![s] = [[[q EXCEPT !.at = place] EXCEPT !.worker = worker]
                                              EXCEPT !.stop = stop]]
  <2>1. CASE ~HasWorker(s) /\ Arrive(s, "starting")
    <3>1. server' = [server EXCEPT ![s] = [[[q EXCEPT !.at = "starting"] EXCEPT !.worker = "none"]
                                             EXCEPT !.stop = FALSE]]
      <4>1. [[[q EXCEPT !.at = "starting"] EXCEPT !.worker = "none"] EXCEPT !.stop = FALSE]
              = [q EXCEPT !.at = "starting"]
        BY <1>2 DEF ServerRows
      <4>2. PICK row : row = [q EXCEPT !.at = "starting"]
        OBVIOUS
      <4>3. server' = [server EXCEPT ![s] = row]
        BY <1>1, <1>2, <2>1, <4>2 DEF Arrive
      <4>4. QED BY <4>1, <4>2, <4>3
    <3>2. ~q.settings["indexing.worker.enabled"]
      BY <1>1, <2>1 DEF HasWorker
    <3>3. QED BY <3>1, <3>2
  <2>2. ASSUME HasWorker(s), NEW worker \in {"accepting", "unregistered"},
               server' = [server EXCEPT ![s].at = "starting", ![s].worker = worker]
        PROVE  /\ q.settings["indexing.worker.enabled"]
               /\ server' = [server EXCEPT ![s] = [[[q EXCEPT !.at = "starting"] EXCEPT !.worker = worker]
                                                     EXCEPT !.stop = FALSE]]
    <3>1. [[[q EXCEPT !.at = "starting"] EXCEPT !.worker = worker] EXCEPT !.stop = FALSE]
            = [q EXCEPT !.at = "starting", !.worker = worker]
      BY <1>2 DEF ServerRows
    <3>2. PICK row : row = [q EXCEPT !.at = "starting", !.worker = worker]
      OBVIOUS
    <3>3. server' = [server EXCEPT ![s] = row]
      BY <1>1, <1>2, <2>2, <3>2
    <3>4. QED BY <1>1, <2>2, <3>1, <3>2, <3>3 DEF HasWorker
  <2>3. CASE /\ HasWorker(s)
             /\ server' = [server EXCEPT ![s].at = "failed", ![s].worker = "shut", ![s].stop = TRUE]
    <3>1. server' = [server EXCEPT ![s] = [[[q EXCEPT !.at = "failed"] EXCEPT !.worker = "shut"]
                                             EXCEPT !.stop = TRUE]]
      BY <1>1, <1>2, <2>3
    <3>2. QED BY <3>1
  <2>4. QED BY <2>1, <2>2, <2>3 DEF StartWorker
<1> DEFINE row == [[[q EXCEPT !.at = place] EXCEPT !.worker = worker] EXCEPT !.stop = stop]
<1>5. /\ row \in ServerRows /\ row.at = place /\ row.settings = q.settings /\ row.variables = q.variables /\ row.opened = q.opened
      /\ row.saw = q.saw /\ row.model = q.model /\ row.worker = worker /\ row.threads = q.threads
      /\ row.stop = stop
  BY <1>2, <1>4 DEF ServerRows, ServerPlaces, Checked
<1>6. server' = [server EXCEPT ![s] = row]
  BY <1>4
<1> HIDE DEF row
<1>7. SettingsSound(row) /\ ModelSound(row, ModelOf[s], registry)
  BY <1>1, ServerIsSound, <1>2, <1>5 DEF SettingsSound, UnfitFound, Checked, ModelSound, ModelKnown
<1>8. ThreadsSound(row)
  <2>1. StartedTasks(row)
    BY <1>3, <1>5 DEF StartedTasks
  <2>2. QED BY <1>2, <1>4, <1>5, <2>1 DEF ThreadsSound, BeforeStart
<1>9. QED BY <1>2, <1>5, <1>6, <1>7, <1>8, ServerMoved

LEMMA StartTaskSound == ASSUME StartupInv, NEW s \in Servers, StartTask(s) PROVE StartupInv'
<1>1. PICK q, tasks : q = server[s] /\ tasks = TasksFor(q.settings)
  OBVIOUS
<1>2. /\ q.at = "starting" /\ q \in ServerRows /\ registry' = registry /\ ValidSettings(q.settings)
      /\ ~q.stop /\ StartedTasks(q) /\ (q.worker # "none" <=> q.settings["indexing.worker.enabled"])
      /\ ModelSound(q, ModelOf[s], registry) /\ server \in [Servers -> ServerRows]
  BY <1>1, ServerIsSound DEF StartTask, SettingsSound, UnfitFound, Checked, ThreadsSound, StartupInv, StartupTyped
<1>3. PICK n \in 0 .. Len(tasks) :
        q.threads = {tasks[i] : i \in 1 .. n} /\ Cardinality(q.threads) = n
  BY <1>1, <1>2 DEF StartedTasks
<1>4. /\ TasksOf(s) = tasks /\ tasks \in Seq({"sync", "retention", "dashboard"}) /\ Len(tasks) \in Nat
      /\ \A i, j \in 1 .. Len(tasks) : tasks[i] = tasks[j] => i = j
  BY <1>1, TasksOfServer, TasksDiffer
<1>5. n # Len(tasks) /\ n + 1 \in 1 .. Len(tasks)
  BY <1>1, <1>3, <1>4 DEF StartTask, AllStarted
<1>6. PICK threads : threads = q.threads \union {tasks[n + 1]}
  OBVIOUS
<1>7. server' = [server EXCEPT ![s].threads = threads]
  BY <1>1, <1>3, <1>4, <1>6 DEF StartTask
<1>8. threads = {tasks[i] : i \in 1 .. n + 1} /\ threads \subseteq {"sync", "retention", "dashboard"}
  <2>1. 1 .. n + 1 = (1 .. n) \union {n + 1}
    BY <1>3
  <2>2. threads = {tasks[i] : i \in 1 .. n + 1}
    BY <1>3, <1>6, <2>1
  <2>3. \A i \in 1 .. n + 1 : tasks[i] \in {"sync", "retention", "dashboard"}
    BY <1>3, <1>4, <1>5
  <2>4. QED BY <2>2, <2>3
<1>9. Cardinality(threads) = n + 1
  <2>1. tasks[n + 1] \notin q.threads
    BY <1>3, <1>4, <1>5
  <2>2. IsFiniteSet(q.threads)
    <3>1. IsFiniteSet({"sync", "retention", "dashboard"})
      <4>1. IsFiniteSet({"sync"} \union {"retention"})
        BY FS_Singleton, FS_AddElement
      <4>2. IsFiniteSet(({"sync"} \union {"retention"}) \union {"dashboard"})
        BY <4>1, FS_AddElement
      <4>3. ({"sync"} \union {"retention"}) \union {"dashboard"} = {"sync", "retention", "dashboard"}
        OBVIOUS
      <4>4. QED BY <4>2, <4>3
    <3>2. QED BY <1>2, <3>1, FS_Subset DEF ServerRows
  <2>3. QED BY <1>3, <1>6, <2>1, <2>2, FS_AddElement
<1> DEFINE row == [q EXCEPT !.threads = threads]
<1>10. server' = [server EXCEPT ![s] = row]
  BY <1>1, <1>2, <1>7
<1>11. /\ row \in ServerRows /\ row.at = "starting" /\ row.settings = q.settings /\ row.variables = q.variables
       /\ row.opened = q.opened /\ row.saw = q.saw /\ row.model = q.model /\ row.worker = q.worker
       /\ row.threads = threads /\ row.stop = q.stop
  BY <1>2, <1>8 DEF ServerRows
<1> HIDE DEF row
<1>12. StartedTasks(row)
  <2>1. n + 1 \in 0 .. Len(TasksFor(row.settings))
    BY <1>1, <1>4, <1>5, <1>11
  <2>2. row.threads = {TasksFor(row.settings)[i] : i \in 1 .. n + 1} /\ Cardinality(row.threads) = n + 1
    BY <1>1, <1>8, <1>9, <1>11
  <2>3. QED BY <2>1, <2>2 DEF StartedTasks
<1>13. SettingsSound(row) /\ ThreadsSound(row) /\ ModelSound(row, ModelOf[s], registry)
  BY <1>1, ServerIsSound, <1>2, <1>11, <1>12 DEF SettingsSound, UnfitFound, Checked, ThreadsSound, BeforeStart, ModelSound, ModelKnown
<1>14. QED BY <1>2, <1>10, <1>11, <1>13, ServerMoved

LEMMA TaskNotStartedSound == ASSUME StartupInv, NEW s \in Servers, TaskNotStarted(s) PROVE StartupInv'
<1>1. PICK q : q = server[s]
  OBVIOUS
<1>2. /\ q.at = "starting" /\ q \in ServerRows /\ registry' = registry /\ ValidSettings(q.settings)
      /\ server \in [Servers -> ServerRows]
      /\ server' = [server EXCEPT ![s].at = "left", ![s].stop = TRUE]
  BY <1>1, ServerIsSound DEF TaskNotStarted, SettingsSound, UnfitFound, Checked, StartupInv, StartupTyped
<1> DEFINE row == [q EXCEPT !.at = "left", !.stop = TRUE]
<1>3. server' = [server EXCEPT ![s] = row]
  BY <1>1, <1>2
<1>4. row \in ServerRows /\ row.at = "left" /\ row.settings = q.settings /\ row.variables = q.variables /\ row.model = q.model
  BY <1>2 DEF ServerRows, ServerPlaces, Checked
<1> HIDE DEF row
<1>5. SettingsSound(row) /\ ThreadsSound(row) /\ ModelSound(row, ModelOf[s], registry)
  BY <1>1, ServerIsSound, <1>2, <1>4 DEF SettingsSound, UnfitFound, Checked, ThreadsSound, BeforeStart, ModelSound, ModelKnown
<1>6. QED BY <1>2, <1>3, <1>4, <1>5, ServerMoved

LEMMA ServeSound == ASSUME StartupInv, NEW s \in Servers, Serve(s) PROVE StartupInv'
<1>1. PICK q : q = server[s]
  OBVIOUS
<1>2. /\ q.at = "starting" /\ registry' = registry /\ ValidSettings(q.settings)
      /\ ~q.stop /\ StartedTasks(q) /\ (q.worker # "none" <=> q.settings["indexing.worker.enabled"])
      /\ ModelSound(q, ModelOf[s], registry) /\ Arrive(s, "up")
  BY <1>1, ServerIsSound DEF Serve, SettingsSound, UnfitFound, Checked, ThreadsSound
<1>3. Cardinality(q.threads) = Len(TasksFor(q.settings))
  BY <1>1, TasksOfServer DEF Serve, AllStarted
<1>4. PICK row \in ServerRows :
        /\ server' = [server EXCEPT ![s] = row] /\ row.at = "up" /\ row.settings = q.settings /\ row.variables = q.variables
        /\ row.opened = q.opened /\ row.saw = q.saw /\ row.model = q.model
        /\ row.worker = q.worker /\ row.threads = q.threads /\ row.stop = q.stop
  <2>1. "up" \in ServerPlaces
    BY DEF ServerPlaces, Checked
  <2>2. QED BY <1>1, <1>2, <2>1, Arrived
<1>5. StartedTasks(row)
  BY <1>2, <1>4 DEF StartedTasks
<1>6. SettingsSound(row) /\ ThreadsSound(row) /\ ModelSound(row, ModelOf[s], registry)
  BY <1>1, ServerIsSound, <1>2, <1>3, <1>4, <1>5
     DEF SettingsSound, UnfitFound, Checked, ThreadsSound, BeforeStart, ModelSound, ModelKnown
<1>7. QED BY <1>2, <1>4, <1>6, ServerMoved

LEMMA StopServerSound == ASSUME StartupInv, NEW s \in Servers, StopServer(s) PROVE StartupInv'
<1>1. PICK q, worker : q = server[s] /\ worker = IF q.worker = "accepting" THEN "shut" ELSE q.worker
  OBVIOUS
<1>2. /\ q.at = "up" /\ q \in ServerRows /\ registry' = registry /\ ValidSettings(q.settings)
      /\ server \in [Servers -> ServerRows]
      /\ server' = [server EXCEPT ![s].at = "stopped", ![s].stop = TRUE, ![s].worker = worker]
  BY <1>1, ServerIsSound DEF StopServer, SettingsSound, UnfitFound, Checked, StartupInv, StartupTyped
<1>3. worker # "accepting" /\ worker \in {"none", "unregistered", "shut"}
  BY <1>1, <1>2 DEF ServerRows
<1> DEFINE row == [q EXCEPT !.at = "stopped", !.stop = TRUE, !.worker = worker]
<1>4. server' = [server EXCEPT ![s] = row]
  BY <1>1, <1>2
<1>5. /\ row \in ServerRows /\ row.at = "stopped" /\ row.settings = q.settings /\ row.variables = q.variables /\ row.model = q.model /\ row.stop
      /\ row.worker = worker
  BY <1>2, <1>3 DEF ServerRows, ServerPlaces, Checked
<1> HIDE DEF row
<1>6. SettingsSound(row) /\ ThreadsSound(row) /\ ModelSound(row, ModelOf[s], registry)
  BY <1>1, ServerIsSound, <1>2, <1>3, <1>5 DEF SettingsSound, UnfitFound, Checked, ThreadsSound, BeforeStart, ModelSound, ModelKnown
<1>7. QED BY <1>2, <1>4, <1>5, <1>6, ServerMoved

\* Only a server that was stopped, or left by its start, has tasks that see the event.
LEMMA EndTaskSound ==
    ASSUME StartupInv, NEW s \in Servers, NEW ended \in server[s].threads, EndTask(s, ended)
    PROVE  StartupInv'
<1>1. PICK q, threads : q = server[s] /\ threads = q.threads \ {ended}
  OBVIOUS
<1>2. /\ q \in ServerRows /\ q.stop /\ registry' = registry /\ q.threads # {}
      /\ SettingsSound(q) /\ ThreadsSound(q) /\ server \in [Servers -> ServerRows]
      /\ server' = [server EXCEPT ![s].threads = threads]
  BY <1>1, ServerIsSound DEF EndTask, StartupInv, StartupTyped
<1>3. q.at \in {"left", "stopped"}
  BY <1>2 DEF ThreadsSound, BeforeStart, ServerRows, ServerPlaces, Checked
<1> DEFINE row == [q EXCEPT !.threads = threads]
<1>4. server' = [server EXCEPT ![s] = row]
  BY <1>1, <1>2
<1>5. /\ row \in ServerRows /\ row.at = q.at /\ row.settings = q.settings /\ row.variables = q.variables /\ row.model = q.model /\ row.stop = q.stop
      /\ row.opened = q.opened /\ row.worker = q.worker
  BY <1>1, <1>2 DEF ServerRows
<1> HIDE DEF row
<1>6. SettingsSound(row) /\ ThreadsSound(row) /\ ModelSound(row, ModelOf[s], registry)
  BY <1>1, ServerIsSound, <1>2, <1>3, <1>5 DEF SettingsSound, UnfitFound, Checked, ThreadsSound, BeforeStart, ModelSound, ModelKnown
<1>7. QED BY <1>2, <1>4, <1>5, <1>6, ServerMoved

LEMMA CrashServerSound == ASSUME StartupInv, NEW s \in Servers, CrashServer(s) PROVE StartupInv'
<1>1. PICK row : row = NoServer
  OBVIOUS
<1>2. server' = [server EXCEPT ![s] = row] /\ registry' = registry
  BY <1>1 DEF CrashServer
<1>3. SettingsSound(row) /\ ThreadsSound(row) /\ ModelSound(row, ModelOf[s], registry)
  BY <1>1, NoServerIsRow DEF SettingsSound, UnfitFound, Checked, ThreadsSound, BeforeStart, ModelSound, ModelKnown
<1>4. QED BY <1>1, <1>2, <1>3, NoServerIsRow, ServerMoved

LEMMA StartupBegins == StartupInit => StartupInv
<1> SUFFICES ASSUME StartupInit PROVE StartupInv
  OBVIOUS
<1>1. StartupTyped
  BY NoServerIsRow DEF StartupInit, StartupTyped
<1>2. PICK row : row = NoServer
  OBVIOUS
<1>3. ASSUME NEW s \in Servers
      PROVE  /\ SettingsSound(row) /\ ThreadsSound(row) /\ ModelSound(row, ModelOf[s], registry)
             /\ server[s] = row
  BY <1>2, NoServerIsRow
     DEF StartupInit, SettingsSound, UnfitFound, Checked, ThreadsSound, BeforeStart, ModelSound, ModelKnown
<1>4. QED BY <1>1, <1>3 DEF StartupInv

LEMMA StartupInvPreserved == StartupInv /\ [StartupNext]_startupVars => StartupInv'
<1> SUFFICES ASSUME StartupInv, [StartupNext]_startupVars PROVE StartupInv'
  OBVIOUS
<1>1. ASSUME NEW s \in Servers, BuildStep(s) PROVE StartupInv'
  BY <1>1, LoadSound, ValidateSound, EnvironmentRefusesSound, OpenLedgersSound, ListModelsSound,
     InsertModelSound, FindModelSound, BuildPartsSound, CreateApplicationSound DEF BuildStep
<1>2. ASSUME NEW s \in Servers, LifeStep(s) PROVE StartupInv'
  BY <1>2, StartWorkerSound, StartTaskSound, TaskNotStartedSound, ServeSound, StopServerSound,
     CrashServerSound, EndTaskSound DEF LifeStep
<1>3. CASE UNCHANGED startupVars
  BY <1>3 DEF startupVars, StartupInv, StartupTyped
<1>4. QED BY <1>1, <1>2, <1>3 DEF StartupNext

\* A server that is up has started each of its tasks.
LEMMA UpHasAll ==
    ASSUME NEW q, StartedTasks(q), Cardinality(q.threads) = Len(TasksFor(q.settings))
    PROVE  q.threads = {TasksFor(q.settings)[i] : i \in 1 .. Len(TasksFor(q.settings))}
  BY DEF StartedTasks

LEMMA StartupInvIsSound == StartupInv => StartupSound
<1> SUFFICES ASSUME StartupInv PROVE StartupSound
  OBVIOUS
<1>1. RefusedEarly
  BY ServerIsSound DEF RefusedEarly, FoundLate, SettingsSound, UnfitFound, Checked
<1>2. ModelAgreed
  BY ServerIsSound DEF ModelAgreed, ModelSound, ModelKnown
<1>3. NothingLeft
  <2>1. ASSUME NEW s \in Servers, server[s].at \in {"refused", "failed", "stopped"}
        PROVE  server[s].worker # "accepting" /\ (server[s].threads # {} => server[s].stop)
    BY <2>1, ServerIsSound DEF ThreadsSound, BeforeStart
  <2>2. ASSUME NEW s \in Servers, server[s].at = "up"
        PROVE  /\ server[s].threads = {TasksOf(s)[i] : i \in 1 .. Len(TasksOf(s))}
               /\ server[s].worker # "none" <=> HasWorker(s)
    <3>1. ThreadsSound(server[s])
      BY ServerIsSound
    <3>2. server[s].threads = {TasksOf(s)[i] : i \in 1 .. Len(TasksOf(s))}
      <4>1. PICK q, tasks : q = server[s] /\ tasks = TasksFor(q.settings)
        OBVIOUS
      <4>2. tasks = TasksOf(s)
        BY <4>1, TasksOfServer
      <4>3. StartedTasks(q) /\ Cardinality(q.threads) = Len(tasks)
        BY <2>2, <3>1, <4>1 DEF ThreadsSound
      <4>4. q.threads = {tasks[i] : i \in 1 .. Len(tasks)}
        BY <4>1, <4>3, UpHasAll
      <4>5. QED BY <4>1, <4>2, <4>4
    <3>3. QED BY <2>2, <3>1, <3>2 DEF ThreadsSound, HasWorker
  <2>3. QED BY <2>1, <2>2 DEF NothingLeft
<1>4. QED BY <1>1, <1>2, <1>3 DEF StartupSound

(* What a start tells is what happened, for any servers, releases and      *)
(* configurations: what the checks of the settings compare is refused      *)
(* before anything is opened, and a start refused later is so for a period *)
(* no timedelta holds, the grace of orphans, a cache of models inside the  *)
(* project or an address of the cache; servers that are up work with the   *)
(* model of their release, the first row unless both saw none; and nothing *)
(* goes on after a failed start or a stop.  infra/settings.py:             *)
(* validate_settings, infra/runtime.py: build_application, application.py: *)
(* start, stop.                                                            *)
THEOREM StartupAlwaysSound == StartupSpec => []StartupSound
<1>1. StartupInit => StartupInv
  BY StartupBegins
<1>2. StartupInv /\ [StartupNext]_startupVars => StartupInv'
  BY StartupInvPreserved
<1>3. StartupInv => StartupSound
  BY StartupInvIsSound
<1>4. QED BY <1>1, <1>2, <1>3, PTL DEF StartupSpec

----------------------------------------------------------------------------
(* Induction, over sets of natural numbers. *)

LEMMA LeastOf ==
    ASSUME NEW T, T \subseteq Nat, T # {}
    PROVE  \E x \in T : \A y \in T : x <= y
<1>1. IsWellFoundedOn(OpToRel(<, Nat), Nat)
  BY NatLessThanWellFounded
<1>2. PICK x \in T : \A y \in T : <<y, x>> \notin OpToRel(<, Nat)
  BY <1>1, WFMin
<1>3. \A y \in T : ~(y < x)
  BY <1>2 DEF OpToRel
<1>4. QED BY <1>3

\* A set that has 0, and with each number the next, has them all.
LEMMA SetInduction ==
    ASSUME NEW S, 0 \in S, \A n \in Nat : n \in S => n + 1 \in S
    PROVE  Nat \subseteq S
<1> SUFFICES ASSUME ~(Nat \subseteq S) PROVE FALSE
  OBVIOUS
<1> DEFINE T == Nat \ S
<1>1. PICK x \in T : \A y \in T : x <= y
  <2>1. T \subseteq Nat /\ T # {}
    OBVIOUS
  <2> HIDE DEF T
  <2>2. QED BY <2>1, LeastOf
<1>2. x # 0 /\ x - 1 \in Nat /\ x - 1 \in S
  BY <1>1
<1>3. QED BY <1>1, <1>2

----------------------------------------------------------------------------
(* FoldLeft: the results over the first k, for each k. *)

LEMMA MaxOfInterval ==
    ASSUME NEW n \in Nat, NEW s, s \subseteq 1 .. n, s # {}
    PROVE  Max(s) \in s /\ (n \in s => Max(s) = n)
<1>1. \E x \in s : \A y \in s : x >= y
  <2> DEFINE T == {n - x : x \in s}
  <2>1. T \subseteq Nat /\ T # {}
    <3>1. \A x \in s : n - x \in Nat
      OBVIOUS
    <3>2. PICK x \in s : TRUE
      OBVIOUS
    <3>3. QED BY <3>1, <3>2
  <2> HIDE DEF T
  <2>2. PICK t \in T : \A u \in T : t <= u
    BY <2>1, LeastOf
  <2>3. PICK x \in s : t = n - x
    BY <2>2 DEF T
  <2>4. \A y \in s : n - y \in T
    BY DEF T
  <2>5. ASSUME NEW y \in s PROVE x >= y
    <3>1. n - x <= n - y /\ x \in Int /\ y \in Int
      BY <2>2, <2>3, <2>4
    <3>2. QED BY <3>1
  <2>6. QED BY <2>5
<1>2. PICK m : m = Max(s)
  OBVIOUS
<1>3. m \in s /\ \A y \in s : m >= y
  BY <1>1, <1>2 DEF Max
<1>4. n \in s => m = n
  BY <1>3
<1>5. QED BY <1>2, <1>3, <1>4

FoldsBy(g, G, base, n) ==
    \A s \in SUBSET (1 .. n) : g[s] = IF s = {} THEN base ELSE G[<<Max(s), g[s \ {Max(s)}]>>]

LEMMA FoldingExists ==
    ASSUME NEW A, NEW N \in Nat, NEW G \in [(1 .. N) \X A -> A], NEW base \in A
    PROVE  \E g \in [SUBSET (1 .. N) -> A] : FoldsBy(g, G, base, N)
<1> DEFINE Folds(n) == \E g \in [SUBSET (1 .. n) -> A] : FoldsBy(g, G, base, n)
<1>1. Folds(0)
  <2>1. [s \in SUBSET (1 .. 0) |-> base] \in [SUBSET (1 .. 0) -> A]
    OBVIOUS
  <2>2. \A s \in SUBSET (1 .. 0) : s = {}
    OBVIOUS
  <2>3. FoldsBy([s \in SUBSET (1 .. 0) |-> base], G, base, 0)
    BY <2>2 DEF FoldsBy
  <2>4. QED BY <2>1, <2>3
<1>2. ASSUME NEW n \in Nat, n + 1 <= N, Folds(n) PROVE Folds(n + 1)
  <2>1. PICK g \in [SUBSET (1 .. n) -> A] : FoldsBy(g, G, base, n)
    BY <1>2
  <2> DEFINE h == [s \in SUBSET (1 .. n + 1) |-> IF n + 1 \in s THEN G[<<n + 1, g[s \ {n + 1}]>>] ELSE g[s]]
  <2>2. ASSUME NEW s \in SUBSET (1 .. n + 1) PROVE s \ {n + 1} \in SUBSET (1 .. n)
    OBVIOUS
  <2>3. ASSUME NEW s \in SUBSET (1 .. n + 1), n + 1 \notin s PROVE s \in SUBSET (1 .. n)
    BY <2>3
  <2>4. h \in [SUBSET (1 .. n + 1) -> A]
    <3>1. ASSUME NEW s \in SUBSET (1 .. n + 1)
          PROVE  (IF n + 1 \in s THEN G[<<n + 1, g[s \ {n + 1}]>>] ELSE g[s]) \in A
      <4>1. CASE n + 1 \in s
        <5>1. g[s \ {n + 1}] \in A /\ n + 1 \in 1 .. N
          <6>1. n + 1 \in 1 .. N
            BY <1>2
          <6>2. s \ {n + 1} \in SUBSET (1 .. n)
            BY <2>2
          <6>3. QED BY <2>1, <6>1, <6>2
        <5>2. PICK a \in A : a = g[s \ {n + 1}]
          BY <5>1
        <5>3. G[<<n + 1, a>>] \in A
          BY <5>1, <5>2
        <5>4. QED BY <4>1, <5>2, <5>3
      <4>2. CASE n + 1 \notin s
        BY <2>1, <2>3, <4>2
      <4>3. QED BY <4>1, <4>2
    <3>2. QED BY <3>1
  <2>5. ASSUME NEW s \in SUBSET (1 .. n + 1)
        PROVE  h[s] = IF s = {} THEN base ELSE G[<<Max(s), h[s \ {Max(s)}]>>]
    <3>1. CASE n + 1 \in s
      <4>1. Max(s) = n + 1
        <5>1. n + 1 \in Nat /\ s \subseteq 1 .. n + 1 /\ s # {}
          BY <3>1
        <5>2. QED BY <3>1, <5>1, MaxOfInterval
      <4>2. h[s] = G[<<n + 1, g[s \ {n + 1}]>>] /\ h[s \ {n + 1}] = g[s \ {n + 1}]
        BY <2>2, <3>1
      <4>3. QED BY <3>1, <4>1, <4>2
    <3>2. CASE n + 1 \notin s
      <4>1. s \in SUBSET (1 .. n) /\ s \ {Max(s)} \in SUBSET (1 .. n) /\ n + 1 \notin s \ {Max(s)}
        BY <2>3, <3>2
      <4>2. h[s] = g[s] /\ h[s \ {Max(s)}] = g[s \ {Max(s)}]
        BY <3>2, <4>1
      <4>3. QED BY <2>1, <4>1, <4>2 DEF FoldsBy
    <3>3. QED BY <3>1, <3>2
  <2> HIDE DEF h
  <2>6. FoldsBy(h, G, base, n + 1)
    BY <2>5 DEF FoldsBy
  <2>7. QED BY <2>4, <2>6
<1> HIDE DEF Folds
<1> DEFINE S == {n \in Nat : n <= N => Folds(n)}
<1>3. 0 \in S
  BY <1>1
<1>4. ASSUME NEW n \in Nat, n \in S PROVE n + 1 \in S
  <2>1. CASE n + 1 <= N
    <3>1. n <= N /\ Folds(n)
      BY <1>4, <2>1
    <3>2. QED BY <1>2, <2>1, <3>1
  <2>2. QED BY <2>1
<1> HIDE DEF S
<1>5. Nat \subseteq S
  BY <1>3, <1>4, SetInduction
<1>6. Folds(N)
  <2>1. N \in S /\ N <= N
    BY <1>5
  <2>2. QED BY <2>1 DEF S
<1>7. QED BY <1>6 DEF Folds

\* The same of a function that may have no value in A; and what it gives for the first k,
\* one after the other.
Unfolds(g, G, base, A, n) ==
    /\ g[{}] = base
    /\ \A s \in SUBSET (1 .. n) : s # {} /\ g[s \ {Max(s)}] \in A
            => g[s] = G[<<Max(s), g[s \ {Max(s)}]>>]
Accumulates(acc, g, G, base, n) ==
    acc[0] = base /\ acc[n] = g[1 .. n] /\ \A k \in 1 .. n : acc[k] = G[<<k, acc[k - 1]>>]

LEMMA FoldedSteps ==
    ASSUME NEW A, NEW N \in Nat, NEW G \in [(1 .. N) \X A -> A], NEW base \in A, NEW g,
           Unfolds(g, G, base, A, N)
    PROVE  \E acc \in [0 .. N -> A] : Accumulates(acc, g, G, base, N)
<1>1. 1 .. 0 = {}
  OBVIOUS
<1>2. ASSUME NEW k \in 1 .. N, g[1 .. k - 1] \in A PROVE g[1 .. k] = G[<<k, g[1 .. k - 1]>>]
  <2>1. PICK all : all = 1 .. k
    OBVIOUS
  <2>2. Max(all) = k
    <3>1. k \in Nat /\ k \in 1 .. k
      OBVIOUS
    <3>2. k \in all /\ all \subseteq 1 .. k /\ all # {}
      BY <2>1, <3>1
    <3>3. QED BY <3>1, <3>2, MaxOfInterval
  <2>3. all \in SUBSET (1 .. N) /\ all # {}
    <3>1. \A i \in 1 .. k : i \in 1 .. N
      OBVIOUS
    <3>2. k \in 1 .. k
      OBVIOUS
    <3>3. QED BY <2>1, <3>1, <3>2
  <2>4. all \ {k} = 1 .. k - 1
    <3>1. \A i : i \in all \ {k} <=> i \in 1 .. k - 1
      BY <2>1
    <3>2. QED BY <3>1
  <2>5. QED BY <1>2, <2>1, <2>2, <2>3, <2>4 DEF Unfolds
<1> DEFINE S == {k \in Nat : k <= N => g[1 .. k] \in A}
<1>3. 0 \in S
  BY <1>1 DEF Unfolds
<1>4. ASSUME NEW k \in Nat, k \in S PROVE k + 1 \in S
  <2>1. CASE k + 1 <= N
    <3>1. k + 1 \in 1 .. N /\ (k + 1) - 1 = k /\ g[1 .. k] \in A
      BY <1>4, <2>1
    <3>2. PICK a \in A : a = g[1 .. k]
      BY <3>1
    <3>3. g[1 .. k + 1] = G[<<k + 1, a>>]
      BY <1>2, <3>1, <3>2
    <3>4. G[<<k + 1, a>>] \in A
      BY <3>1
    <3>5. QED BY <3>3, <3>4
  <2>2. QED BY <2>1
<1> HIDE DEF S
<1>5. Nat \subseteq S
  BY <1>3, <1>4, SetInduction
<1>6. \A k \in 0 .. N : g[1 .. k] \in A
  BY <1>5 DEF S
<1> DEFINE acc == [k \in 0 .. N |-> g[1 .. k]]
<1>7. acc \in [0 .. N -> A]
  BY <1>6
<1>8. acc[0] = base /\ acc[N] = g[1 .. N]
  BY <1>1 DEF Unfolds
<1>9. ASSUME NEW k \in 1 .. N PROVE acc[k] = G[<<k, acc[k - 1]>>]
  <2>1. k - 1 \in 0 .. N /\ k \in 0 .. N
    OBVIOUS
  <2>2. acc[k] = g[1 .. k] /\ acc[k - 1] = g[1 .. k - 1]
    BY <2>1
  <2>3. QED BY <1>2, <1>6, <2>1, <2>2
<1> HIDE DEF acc
<1>10. QED BY <1>7, <1>8, <1>9 DEF Accumulates
----------------------------------------------------------------------------
(* The sums of a batch. *)

SizeRows == [chars : Nat, tokens : Nat]

\* it[k] is the sum over the first k of a batch.
SumsTo(it, texts, batch, field) ==
    /\ it \in [0 .. Len(batch) -> Nat] /\ it[0] = 0
    /\ \A k \in 1 .. Len(batch) : it[k] = it[k - 1] + texts[batch[k]][field]

LEMMA TotalSums ==
    ASSUME NEW n \in Nat, NEW texts \in [1 .. n -> SizeRows], NEW batch \in Seq(1 .. n),
           NEW field \in {"chars", "tokens"}
    PROVE  \E it : SumsTo(it, texts, batch, field) /\ Total(texts, batch, field) = it[Len(batch)]
<1>1. PICK N \in Nat : N = Len(batch) /\ DOMAIN batch = 1 .. N
  OBVIOUS
<1>2. \A k \in 1 .. N : texts[batch[k]][field] \in Nat
  <2>1. \A k \in 1 .. N : batch[k] \in 1 .. n
    BY <1>1
  <2>2. \A k \in 1 .. N : texts[batch[k]] \in SizeRows
    BY <2>1
  <2>3. QED BY <2>2 DEF SizeRows
<1> DEFINE Folds(iter) == iter = [s \in SUBSET DOMAIN batch |->
                              IF s = {} THEN 0 ELSE iter[s \ {Max(s)}] + texts[batch[Max(s)]][field]]
           G == [p \in (1 .. N) \X Nat |-> p[2] + texts[batch[p[1]]][field]]
           iter == CHOOSE iter : Folds(iter)
<1>3. Total(texts, batch, field) = iter[DOMAIN batch]
  BY DEF Total, FoldLeft, MapThenFoldSet
<1>4. G \in [(1 .. N) \X Nat -> Nat]
  BY <1>2
<1>5. \E g : Folds(g)
  <2>1. PICK g \in [SUBSET (1 .. N) -> Nat] : FoldsBy(g, G, 0, N)
    BY <1>4, FoldingExists
  <2>2. ASSUME NEW s \in SUBSET (1 .. N)
        PROVE  g[s] = IF s = {} THEN 0 ELSE g[s \ {Max(s)}] + texts[batch[Max(s)]][field]
    <3>1. CASE s = {}
      BY <2>1, <3>1 DEF FoldsBy
    <3>2. CASE s # {}
      <4>1. Max(s) \in 1 .. N
        BY <3>2, MaxOfInterval
      <4>2. s \ {Max(s)} \in SUBSET (1 .. N)
        OBVIOUS
      <4>3. <<Max(s), g[s \ {Max(s)}]>> \in (1 .. N) \X Nat
        BY <4>1, <4>2
      <4>4. g[s] = G[<<Max(s), g[s \ {Max(s)}]>>]
        BY <2>1, <3>2 DEF FoldsBy
      <4>5. QED BY <3>2, <4>3, <4>4
    <3>3. QED BY <3>1, <3>2
  <2>3. QED BY <1>1, <2>1, <2>2
<1>6. Folds(iter)
  BY <1>5
<1> HIDE DEF iter
<1>7. iter[{}] = 0
  BY <1>6
<1>8. ASSUME NEW s \in SUBSET (1 .. N), s # {}, iter[s \ {Max(s)}] \in Nat
      PROVE  iter[s] = G[<<Max(s), iter[s \ {Max(s)}]>>]
  <2>1. Max(s) \in 1 .. N
    BY <1>8, MaxOfInterval
  <2>2. PICK m \in 1 .. N, sum \in Nat : m = Max(s) /\ sum = iter[s \ {Max(s)}]
    BY <1>8, <2>1
  <2>3. iter[s] = sum + texts[batch[m]][field]
    BY <1>1, <1>6, <1>8, <2>2
  <2>4. G[<<m, sum>>] = sum + texts[batch[m]][field]
    OBVIOUS
  <2>5. QED BY <2>2, <2>3, <2>4
<1>9. Unfolds(iter, G, 0, Nat, N)
  BY <1>7, <1>8 DEF Unfolds
<1>10. PICK it \in [0 .. N -> Nat] : Accumulates(it, iter, G, 0, N)
  <2> HIDE DEF G
  <2>1. 0 \in Nat
    OBVIOUS
  <2>2. QED BY <1>4, <1>9, <2>1, FoldedSteps
<1>11. ASSUME NEW k \in 1 .. N PROVE it[k] = it[k - 1] + texts[batch[k]][field]
  <2>1. PICK sum \in Nat : sum = it[k - 1]
    BY <1>10
  <2>2. G[<<k, sum>>] = sum + texts[batch[k]][field]
    OBVIOUS
  <2>3. QED BY <1>10, <2>1, <2>2 DEF Accumulates
<1>12. Total(texts, batch, field) = it[N]
  BY <1>1, <1>3, <1>10 DEF Accumulates
<1>13. it[0] = 0
  BY <1>10 DEF Accumulates
<1>14. QED BY <1>1, <1>10, <1>11, <1>12, <1>13 DEF SumsTo

LEMMA SumsAgree ==
    ASSUME NEW texts, NEW batch, NEW more, NEW field, NEW it, NEW that,
           Len(batch) \in Nat, Len(more) \in Nat, Len(batch) <= Len(more),
           \A k \in 1 .. Len(batch) : more[k] = batch[k],
           SumsTo(it, texts, batch, field), SumsTo(that, texts, more, field)
    PROVE  that[Len(batch)] = it[Len(batch)]
<1>1. PICK N \in Nat, M \in Nat : N = Len(batch) /\ M = Len(more) /\ N <= M
  OBVIOUS
<1> DEFINE S == {k \in Nat : k <= N => that[k] = it[k]}
<1>2. 0 \in S
  BY DEF SumsTo
<1>3. ASSUME NEW k \in Nat, k \in S PROVE k + 1 \in S
  <2>1. CASE k + 1 <= N
    <3>1. k + 1 \in 1 .. N /\ k + 1 \in 1 .. M /\ (k + 1) - 1 = k /\ that[k] = it[k]
      BY <1>1, <1>3, <2>1
    <3>2. it[k + 1] = it[k] + texts[batch[k + 1]][field]
      BY <1>1, <3>1 DEF SumsTo
    <3>3. that[k + 1] = that[k] + texts[more[k + 1]][field]
      BY <1>1, <3>1 DEF SumsTo
    <3>4. more[k + 1] = batch[k + 1]
      BY <1>1, <3>1
    <3>5. QED BY <3>1, <3>2, <3>3, <3>4
  <2>2. QED BY <2>1
<1> HIDE DEF S
<1>4. Nat \subseteq S
  BY <1>2, <1>3, SetInduction
<1>5. N \in S /\ N <= N
  BY <1>4
<1>6. QED BY <1>1, <1>5 DEF S

LEMMA TotalAppended ==
    ASSUME NEW n \in Nat, NEW texts \in [1 .. n -> SizeRows], NEW batch \in Seq(1 .. n),
           NEW i \in 1 .. n, NEW field \in {"chars", "tokens"}
    PROVE  /\ Total(texts, batch, field) \in Nat
           /\ Total(texts, Append(batch, i), field) = Total(texts, batch, field) + texts[i][field]
<1>1. PICK it : SumsTo(it, texts, batch, field) /\ Total(texts, batch, field) = it[Len(batch)]
  BY TotalSums
<1>2. PICK more \in Seq(1 .. n) : more = Append(batch, i)
  <2>1. Append(batch, i) \in Seq(1 .. n)
    BY AppendProperties
  <2>2. QED BY <2>1
<1>3. PICK that : SumsTo(that, texts, more, field) /\ Total(texts, more, field) = that[Len(more)]
  BY TotalSums
<1>4. PICK N \in Nat : N = Len(batch) /\ Len(more) = N + 1
  BY <1>2
<1>5. more[N + 1] = i /\ \A k \in 1 .. N : more[k] = batch[k]
  BY <1>2, <1>4
<1>6. that[N] = it[N]
  <2>1. Len(batch) \in Nat /\ Len(more) \in Nat /\ Len(batch) <= Len(more)
    BY <1>4
  <2>2. \A k \in 1 .. Len(batch) : more[k] = batch[k]
    BY <1>4, <1>5
  <2>3. that[Len(batch)] = it[Len(batch)]
    BY <1>1, <1>3, <2>1, <2>2, SumsAgree
  <2>4. QED BY <1>4, <2>3
<1>7. that[N + 1] = that[N] + texts[i][field]
  <2>1. N + 1 \in 1 .. Len(more) /\ (N + 1) - 1 = N
    BY <1>4
  <2>2. QED BY <1>3, <1>5, <2>1 DEF SumsTo
<1>8. it[N] \in Nat
  BY <1>1, <1>4 DEF SumsTo
<1>9. QED BY <1>1, <1>2, <1>3, <1>4, <1>6, <1>7, <1>8

----------------------------------------------------------------------------
(* The batches of a list of texts. *)

\* The positions after from, up to upto.
Run(batch, from, upto) == from < upto /\ batch = [i \in 1 .. upto - from |-> from + i]

WithinLimits(texts, batch) ==
    Len(batch) > 1 => /\ Len(batch) <= MaxItems
                      /\ Total(texts, batch, "chars") <= CharBudget
                      /\ Total(texts, batch, "tokens") <= TokenBudget

\* Batches that go on from one another: ends[b] is the last position of batch b.
Batched(texts, batches, ends, from, upto) ==
    /\ ends \in [0 .. Len(batches) -> Nat] /\ ends[0] = from /\ ends[Len(batches)] = upto
    /\ \A b \in 1 .. Len(batches) : /\ Run(batches[b], ends[b - 1], ends[b])
                                    /\ WithinLimits(texts, batches[b])

LEMMA NoBatches ==
    ASSUME NEW texts, NEW k \in Nat
    PROVE  Batched(texts, <<>>, [b \in 0 .. 0 |-> k], k, k)
<1>1. Len(<<>>) = 0 /\ 1 .. 0 = {}
  OBVIOUS
<1>2. QED BY <1>1 DEF Batched

LEMMA BatchedAppended ==
    ASSUME NEW S, NEW texts, NEW batches \in Seq(S), NEW ends, NEW batch \in S,
           NEW from, NEW k \in Nat, NEW upto \in Nat,
           Batched(texts, batches, ends, from, k), Run(batch, k, upto), WithinLimits(texts, batch)
    PROVE  \E more : Batched(texts, Append(batches, batch), more, from, upto)
<1>1. PICK N \in Nat : N = Len(batches)
  OBVIOUS
<1>2. PICK all \in Seq(S) : all = Append(batches, batch)
  <2>1. Append(batches, batch) \in Seq(S)
    BY AppendProperties
  <2>2. QED BY <2>1
<1>3. Len(all) = N + 1 /\ all[N + 1] = batch /\ \A b \in 1 .. N : all[b] = batches[b]
  BY <1>1, <1>2, AppendProperties
<1> DEFINE more == [b \in 0 .. N + 1 |-> IF b = N + 1 THEN upto ELSE ends[b]]
<1>4. \A b \in 0 .. N : more[b] = ends[b] /\ ends[b] \in Nat
  <2>1. \A b \in 0 .. N : b \in 0 .. N + 1 /\ b # N + 1
    OBVIOUS
  <2>2. \A b \in 0 .. N : ends[b] \in Nat
    BY <1>1 DEF Batched
  <2>3. QED BY <2>1, <2>2
<1>5. more[N + 1] = upto /\ more \in [0 .. N + 1 -> Nat]
  <2>1. N + 1 \in 0 .. N + 1
    OBVIOUS
  <2>2. \A b \in 0 .. N + 1 : b = N + 1 \/ b \in 0 .. N
    OBVIOUS
  <2>3. QED BY <1>4, <2>1, <2>2
<1> HIDE DEF more
<1>6. more[0] = from
  BY <1>1, <1>4 DEF Batched
<1>7. ASSUME NEW b \in 1 .. N + 1
      PROVE  Run(all[b], more[b - 1], more[b]) /\ WithinLimits(texts, all[b])
  <2>1. CASE b = N + 1
    <3>1. b - 1 = N /\ N \in 0 .. N
      BY <2>1
    <3>2. more[b - 1] = k /\ more[b] = upto /\ all[b] = batch
      BY <1>1, <1>3, <1>4, <1>5, <2>1, <3>1 DEF Batched
    <3>3. QED BY <3>2
  <2>2. CASE b # N + 1
    <3>1. b \in 1 .. N /\ b \in 0 .. N /\ b - 1 \in 0 .. N
      BY <2>2
    <3>2. all[b] = batches[b] /\ more[b] = ends[b] /\ more[b - 1] = ends[b - 1]
      BY <1>3, <1>4, <3>1
    <3>3. QED BY <1>1, <3>1, <3>2 DEF Batched
  <2>3. QED BY <2>1, <2>2
<1>8. Batched(texts, all, more, from, upto)
  BY <1>3, <1>5, <1>6, <1>7 DEF Batched
<1>9. QED BY <1>2, <1>8

LEMMA BatchedTail ==
    ASSUME NEW S, NEW texts, NEW batches \in Seq(S), NEW ends, NEW from, NEW upto,
           Batched(texts, batches, ends, from, upto), batches # <<>>
    PROVE  \E k \in Nat : \E more : /\ Run(Head(batches), from, k)
                                      /\ Batched(texts, Tail(batches), more, k, upto)
<1>1. PICK N \in Nat : N = Len(batches) - 1 /\ Len(batches) = N + 1
  OBVIOUS
<1>2. PICK rest \in Seq(S) : rest = Tail(batches)
  BY HeadTailProperties
<1>3. Len(rest) = N /\ \A b \in 1 .. N : rest[b] = batches[b + 1]
  BY <1>1, <1>2
<1>4. Head(batches) = batches[1]
  OBVIOUS
<1>5. \A b \in 0 .. N + 1 : ends[b] \in Nat
  BY <1>1 DEF Batched
<1>6. \A b \in 1 .. N + 1 : Run(batches[b], ends[b - 1], ends[b]) /\ WithinLimits(texts, batches[b])
  BY <1>1 DEF Batched
<1> DEFINE more == [b \in 0 .. N |-> ends[b + 1]]
<1>7. more \in [0 .. N -> Nat] /\ more[0] = ends[1] /\ more[N] = upto
  <2>1. \A b \in 0 .. N : b + 1 \in 0 .. N + 1
    OBVIOUS
  <2>2. 0 \in 0 .. N /\ N \in 0 .. N
    OBVIOUS
  <2>3. ends[N + 1] = upto
    BY <1>1 DEF Batched
  <2>4. QED BY <1>5, <2>1, <2>2, <2>3
<1>8. ASSUME NEW b \in 1 .. N
      PROVE  Run(rest[b], more[b - 1], more[b]) /\ WithinLimits(texts, rest[b])
  <2>1. b + 1 \in 1 .. N + 1 /\ (b + 1) - 1 = b /\ (b - 1) + 1 = b /\ b \in 0 .. N /\ b - 1 \in 0 .. N
    OBVIOUS
  <2>2. more[b - 1] = ends[b] /\ more[b] = ends[b + 1] /\ rest[b] = batches[b + 1]
    BY <1>3, <2>1
  <2>3. QED BY <1>6, <2>1, <2>2
<1> HIDE DEF more
<1>9. Batched(texts, rest, more, ends[1], upto)
  BY <1>3, <1>7, <1>8 DEF Batched
<1>10. Run(Head(batches), from, ends[1]) /\ ends[1] \in Nat
  <2>1. 1 \in 1 .. N + 1 /\ 1 - 1 = 0 /\ 1 \in 0 .. N + 1
    OBVIOUS
  <2>2. ends[0] = from
    BY DEF Batched
  <2>3. QED BY <1>4, <1>5, <1>6, <2>1, <2>2
<1>11. QED BY <1>2, <1>9, <1>10

LEMMA LastEnd ==
    ASSUME NEW texts, NEW batches, NEW ends, NEW from, NEW upto,
           Batched(texts, batches, ends, from, upto), batches = <<>>
    PROVE  from = upto
<1>1. Len(<<>>) = 0
  OBVIOUS
<1>2. QED BY <1>1 DEF Batched

----------------------------------------------------------------------------
(* batch_chunks, text by text. *)

Accs(n) == [done : Seq(Seq(1 .. n)), batch : Seq(1 .. n)]
NoAcc == [done |-> <<>>, batch |-> <<>>]
Batching(texts, acc, i) ==
    IF Flushed(texts, acc.batch, i)
    THEN [done |-> Append(acc.done, acc.batch), batch |-> <<i>>]
    ELSE [acc EXCEPT !.batch = Append(@, i)]
LastFlushed(acc) == IF acc.batch = <<>> THEN acc.done ELSE Append(acc.done, acc.batch)

LEMMA BatchingTyped ==
    ASSUME NEW n \in Nat, NEW texts, NEW acc \in Accs(n), NEW i \in 1 .. n
    PROVE  Batching(texts, acc, i) \in Accs(n)
<1>1. PICK done \in Seq(Seq(1 .. n)), batch \in Seq(1 .. n) : acc = [done |-> done, batch |-> batch]
  BY DEF Accs
<1>2. Append(done, batch) \in Seq(Seq(1 .. n)) /\ Append(batch, i) \in Seq(1 .. n)
  BY AppendProperties
<1>3. <<i>> \in Seq(1 .. n)
  OBVIOUS
<1>4. acc.done = done /\ acc.batch = batch
  BY <1>1
<1>5. CASE Flushed(texts, acc.batch, i)
  <2>1. Batching(texts, acc, i) = [done |-> Append(done, batch), batch |-> <<i>>]
    BY <1>4, <1>5 DEF Batching
  <2>2. QED BY <1>2, <1>3, <2>1 DEF Accs
<1>6. CASE ~Flushed(texts, acc.batch, i)
  <2>1. PICK more \in Seq(1 .. n) : more = Append(batch, i)
    BY <1>2
  <2>2. Batching(texts, acc, i) = [acc EXCEPT !.batch = more]
    BY <1>4, <1>6, <2>1 DEF Batching
  <2>3. QED BY <2>2 DEF Accs
<1>7. QED BY <1>5, <1>6

LEMMA BatchChunksSteps ==
    ASSUME NEW n \in Nat, NEW texts \in [1 .. n -> SizeRows]
    PROVE  \E acc \in [0 .. n -> Accs(n)] :
              /\ acc[0] = NoAcc
              /\ \A k \in 1 .. n : acc[k] = Batching(texts, acc[k - 1], k)
              /\ BatchChunks(texts) = LastFlushed(acc[n])
<1>1. Len(texts) = n
  OBVIOUS
<1> DEFINE order == [i \in 1 .. n |-> i]
           Folds(iter) == iter = [s \in SUBSET DOMAIN order |->
                              IF s = {} THEN NoAcc ELSE Batching(texts, iter[s \ {Max(s)}], order[Max(s)])]
           G == [p \in (1 .. n) \X Accs(n) |-> Batching(texts, p[2], p[1])]
           iter == CHOOSE iter : Folds(iter)
<1>2. BatchChunks(texts) = LastFlushed(iter[DOMAIN order])
  BY <1>1 DEF BatchChunks, FoldLeft, MapThenFoldSet, Batching, NoAcc, LastFlushed
<1>3. NoAcc \in Accs(n)
  BY DEF NoAcc, Accs
<1>4. G \in [(1 .. n) \X Accs(n) -> Accs(n)]
  BY BatchingTyped
<1>5. \E g : Folds(g)
  <2>1. PICK g \in [SUBSET (1 .. n) -> Accs(n)] : FoldsBy(g, G, NoAcc, n)
    <3> HIDE DEF G
    <3>1. QED BY <1>3, <1>4, FoldingExists
  <2>2. ASSUME NEW s \in SUBSET (1 .. n)
        PROVE  g[s] = IF s = {} THEN NoAcc ELSE Batching(texts, g[s \ {Max(s)}], order[Max(s)])
    <3>1. CASE s = {}
      BY <2>1, <3>1 DEF FoldsBy
    <3>2. CASE s # {}
      <4>1. PICK m \in 1 .. n : m = Max(s)
        BY <3>2, MaxOfInterval
      <4>2. s \ {m} \in SUBSET (1 .. n)
        OBVIOUS
      <4>3. PICK acc \in Accs(n) : acc = g[s \ {m}]
        BY <2>1, <4>2
      <4>4. g[s] = G[<<m, acc>>]
        BY <2>1, <3>2, <4>1, <4>3 DEF FoldsBy
      <4>5. G[<<m, acc>>] = Batching(texts, acc, m)
        OBVIOUS
      <4>6. order[m] = m
        OBVIOUS
      <4>7. QED BY <3>2, <4>1, <4>3, <4>4, <4>5, <4>6
    <3>3. QED BY <3>1, <3>2
  <2>3. DOMAIN order = 1 .. n
    OBVIOUS
  <2> HIDE DEF order
  <2>4. g = [s \in SUBSET (1 .. n) |->
                IF s = {} THEN NoAcc ELSE Batching(texts, g[s \ {Max(s)}], order[Max(s)])]
    BY <2>1, <2>2
  <2>5. QED BY <2>3, <2>4
<1>6. Folds(iter)
  BY <1>5
<1> HIDE DEF iter
<1>7. Unfolds(iter, G, NoAcc, Accs(n), n)
  <2>1. iter[{}] = NoAcc
    BY <1>6
  <2>2. ASSUME NEW s \in SUBSET (1 .. n), s # {}, iter[s \ {Max(s)}] \in Accs(n)
        PROVE  iter[s] = G[<<Max(s), iter[s \ {Max(s)}]>>]
    <3>1. PICK m \in 1 .. n : m = Max(s)
      BY <2>2, MaxOfInterval
    <3>2. PICK acc \in Accs(n) : acc = iter[s \ {m}]
      BY <2>2, <3>1
    <3>3. iter[s] = Batching(texts, acc, order[m])
      BY <1>6, <2>2, <3>1, <3>2
    <3>4. order[m] = m
      OBVIOUS
    <3>5. G[<<m, acc>>] = Batching(texts, acc, m)
      OBVIOUS
    <3>6. QED BY <3>1, <3>2, <3>3, <3>4, <3>5
  <2>3. QED BY <2>1, <2>2 DEF Unfolds
<1>8. PICK acc \in [0 .. n -> Accs(n)] : Accumulates(acc, iter, G, NoAcc, n)
  <2> HIDE DEF G
  <2>1. QED BY <1>3, <1>4, <1>7, FoldedSteps
<1>9. ASSUME NEW k \in 1 .. n PROVE acc[k] = Batching(texts, acc[k - 1], k)
  <2>1. PICK a \in Accs(n) : a = acc[k - 1]
    BY <1>8
  <2>2. G[<<k, a>>] = Batching(texts, a, k)
    OBVIOUS
  <2>3. QED BY <1>8, <2>1, <2>2 DEF Accumulates
<1>10. acc[0] = NoAcc /\ acc[n] = iter[DOMAIN order]
  BY <1>8 DEF Accumulates
<1>11. QED BY <1>2, <1>8, <1>9, <1>10

\* What has been batched of the first k texts: those before d, and the others in the batch.
Batchable(texts, acc, k) ==
    /\ WithinLimits(texts, acc.batch)
    /\ \E d \in 0 .. k : /\ d = k => k = 0 /\ acc.batch = <<>>
                         /\ d < k => Run(acc.batch, d, k)
                         /\ \E ends : Batched(texts, acc.done, ends, 0, d)

LEMMA BatchableKept ==
    ASSUME NEW n \in Nat, NEW texts \in [1 .. n -> SizeRows], NEW k \in 1 .. n,
           NEW acc \in Accs(n), Batchable(texts, acc, k - 1)
    PROVE  Batchable(texts, Batching(texts, acc, k), k)
<1>1. PICK done \in Seq(Seq(1 .. n)), batch \in Seq(1 .. n) : acc = [done |-> done, batch |-> batch]
  BY DEF Accs
<1>2. acc.done = done /\ acc.batch = batch
  BY <1>1
<1>3. PICK d \in 0 .. k - 1 :
         /\ d = k - 1 => k - 1 = 0 /\ batch = <<>>
         /\ d < k - 1 => Run(batch, d, k - 1)
         /\ \E ends : Batched(texts, done, ends, 0, d)
  BY <1>2 DEF Batchable
<1>4. WithinLimits(texts, batch)
  BY <1>2 DEF Batchable
<1>5. CASE Flushed(texts, batch, k)
  <2>1. d < k - 1 /\ Run(batch, d, k - 1)
    BY <1>3, <1>5 DEF Flushed
  <2>2. PICK more : Batched(texts, Append(done, batch), more, 0, k - 1)
    <3>1. d \in Nat /\ k - 1 \in Nat
      OBVIOUS
    <3>2. QED BY <1>3, <1>4, <2>1, <3>1, BatchedAppended
  <2>3. Batching(texts, acc, k) = [done |-> Append(done, batch), batch |-> <<k>>]
    BY <1>2, <1>5 DEF Batching
  <2>4. Run(<<k>>, k - 1, k)
    <3>1. k - (k - 1) = 1 /\ k - 1 < k
      OBVIOUS
    <3>2. <<k>> = [i \in 1 .. 1 |-> (k - 1) + i]
      OBVIOUS
    <3>3. QED BY <3>1, <3>2 DEF Run
  <2>5. WithinLimits(texts, <<k>>)
    <3>1. Len(<<k>>) = 1
      OBVIOUS
    <3>2. QED BY <3>1 DEF WithinLimits
  <2>6. k - 1 \in 0 .. k /\ k - 1 # k /\ k - 1 < k
    OBVIOUS
  <2>7. QED BY <2>2, <2>3, <2>4, <2>5, <2>6 DEF Batchable
<1>6. CASE ~Flushed(texts, batch, k)
  <2>1. Batching(texts, acc, k) = [done |-> done, batch |-> Append(batch, k)]
    BY <1>1, <1>2, <1>6 DEF Batching
  <2>2. PICK more \in Seq(1 .. n) : more = Append(batch, k)
    BY AppendProperties
  <2>3. Len(batch) \in Nat /\ Len(more) = Len(batch) + 1 /\ more[Len(batch) + 1] = k
        /\ \A i \in 1 .. Len(batch) : more[i] = batch[i]
    BY <2>2, AppendProperties
  <2>4. Run(more, d, k)
    <3>1. Len(batch) = (k - 1) - d /\ \A i \in 1 .. Len(batch) : batch[i] = d + i
      <4>1. CASE d = k - 1
        BY <1>3, <4>1
      <4>2. CASE d < k - 1
        <5>1. batch = [i \in 1 .. (k - 1) - d |-> d + i] /\ (k - 1) - d \in Nat
          BY <1>3, <4>2 DEF Run
        <5>2. QED BY <5>1
      <4>3. QED BY <4>1, <4>2
    <3>2. PICK m \in Nat : m = k - d /\ Len(more) = m /\ Len(batch) + 1 = m
      BY <2>3, <3>1
    <3>3. \A i \in 1 .. m : more[i] = d + i
      <4>1. \A i \in 1 .. m : i = m \/ i \in 1 .. Len(batch)
        BY <3>2, <2>3
      <4>2. d + m = k
        BY <3>2
      <4>3. QED BY <2>3, <3>1, <3>2, <4>1, <4>2
    <3>4. more = [i \in 1 .. m |-> d + i]
      <4>1. DOMAIN more = 1 .. m /\ more = [i \in DOMAIN more |-> more[i]]
        BY <3>2
      <4>2. QED BY <3>3, <4>1
    <3>5. d < k
      OBVIOUS
    <3>6. QED BY <3>2, <3>4, <3>5 DEF Run
  <2>5. WithinLimits(texts, more)
    <3>1. CASE batch = <<>>
      <4>1. Len(more) = 1
        BY <2>3, <3>1
      <4>2. QED BY <4>1 DEF WithinLimits
    <3>2. CASE batch # <<>>
      <4>1. /\ ~(Len(batch) >= MaxItems)
            /\ ~(Total(texts, batch, "chars") + texts[k].chars > CharBudget)
            /\ ~(Total(texts, batch, "tokens") + texts[k].tokens > TokenBudget)
        BY <1>6, <3>2 DEF Flushed
      <4>2. /\ Total(texts, batch, "chars") \in Nat /\ Total(texts, batch, "tokens") \in Nat
            /\ Total(texts, more, "chars") = Total(texts, batch, "chars") + texts[k].chars
            /\ Total(texts, more, "tokens") = Total(texts, batch, "tokens") + texts[k].tokens
        BY <2>2, TotalAppended
      <4>3. texts[k].chars \in Nat /\ texts[k].tokens \in Nat
        BY DEF SizeRows
      <4>4. MaxItems \in Nat /\ CharBudget \in Nat /\ TokenBudget \in Nat
        BY EmbeddingAssumption
      <4>5. Len(more) <= MaxItems
        BY <2>3, <4>1, <4>4
      <4>6. Total(texts, more, "chars") <= CharBudget
        BY <4>1, <4>2, <4>3, <4>4
      <4>7. Total(texts, more, "tokens") <= TokenBudget
        BY <4>1, <4>2, <4>3, <4>4
      <4>8. QED BY <4>5, <4>6, <4>7 DEF WithinLimits
    <3>3. QED BY <3>1, <3>2
  <2>6. d \in 0 .. k /\ d # k /\ d < k
    OBVIOUS
  <2>7. QED BY <1>3, <2>1, <2>2, <2>4, <2>5, <2>6 DEF Batchable
<1>7. QED BY <1>5, <1>6

\* The batches are the texts in their order, and none exceeds a limit.
LEMMA BatchesAreTheTexts ==
    ASSUME NEW n \in Nat, NEW texts \in [1 .. n -> SizeRows]
    PROVE  /\ BatchChunks(texts) \in Seq(Seq(1 .. n))
           /\ \E ends : Batched(texts, BatchChunks(texts), ends, 0, n)
<1>1. PICK acc \in [0 .. n -> Accs(n)] :
         /\ acc[0] = NoAcc
         /\ \A k \in 1 .. n : acc[k] = Batching(texts, acc[k - 1], k)
         /\ BatchChunks(texts) = LastFlushed(acc[n])
  BY BatchChunksSteps
<1> DEFINE S == {k \in Nat : k <= n => Batchable(texts, acc[k], k)}
<1>2. 0 \in S
  <2>1. Batched(texts, <<>>, [b \in 0 .. 0 |-> 0], 0, 0)
    BY NoBatches
  <2>2. WithinLimits(texts, <<>>)
    <3>1. Len(<<>>) = 0
      OBVIOUS
    <3>2. QED BY <3>1 DEF WithinLimits
  <2>3. acc[0].done = <<>> /\ acc[0].batch = <<>>
    BY <1>1 DEF NoAcc
  <2>4. 0 \in 0 .. 0 /\ ~(0 < 0)
    OBVIOUS
  <2>5. Batchable(texts, acc[0], 0)
    BY <2>1, <2>2, <2>3, <2>4 DEF Batchable
  <2>6. QED BY <2>5
<1>3. ASSUME NEW k \in Nat, k \in S PROVE k + 1 \in S
  <2>1. CASE k + 1 <= n
    <3>1. k + 1 \in 1 .. n /\ (k + 1) - 1 = k /\ k \in 0 .. n /\ Batchable(texts, acc[k], k)
      BY <1>3, <2>1
    <3>2. PICK a \in Accs(n) : a = acc[k]
      BY <1>1, <3>1
    <3>3. Batchable(texts, Batching(texts, a, k + 1), k + 1)
      BY <3>1, <3>2, BatchableKept
    <3>4. acc[k + 1] = Batching(texts, a, k + 1)
      BY <1>1, <3>1, <3>2
    <3>5. QED BY <3>3, <3>4
  <2>2. QED BY <2>1
<1> HIDE DEF S
<1>4. Nat \subseteq S
  BY <1>2, <1>3, SetInduction
<1>5. n \in S /\ n <= n
  BY <1>4
<1>6. PICK a \in Accs(n) : a = acc[n]
  BY <1>1
<1>7. Batchable(texts, a, n)
  BY <1>5, <1>6 DEF S
<1>8. PICK done \in Seq(Seq(1 .. n)), batch \in Seq(1 .. n) : a.done = done /\ a.batch = batch
  BY DEF Accs
<1>9. PICK d \in 0 .. n :
         /\ d = n => n = 0 /\ batch = <<>>
         /\ d < n => Run(batch, d, n)
         /\ \E ends : Batched(texts, done, ends, 0, d)
  BY <1>7, <1>8 DEF Batchable
<1>10. CASE batch = <<>>
  <2>1. BatchChunks(texts) = done
    BY <1>1, <1>6, <1>8, <1>10 DEF LastFlushed
  <2>2. d = n
    <3>1. ASSUME d < n PROVE FALSE
      <4>1. batch = [i \in 1 .. n - d |-> d + i] /\ n - d \in Nat /\ n - d # 0
        BY <1>9, <3>1 DEF Run
      <4>2. Len(batch) = n - d
        BY <4>1
      <4>3. QED BY <1>10, <4>1, <4>2
    <3>2. QED BY <3>1
  <2>3. QED BY <1>9, <2>1, <2>2
<1>11. CASE batch # <<>>
  <2>1. BatchChunks(texts) = Append(done, batch)
    BY <1>1, <1>6, <1>8, <1>11 DEF LastFlushed
  <2>2. d \in Nat /\ Run(batch, d, n)
    BY <1>9, <1>11
  <2>3. WithinLimits(texts, batch)
    BY <1>7, <1>8 DEF Batchable
  <2>4. \E more : Batched(texts, Append(done, batch), more, 0, n)
    BY <1>9, <2>2, <2>3, BatchedAppended
  <2>5. Append(done, batch) \in Seq(Seq(1 .. n))
    BY AppendProperties
  <2>6. QED BY <2>1, <2>4, <2>5
<1>12. QED BY <1>10, <1>11

----------------------------------------------------------------------------
(* The invariant of the embedders. *)

Calling == {"call", "answer", "sleep"}
EmbedRows == [at : {"idle", "permit", "returned"} \union Calling, texts : Seq(SizeRows),
              batches : Seq(Seq(Nat)), vectors : Seq(Nat), attempt : Nat,
              permit : [probe : BOOLEAN, current : BOOLEAN]]
BreakerRows == [state : {"CLOSED", "OPEN", "HALF_OPEN"}, failures : Nat, cooled : BOOLEAN]

\* There is a vector for each text up to one, and the batches are the texts after it.
RowSound(e) ==
    /\ e.vectors = [i \in 1 .. Len(e.vectors) |-> i]
    /\ \E ends : Batched(e.texts, e.batches, ends, Len(e.vectors), Len(e.texts))
    /\ e.at \in Calling => e.batches # <<>>
    /\ e.at = "returned" => e.batches = <<>>

RowsTyped == breaker \in BreakerRows /\ embed \in [Embedders -> EmbedRows]
RowsSound == \A c \in Embedders : RowSound(embed[c])

\* The permits of the current generation are in use; there is none while the breaker is
\* open, one while it is half open, which is its probe, and no probe while it is closed.
StillHeld(e) == e.permit.current
PermitsSound ==
    /\ \A c \in Embedders : StillHeld(embed[c]) => embed[c].at \in Calling
    /\ breaker.state = "CLOSED" => \A c \in Embedders : StillHeld(embed[c]) => ~embed[c].permit.probe
    /\ breaker.state = "OPEN" => \A c \in Embedders : ~StillHeld(embed[c])
    /\ breaker.state = "HALF_OPEN" =>
          \E c \in Embedders : /\ embed[c].permit = [probe |-> TRUE, current |-> TRUE]
                               /\ \A d \in Embedders \ {c} : ~StillHeld(embed[d])

EmbeddingInv == RowsTyped /\ RowsSound /\ PermitsSound

LEMMA EmbeddingInvGives ==
    ASSUME EmbeddingInv PROVE VectorsComplete /\ HalfOpenIsProbed
<1>1. ASSUME NEW c \in Embedders, embed[c].at = "returned"
      PROVE  embed[c].vectors = [i \in 1 .. Len(embed[c].texts) |-> i]
  <2>1. PICK e \in EmbedRows : e = embed[c] /\ RowSound(e)
    BY DEF EmbeddingInv, RowsTyped, RowsSound
  <2>2. e.batches = <<>>
    BY <1>1, <2>1 DEF RowSound
  <2>3. Len(e.vectors) = Len(e.texts)
    BY <2>1, <2>2, LastEnd DEF RowSound
  <2>4. QED BY <2>1, <2>3 DEF RowSound
<1>2. ASSUME NEW c \in Embedders, NEW b \in 1 .. Len(embed[c].batches)
      PROVE  WithinLimits(embed[c].texts, embed[c].batches[b])
  BY DEF EmbeddingInv, RowsSound, RowSound, Batched
<1>3. VectorsComplete
  BY <1>1, <1>2 DEF VectorsComplete, WithinLimits
<1>4. ASSUME NEW c \in Embedders, embed[c].permit = [probe |-> TRUE, current |-> TRUE]
      PROVE  breaker.state = "HALF_OPEN"
  <2>1. StillHeld(embed[c]) /\ embed[c].permit.probe
    BY <1>4 DEF StillHeld
  <2>2. breaker.state \in {"CLOSED", "OPEN", "HALF_OPEN"}
    BY DEF EmbeddingInv, RowsTyped, BreakerRows
  <2>3. QED BY <2>1, <2>2 DEF EmbeddingInv, PermitsSound
<1>5. ASSUME breaker.state = "HALF_OPEN"
      PROVE  \E c \in Embedders : /\ embed[c].permit = [probe |-> TRUE, current |-> TRUE]
                                  /\ \A d \in Embedders \ {c} :
                                        ~(embed[d].permit.probe /\ embed[d].permit.current)
  BY <1>5 DEF EmbeddingInv, PermitsSound, StillHeld
<1>6. HalfOpenIsProbed
  BY <1>4, <1>5 DEF HalfOpenIsProbed
<1>7. QED BY <1>3, <1>6

LEMMA IdleIsSound == IdleEmbed \in EmbedRows /\ RowSound(IdleEmbed) /\ ~StillHeld(IdleEmbed)
<1>1. IdleEmbed \in EmbedRows
  <2>1. <<>> \in Seq(SizeRows) /\ <<>> \in Seq(Seq(Nat)) /\ <<>> \in Seq(Nat)
    OBVIOUS
  <2>2. QED BY <2>1 DEF IdleEmbed, NoPermit, EmbedRows, Calling
<1>2. /\ IdleEmbed.vectors = <<>> /\ IdleEmbed.batches = <<>> /\ IdleEmbed.texts = <<>>
      /\ IdleEmbed.at = "idle" /\ ~IdleEmbed.permit.current
  BY DEF IdleEmbed, NoPermit
<1>3. Len(<<>>) = 0 /\ <<>> = [i \in 1 .. 0 |-> i]
  OBVIOUS
<1>4. Batched(<<>>, <<>>, [b \in 0 .. 0 |-> 0], 0, 0)
  BY NoBatches
<1>5. QED BY <1>1, <1>2, <1>3, <1>4 DEF RowSound, StillHeld, Calling

LEMMA EmbeddingInitSound == EmbeddingInit => EmbeddingInv
<1> SUFFICES ASSUME EmbeddingInit PROVE EmbeddingInv
  OBVIOUS
<1>1. \A c \in Embedders : embed[c] = IdleEmbed
  BY DEF EmbeddingInit
<1>2. breaker.state = "CLOSED" /\ breaker \in BreakerRows
  BY DEF EmbeddingInit, BreakerRows
<1>3. embed \in [Embedders -> EmbedRows]
  BY IdleIsSound DEF EmbeddingInit
<1>4. RowsSound
  BY <1>1, IdleIsSound DEF RowsSound
<1>5. PermitsSound
  BY <1>1, <1>2, IdleIsSound DEF PermitsSound
<1>6. QED BY <1>2, <1>3, <1>4, <1>5 DEF EmbeddingInv, RowsTyped

----------------------------------------------------------------------------
(* The steps. *)

\* One row changes; or every permit becomes an old one, and one row changes.
RowSet(c, row) == embed' = [embed EXCEPT ![c] = row]
RowSetOthersAged(c, row) == embed' = [Outdated(embed) EXCEPT ![c] = row]

LEMMA RowSetKeeps ==
    ASSUME EmbeddingInv, NEW c \in Embedders, NEW row \in EmbedRows, RowSound(row), RowSet(c, row)
    PROVE  /\ embed' \in [Embedders -> EmbedRows] /\ RowsSound'
           /\ embed'[c] = row /\ \A d \in Embedders \ {c} : embed'[d] = embed[d]
<1>1. embed \in [Embedders -> EmbedRows]
  BY DEF EmbeddingInv, RowsTyped
<1>2. embed' \in [Embedders -> EmbedRows]
  BY <1>1 DEF RowSet
<1>3. embed'[c] = row /\ \A d \in Embedders \ {c} : embed'[d] = embed[d]
  BY <1>1 DEF RowSet
<1>4. \A d \in Embedders : RowSound(embed[d])
  BY DEF EmbeddingInv, RowsSound
<1>5. \A d \in Embedders : RowSound(embed'[d])
  BY <1>3, <1>4
<1>6. QED BY <1>2, <1>3, <1>5 DEF RowsSound

LEMMA AgedRow ==
    ASSUME NEW e \in EmbedRows, RowSound(e)
    PROVE  LET aged == [e EXCEPT !.permit.current = FALSE]
           IN  aged \in EmbedRows /\ RowSound(aged) /\ ~StillHeld(aged)
<1>1. PICK aged : aged = [e EXCEPT !.permit.current = FALSE]
  OBVIOUS
<1>2. aged \in EmbedRows /\ aged.permit.current = FALSE
  BY <1>1 DEF EmbedRows
<1>3. aged.at = e.at /\ aged.texts = e.texts /\ aged.batches = e.batches /\ aged.vectors = e.vectors
  BY <1>1 DEF EmbedRows
<1>4. QED BY <1>1, <1>2, <1>3 DEF RowSound, StillHeld

LEMMA RowSetOthersAgedKeeps ==
    ASSUME EmbeddingInv, NEW c \in Embedders, NEW row \in EmbedRows, RowSound(row), ~StillHeld(row),
           RowSetOthersAged(c, row)
    PROVE  /\ embed' \in [Embedders -> EmbedRows] /\ RowsSound'
           /\ \A d \in Embedders : ~StillHeld(embed'[d])
<1>1. embed \in [Embedders -> EmbedRows] /\ \A d \in Embedders : RowSound(embed[d])
  BY DEF EmbeddingInv, RowsTyped, RowsSound
<1>2. PICK aged : aged = Outdated(embed)
  OBVIOUS
<1>3. aged = [d \in Embedders |-> [embed[d] EXCEPT !.permit.current = FALSE]]
  BY <1>2 DEF Outdated
<1>4. ASSUME NEW d \in Embedders
      PROVE  aged[d] \in EmbedRows /\ RowSound(aged[d]) /\ ~StillHeld(aged[d])
  <2>1. embed[d] \in EmbedRows /\ RowSound(embed[d])
    BY <1>1
  <2>2. PICK e \in EmbedRows : e = embed[d] /\ RowSound(e)
    BY <2>1
  <2>3. aged[d] = [e EXCEPT !.permit.current = FALSE]
    BY <1>3, <2>2
  <2>4. QED BY <2>2, <2>3, AgedRow
<1>5. aged \in [Embedders -> EmbedRows]
  BY <1>3, <1>4
<1>6. embed' = [aged EXCEPT ![c] = row]
  BY <1>2 DEF RowSetOthersAged
<1>7. embed' \in [Embedders -> EmbedRows] /\ embed'[c] = row
      /\ \A d \in Embedders \ {c} : embed'[d] = aged[d]
  BY <1>5, <1>6
<1>8. \A d \in Embedders : RowSound(embed'[d]) /\ ~StillHeld(embed'[d])
  BY <1>4, <1>7
<1>9. QED BY <1>7, <1>8 DEF RowsSound

\* A step that leaves the state of the breaker, and a permit that it takes away is not a
\* probe or not of the current generation.
LEMMA PermitKept ==
    ASSUME EmbeddingInv, NEW c \in Embedders, NEW row \in EmbedRows, RowSound(row), RowSet(c, row),
           breaker' \in BreakerRows, breaker'.state = breaker.state,
           StillHeld(row) => row.at \in Calling /\ row.permit = embed[c].permit,
           StillHeld(embed[c]) /\ ~StillHeld(row) => breaker.state = "CLOSED"
    PROVE  EmbeddingInv'
<1>1. /\ embed' \in [Embedders -> EmbedRows] /\ RowsSound'
      /\ embed'[c] = row /\ \A d \in Embedders \ {c} : embed'[d] = embed[d]
  BY RowSetKeeps
<1>2. PermitsSound
  BY DEF EmbeddingInv
<1>3. \A d \in Embedders : StillHeld(embed'[d]) =>
         /\ embed'[d].at \in Calling /\ embed'[d].permit = embed[d].permit /\ StillHeld(embed[d])
  <2>1. StillHeld(row) => StillHeld(embed[c])
    BY DEF StillHeld
  <2>2. QED BY <1>1, <1>2, <2>1 DEF PermitsSound
<1>4. ASSUME breaker.state = "HALF_OPEN"
      PROVE  \E p \in Embedders : /\ embed'[p].permit = [probe |-> TRUE, current |-> TRUE]
                                  /\ \A d \in Embedders \ {p} : ~StillHeld(embed'[d])
  <2>1. PICK p \in Embedders : /\ embed[p].permit = [probe |-> TRUE, current |-> TRUE]
                               /\ \A d \in Embedders \ {p} : ~StillHeld(embed[d])
    BY <1>2, <1>4 DEF PermitsSound
  <2>2. \A d \in Embedders \ {p} : ~StillHeld(embed'[d])
    BY <1>3, <2>1
  <2>3. embed'[p].permit = [probe |-> TRUE, current |-> TRUE]
    <3>1. CASE p = c
      <4>1. StillHeld(embed[c])
        BY <2>1, <3>1 DEF StillHeld
      <4>2. StillHeld(row)
        BY <1>4, <4>1
      <4>3. QED BY <1>1, <2>1, <3>1, <4>2
    <3>2. CASE p # c
      BY <1>1, <2>1, <3>2
    <3>3. QED BY <3>1, <3>2
  <2>4. QED BY <2>2, <2>3
<1>5. PermitsSound'
  BY <1>2, <1>3, <1>4 DEF PermitsSound
<1>6. QED BY <1>1, <1>5 DEF EmbeddingInv, RowsTyped

\* A permit taken from a closed breaker, and the probe of one that was open.
LEMMA PermitTaken ==
    ASSUME EmbeddingInv, NEW c \in Embedders, NEW row \in EmbedRows, RowSound(row), RowSet(c, row),
           breaker' \in BreakerRows, row.at \in Calling,
           \/ /\ breaker.state = "CLOSED" /\ breaker'.state = "CLOSED" /\ ~row.permit.probe
           \/ /\ breaker.state = "OPEN" /\ breaker'.state = "HALF_OPEN"
              /\ row.permit = [probe |-> TRUE, current |-> TRUE]
    PROVE  EmbeddingInv'
<1>1. /\ embed' \in [Embedders -> EmbedRows] /\ RowsSound'
      /\ embed'[c] = row /\ \A d \in Embedders \ {c} : embed'[d] = embed[d]
  BY RowSetKeeps
<1>2. PermitsSound
  BY DEF EmbeddingInv
<1>3. \A d \in Embedders : StillHeld(embed'[d]) => embed'[d].at \in Calling
  BY <1>1, <1>2 DEF PermitsSound
<1>4. CASE breaker.state = "CLOSED" /\ breaker'.state = "CLOSED" /\ ~row.permit.probe
  <2>1. \A d \in Embedders : StillHeld(embed'[d]) => ~embed'[d].permit.probe
    BY <1>1, <1>2, <1>4 DEF PermitsSound
  <2>2. PermitsSound'
    BY <1>3, <1>4, <2>1 DEF PermitsSound
  <2>3. QED BY <1>1, <2>2 DEF EmbeddingInv, RowsTyped
<1>5. CASE /\ breaker.state = "OPEN" /\ breaker'.state = "HALF_OPEN"
           /\ row.permit = [probe |-> TRUE, current |-> TRUE]
  <2>1. \A d \in Embedders \ {c} : ~StillHeld(embed'[d])
    BY <1>1, <1>2, <1>5 DEF PermitsSound
  <2>2. PermitsSound'
    BY <1>1, <1>3, <1>5, <2>1 DEF PermitsSound
  <2>3. QED BY <1>1, <2>2 DEF EmbeddingInv, RowsTyped
<1>6. QED BY <1>4, <1>5

\* A new generation.
LEMMA GenerationEnded ==
    ASSUME EmbeddingInv, NEW c \in Embedders, NEW row \in EmbedRows, RowSound(row), ~StillHeld(row),
           RowSetOthersAged(c, row), breaker' \in BreakerRows, breaker'.state # "HALF_OPEN"
    PROVE  EmbeddingInv'
<1>1. /\ embed' \in [Embedders -> EmbedRows] /\ RowsSound'
      /\ \A d \in Embedders : ~StillHeld(embed'[d])
  BY RowSetOthersAgedKeeps
<1>2. PermitsSound'
  BY <1>1 DEF PermitsSound
<1>3. QED BY <1>1, <1>2 DEF EmbeddingInv, RowsTyped

----------------------------------------------------------------------------
(* What a thread does. *)

LEMMA SequencesOfMore ==
    ASSUME NEW S, NEW T, S \subseteq T PROVE Seq(S) \subseteq Seq(T)
<1>1. ASSUME NEW s \in Seq(S) PROVE s \in Seq(T)
  <2>1. Len(s) \in Nat /\ s = [i \in 1 .. Len(s) |-> s[i]] /\ \A i \in 1 .. Len(s) : s[i] \in T
    OBVIOUS
  <2>2. QED BY <2>1
<1>2. QED BY <1>1

LEMMA StartedSound ==
    ASSUME NEW n \in Nat, NEW texts \in [1 .. n -> SizeRows]
    PROVE  Started(texts) \in EmbedRows /\ RowSound(Started(texts)) /\ ~StillHeld(Started(texts))
<1>1. PICK batches : batches = BatchChunks(texts)
  OBVIOUS
<1>2. batches \in Seq(Seq(1 .. n)) /\ \E ends : Batched(texts, batches, ends, 0, n)
  BY <1>1, BatchesAreTheTexts
<1>3. batches \in Seq(Seq(Nat))
  <2>1. 1 .. n \subseteq Nat
    OBVIOUS
  <2>2. Seq(1 .. n) \subseteq Seq(Nat)
    BY <2>1, SequencesOfMore
  <2>3. Seq(Seq(1 .. n)) \subseteq Seq(Seq(Nat))
    BY <2>2, SequencesOfMore
  <2>4. QED BY <1>2, <2>3
<1>4. texts \in Seq(SizeRows) /\ Len(texts) = n /\ <<>> \in Seq(Nat)
  OBVIOUS
<1>5. PICK row : row = Started(texts)
  OBVIOUS
<1>6. row = [at |-> "permit", texts |-> texts, batches |-> batches, vectors |-> <<>>,
             attempt |-> 0, permit |-> NoPermit]
  BY <1>1, <1>5 DEF Started, IdleEmbed
<1>7. NoPermit \in [probe : BOOLEAN, current : BOOLEAN] /\ ~NoPermit.current
  BY DEF NoPermit
<1>8. row \in EmbedRows
  BY <1>3, <1>4, <1>6, <1>7 DEF EmbedRows
<1>9. Len(<<>>) = 0 /\ <<>> = [i \in 1 .. 0 |-> i]
  OBVIOUS
<1>10. RowSound(row)
  BY <1>2, <1>4, <1>6, <1>9 DEF RowSound, Calling
<1>11. ~StillHeld(row)
  BY <1>6, <1>7 DEF StillHeld
<1>12. QED BY <1>5, <1>8, <1>10, <1>11

LEMMA StartKeeps ==
    ASSUME EmbeddingInv, NEW c \in Embedders, embed[c].at \in {"idle", "returned"},
           NEW n \in Nat, NEW texts \in [1 .. n -> Sizes],
           embed' = [embed EXCEPT ![c] = Started(texts)], UNCHANGED breaker
    PROVE  EmbeddingInv'
<1>1. texts \in [1 .. n -> SizeRows]
  BY EmbeddingAssumption DEF SizeRows
<1>2. PICK row \in EmbedRows : row = Started(texts) /\ RowSound(row) /\ ~StillHeld(row)
  BY <1>1, StartedSound
<1>3. RowSet(c, row)
  BY <1>2 DEF RowSet
<1>4. ~StillHeld(embed[c])
  BY DEF EmbeddingInv, PermitsSound, Calling
<1>5. breaker' \in BreakerRows /\ breaker'.state = breaker.state
  BY DEF EmbeddingInv, RowsTyped
<1>6. QED BY <1>2, <1>3, <1>4, <1>5, PermitKept

\* A call goes on, or is not made.
LEMMA MovedEmbedding ==
    ASSUME NEW e \in EmbedRows, RowSound(e), NEW row \in EmbedRows,
           row.texts = e.texts, row.batches = e.batches, row.vectors = e.vectors,
           row.at \in Calling => e.batches # <<>>,
           row.at = "returned" => e.batches = <<>>
    PROVE  RowSound(row)
BY DEF RowSound

LEMMA TheRow ==
    ASSUME EmbeddingInv, NEW c \in Embedders
    PROVE  \E e \in EmbedRows : /\ e = embed[c] /\ RowSound(e)
                               /\ embed \in [Embedders -> EmbedRows] /\ breaker \in BreakerRows
BY DEF EmbeddingInv, RowsTyped, RowsSound

LEMMA PlaceKept ==
    ASSUME EmbeddingInv, NEW c \in Embedders, NEW place \in {"returned"} \union Calling,
           place = "returned" => embed[c].at = "permit" /\ embed[c].batches = <<>>,
           place \in Calling => embed[c].at \in Calling,
           embed' = [embed EXCEPT ![c].at = place], UNCHANGED breaker
    PROVE  EmbeddingInv'
<1>1. PICK e \in EmbedRows : /\ e = embed[c] /\ RowSound(e)
                             /\ embed \in [Embedders -> EmbedRows] /\ breaker \in BreakerRows
  BY TheRow
<1>2. PICK row : row = [e EXCEPT !.at = place]
  OBVIOUS
<1>3. RowSet(c, row)
  BY <1>1, <1>2 DEF RowSet
<1>4. /\ row \in EmbedRows /\ row.at = place /\ row.permit = e.permit
      /\ row.texts = e.texts /\ row.batches = e.batches /\ row.vectors = e.vectors
  BY <1>2 DEF EmbedRows
<1>5. place \in Calling => e.batches # <<>>
  BY <1>1 DEF RowSound
<1>6. RowSound(row)
  BY <1>1, <1>4, <1>5, MovedEmbedding DEF Calling
<1>7. StillHeld(row) <=> StillHeld(embed[c])
  BY <1>1, <1>4 DEF StillHeld
<1>8. StillHeld(row) => row.at \in Calling /\ row.permit = embed[c].permit
  BY <1>1, <1>4, <1>7 DEF EmbeddingInv, PermitsSound, Calling
<1>9. breaker' \in BreakerRows /\ breaker'.state = breaker.state
  BY <1>1
<1>10. QED BY <1>3, <1>4, <1>6, <1>7, <1>8, <1>9, PermitKept

LEMMA BeforeCallKeeps ==
    ASSUME EmbeddingInv, NEW c \in Embedders, BeforeCall(c) PROVE EmbeddingInv'
<1>1. PICK e \in EmbedRows : /\ e = embed[c] /\ RowSound(e)
                             /\ embed \in [Embedders -> EmbedRows] /\ breaker \in BreakerRows
  BY TheRow
<1>2. breaker \in BreakerRows
  BY <1>1
<1>3. e.at = "permit" /\ e.batches # <<>> /\ ~StillHeld(e)
  BY <1>1 DEF BeforeCall, EmbeddingInv, PermitsSound, Calling
<1>4. ASSUME NEW probe \in BOOLEAN,
             embed' = [embed EXCEPT ![c].at = "call", ![c].attempt = 0,
                                    ![c].permit = [probe |-> probe, current |-> TRUE]]
      PROVE  \E row \in EmbedRows :
                /\ RowSound(row) /\ RowSet(c, row) /\ row.at \in Calling
                /\ row.permit = [probe |-> probe, current |-> TRUE]
  <2>1. PICK permit \in [probe : BOOLEAN, current : BOOLEAN] : permit = [probe |-> probe, current |-> TRUE]
    OBVIOUS
  <2>2. PICK row : row = [e EXCEPT !.at = "call", !.attempt = 0, !.permit = permit]
    OBVIOUS
  <2>3. RowSet(c, row)
    BY <1>1, <1>4, <2>1, <2>2 DEF RowSet
  <2>4. /\ row \in EmbedRows /\ row.at = "call" /\ row.permit = permit
        /\ row.texts = e.texts /\ row.batches = e.batches /\ row.vectors = e.vectors
    BY <2>2 DEF EmbedRows, Calling
  <2>5. RowSound(row)
    BY <1>1, <1>3, <2>4, MovedEmbedding
  <2>6. QED BY <2>1, <2>3, <2>4, <2>5 DEF Calling
<1>5. CASE /\ breaker.state = "CLOSED" /\ UNCHANGED breaker
           /\ embed' = [embed EXCEPT ![c].at = "call", ![c].attempt = 0,
                                     ![c].permit = [probe |-> FALSE, current |-> TRUE]]
  <2>1. PICK row \in EmbedRows : /\ RowSound(row) /\ RowSet(c, row) /\ row.at \in Calling
                                 /\ row.permit = [probe |-> FALSE, current |-> TRUE]
    BY <1>4, <1>5
  <2>2. breaker' \in BreakerRows /\ breaker'.state = "CLOSED" /\ ~row.permit.probe
    BY <1>2, <1>5, <2>1
  <2>3. QED BY <1>5, <2>1, <2>2, PermitTaken
<1>6. CASE /\ breaker.state = "OPEN" /\ breaker.cooled
           /\ breaker' = [breaker EXCEPT !.state = "HALF_OPEN", !.cooled = FALSE]
           /\ embed' = [embed EXCEPT ![c].at = "call", ![c].attempt = 0,
                                     ![c].permit = [probe |-> TRUE, current |-> TRUE]]
  <2>1. PICK row \in EmbedRows : /\ RowSound(row) /\ RowSet(c, row) /\ row.at \in Calling
                                 /\ row.permit = [probe |-> TRUE, current |-> TRUE]
    BY <1>4, <1>6
  <2>2. breaker' \in BreakerRows /\ breaker'.state = "HALF_OPEN"
    BY <1>2, <1>6 DEF BreakerRows
  <2>3. QED BY <1>6, <2>1, <2>2, PermitTaken
<1>7. CASE embed' = [embed EXCEPT ![c] = IdleEmbed] /\ UNCHANGED breaker
  <2>1. RowSet(c, IdleEmbed)
    BY <1>7 DEF RowSet
  <2>2. breaker' \in BreakerRows /\ breaker'.state = breaker.state /\ ~StillHeld(embed[c])
    BY <1>1, <1>2, <1>3, <1>7
  <2>3. QED BY <2>1, <2>2, IdleIsSound, PermitKept
<1>8. QED BY <1>5, <1>6, <1>7 DEF BeforeCall

\* A current permit that is not a probe is of a closed breaker.
LEMMA CountedWhileClosed ==
    ASSUME EmbeddingInv, NEW c \in Embedders, StillHeld(embed[c]), ~embed[c].permit.probe
    PROVE  breaker.state = "CLOSED"
<1>1. breaker.state \in {"CLOSED", "OPEN", "HALF_OPEN"}
  BY DEF EmbeddingInv, RowsTyped, BreakerRows
<1>2. breaker.state # "OPEN"
  BY DEF EmbeddingInv, PermitsSound
<1>3. ASSUME breaker.state = "HALF_OPEN" PROVE FALSE
  <2>1. PICK p \in Embedders : /\ embed[p].permit = [probe |-> TRUE, current |-> TRUE]
                               /\ \A d \in Embedders \ {p} : ~StillHeld(embed[d])
    BY <1>3 DEF EmbeddingInv, PermitsSound
  <2>2. p = c
    BY <2>1
  <2>3. QED BY <2>1, <2>2
<1>4. QED BY <1>1, <1>2, <1>3

LEMMA AttemptFailedKeeps ==
    ASSUME EmbeddingInv, NEW c \in Embedders, embed[c].at \in Calling, NEW retryable \in BOOLEAN,
           AttemptFailed(c, retryable)
    PROVE  EmbeddingInv'
<1>1. PICK e \in EmbedRows : /\ e = embed[c] /\ RowSound(e)
                             /\ embed \in [Embedders -> EmbedRows] /\ breaker \in BreakerRows
  BY TheRow
<1>2. breaker \in BreakerRows
  BY <1>1
<1>3. CASE retryable /\ embed[c].attempt + 1 < Attempts
  <2>1. embed' = [embed EXCEPT ![c].at = "sleep", ![c].attempt = @ + 1] /\ UNCHANGED breaker
    BY <1>3 DEF AttemptFailed
  <2>2. PICK tried \in Nat : tried = e.attempt + 1
    BY DEF EmbedRows
  <2>3. PICK row : row = [e EXCEPT !.at = "sleep", !.attempt = tried]
    OBVIOUS
  <2>4. RowSet(c, row)
    BY <1>1, <2>1, <2>2, <2>3 DEF RowSet
  <2>5. /\ row \in EmbedRows /\ row.at = "sleep" /\ row.permit = e.permit
        /\ row.texts = e.texts /\ row.batches = e.batches /\ row.vectors = e.vectors
    BY <2>3 DEF EmbedRows, Calling
  <2>6. e.batches # <<>>
    BY <1>1 DEF RowSound
  <2>7. RowSound(row)
    BY <1>1, <2>5, <2>6, MovedEmbedding
  <2>8. row.at \in Calling /\ row.permit = embed[c].permit
    BY <1>1, <2>5 DEF Calling
  <2>9. StillHeld(row) <=> StillHeld(embed[c])
    BY <2>8 DEF StillHeld
  <2>10. breaker' \in BreakerRows /\ breaker'.state = breaker.state
    BY <1>2, <2>1
  <2>11. QED BY <2>4, <2>5, <2>7, <2>8, <2>9, <2>10, PermitKept
<1>4. CASE ~(retryable /\ embed[c].attempt + 1 < Attempts)
  <2>1. embed' = Failed(c) /\ breaker' = FailureRecorded(c)
    BY <1>4 DEF AttemptFailed
  <2>2. Recorded(c) <=> StillHeld(embed[c])
    BY DEF Recorded, StillHeld
  <2>3. CASE ~Recorded(c)
    <3>1. RowSet(c, IdleEmbed)
      BY <2>1, <2>3 DEF Failed, RowSet
    <3>2. breaker' \in BreakerRows /\ breaker'.state = breaker.state /\ ~StillHeld(embed[c])
      BY <1>2, <2>1, <2>2, <2>3 DEF FailureRecorded
    <3>3. QED BY <3>1, <3>2, IdleIsSound, PermitKept
  <2>4. CASE Recorded(c) /\ Trips(c)
    <3>1. RowSetOthersAged(c, IdleEmbed)
      BY <2>1, <2>4 DEF Failed, RowSetOthersAged
    <3>2. breaker' \in BreakerRows /\ breaker'.state # "HALF_OPEN"
      <4>1. breaker' = [state |-> "OPEN", failures |-> Threshold, cooled |-> FALSE]
        BY <2>1, <2>4 DEF FailureRecorded
      <4>2. QED BY <4>1, EmbeddingAssumption DEF BreakerRows
    <3>3. QED BY <3>1, <3>2, IdleIsSound, GenerationEnded
  <2>5. CASE Recorded(c) /\ ~Trips(c)
    <3>1. RowSet(c, IdleEmbed)
      BY <2>1, <2>5 DEF Failed, RowSet
    <3>2. breaker.state = "CLOSED"
      BY <2>2, <2>5, CountedWhileClosed DEF Trips
    <3>3. breaker' = [breaker EXCEPT !.failures = @ + 1]
      BY <2>1, <2>5 DEF FailureRecorded
    <3>4. breaker' \in BreakerRows /\ breaker'.state = breaker.state
      BY <1>2, <3>3 DEF BreakerRows
    <3>5. QED BY <3>1, <3>2, <3>4, IdleIsSound, PermitKept
  <2>6. QED BY <2>3, <2>4, <2>5
<1>5. QED BY <1>3, <1>4

\* What a complete response adds: the vectors of the batch, in its order.
LEMMA SucceededKeeps ==
    ASSUME EmbeddingInv, NEW c \in Embedders, embed[c].at \in Calling,
           NEW r \in Responses(Len(Head(embed[c].batches))), Complete(r, Len(Head(embed[c].batches))),
           breaker' = SuccessRecorded(c),
           embed' = [Succeeded(c) EXCEPT ![c].vectors =
                        @ \o [i \in 1 .. Len(r) |-> Head(embed[c].batches)[r[i]]]]
    PROVE  EmbeddingInv'
<1>1. PICK e \in EmbedRows : /\ e = embed[c] /\ RowSound(e)
                             /\ embed \in [Embedders -> EmbedRows] /\ breaker \in BreakerRows
  BY TheRow
<1>2. RowSound(e)
  BY <1>1
<1>3. embed \in [Embedders -> EmbedRows] /\ breaker \in BreakerRows
  BY <1>1
<1>4. e.texts \in Seq(SizeRows) /\ e.batches \in Seq(Seq(Nat)) /\ e.vectors \in Seq(Nat) /\ e.at \in Calling
  BY <1>1 DEF EmbedRows
<1>5. e.batches # <<>> /\ Tail(e.batches) \in Seq(Seq(Nat)) /\ Head(e.batches) \in Seq(Nat)
  <2>1. e.batches # <<>>
    BY <1>2, <1>4 DEF RowSound
  <2>2. QED BY <1>4, <2>1, HeadTailProperties
<1>6. PICK N \in Nat, v \in Seq(Nat) : v = e.vectors /\ N = Len(v)
  <2>1. Len(e.vectors) \in Nat
    BY <1>4
  <2>2. QED BY <1>4, <2>1
<1>7. PICK ends : Batched(e.texts, e.batches, ends, N, Len(e.texts))
  BY <1>2, <1>6 DEF RowSound
<1>8. PICK k \in Nat : /\ Run(Head(e.batches), N, k)
                       /\ \E more : Batched(e.texts, Tail(e.batches), more, k, Len(e.texts))
  BY <1>4, <1>5, <1>7, BatchedTail
<1>9. PICK head \in Seq(Nat) : head = Head(e.batches)
  BY <1>5
<1>10. PICK added : added = [i \in 1 .. Len(r) |-> head[r[i]]]
  OBVIOUS
<1>11. N < k /\ k - N \in Nat /\ head = [i \in 1 .. k - N |-> N + i] /\ Len(head) = k - N
  <2>1. N < k /\ head = [i \in 1 .. k - N |-> N + i]
    BY <1>8, <1>9 DEF Run
  <2>2. k - N \in Nat
    BY <2>1
  <2>3. QED BY <2>1, <2>2
<1>12. added = [i \in 1 .. k - N |-> N + i]
  <2>1. Len(r) = k - N /\ \A i \in 1 .. k - N : r[i] = i
    BY <1>1, <1>9, <1>11 DEF Complete
  <2>2. \A i \in 1 .. k - N : head[r[i]] = N + i
    BY <1>11, <2>1
  <2>3. QED BY <1>10, <2>1, <2>2
<1>13. PICK all : all = v \o added
  OBVIOUS
<1>14. all \in Seq(Nat) /\ Len(all) = k /\ all = [i \in 1 .. k |-> i]
  <2>1. added \in Seq(Nat) /\ Len(added) = k - N
    <3>1. \A i \in 1 .. k - N : N + i \in Nat
      OBVIOUS
    <3>2. QED BY <1>11, <1>12, <3>1
  <2>2. /\ all \in Seq(Nat) /\ Len(all) = N + (k - N)
        /\ \A i \in 1 .. N + (k - N) : all[i] = IF i <= N THEN v[i] ELSE added[i - N]
    BY <1>6, <1>13, <2>1, ConcatProperties
  <2>3. N + (k - N) = k
    OBVIOUS
  <2>4. \A i \in 1 .. N : v[i] = i
    BY <1>2, <1>6 DEF RowSound
  <2>5. ASSUME NEW i \in 1 .. k PROVE all[i] = i
    <3>1. CASE i <= N
      <4>1. i \in 1 .. N
        BY <3>1
      <4>2. QED BY <2>2, <2>3, <2>4, <3>1, <4>1
    <3>2. CASE ~(i <= N)
      <4>1. i - N \in 1 .. k - N /\ N + (i - N) = i
        BY <3>2
      <4>2. added[i - N] = i
        BY <1>12, <4>1
      <4>3. QED BY <2>2, <2>3, <3>2, <4>2
    <3>3. QED BY <3>1, <3>2
  <2>6. Len(all) = k /\ DOMAIN all = 1 .. k
    BY <2>2, <2>3
  <2>7. all = [i \in DOMAIN all |-> all[i]]
    BY <2>2
  <2>8. QED BY <2>2, <2>5, <2>6, <2>7
<1> DEFINE Ended(rows) ==
      embed' = [[rows EXCEPT ![c].at = "permit", ![c].permit = NoPermit, ![c].batches = Tail(@)]
                   EXCEPT ![c].vectors = @ \o [i \in 1 .. Len(r) |-> Head(embed[c].batches)[r[i]]]]
<1>15. ASSUME NEW rows \in [Embedders -> EmbedRows], NEW f \in EmbedRows, f = rows[c],
              f.texts = e.texts, f.batches = e.batches, f.vectors = e.vectors,
              Ended(rows)
       PROVE  \E row \in EmbedRows : RowSound(row) /\ ~StillHeld(row) /\ embed' = [rows EXCEPT ![c] = row]
  <2>1. PICK rest \in Seq(Seq(Nat)) : rest = Tail(e.batches)
    BY <1>5
  <2>2. PICK g : g = [f EXCEPT !.at = "permit", !.permit = NoPermit, !.batches = rest]
    OBVIOUS
  <2>3. NoPermit \in [probe : BOOLEAN, current : BOOLEAN] /\ ~NoPermit.current
    BY DEF NoPermit
  <2>4. /\ g \in EmbedRows /\ g.at = "permit" /\ g.texts = e.texts /\ g.batches = rest
        /\ g.vectors = v /\ g.permit = NoPermit
    BY <1>6, <1>15, <2>2, <2>3 DEF EmbedRows
  <2>5. [rows EXCEPT ![c].at = "permit", ![c].permit = NoPermit, ![c].batches = Tail(@)]
          = [rows EXCEPT ![c] = g]
    BY <1>15, <2>1, <2>2
  <2>6. PICK row : row = [g EXCEPT !.vectors = all]
    OBVIOUS
  <2>7. /\ row \in EmbedRows /\ row.at = "permit" /\ row.texts = e.texts /\ row.batches = rest
        /\ row.vectors = all /\ row.permit = NoPermit
    BY <1>14, <2>4, <2>6 DEF EmbedRows
  <2>8. embed' = [[rows EXCEPT ![c] = g] EXCEPT ![c].vectors = @ \o added]
    BY <1>1, <1>9, <1>10, <1>15, <2>5
  <2>9. embed' = [rows EXCEPT ![c] = row]
    BY <1>13, <1>15, <2>4, <2>6, <2>8
  <2>10. RowSound(row)
    BY <1>8, <1>14, <2>1, <2>7 DEF RowSound, Calling
  <2>11. ~StillHeld(row)
    BY <2>3, <2>7 DEF StillHeld
  <2>12. QED BY <2>7, <2>9, <2>10, <2>11
<1> HIDE DEF Ended
<1>16. Recorded(c) <=> StillHeld(embed[c])
  BY DEF Recorded, StillHeld
<1>17. CASE Recorded(c) /\ embed[c].permit.probe
  <2>1. PICK row \in EmbedRows : RowSound(row) /\ ~StillHeld(row) /\ RowSetOthersAged(c, row)
    <3>1. PICK rows : rows = Outdated(embed)
      OBVIOUS
    <3>2. rows = [d \in Embedders |-> [embed[d] EXCEPT !.permit.current = FALSE]]
      BY <3>1 DEF Outdated
    <3>3. \A d \in Embedders : embed[d] \in EmbedRows
      BY <1>3
    <3>4. \A d \in Embedders : [embed[d] EXCEPT !.permit.current = FALSE] \in EmbedRows
      BY <3>3 DEF EmbedRows
    <3>5. rows \in [Embedders -> EmbedRows]
      BY <3>2, <3>4
    <3>6. PICK f \in EmbedRows : f = rows[c] /\ f = [e EXCEPT !.permit.current = FALSE]
      BY <1>1, <3>2, <3>4
    <3>7. f.texts = e.texts /\ f.batches = e.batches /\ f.vectors = e.vectors
      BY <3>6 DEF EmbedRows
    <3>8. Ended(rows)
      BY <1>17, <3>1 DEF Succeeded, Ended
    <3>9. \E row \in EmbedRows : RowSound(row) /\ ~StillHeld(row) /\ embed' = [rows EXCEPT ![c] = row]
      BY <1>15, <3>5, <3>6, <3>7, <3>8
    <3>10. QED BY <3>1, <3>9 DEF RowSetOthersAged
  <2>2. breaker' \in BreakerRows /\ breaker'.state # "HALF_OPEN"
    <3>1. breaker' = [breaker EXCEPT !.failures = 0, !.state = "CLOSED"]
      BY <1>17 DEF SuccessRecorded
    <3>2. PICK b \in BreakerRows : b = breaker
      BY <1>3
    <3>3. PICK counted \in BreakerRows : counted = [b EXCEPT !.failures = 0]
      BY DEF BreakerRows
    <3>4. breaker' = [counted EXCEPT !.state = "CLOSED"]
      BY <3>1, <3>2, <3>3
    <3>5. QED BY <3>4 DEF BreakerRows
  <2>3. QED BY <2>1, <2>2, GenerationEnded
<1>18. CASE ~(Recorded(c) /\ embed[c].permit.probe)
  <2>1. PICK row \in EmbedRows : RowSound(row) /\ ~StillHeld(row) /\ RowSet(c, row)
    <3>1. Ended(embed)
      BY <1>18 DEF Succeeded, Ended
    <3>2. \E row \in EmbedRows : RowSound(row) /\ ~StillHeld(row) /\ embed' = [embed EXCEPT ![c] = row]
      BY <1>1, <1>15, <3>1
    <3>3. QED BY <3>2 DEF RowSet
  <2>2. breaker' \in BreakerRows /\ breaker'.state = breaker.state
    <3>1. PICK b \in BreakerRows : b = breaker
      BY <1>3
    <3>2. PICK counted \in BreakerRows : counted = [b EXCEPT !.failures = 0] /\ counted.state = b.state
      <4>1. [b EXCEPT !.failures = 0] \in BreakerRows
        BY DEF BreakerRows
      <4>2. [b EXCEPT !.failures = 0].state = b.state
        BY DEF BreakerRows
      <4>3. QED BY <4>1, <4>2
    <3>3. breaker' = b \/ breaker' = [counted EXCEPT !.state = counted.state]
      BY <1>18, <3>1, <3>2 DEF SuccessRecorded
    <3>4. [counted EXCEPT !.state = counted.state] = counted
      BY DEF BreakerRows
    <3>5. QED BY <3>1, <3>2, <3>3, <3>4
  <2>3. StillHeld(embed[c]) => breaker.state = "CLOSED"
    BY <1>16, <1>18, CountedWhileClosed
  <2>4. QED BY <2>1, <2>2, <2>3, PermitKept
<1>19. QED BY <1>17, <1>18

LEMMA EmbeddingInvPreserved ==
    ASSUME EmbeddingInv, [EmbeddingNext]_embeddingVars PROVE EmbeddingInv'
<1>1. breaker \in BreakerRows
  BY DEF EmbeddingInv, RowsTyped
<1>2. ASSUME NEW c \in Embedders, EmbedQuery(c) PROVE EmbeddingInv'
  <2>1. PICK size \in Sizes : embed' = [embed EXCEPT ![c] = Started(<<size>>)]
    BY <1>2 DEF EmbedQuery
  <2>2. PICK texts \in [1 .. 1 -> Sizes] : texts = <<size>>
    <3>1. <<size>> = [i \in 1 .. 1 |-> size]
      OBVIOUS
    <3>2. QED BY <3>1
  <2>3. embed[c].at \in {"idle", "returned"} /\ UNCHANGED breaker
    BY <1>2 DEF EmbedQuery
  <2>4. embed' = [embed EXCEPT ![c] = Started(texts)] /\ 1 \in Nat
    BY <2>1, <2>2
  <2>5. QED BY <2>3, <2>4, StartKeeps
<1>3. ASSUME NEW c \in Embedders, Embed(c) PROVE EmbeddingInv'
  <2>1. PICK n \in 0 .. MaxTexts : \E texts \in [1 .. n -> Sizes] :
           embed' = [embed EXCEPT ![c] = Started(texts)]
    BY <1>3 DEF Embed
  <2>2. n \in Nat
    BY EmbeddingAssumption
  <2>3. embed[c].at \in {"idle", "returned"} /\ UNCHANGED breaker
    BY <1>3 DEF Embed
  <2>4. QED BY <2>1, <2>2, <2>3, StartKeeps
<1>4. ASSUME NEW c \in Embedders, Return(c) PROVE EmbeddingInv'
  BY <1>4, PlaceKept DEF Return, Calling
<1>5. ASSUME NEW c \in Embedders, BeforeCall(c) PROVE EmbeddingInv'
  BY <1>5, BeforeCallKeeps
<1>6. ASSUME NEW c \in Embedders, TakeAiSlot(c) PROVE EmbeddingInv'
  BY <1>6, PlaceKept DEF TakeAiSlot, Calling
<1>7. ASSUME NEW c \in Embedders, SlotTimeout(c) PROVE EmbeddingInv'
  <2>1. embed[c].at \in Calling /\ AttemptFailed(c, TRUE)
    BY <1>7 DEF SlotTimeout, Calling
  <2>2. QED BY <2>1, AttemptFailedKeeps
<1>8. ASSUME NEW c \in Embedders, Answer(c) PROVE EmbeddingInv'
  <2>1. embed[c].at \in Calling
    BY <1>8 DEF Answer, Calling
  <2>2. CASE \E retryable \in BOOLEAN : AttemptFailed(c, retryable)
    BY <2>1, <2>2, AttemptFailedKeeps
  <2>3. CASE \E r \in Responses(Len(Head(embed[c].batches))) :
             IF Complete(r, Len(Head(embed[c].batches)))
             THEN /\ breaker' = SuccessRecorded(c)
                  /\ embed' = [Succeeded(c) EXCEPT ![c].vectors =
                                 @ \o [i \in 1 .. Len(r) |-> Head(embed[c].batches)[r[i]]]]
             ELSE AttemptFailed(c, TRUE)
    <3>1. PICK r \in Responses(Len(Head(embed[c].batches))) :
             IF Complete(r, Len(Head(embed[c].batches)))
             THEN /\ breaker' = SuccessRecorded(c)
                  /\ embed' = [Succeeded(c) EXCEPT ![c].vectors =
                                 @ \o [i \in 1 .. Len(r) |-> Head(embed[c].batches)[r[i]]]]
             ELSE AttemptFailed(c, TRUE)
      BY <2>3
    <3>2. CASE Complete(r, Len(Head(embed[c].batches)))
      BY <2>1, <3>1, <3>2, SucceededKeeps
    <3>3. CASE ~Complete(r, Len(Head(embed[c].batches)))
      <4>1. AttemptFailed(c, TRUE)
        BY <3>1, <3>3
      <4>2. QED BY <2>1, <4>1, AttemptFailedKeeps
    <3>4. QED BY <3>2, <3>3
  <2>4. QED BY <1>8, <2>2, <2>3 DEF Answer
<1>9. ASSUME NEW c \in Embedders, WakeUp(c) PROVE EmbeddingInv'
  BY <1>9, PlaceKept DEF WakeUp, Calling
<1>10. ASSUME CoolDown PROVE EmbeddingInv'
  <2>1. UNCHANGED embed /\ breaker' = [breaker EXCEPT !.cooled = TRUE]
    BY <1>10 DEF CoolDown
  <2>2. breaker' \in BreakerRows /\ breaker'.state = breaker.state
    BY <1>1, <2>1 DEF BreakerRows
  <2>3. QED BY <2>1, <2>2 DEF EmbeddingInv, RowsTyped, RowsSound, PermitsSound
<1>11. ASSUME UNCHANGED <<breaker, embed>> PROVE EmbeddingInv'
  BY <1>11 DEF EmbeddingInv, RowsTyped, RowsSound, PermitsSound
<1>12. QED
  BY <1>2, <1>3, <1>4, <1>5, <1>6, <1>7, <1>8, <1>9, <1>10, <1>11
     DEF EmbeddingNext, EmbedStep, LanguageModelCall, LanguageModelEnd, embeddingVars

\* A list of texts that was embedded has the vector of each text, in their order, however it was cut
\* into batches and tried again, and no batch exceeds a limit; and a breaker is half open just while
\* one call is its probe.  embedding/core.py:122-157, 191-243, 387-418.
THEOREM EmbeddingAlwaysSound == EmbeddingSpec => []EmbeddingSound
<1>1. EmbeddingInv => EmbeddingSound
  BY EmbeddingInvGives DEF EmbeddingSound
<1>2. QED BY <1>1, EmbeddingInitSound, EmbeddingInvPreserved, PTL DEF EmbeddingSpec

============================================================================
