------------------------------ MODULE Identity ------------------------------
(***************************************************************************)
(* Who a request is: src/src/auth/core.py resolves a JWT to a principal    *)
(* with the roles of the ledger (src/src/users/core.py), through a cache   *)
(* that entries leave when they expire or when a role changes, and that    *)
(* may be unreachable; src/src/mcp/tokens.py resolves an API key, on nodes *)
(* whose clocks differ.  The processes that serve requests share the       *)
(* ledger and the cache, and each counts the changes of roles it made      *)
(* itself.                                                                 *)
(*                                                                         *)
(* One user, whose roles are the number of changes they went through, one  *)
(* JWT and one API key.  Time is in half seconds, since a JWT counts whole *)
(* ones.                                                                   *)
(***************************************************************************)
EXTENDS Naturals, FiniteSetsExt

CONSTANTS Processes,    \* that serve requests
          Requests,     \* requests with the JWT
          Calls,        \* calls with the API key
          Admins,       \* requests that change the roles
          HomeOf,       \* the process that serves a request or an admin
          Revokers,     \* requests that revoke the API key
          MaxChanges,
          MaxTime,
          Expiration,   \* exp of the JWT, in half seconds
          RoleTTL,      \* 30 seconds, of the entry of the roles
          Skew          \* how far the clock of a node may be off

ASSUME IdentityAssumption ==
    /\ HomeOf \in [Requests \union Admins -> Processes] /\ Requests # {}
    /\ MaxChanges \in Nat /\ MaxTime \in Nat /\ Expiration \in Nat
    /\ RoleTTL \in Nat \ {0} /\ Skew \in Nat

Never == MaxTime + Skew + 1   \* no instant: later than all of them

VARIABLES now, cacheUp,
          roles,       \* the ledger
          superseded,  \* when each of their changes was committed
          announced,   \* the latest change each process has answered
          admin,       \* the change each admin has committed and not announced; 0: none
          generation,  \* _role_cache_generations of the user, in each process
          cached,      \* roles:<user> in the cache: what, until when, by and as read when
          missed,      \* an invalidation of what is cached did not reach the cache
          revoked,     \* revoked:<jti> in the cache: until when
          loggedOut,   \* a logout has been answered and its entry was written
          request,
          token,       \* the row of mcp_tokens
          revoker, call

cacheVars == <<cached, missed, revoked>>
rolesVars == <<roles, superseded, announced, admin, generation>>
keyVars == <<token, revoker, call>>
identityVars == <<now, cacheUp, rolesVars, cacheVars, loggedOut, request, keyVars>>

\* Some request, for an entry that none has put.
Anyone == CHOOSE r \in Requests : TRUE

NoEntry == [roles |-> 0, until |-> 0, by |-> HomeOf[Anyone], read |-> 0]

IdentityInit ==
    /\ now = 0 /\ cacheUp = TRUE
    /\ roles = 1 /\ superseded = [v \in 1 .. MaxChanges + 1 |-> 0]
    /\ announced = [p \in Processes |-> 1] /\ generation = [p \in Processes |-> 0]
    /\ admin = [a \in Admins |-> 0]
    /\ cached = NoEntry /\ missed = FALSE /\ revoked = 0 /\ loggedOut = FALSE
    /\ request = [r \in Requests |-> [at |-> "new", generation |-> 0,
                                      roles |-> 0, by |-> HomeOf[r], read |-> 0,
                                      from |-> [p \in Processes |-> 0], barred |-> FALSE,
                                      unsure |-> FALSE, excused |-> FALSE]]
    /\ token = [used |-> 0, revoked |-> Never]
    /\ revoker = [k \in Revokers |-> "new"]
    /\ call = [c \in Calls |-> [at |-> "new", barred |-> FALSE]]

----------------------------------------------------------------------------
(* The cache *)

Live(entry) == now < entry.until

Tick ==
    /\ now < MaxTime
    /\ now' = now + 1
    /\ UNCHANGED <<cacheUp, rolesVars, cacheVars, loggedOut, request, keyVars>>

CacheFails ==
    /\ cacheUp' = ~cacheUp
    /\ UNCHANGED <<now, rolesVars, cacheVars, loggedOut, request, keyVars>>

----------------------------------------------------------------------------
(* Changes of roles *)

\* assign_role and remove_role under the lock of the user row.
ChangeRoles(a) ==
    /\ admin[a] = 0 /\ roles <= MaxChanges
    /\ roles' = roles + 1
    /\ superseded' = [superseded EXCEPT ![roles + 1] = now]
    /\ admin' = [admin EXCEPT ![a] = roles + 1]
    /\ UNCHANGED <<now, cacheUp, announced, generation, cacheVars, loggedOut, request, keyVars>>

\* invalidate_roles, after the commit; then the request is answered.  The generation
\* is that of the process, the entry is everybody's.
Announce(a) ==
    /\ admin[a] # 0
    /\ generation' = [generation EXCEPT ![HomeOf[a]] = @ + 1]
    /\ announced' = [announced EXCEPT ![HomeOf[a]] = Max({@, admin[a]})]
    /\ IF cacheUp THEN cached' = NoEntry /\ missed' = FALSE
                  ELSE cached' = cached /\ missed' = (missed \/ Live(cached))
    /\ admin' = [admin EXCEPT ![a] = 0]
    /\ UNCHANGED <<now, cacheUp, roles, superseded, revoked, loggedOut, request, keyVars>>

----------------------------------------------------------------------------
(* resolve_request *)

Resolving(r, place) == request[r].at = place
Proceed(r, step) == /\ request' = [request EXCEPT ![r] = step]
                    /\ UNCHANGED <<now, cacheUp, rolesVars, loggedOut, keyVars>>
Moved(r, place) == [request[r] EXCEPT !.at = place]

\* int(now) counts whole seconds.
Valid == Expiration > now - (now % 2)

Validate(r) ==
    /\ Resolving(r, "new")
    /\ Proceed(r, [Moved(r, IF Valid THEN "check" ELSE "refused")
                      EXCEPT !.from = announced, !.barred = loggedOut])
    /\ UNCHANGED cacheVars

\* An unreachable cache refuses nobody, and its entry goes with the token, which
\* may have run out since it was validated.
Unsure == ~cacheUp \/ now >= Expiration
IsRevoked(r) ==
    /\ Resolving(r, "check")
    /\ Proceed(r, [Moved(r, IF cacheUp /\ now < revoked THEN "refused" ELSE "generation")
                      EXCEPT !.unsure = request[r].barred /\ Unsure])
    /\ UNCHANGED cacheVars

ReadGeneration(r) ==
    /\ Resolving(r, "generation")
    /\ Proceed(r, [Moved(r, "lookup") EXCEPT !.generation = generation[HomeOf[r]]])
    /\ UNCHANGED cacheVars

Lookup(r) ==
    /\ Resolving(r, "lookup")
    /\ Proceed(r, IF cacheUp /\ Live(cached)
                  THEN [Moved(r, "hit") EXCEPT !.roles = cached.roles, !.by = cached.by,
                                               !.excused = missed]
                  ELSE Moved(r, "miss"))
    /\ UNCHANGED cacheVars

\* Mutant of Current: the generation is not compared.
CurrentAlways(r) == TRUE

Current(r) == request[r].generation = generation[HomeOf[r]]

TakeHit(r) ==
    /\ Resolving(r, "hit")
    /\ Proceed(r, Moved(r, IF Current(r) THEN "answered" ELSE "generation"))
    /\ UNCHANGED cacheVars

AfterMiss(r) ==
    /\ Resolving(r, "miss")
    /\ Proceed(r, Moved(r, IF Current(r) THEN "ledger" ELSE "generation"))
    /\ UNCHANGED cacheVars

ReadLedger(r) ==
    /\ Resolving(r, "ledger")
    /\ Proceed(r, [Moved(r, "fill") EXCEPT !.roles = roles, !.by = HomeOf[r],
                                           !.read = now])
    /\ UNCHANGED cacheVars

Fill(r) ==
    /\ Resolving(r, "fill")
    /\ IF Current(r)
       THEN /\ Proceed(r, Moved(r, "answered"))
            /\ IF cacheUp
               THEN /\ cached' = [roles |-> request[r].roles, until |-> now + RoleTTL,
                                  by |-> HomeOf[r], read |-> request[r].read]
                    /\ missed' = FALSE
               ELSE UNCHANGED <<cached, missed>>
       ELSE Proceed(r, Moved(r, "generation")) /\ UNCHANGED <<cached, missed>>
    /\ UNCHANGED revoked

\* The entry outlives the token: the rest of its life, rounded up to seconds.
Remaining == Expiration - now
Logout ==
    /\ Valid /\ ~loggedOut
    /\ IF cacheUp /\ Remaining > 0
       THEN revoked' = now + Remaining + (Remaining % 2) /\ loggedOut' = TRUE
       ELSE UNCHANGED <<revoked, loggedOut>>
    /\ UNCHANGED <<now, cacheUp, rolesVars, cached, missed, request, keyVars>>

----------------------------------------------------------------------------
(* API keys *)

\* What a node takes for the time.
Clock == {t \in 0 .. MaxTime + Skew : t + Skew >= now /\ t <= now + Skew}
KeyStep == UNCHANGED <<now, cacheUp, rolesVars, cacheVars, loggedOut, request>>

\* get and update are two statements: two nodes may both find the key unrevoked.
ReadKey(k) ==
    /\ revoker[k] = "new"
    /\ revoker' = [revoker EXCEPT ![k] = IF token.revoked = Never THEN "update" ELSE "answered"]
    /\ KeyStep /\ UNCHANGED <<token, call>>

\* COALESCE keeps the first revocation, GREATEST puts it after the last use.
RevocationTime(instant) ==
    IF token.revoked # Never THEN token.revoked ELSE Max({instant, token.used})

RevokeKey(k) ==
    /\ revoker[k] = "update"
    /\ \E t \in Clock : token' = [token EXCEPT !.revoked = RevocationTime(t)]
    /\ revoker' = [revoker EXCEPT ![k] = "answered"]
    /\ KeyStep /\ UNCHANGED call

FindKey(c) ==
    /\ call[c].at = "new"
    /\ call' = [call EXCEPT ![c] =
          [at |-> IF token.revoked = Never THEN "principal" ELSE "refused",
           barred |-> \E k \in Revokers : revoker[k] = "answered"]]
    /\ KeyStep /\ UNCHANGED <<token, revoker>>

\* The owner of the key is loaded in between, and may be gone.
LoadPrincipal(c) ==
    /\ call[c].at = "principal"
    /\ call' = [call EXCEPT ![c].at = "touch"]
    /\ KeyStep /\ UNCHANGED <<token, revoker>>

PrincipalGone(c) ==
    /\ call[c].at = "principal"
    /\ call' = [call EXCEPT ![c].at = "refused"]
    /\ KeyStep /\ UNCHANGED <<token, revoker>>

\* Mutant of StillActive: the update does not look at the revocation again.
StillActiveAlways == TRUE

\* touch_last_used_if_active: one UPDATE, whose condition is looked at again.
StillActive == token.revoked = Never

Touch(c) ==
    /\ call[c].at = "touch"
    /\ IF StillActive
       THEN /\ \E t \in Clock : token' = [token EXCEPT !.used = Max({t, token.used})]
            /\ call' = [call EXCEPT ![c].at = "answered"]
       ELSE /\ call' = [call EXCEPT ![c].at = "refused"]
            /\ UNCHANGED token
    /\ KeyStep /\ UNCHANGED revoker

----------------------------------------------------------------------------

RoleStep == \E a \in Admins : ChangeRoles(a) \/ Announce(a)

RequestStep == \/ \E r \in Requests :
                     \/ Validate(r) \/ IsRevoked(r) \/ ReadGeneration(r) \/ Lookup(r)
                     \/ TakeHit(r) \/ AfterMiss(r) \/ ReadLedger(r) \/ Fill(r)
               \/ CacheFails

ApiKeyStep == \/ \E k \in Revokers : ReadKey(k) \/ RevokeKey(k)
              \/ \E c \in Calls :
                    FindKey(c) \/ LoadPrincipal(c) \/ PrincipalGone(c) \/ Touch(c)

IdentityNext == RoleStep \/ Logout \/ RequestStep \/ ApiKeyStep \/ Tick

IdentitySpec == IdentityInit /\ [][IdentityNext]_identityVars

----------------------------------------------------------------------------
(* Properties *)

IdentityTypeOK ==
    /\ now \in 0 .. MaxTime /\ cacheUp \in BOOLEAN
    /\ roles \in 1 .. MaxChanges + 1 /\ announced \in [Processes -> 1 .. roles]
    /\ superseded \in [1 .. MaxChanges + 1 -> 0 .. MaxTime]
    /\ cached.roles \in 0 .. roles /\ cached.until \in 0 .. MaxTime + RoleTTL
    /\ \A r \in Requests : request[r].roles \in 0 .. roles
    /\ token.used \in 0 .. MaxTime + Skew

\* The roles of a request are at least as new as every change that the process which
\* read them from the ledger had answered before the request began, however the requests
\* that fill the cache interleave with the change.  Only an entry that the invalidation
\* could not delete, because the cache was unreachable, is served on.
AsNewAsItsReader ==
    \A r \in Requests :
       Resolving(r, "answered") /\ request[r].roles < request[r].from[request[r].by] =>
          request[r].excused

\* Another process may put back what it read before the change.  Until such an entry
\* expires no longer passes than its time to live, from the change, and the time its
\* reader took from the ledger to the cache.
Put == cached.until - RoleTTL
StaleNoLonger ==
    Live(cached) /\ cached.roles < roles =>
       now < superseded[cached.roles + 1] + RoleTTL + (Put - cached.read)

\* How old the roles of a request may be: auth/core.py:225-259, and what
\* test_auth.py:332 shows of a second instance.
RolesFresh == AsNewAsItsReader /\ StaleNoLonger

\* Whoever begins after a logout or a revocation was answered is not let in
\* (for the JWT, unless the cache could not tell), a key is not used after the
\* instant of its revocation, though the clocks of nodes differ, and that
\* instant is the first one for good.
RevokedStaysOut ==
    /\ [](\A r \in Requests : Resolving(r, "answered") /\ request[r].barred => request[r].unsure)
    /\ [](\A c \in Calls : call[c].at = "answered" => ~call[c].barred)
    /\ [](token.used <= token.revoked)
    /\ [][token.revoked # Never => token' = token]_token
=============================================================================
