------------------------------- MODULE MCSafety -------------------------------
(***************************************************************************)
(* Small instances of the modules that only have invariants.  They share   *)
(* no variable, so that their interleaving would add nothing: a behaviour  *)
(* is one of the component it has picked.                                  *)
(***************************************************************************)
EXTENDS MCAccessCache, LedgerLocks, AnswerGuards

\* In the ledgers one document has two versions.
MCDocOf == [j \in Jobs |-> 1]

\* One search goes through every branch while the other only asks a judge: it is the one
\* whose calls come too late for the breaker.
CONSTANTS r1, r2
MCQuestion(kind, gate, action, risk) == [kind |-> kind, gate |-> gate, action |-> action, risk |-> risk]
MCQuestions ==
    (r1 :> {MCQuestion("regulatory", "pass", "block", "suspicious"),
            MCQuestion("extraction", "pass", "warn", "none"),
            MCQuestion("explanatory", "soft_fail", "warn", "none"),
            MCQuestion("explanatory", "soft_fail", "warn", "pattern")})
    @@ (r2 :> {MCQuestion("no_answer", "pass", "warn", "suspicious")})

\* The two clients are alike and so are the two connections; a behaviour has steps of
\* the ones or of the others, so that exchanging both at once is all there is.
ThreadSymmetry ==
    {p \in Permutations(Clients \union Connections) :
        \A v, w \in DOMAIN p : /\ v \in Clients <=> p[v] \in Clients
                               /\ p[v] # v <=> p[w] # w}

VARIABLE part

\* Bounds: of two documents the permissions have no expires_at, and where they expire
\* there is one document.
Lasting == \A p \in Permissions : permission[p] # "EXPIRED"
OneDocument == \A t \in Threads : call[t].d \in {None, d1}

AllInit == part \in {"lasting", "expiring", "ledgers", "answers"} /\ Init /\ LocksInit /\ GuardsInit

AllNext ==
    \/ part = "lasting" /\ Next /\ Lasting' /\ UNCHANGED <<part, locksVars, guardsVars>>
    \/ part = "expiring" /\ Next /\ OneDocument' /\ UNCHANGED <<part, locksVars, guardsVars>>
    \/ part = "ledgers" /\ LocksNext /\ UNCHANGED <<part, vars, guardsVars>>
    \/ part = "answers" /\ GuardsNext /\ UNCHANGED <<part, vars, locksVars>>

AllSpec == AllInit /\ [][AllNext]_<<part, vars, locksVars, guardsVars>>
===============================================================================
