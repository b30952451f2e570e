----------------------------- MODULE MCStorage -----------------------------
(***************************************************************************)
(* Small instances of the object storage, of the search and of reading.    *)
(* They share no variable, so that their interleaving would add nothing: a *)
(* behaviour is one of the component it has picked.                        *)
(***************************************************************************)
EXTENDS DocumentFiles, Search, Reading, TLC

CONSTANTS scheduler, admin

\* The scheduler is enabled and repairs, which is not the default (infra/settings.py:67);
\* an admin may look.
MCModes == (scheduler :> {"REPAIR"}) @@ (admin :> {"DRY_RUN"})

\* A collection and two documents of one user, and another with a permission of each kind.
CONSTANTS s1, s2, f1, i1
MCOwnerOf == (s1 :> "owner") @@ (s2 :> "owner") @@ (f1 :> "owner")
MCVisitors == {[user |-> "owner", roles |-> {}, department |-> Absent],
               [user |-> "reader", roles |-> {"STAFF"}, department |-> "lab"]}
MCRight(on, target, who) == [on |-> on, target |-> target, who |-> who]
MCRightRow == <<MCRight(f1, "USER", "reader"), MCRight(s1, "USER", "reader"),
                MCRight(s2, "ROLE", "STAFF"), MCRight(f1, "DEPARTMENT", "lab")>>

MCToolLimit == <<2, 1>>

VARIABLE part

Init ==
    /\ part \in {"files", "search", "reading", "tools"}
    /\ FilesInit /\ SearchInit /\ ReadingInit
    /\ part # "search" => readable = {}
    /\ {r \in Rights : Given(r)} \in (IF part = "reading" THEN {{}, {1, 3}, {2, 4}} ELSE {{}})
    /\ shelf = (IF part = "reading" THEN {s1} ELSE {})
    /\ inside = (IF part = "reading" THEN Inner ELSE {})

Next ==
    \/ part = "files" /\ FilesNext /\ UNCHANGED <<part, searchVars, readingVars>>
    \/ part = "search" /\ SearchNext /\ UNCHANGED <<part, filesVars, readingVars>>
    \/ part = "reading" /\ ViewsNext /\ UNCHANGED <<part, filesVars, searchVars>>
    \/ part = "tools" /\ ToolsNext /\ UNCHANGED <<part, filesVars, searchVars>>

\* The scheduler comes back to every object, and does not crash or fail for ever.
FilesFairness ==
    /\ \A u \in Uploads : WF_filesVars(part = "files" /\ Age(u))
    /\ WF_filesVars(part = "files" /\ DetectorStep(scheduler))
    /\ <>[][~Fail(scheduler) /\ ~CrashDetector(scheduler)]_filesVars

\* Time passes, and a request goes on when it can: nothing is assumed of the
\* language model, whose call may never return.
SearchFairness ==
    \A r \in Askers : /\ WF_searchVars(part = "search" /\ SearchStep(r))
                      /\ WF_searchVars(part = "search" /\ DeadlinePasses(r))

Spec == /\ Init /\ [][Next]_<<part, filesVars, searchVars, readingVars>>
        /\ FilesFairness
        /\ SearchFairness
=============================================================================
