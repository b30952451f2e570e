------------------------------- MODULE Search -------------------------------
(***************************************************************************)
(* src/src/search/: requests for one query of one user, which share a      *)
(* cached answer.  The pipeline is modelled step by step where its order   *)
(* matters: the prefilter over cached permissions, the retrieval, the      *)
(* check against the live ledger, the generation within one deadline and   *)
(* the judges; src/src/guardrails/ decides as it may.  An answer is known  *)
(* by the documents whose text went into it and by whether it came in      *)
(* time.                                                                   *)
(***************************************************************************)
EXTENDS Naturals, FiniteSets

CONSTANTS Askers,       \* requests
          SearchDocs,
          Nobody,
          GenerationTries,   \* attempts of a logical call, 4 in the code
          MaxEdits           \* changes of what the user may read

Lost == "lost"   \* the thread of a call that nobody waits for

ASSUME SearchAssumption ==
    /\ Nobody \notin Askers /\ Lost \notin Askers \union {Nobody}
    /\ GenerationTries \in Nat \ {0} /\ MaxEdits \in Nat

VARIABLES readable,     \* what the live ledger lets the user read
          edits,
          barred,       \* barred[r]: what it has not let r read since r began
          search,       \* the requests
          entry,        \* the cached body
          generator     \* GenerationRunner: its slot, and whose call its thread makes

searchVars == <<readable, edits, barred, search, entry, generator>>

NoAnswer == [text |-> "none", from |-> {}, timely |-> TRUE]
Fixed(text) == [NoAnswer EXCEPT !.text = text]
NoBody == [results |-> {}, answer |-> Fixed("nothing cached")]

SearchInit ==
    /\ readable \in SUBSET SearchDocs /\ edits = 0
    /\ barred = [r \in Askers |-> {}]
    /\ search = [r \in Askers |->
          [at |-> "new", results |-> {}, unchecked |-> {}, branch |-> "general",
           tries |-> 0, late |-> FALSE, cacheable |-> TRUE, answer |-> NoAnswer]]
    /\ entry = NoBody
    /\ generator = [busy |-> FALSE, thread |-> Nobody]

SearchAt(r, place) == search[r].at = place
Put(r, row) == search' = [search EXCEPT ![r] = row]
Move(r, place) == Put(r, [search[r] EXCEPT !.at = place])

\* An error has no body.
Refuse(r) == Put(r, [search[r] EXCEPT !.at = "refused", !.results = {}, !.answer = NoAnswer,
                                 !.late = FALSE, !.tries = 0])
LedgerKept == UNCHANGED <<readable, edits, barred>>

----------------------------------------------------------------------------
(* The ledger, the cache and time *)

Grant(d) ==
    /\ edits < MaxEdits /\ d \notin readable
    /\ readable' = readable \union {d} /\ edits' = edits + 1
    /\ barred' = [r \in Askers |-> barred[r] \ {d}]
    /\ UNCHANGED <<search, entry, generator>>

Withdraw(d) ==
    /\ edits < MaxEdits /\ d \in readable
    /\ readable' = readable \ {d} /\ edits' = edits + 1
    /\ UNCHANGED <<barred, search, entry, generator>>

EntryExpires ==
    /\ entry # NoBody
    /\ entry' = NoBody
    /\ LedgerKept /\ UNCHANGED <<search, generator>>

----------------------------------------------------------------------------
(* SearchService.execute: the cached body *)

\* A miss is also what a failing cache and a malformed body are.
LookUp(r) ==
    /\ SearchAt(r, "new")
    /\ barred' = [barred EXCEPT ![r] = SearchDocs \ readable]
    /\ \/ /\ entry # NoBody
          /\ Put(r, [search[r] EXCEPT !.at = "cached", !.results = entry.results,
                              !.unchecked = entry.results, !.answer = entry.answer])
       \/ Move(r, "input")
    /\ UNCHANGED <<readable, edits, entry, generator>>

\* can_read_document on each result of the cached body, live.
MayServe(d) == d \in readable

CheckCached(r) ==
    /\ SearchAt(r, "cached")
    /\ \/ /\ search[r].unchecked = {}
          /\ Move(r, "answered")
          /\ UNCHANGED entry
       \/ \E d \in search[r].unchecked :
             IF MayServe(d)
             THEN /\ Put(r, [search[r] EXCEPT !.unchecked = @ \ {d}])
                  /\ UNCHANGED entry
             ELSE /\ Put(r, [search[r] EXCEPT !.at = "input", !.results = {},
                                              !.unchecked = {}, !.answer = NoAnswer])
                  /\ entry' = NoBody
    /\ LedgerKept /\ UNCHANGED generator

----------------------------------------------------------------------------
(* The pipeline *)

\* A blocked query, and a judge of the input that cannot be reached, end the
\* request with an error.
InspectInput(r) ==
    /\ SearchAt(r, "input")
    /\ Move(r, "prefilter") \/ Refuse(r)
    /\ LedgerKept /\ UNCHANGED <<entry, generator>>

\* The prefilter reads cached permissions, which may be old: any set.  Nothing
\* allowed ends the pipeline.  Then the index is searched for the allowed.
Retrieve(r) ==
    /\ SearchAt(r, "prefilter")
    /\ \/ Move(r, "return")
       \/ Refuse(r)
       \/ \E found \in SUBSET SearchDocs :
             Put(r, [search[r] EXCEPT !.at = "livecheck", !.results = found])
    /\ LedgerKept /\ UNCHANGED <<entry, generator>>

\* Mutant of LiveReadable: the old permissions of the prefilter are enough.
LiveReadableAsFound(docs) == docs

LiveReadable(docs) == docs \intersect readable

LiveCheck(r) ==
    /\ SearchAt(r, "livecheck")
    /\ Put(r, [search[r] EXCEPT !.at = "gate", !.results = LiveReadable(@)])
    /\ LedgerKept /\ UNCHANGED <<entry, generator>>

\* document_scope, reranking and the gate: the first two keep some of the
\* results, and no result is a failure in the soft mode too.  generate_answer
\* may be off.  The branch depends on the gate and the type of the question: an
\* extraction that may say "not found", one that the general call follows, or
\* the general call at once.
Gate(r) ==
    /\ SearchAt(r, "gate")
    /\ \E kept \in SUBSET search[r].results :
          /\ kept = {} => search[r].results = {}
          /\ \/ Put(r, [search[r] EXCEPT !.at = "return", !.results = kept,
                                         !.answer = Fixed("not found")])
             \/ Put(r, [search[r] EXCEPT !.at = "return", !.results = kept])
             \/ \E b \in {"soft", "first", "general"} :
                   Put(r, [search[r] EXCEPT !.at = "generate", !.results = kept, !.branch = b])
    /\ LedgerKept /\ UNCHANGED <<entry, generator>>

----------------------------------------------------------------------------
(* Generation: one logical call after another, within one deadline *)

Generating == {"generate", "slot", "awaiting", "got", "failed"}

DeadlinePasses(r) ==
    /\ search[r].at \in Generating /\ ~search[r].late
    /\ Put(r, [search[r] EXCEPT !.late = TRUE])
    /\ LedgerKept /\ UNCHANGED <<entry, generator>>

\* GenerationRunner.complete
TakeGenerator(r) ==
    /\ SearchAt(r, "generate") /\ ~search[r].late /\ ~generator.busy
    /\ generator' = [generator EXCEPT !.busy = TRUE]
    /\ Move(r, "slot")
    /\ LedgerKept /\ UNCHANGED entry

StartCall(r) ==
    /\ SearchAt(r, "slot") /\ ~search[r].late
    /\ \/ /\ generator' = [generator EXCEPT !.thread = r]
          /\ Move(r, "awaiting")
       \/ /\ generator' = [generator EXCEPT !.busy = FALSE]
          /\ Move(r, "failed")
    /\ LedgerKept /\ UNCHANGED entry

\* The thread releases the slot, whether somebody waits for it or not.
CallReturns ==
    /\ generator.thread # Nobody
    /\ generator' = [busy |-> FALSE, thread |-> Nobody]
    /\ IF generator.thread = Lost THEN UNCHANGED search
       ELSE Move(generator.thread, "got") \/ Move(generator.thread, "failed")
    /\ LedgerKept /\ UNCHANGED entry

\* The deadline, the branch and the tries are the generation's own.
Ended(r, answer) == [search[r] EXCEPT !.at = "judge", !.answer = answer, !.late = FALSE,
                                      !.branch = "general", !.tries = 0]
TimedOut(r) == [Ended(r, Fixed("timeout")) EXCEPT !.cacheable = FALSE]

\* Mutant of DeadlineExceeded: a call under way is waited for.
DeadlineExceededBetweenCalls(r) ==
    /\ search[r].at \in Generating \ {"awaiting"} /\ search[r].late
    /\ Put(r, TimedOut(r))
    /\ generator' = IF SearchAt(r, "slot") THEN [generator EXCEPT !.busy = FALSE] ELSE generator
    /\ LedgerKept /\ UNCHANGED entry

DeadlineExceeded(r) ==
    /\ search[r].at \in Generating /\ search[r].late
    /\ Put(r, TimedOut(r))
    /\ generator' = CASE SearchAt(r, "slot") -> [generator EXCEPT !.busy = FALSE]
                      [] SearchAt(r, "awaiting") -> [generator EXCEPT !.thread = Lost]
                      [] OTHER -> generator
    /\ LedgerKept /\ UNCHANGED entry

\* Mutant of InTime: the answer is taken without a look at the clock.
InTimeUnchecked(r) == TRUE

InTime(r) == ~search[r].late

Generated(r) == [text |-> "generated", from |-> search[r].results, timely |-> ~search[r].late]

\* llm_complete and complete look at the clock once more.
AcceptCall(r) ==
    /\ SearchAt(r, "got") /\ InTime(r)
    /\ \/ Put(r, Ended(r, Generated(r)))
       \* The answer is empty.
       \/ /\ search[r].branch = "first"
          /\ Put(r, [search[r] EXCEPT !.at = "generate", !.branch = "general", !.tries = 0])
       \/ /\ search[r].branch = "soft"
          /\ Put(r, Ended(r, Fixed("not found")))
    /\ LedgerKept /\ UNCHANGED <<entry, generator>>

\* Another try, while there is one and the failure may pass; the general branch
\* instead of another; or the error of the request.
RetryCall(r) ==
    /\ SearchAt(r, "failed")
    /\ \/ /\ search[r].tries + 1 < GenerationTries
          /\ Put(r, [search[r] EXCEPT !.at = "generate", !.tries = @ + 1])
       \/ IF search[r].branch # "general"
          THEN Put(r, [search[r] EXCEPT !.at = "generate", !.branch = "general", !.tries = 0])
          ELSE Refuse(r)
    /\ LedgerKept /\ UNCHANGED <<entry, generator>>

\* check_faithfulness may replace an answer, check_hallucination adds to it; a
\* judge that fails passes it.  There is nothing to judge in an empty answer.
Judge(r) ==
    /\ SearchAt(r, "judge")
    /\ \/ Move(r, "return")
       \/ /\ search[r].answer.text = "generated"
          /\ Put(r, [search[r] EXCEPT !.at = "return", !.answer = Fixed("blocked")])
    /\ LedgerKept /\ UNCHANGED <<entry, generator>>

Cached(r) == [results |-> search[r].results, answer |-> search[r].answer]

\* A cache that fails is only not filled.
Return(r) ==
    /\ SearchAt(r, "return")
    /\ Move(r, "answered")
    /\ \/ search[r].cacheable /\ entry' = Cached(r)
       \/ UNCHANGED entry
    /\ LedgerKept /\ UNCHANGED generator

SearchStep(r) ==
    \/ LookUp(r) \/ CheckCached(r) \/ InspectInput(r) \/ Retrieve(r) \/ LiveCheck(r) \/ Gate(r)
    \/ TakeGenerator(r) \/ StartCall(r) \/ DeadlineExceeded(r) \/ AcceptCall(r) \/ RetryCall(r)
    \/ Judge(r) \/ Return(r)

SearchNext ==
    \/ \E r \in Askers : SearchStep(r) \/ DeadlinePasses(r)
    \/ \E d \in SearchDocs : Grant(d) \/ Withdraw(d)
    \/ CallReturns \/ EntryExpires

SearchSpec == SearchInit /\ [][SearchNext]_searchVars

----------------------------------------------------------------------------
(* Properties *)

\* What a request is given, and what the answer it is given was made from, the
\* user could read at some moment of the request: also when it comes from the
\* cache, and although the prefilter works with old permissions.
\* search/service.py:171-194, steps/permission_livecheck.py:6-16.
AnswersReadable ==
    \A r \in Askers : SearchAt(r, "answered") =>
       (search[r].results \union search[r].answer.from) \intersect barred[r] = {}

\* What comes late is given to nobody, a timeout is not cached, and the slot of
\* the generator is held by one call at a time.
\* search/calls.py:33-89, steps/generation.py:99-108.
GenerationSound ==
    /\ \A r \in Askers : search[r].answer.timely
    /\ entry.answer.text # "timeout"
    /\ generator.busy <=> (generator.thread # Nobody \/ \E r \in Askers : SearchAt(r, "slot"))
    /\ Cardinality({r \in Askers : SearchAt(r, "slot") \/ SearchAt(r, "awaiting")}) <= 1

\* Generation ends within its deadline even when the model never answers and
\* another request's call holds the slot.
\* search/calls.py:33-89.
GenerationEnds == []<>(\A r \in Askers : search[r].at \notin Generating)
=============================================================================
