---------------------------- MODULE AnswerGuards ----------------------------
(***************************************************************************)
(* The calls of the language model in a search and what they do to its     *)
(* answer: LogicalCircuitBreaker of src/src/shared/search.py, which all    *)
(* searches share, the retries of src/src/search/calls.py and of           *)
(* src/src/guardrails/answer/policies.py, the branches of                  *)
(* src/src/search/steps/generation.py, and the judges before and after it. *)
(* A permit knows its generation only as the current one or an old one,    *)
(* which is all the code asks; recovery_seconds are the flag rested.  An   *)
(* answer is where its text comes from and the warnings behind it.         *)
(***************************************************************************)
EXTENDS Naturals, FiniteSets, Sequences, SequencesExt

CONSTANTS Askers,         \* threads that search
          LlmThreshold,   \* exhausted operations that open the breaker, 5 in the code
          LlmAttempts,    \* tries of one operation, 4 in the code
          Questions,      \* what each of them asks: [kind, gate, action, risk]
          MaxOpenings     \* bound: no search starts after so many openings

ASSUME GuardsAssumption == LlmThreshold \in Nat \ {0} /\ LlmAttempts \in Nat \ {0}

VARIABLES llmBreaker,   \* failures, and whether it is open, rested and probed
          asker         \* the search of each thread

guardsVars == <<llmBreaker, asker>>

Tasks == {"input", "evidence", "short", "general", "faithfulness", "hallucination"}
GenerationTasks == {"evidence", "short", "general"}
NoCallPermit == [out |-> FALSE, probe |-> FALSE, current |-> FALSE]

NoQuestion == [kind |-> "explanatory", gate |-> "pass", action |-> "warn", risk |-> "none"]
IdleAsker ==
    [at |-> "idle", question |-> NoQuestion, permit |-> NoCallPermit, attempt |-> 1,
     heard |-> [t \in Tasks \ {"input", "hallucination"} |-> "nothing"], text |-> "", warned |-> {}, cacheable |-> TRUE]

GuardsInit ==
    /\ llmBreaker = [failures |-> 0, open |-> FALSE, rested |-> FALSE, probe |-> FALSE, openings |-> 0]
    /\ asker = [r \in Askers |-> IdleAsker]

----------------------------------------------------------------------------
(* The breaker *)

\* before_call lets a call through.
Permitted == ~llmBreaker.open \/ (llmBreaker.rested /\ ~llmBreaker.probe)

BeforeCall(r) ==
    /\ Permitted
    /\ asker' = [asker EXCEPT ![r].permit =
                    [out |-> TRUE, probe |-> llmBreaker.open, current |-> TRUE]]
    /\ llmBreaker' = [llmBreaker EXCEPT !.probe = llmBreaker.open]

\* A new generation makes every permit that is out an old one.
Aged(searches) == [r \in Askers |-> [searches[r] EXCEPT !.permit.current = FALSE]]

\* record_success; searches are the searches after the call.
RecordSuccess(r, searches) ==
    LET permit == asker[r].permit
    IN  IF ~permit.current THEN llmBreaker' = llmBreaker /\ asker' = searches
        ELSE /\ llmBreaker' = [llmBreaker EXCEPT !.failures = 0, !.open = FALSE,
                                                 !.rested = FALSE, !.probe = FALSE]
             /\ asker' = IF permit.probe THEN Aged(searches) ELSE searches

\* Mutant of Opening: the failure of a probe is one of those that are counted.
OpeningByCount(permit) == llmBreaker.failures + 1 = LlmThreshold

Opening(permit) == permit.probe \/ llmBreaker.failures + 1 >= LlmThreshold

\* record_failure
RecordFailure(r, searches) ==
    LET permit == asker[r].permit
    IN  IF ~permit.current THEN llmBreaker' = llmBreaker /\ asker' = searches
        ELSE IF Opening(permit)
        THEN /\ llmBreaker' = [failures |-> llmBreaker.failures + 1, open |-> TRUE, rested |-> FALSE,
                               probe |-> FALSE, openings |-> llmBreaker.openings + 1]
             /\ asker' = Aged(searches)
        ELSE /\ llmBreaker' = [llmBreaker EXCEPT !.failures = @ + 1]
             /\ asker' = searches

\* recovery_seconds pass after the breaker was opened.
Rest ==
    /\ llmBreaker.open /\ ~llmBreaker.rested
    /\ llmBreaker' = [llmBreaker EXCEPT !.rested = TRUE]
    /\ UNCHANGED asker

----------------------------------------------------------------------------
(* The steps of a search *)

\* The branches of generation.py; a search without generate_answer ends here.
FirstTask(question) ==
    IF question.kind = "no_answer" THEN "answered"
    ELSE IF question.gate = "soft_fail" \/ question.kind = "regulatory" THEN "evidence"
    ELSE IF question.kind = "extraction" THEN "short" ELSE "general"

\* detect_injection asks the judge only about a query that is suspicious.
AfterQuestion(question) ==
    CASE question.risk = "pattern" -> "blocked"
      [] question.risk = "suspicious" -> "input"
      [] OTHER -> FirstTask(question)

Ask(r) ==
    /\ asker[r].at \in {"idle", "answered", "blocked", "failed"}
    /\ llmBreaker.openings < MaxOpenings
    /\ \E question \in Questions[r] :
        asker' = [asker EXCEPT ![r] = [IdleAsker EXCEPT !.at = AfterQuestion(question),
                                                        !.question = question]]
    /\ UNCHANGED llmBreaker

\* The judges say whether a query is an injection; detect_injection lets their errors pass
\* through.
Inspected(q, outcome) ==
    [q EXCEPT !.at = CASE outcome = "injection" -> "blocked"
                       [] outcome = "unavailable" -> "failed"
                       [] OTHER -> FirstTask(q.question)]

Showing(q, text) == [q EXCEPT !.text = text, !.at = "faithfulness"]

\* A question whose passages are weak has an answer from the evidence or none, unless the
\* extraction is not available.
Evidenced(q, outcome) ==
    CASE outcome = "text" -> Showing(q, "evidence")
      [] outcome = "empty" /\ q.question.gate = "soft_fail" -> Showing(q, "not_found")
      [] OTHER -> [q EXCEPT !.at = "general"]

ShortAnswered(q, outcome) ==
    IF outcome = "text" THEN Showing(q, "short") ELSE [q EXCEPT !.at = "general"]

\* general: an error ends the search.
GeneralAnswered(q, outcome) ==
    CASE outcome = "text" -> Showing(q, "general")
      [] outcome = "empty" -> Showing(q, "")
      [] OTHER -> [q EXCEPT !.at = "failed"]

AnsweredLate(q) == [Showing(q, "") EXCEPT !.cacheable = FALSE]

\* check_faithfulness: an answer nobody could judge passes.
Faithful(q, outcome) ==
    LET judged == [q EXCEPT !.at = "hallucination"]
    IN  IF outcome # "low" THEN judged
        ELSE IF q.question.action = "block" THEN [judged EXCEPT !.text = "withheld"]
        ELSE [judged EXCEPT !.warned = @ \union {"faithfulness"}]

\* check_hallucination warns, whatever the action.
Grounded(q, outcome) ==
    [q EXCEPT !.at = "answered",
              !.warned = IF outcome = "low" THEN @ \union {"hallucination"} ELSE @]

\* What a search goes on with, when its operation has ended in outcome.
Heard(r, outcome) ==
    LET task == asker[r].at
        q == [asker[r] EXCEPT !.heard = [t \in DOMAIN @ |-> IF t = task THEN outcome ELSE @[t]],
                              !.permit = NoCallPermit, !.attempt = 1]
        after == IF outcome = "late" THEN AnsweredLate(q)
                 ELSE CASE task = "input" -> Inspected(q, outcome)
                        [] task = "evidence" -> Evidenced(q, outcome)
                        [] task = "short" -> ShortAnswered(q, outcome)
                        [] task = "general" -> GeneralAnswered(q, outcome)
                        [] task = "faithfulness" -> Faithful(q, outcome)
                        [] task = "hallucination" -> Grounded(q, outcome)
    IN  [asker EXCEPT ![r] = after]

\* What an operation gets from the model.  A score that cannot be read counts as the highest.
Responses(task) ==
    CASE task = "input" -> {"safe", "injection"}
      [] task \in GenerationTasks -> {"text", "empty"}
      [] OTHER -> {"high", "low"}

StartOperation(r) ==
    /\ asker[r].at \in Tasks /\ ~asker[r].permit.out
    /\ \/ BeforeCall(r)
       \/ ~Permitted /\ asker' = Heard(r, "unavailable") /\ UNCHANGED llmBreaker

Respond(r) ==
    /\ asker[r].permit.out
    /\ \E outcome \in Responses(asker[r].at) : RecordSuccess(r, Heard(r, outcome))

\* The answer comes, and generation.py looks at the clock again.
RespondLate(r) ==
    /\ asker[r].permit.out /\ asker[r].at \in GenerationTasks
    /\ RecordSuccess(r, Heard(r, "late"))

\* An error that may pass is retried.
RetryLlm(r) ==
    /\ asker[r].permit.out /\ asker[r].attempt < LlmAttempts
    /\ asker' = [asker EXCEPT ![r].attempt = @ + 1]
    /\ UNCHANGED llmBreaker

\* The last attempt fails, or one with a status that is not retried.
Exhaust(r) ==
    /\ asker[r].permit.out
    /\ RecordFailure(r, Heard(r, "unavailable"))

\* The deadline of the generation passes in a call or between two of them.
MissDeadline(r) ==
    /\ asker[r].permit.out /\ asker[r].at \in GenerationTasks
    /\ RecordFailure(r, Heard(r, "late"))

----------------------------------------------------------------------------
SearcherStep(r) ==
    \/ Ask(r) \/ StartOperation(r) \/ Respond(r) \/ RespondLate(r)
    \/ RetryLlm(r) \/ Exhaust(r) \/ MissDeadline(r)

GuardsNext == Rest \/ \E r \in Askers : SearcherStep(r)
GuardsSpec == GuardsInit /\ [][GuardsNext]_guardsVars

----------------------------------------------------------------------------
(* The breaker belongs to the calls of its generation: while it is open the *)
(* only one is its probe, and it is never waited for in vain; while it is   *)
(* closed none is a probe and fewer than the threshold have failed.  So no  *)
(* answer to a call of before can close it, open it or take its probe.      *)
BreakerSound ==
    LET Current == {r \in Askers : asker[r].permit.current}
        Probes == {r \in Current : asker[r].permit.probe}
    IN  /\ IF llmBreaker.open THEN Current = Probes ELSE Probes = {}
        /\ Cardinality(Probes) = IF llmBreaker.probe THEN 1 ELSE 0
        /\ ~llmBreaker.open => llmBreaker.failures < LlmThreshold

(* What is shown was earned: a question whose passages are weak gets a     *)
(* general answer only when the extraction of evidence was not available,   *)
(* no general answer is given where a better one was found, an answer that  *)
(* came too late is neither shown nor cached, and one that was judged not   *)
(* to be faithful is withheld or marked.                                    *)
AnswerEarned ==
    \A r \in Askers :
        LET q == asker[r]
        IN  q.at = "answered" /\ q.question.kind # "no_answer" =>
                /\ q.text = "general" /\ q.question.gate = "soft_fail" => q.heard["evidence"] = "unavailable"
                /\ q.text = "general" => "text" \notin {q.heard["evidence"], q.heard["short"]}
                /\ "late" \in {q.heard[t] : t \in GenerationTasks}
                       => ~q.cacheable /\ q.text \in {"", "withheld"}
                /\ q.text = "" => \/ ~q.cacheable
                                  \/ q.heard["general"] = "empty"
                /\ q.heard["faithfulness"] = "low" => q.text = "withheld" \/ "faithfulness" \in q.warned

(* What a search shows of a model that fails is guarded: see BreakerSound  *)
(* and AnswerEarned.                                                        *)
GuardsSound == BreakerSound /\ AnswerEarned
=============================================================================
