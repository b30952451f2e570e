------------------------- MODULE AnswerGuardsProofs -------------------------
(***************************************************************************)
(* Theorems about AnswerGuards, for any set of searches, questions and     *)
(* kinds, and any threshold; about what is done to a text on its way to a  *)
(* reader, Chunking and Masking; and about Retrieval, for any definition   *)
(* that ranks in its order.                                                *)
(*                                                                         *)
(* The breaker is looked at through its permits: an operation that ends    *)
(* either starts a new generation, where every permit that is out is an    *)
(* old one (AllAged), or leaves the generation and the other searches      *)
(* alone (OneEnded).  What the search that ended it goes on with is a      *)
(* matter of its own row only (Answering).                                 *)
(*                                                                         *)
(* Of a pipeline the invariant (RetrievalInv) says what the results are    *)
(* made of, by the steps that are behind (RankInv), and what the trace     *)
(* says of them (TraceInv).  Each handler is looked at by itself, without  *)
(* its trace (StepOutcome).                                                *)
(***************************************************************************)
EXTENDS Retrieval, AnswerGuards, Masking, FiniteSetTheorems, SequenceTheorems, WellFoundedInduction, TLAPS

----------------------------------------------------------------------------
(* The invariant. *)

HeardTasks == Tasks \ {"input", "hallucination"}
Outcomes == {"nothing", "safe", "injection", "text", "empty", "high", "low", "unavailable", "late"}
AskerPlaces == {"idle", "answered", "blocked", "failed"} \union Tasks
ShownTexts == {"", "evidence", "not_found", "short", "general", "withheld"}
Asked == {NoQuestion} \union UNION {Questions[r] : r \in Askers}
CallPermits == [out : BOOLEAN, probe : BOOLEAN, current : BOOLEAN]
AskerRows == [at : AskerPlaces, question : Asked, permit : CallPermits, attempt : Nat,
              heard : [HeardTasks -> Outcomes], text : ShownTexts,
              warned : SUBSET {"faithfulness", "hallucination"}, cacheable : BOOLEAN]

GuardsTyped ==
    /\ llmBreaker \in [failures : Nat, open : BOOLEAN, rested : BOOLEAN, probe : BOOLEAN,
                       openings : Nat]
    /\ asker \in [Askers -> AskerRows]

\* A permit of the current generation is in use; it is a probe just while the breaker is
\* open, and there is at most one probe, which the breaker knows of.
PermitSound(r) ==
    LET permit == asker[r].permit
    IN  /\ permit.out => asker[r].at \in Tasks
        /\ permit.current => permit.out
        /\ permit.current /\ llmBreaker.open => permit.probe /\ llmBreaker.probe
        /\ permit.current /\ permit.probe => llmBreaker.open
Probing(r) == asker[r].permit.current /\ asker[r].permit.probe
BreakerInv ==
    /\ \A r \in Askers : PermitSound(r)
    /\ \A r, s \in Askers : Probing(r) /\ Probing(s) => r = s
    /\ llmBreaker.probe => llmBreaker.open /\ \E r \in Askers : Probing(r)
    /\ ~llmBreaker.open => llmBreaker.failures < LlmThreshold

\* What a search has heard before its answer is written, what its answer stands on, and
\* what was judged of it.
Unwritten(q) == /\ q.cacheable /\ q.heard["general"] = "nothing"
                /\ q.heard["evidence"] \notin {"text", "late"}
                /\ q.heard["short"] \notin {"text", "late"}
Earned(q) ==
    /\ q.text = "general" =>
          /\ q.question.gate = "soft_fail" => q.heard["evidence"] = "unavailable"
          /\ q.heard["evidence"] # "text" /\ q.heard["short"] # "text"
    /\ "late" \in {q.heard["evidence"], q.heard["short"], q.heard["general"]}
          => ~q.cacheable /\ q.text \in {"", "withheld"}
    /\ q.text = "" => ~q.cacheable \/ q.heard["general"] = "empty"
Judged(q) == q.heard["faithfulness"] = "low" => q.text = "withheld" \/ "faithfulness" \in q.warned
Answering(q) ==
    /\ q.at \in {"input", "evidence", "short", "general"} => Unwritten(q)
    /\ q.at = "short" => q.question.gate # "soft_fail"
    /\ q.at = "general" /\ q.question.gate = "soft_fail" => q.heard["evidence"] = "unavailable"
    /\ q.at \in {"faithfulness", "hallucination"} => Earned(q)
    /\ q.at = "hallucination" => Judged(q)
    /\ q.at = "answered" /\ q.question.kind # "no_answer" => Earned(q) /\ Judged(q)

GuardsInv == GuardsTyped /\ BreakerInv /\ \A r \in Askers : Answering(asker[r])

\* The searches after one of them has ended an operation.
Ended(r, searches) ==
    /\ searches \in [Askers -> AskerRows] /\ searches[r].permit = NoCallPermit
    /\ Answering(searches[r])
    /\ \A s \in Askers \ {r} : searches[s] = asker[s]

LEMMA IdleAskerIsRow == IdleAsker \in AskerRows /\ NoCallPermit \in CallPermits
<1>1. NoCallPermit \in CallPermits
  BY DEF NoCallPermit, CallPermits
<1>2. /\ IdleAsker.at = "idle" /\ IdleAsker.question = NoQuestion /\ IdleAsker.permit = NoCallPermit
      /\ IdleAsker.attempt = 1 /\ IdleAsker.text = "" /\ IdleAsker.warned = {}
      /\ IdleAsker.cacheable = TRUE
      /\ IdleAsker.heard = [t \in HeardTasks |-> "nothing"]
  BY DEF IdleAsker, HeardTasks
<1>3. /\ "idle" \in AskerPlaces /\ NoQuestion \in Asked /\ 1 \in Nat /\ "" \in ShownTexts
      /\ "nothing" \in Outcomes
  <2>1. "idle" \in AskerPlaces /\ "" \in ShownTexts /\ "nothing" \in Outcomes
    BY DEF AskerPlaces, ShownTexts, Outcomes
  <2>2. NoQuestion \in Asked
    BY Zenon DEF Asked
  <2>3. QED BY <2>1, <2>2
<1>4. IdleAsker = [at |-> IdleAsker.at, question |-> IdleAsker.question, permit |-> IdleAsker.permit,
                   attempt |-> IdleAsker.attempt, heard |-> IdleAsker.heard,
                   text |-> IdleAsker.text, warned |-> IdleAsker.warned,
                   cacheable |-> IdleAsker.cacheable]
  BY DEF IdleAsker
<1>5. IdleAsker.heard \in [HeardTasks -> Outcomes]
  BY <1>2, <1>3, ZenonT(40)
<1>6. IdleAsker \in AskerRows
  BY <1>1, <1>2, <1>3, <1>4, <1>5 DEF AskerRows
<1>7. QED BY <1>1, <1>6

----------------------------------------------------------------------------
(* The breaker and its permits *)

\* What a new generation does to the permits.
LEMMA AgedSound ==
    ASSUME NEW searches \in [Askers -> AskerRows]
    PROVE  /\ Aged(searches) \in [Askers -> AskerRows]
           /\ \A s \in Askers :
                 /\ ~Aged(searches)[s].permit.current
                 /\ Aged(searches)[s].permit.out = searches[s].permit.out
                 /\ Aged(searches)[s].at = searches[s].at
                 /\ Answering(searches[s]) => Answering(Aged(searches)[s])
<1>1. ASSUME NEW s \in Askers
      PROVE  /\ Aged(searches)[s] \in AskerRows
             /\ ~Aged(searches)[s].permit.current
             /\ Aged(searches)[s].permit.out = searches[s].permit.out
             /\ Aged(searches)[s].at = searches[s].at
             /\ Answering(searches[s]) => Answering(Aged(searches)[s])
  <2>1. PICK old : old = searches[s]
    OBVIOUS
  <2> DEFINE permit == [old.permit EXCEPT !.current = FALSE]
             row == [old EXCEPT !.permit = permit]
  <2>2. Aged(searches)[s] = row
    BY <2>1 DEF Aged
  <2>3. old \in AskerRows
    BY <2>1
  <2>4. permit \in CallPermits /\ ~permit.current /\ permit.out = old.permit.out
    BY <2>3 DEF AskerRows, CallPermits
  <2> HIDE DEF permit
  <2>5. /\ row \in AskerRows /\ row.permit = permit /\ row.at = old.at
        /\ row.question = old.question /\ row.heard = old.heard /\ row.text = old.text
        /\ row.warned = old.warned /\ row.cacheable = old.cacheable
    BY <2>3, <2>4 DEF AskerRows
  <2> HIDE DEF row
  <2>6. Answering(old) => Answering(row)
    BY <2>5 DEF Answering, Unwritten, Earned, Judged
  <2>7. QED BY <2>1, <2>2, <2>4, <2>5, <2>6
<1>2. Aged(searches) \in [Askers -> AskerRows]
  BY <1>1 DEF Aged
<1>3. QED BY <1>1, <1>2

\* The breaker after all permits that are out have become old ones.
LEMMA AllAged ==
    ASSUME GuardsInv, NEW r \in Askers, NEW searches, Ended(r, searches), asker' = Aged(searches),
           llmBreaker' \in [failures : Nat, open : BOOLEAN, rested : BOOLEAN, probe : BOOLEAN,
                            openings : Nat],
           ~llmBreaker'.probe, ~llmBreaker'.open => llmBreaker'.failures < LlmThreshold
    PROVE  GuardsInv'
<1>1. /\ searches \in [Askers -> AskerRows] /\ asker' \in [Askers -> AskerRows]
      /\ \A s \in Askers : /\ ~asker'[s].permit.current
                           /\ asker'[s].permit.out = searches[s].permit.out
                           /\ asker'[s].at = searches[s].at
                           /\ Answering(searches[s]) => Answering(asker'[s])
  BY AgedSound DEF Ended
<1>2. ASSUME NEW s \in Askers
      PROVE  /\ searches[s].permit.out => searches[s].at \in Tasks
             /\ Answering(searches[s])
  <2>1. CASE s = r
    BY <2>1 DEF Ended, NoCallPermit
  <2>2. CASE s # r
    BY <2>2 DEF Ended, GuardsInv, BreakerInv, PermitSound
  <2>3. QED BY <2>1, <2>2
<1>3. \A s \in Askers : PermitSound(s)' /\ ~Probing(s)'
  BY <1>1, <1>2 DEF PermitSound, Probing
<1>4. BreakerInv'
  BY <1>3 DEF BreakerInv
<1>5. \A s \in Askers : Answering(asker[s])'
  BY <1>1, <1>2
<1>6. QED BY <1>1, <1>4, <1>5 DEF GuardsInv, GuardsTyped

\* The breaker after an operation that has changed no generation.
LEMMA OneEnded ==
    ASSUME GuardsInv, NEW r \in Askers, NEW searches, Ended(r, searches), asker' = searches,
           llmBreaker' \in [failures : Nat, open : BOOLEAN, rested : BOOLEAN, probe : BOOLEAN,
                            openings : Nat],
           llmBreaker'.open = llmBreaker.open, llmBreaker'.probe = llmBreaker.probe,
           ~llmBreaker'.open => llmBreaker'.failures < LlmThreshold,
           ~Probing(r)
    PROVE  GuardsInv'
<1>1. /\ asker' \in [Askers -> AskerRows] /\ asker'[r].permit = NoCallPermit
      /\ Answering(asker'[r]) /\ \A s \in Askers \ {r} : asker'[s] = asker[s]
  BY DEF Ended
<1>2. PermitSound(r)' /\ ~Probing(r)'
  BY <1>1 DEF PermitSound, Probing, NoCallPermit
<1>3. \A s \in Askers \ {r} : PermitSound(s)' /\ (Probing(s)' <=> Probing(s))
  BY <1>1 DEF PermitSound, Probing, GuardsInv, BreakerInv
<1>4. llmBreaker'.probe => llmBreaker'.open /\ \E s \in Askers : Probing(s)'
  BY <1>3 DEF GuardsInv, BreakerInv
<1>5. \A s, t \in Askers : Probing(s)' /\ Probing(t)' => s = t
  BY <1>2, <1>3 DEF GuardsInv, BreakerInv
<1>6. BreakerInv'
  BY <1>2, <1>3, <1>4, <1>5 DEF BreakerInv
<1>7. \A s \in Askers : Answering(asker[s])'
  BY <1>1 DEF GuardsInv
<1>8. QED BY <1>1, <1>6, <1>7 DEF GuardsInv, GuardsTyped

LEMMA SuccessSound ==
    ASSUME GuardsInv, NEW r \in Askers, asker[r].permit.out, NEW searches, Ended(r, searches),
           RecordSuccess(r, searches)
    PROVE  GuardsInv'
<1> DEFINE permit == asker[r].permit
<1>1. /\ llmBreaker \in [failures : Nat, open : BOOLEAN, rested : BOOLEAN, probe : BOOLEAN,
                         openings : Nat]
      /\ PermitSound(r)
      /\ ~llmBreaker.open => llmBreaker.failures < LlmThreshold
  BY DEF GuardsInv, GuardsTyped, BreakerInv
<1>2. CASE ~permit.current
  <2>1. llmBreaker' = llmBreaker /\ asker' = searches
    BY <1>2 DEF RecordSuccess
  <2>2. ~Probing(r)
    BY <1>2 DEF Probing
  <2>3. /\ llmBreaker'.open = llmBreaker.open /\ llmBreaker'.probe = llmBreaker.probe
        /\ ~llmBreaker'.open => llmBreaker'.failures < LlmThreshold
        /\ llmBreaker' \in [failures : Nat, open : BOOLEAN, rested : BOOLEAN, probe : BOOLEAN,
                             openings : Nat]
    BY <1>1, <2>1
  <2>4. QED BY <2>1, <2>2, <2>3, OneEnded
<1>3. CASE permit.current
  <2> DEFINE closed == [llmBreaker EXCEPT !.failures = 0, !.open = FALSE,
                                          !.rested = FALSE, !.probe = FALSE]
  <2>1. /\ closed \in [failures : Nat, open : BOOLEAN, rested : BOOLEAN, probe : BOOLEAN,
                       openings : Nat]
        /\ closed.failures = 0 /\ ~closed.open /\ ~closed.probe
    BY <1>1
  <2>2. llmBreaker' = closed /\ asker' = IF permit.probe THEN Aged(searches) ELSE searches
    BY <1>3 DEF RecordSuccess
  <2> HIDE DEF closed
  <2>3. 0 < LlmThreshold
    BY GuardsAssumption
  <2>4. CASE permit.probe
    <3>1. asker' = Aged(searches)
      BY <2>2, <2>4
    <3>2. QED BY <2>1, <2>2, <2>3, <3>1, AllAged
  <2>5. CASE ~permit.probe
    <3>1. ~Probing(r) /\ asker' = searches
      BY <2>2, <2>5 DEF Probing
    <3>2. ~llmBreaker.open /\ ~llmBreaker.probe
      BY <1>1, <1>3, <2>5 DEF PermitSound, GuardsInv, BreakerInv
    <3>3. llmBreaker'.open = llmBreaker.open /\ llmBreaker'.probe = llmBreaker.probe
      BY <1>1, <2>1, <2>2, <3>2
    <3>4. QED BY <2>1, <2>2, <2>3, <3>1, <3>3, OneEnded
  <2>6. QED BY <2>4, <2>5
<1>4. QED BY <1>2, <1>3

LEMMA FailureSound ==
    ASSUME GuardsInv, NEW r \in Askers, asker[r].permit.out, NEW searches, Ended(r, searches),
           RecordFailure(r, searches)
    PROVE  GuardsInv'
<1> DEFINE permit == asker[r].permit
<1>1. /\ llmBreaker \in [failures : Nat, open : BOOLEAN, rested : BOOLEAN, probe : BOOLEAN,
                         openings : Nat]
      /\ PermitSound(r)
      /\ ~llmBreaker.open => llmBreaker.failures < LlmThreshold
  BY DEF GuardsInv, GuardsTyped, BreakerInv
<1>2. llmBreaker.failures \in Nat /\ llmBreaker.openings \in Nat
  BY <1>1
<1>3. CASE ~permit.current
  <2>1. llmBreaker' = llmBreaker /\ asker' = searches
    BY <1>3 DEF RecordFailure
  <2>2. ~Probing(r)
    BY <1>3 DEF Probing
  <2>3. /\ llmBreaker'.open = llmBreaker.open /\ llmBreaker'.probe = llmBreaker.probe
        /\ ~llmBreaker'.open => llmBreaker'.failures < LlmThreshold
        /\ llmBreaker' \in [failures : Nat, open : BOOLEAN, rested : BOOLEAN, probe : BOOLEAN,
                             openings : Nat]
    BY <1>1, <2>1
  <2>4. QED BY <2>1, <2>2, <2>3, OneEnded
<1>4. CASE permit.current /\ Opening(permit)
  <2> DEFINE more == llmBreaker.failures + 1
             openings == llmBreaker.openings + 1
             opened == [failures |-> more, open |-> TRUE, rested |-> FALSE,
                        probe |-> FALSE, openings |-> openings]
  <2>1. llmBreaker' = opened /\ asker' = Aged(searches)
    BY <1>4 DEF RecordFailure
  <2>2. more \in Nat /\ openings \in Nat
    BY <1>2
  <2> HIDE DEF more, openings
  <2>3. /\ opened \in [failures : Nat, open : BOOLEAN, rested : BOOLEAN, probe : BOOLEAN,
                       openings : Nat]
        /\ opened.open /\ ~opened.probe
    BY <2>2
  <2> HIDE DEF opened
  <2>4. QED BY <2>1, <2>3, AllAged
<1>5. CASE permit.current /\ ~Opening(permit)
  <2> DEFINE more == llmBreaker.failures + 1
             counted == [llmBreaker EXCEPT !.failures = more]
  <2>1. llmBreaker' = counted /\ asker' = searches
    BY <1>5 DEF RecordFailure
  <2>2. more \in Nat /\ more < LlmThreshold /\ ~permit.probe
    <3>1. LlmThreshold \in Nat
      BY GuardsAssumption
    <3>2. QED BY <1>2, <1>5, <3>1 DEF Opening
  <2> HIDE DEF more
  <2>3. /\ counted \in [failures : Nat, open : BOOLEAN, rested : BOOLEAN, probe : BOOLEAN,
                        openings : Nat]
        /\ counted.failures = more /\ counted.open = llmBreaker.open
        /\ counted.probe = llmBreaker.probe
    BY <1>1, <2>2
  <2> HIDE DEF counted
  <2>4. ~Probing(r)
    BY <2>2 DEF Probing
  <2>5. QED BY <2>1, <2>2, <2>3, <2>4, OneEnded
<1>6. QED BY <1>3, <1>4, <1>5

----------------------------------------------------------------------------
(* What a search does with what it has heard *)

\* An answer that came too late is empty and not cached.
LEMMA LateAnswers ==
    ASSUME NEW q \in AskerRows
    PROVE  /\ AnsweredLate(q) \in AskerRows /\ AnsweredLate(q).permit = q.permit
           /\ Answering(AnsweredLate(q))
<1> DEFINE row == AnsweredLate(q)
<1>1. /\ "faithfulness" \in AskerPlaces /\ "" \in ShownTexts
  BY DEF AskerPlaces, ShownTexts, Tasks
<1>2. /\ row \in AskerRows /\ row.permit = q.permit /\ row.at = "faithfulness" /\ row.text = ""
      /\ ~row.cacheable
  BY <1>1 DEF AnsweredLate, Showing, AskerRows
<1> HIDE DEF row
<1>3. Earned(row)
  BY <1>2 DEF Earned
<1>4. Answering(row)
  BY <1>2, <1>3 DEF Answering
<1>5. QED BY <1>2, <1>4 DEF row

LEMMA ShowingAnswers ==
    ASSUME NEW q \in AskerRows, NEW text \in ShownTexts \ {"withheld"},
           q.cacheable, "late" \notin {q.heard["evidence"], q.heard["short"], q.heard["general"]},
           text = "general" =>
              /\ q.question.gate = "soft_fail" => q.heard["evidence"] = "unavailable"
              /\ q.heard["evidence"] # "text" /\ q.heard["short"] # "text",
           text = "" => q.heard["general"] = "empty"
    PROVE  /\ Showing(q, text) \in AskerRows /\ Showing(q, text).permit = q.permit
           /\ Answering(Showing(q, text))
<1> DEFINE row == Showing(q, text)
<1>1. "faithfulness" \in AskerPlaces
  BY DEF AskerPlaces, Tasks
<1>2. /\ row \in AskerRows /\ row.permit = q.permit /\ row.at = "faithfulness" /\ row.text = text
      /\ row.heard = q.heard /\ row.question = q.question
  BY <1>1 DEF Showing, AskerRows
<1> HIDE DEF row
<1>3. Earned(row)
  BY <1>2 DEF Earned
<1>4. Answering(row)
  BY <1>2, <1>3 DEF Answering
<1>5. QED BY <1>2, <1>4 DEF row

\* A search goes to a place with what it has.
LEMMA PlacedAnswers ==
    ASSUME NEW q \in AskerRows, NEW place \in AskerPlaces, Unwritten(q),
           place \notin {"faithfulness", "hallucination"},
           place = "short" => q.question.gate # "soft_fail",
           place = "general" /\ q.question.gate = "soft_fail" => q.heard["evidence"] = "unavailable",
           place = "answered" => q.question.kind = "no_answer"
    PROVE  LET row == [q EXCEPT !.at = place]
           IN  row \in AskerRows /\ row.permit = q.permit /\ Answering(row)
<1> DEFINE row == [q EXCEPT !.at = place]
<1>1. /\ row \in AskerRows /\ row.permit = q.permit /\ row.at = place /\ row.heard = q.heard
      /\ row.question = q.question /\ row.cacheable = q.cacheable
  BY DEF AskerRows
<1> HIDE DEF row
<1>2. Unwritten(row)
  BY <1>1 DEF Unwritten
<1>3. Answering(row)
  BY <1>1, <1>2 DEF Answering
<1>4. QED BY <1>1, <1>3 DEF row

LEMMA FirstTaskPlace ==
    ASSUME NEW question
    PROVE  /\ FirstTask(question) \in {"answered", "evidence", "short", "general"}
           /\ FirstTask(question) \in {"short", "general"} => question.gate # "soft_fail"
           /\ FirstTask(question) = "answered" => question.kind = "no_answer"
  BY DEF FirstTask

LEMMA InspectedAnswers ==
    ASSUME NEW q \in AskerRows, NEW outcome, Unwritten(q)
    PROVE  LET row == Inspected(q, outcome)
           IN  row \in AskerRows /\ row.permit = q.permit /\ Answering(row)
<1>1. PICK place : place = CASE outcome = "injection" -> "blocked"
                             [] outcome = "unavailable" -> "failed"
                             [] OTHER -> FirstTask(q.question)
  OBVIOUS
<1>2. place \in {"blocked", "failed", FirstTask(q.question)}
  BY <1>1
<1>3. place \in {"blocked", "failed", "answered", "evidence", "short", "general"}
  BY <1>2, FirstTaskPlace
<1>4. place \in AskerPlaces /\ place \notin {"faithfulness", "hallucination"}
  BY <1>3 DEF AskerPlaces, Tasks
<1>5. /\ place \in {"short", "general"} => q.question.gate # "soft_fail"
      /\ place = "answered" => q.question.kind = "no_answer"
  BY <1>2, FirstTaskPlace
<1>6. Inspected(q, outcome) = [q EXCEPT !.at = place]
  BY <1>1 DEF Inspected
<1>7. QED BY <1>4, <1>5, <1>6, PlacedAnswers

LEMMA EvidencedAnswers ==
    ASSUME NEW q \in AskerRows, NEW outcome \in {"text", "empty", "unavailable"},
           q.cacheable, q.heard["general"] = "nothing", q.heard["short"] \notin {"text", "late"},
           q.heard["evidence"] = outcome
    PROVE  LET row == Evidenced(q, outcome)
           IN  row \in AskerRows /\ row.permit = q.permit /\ Answering(row)
<1>1. CASE outcome = "text"
  <2>1. Evidenced(q, outcome) = Showing(q, "evidence") /\ "evidence" \in ShownTexts \ {"withheld", "general", ""}
    BY <1>1 DEF Evidenced, ShownTexts
  <2>2. QED BY <1>1, <2>1, ShowingAnswers, ZenonT(40)
<1>2. CASE outcome = "empty" /\ q.question.gate = "soft_fail"
  <2>1. Evidenced(q, outcome) = Showing(q, "not_found") /\ "not_found" \in ShownTexts \ {"withheld", "general", ""}
    BY <1>2 DEF Evidenced, ShownTexts
  <2>2. QED BY <1>2, <2>1, ShowingAnswers, ZenonT(40)
<1>3. CASE outcome # "text" /\ ~(outcome = "empty" /\ q.question.gate = "soft_fail")
  <2>1. Evidenced(q, outcome) = [q EXCEPT !.at = "general"] /\ "general" \in AskerPlaces
    BY <1>3 DEF Evidenced, AskerPlaces, Tasks
  <2>2. Unwritten(q)
    BY <1>3 DEF Unwritten
  <2>3. q.question.gate = "soft_fail" => q.heard["evidence"] = "unavailable"
    BY <1>3
  <2>4. QED BY <2>1, <2>2, <2>3, PlacedAnswers
<1>4. QED BY <1>1, <1>2, <1>3

LEMMA ShortAnswers ==
    ASSUME NEW q \in AskerRows, NEW outcome \in {"text", "empty", "unavailable"},
           q.cacheable, q.heard["general"] = "nothing", q.heard["evidence"] \notin {"text", "late"},
           q.heard["short"] = outcome, q.question.gate # "soft_fail"
    PROVE  LET row == ShortAnswered(q, outcome)
           IN  row \in AskerRows /\ row.permit = q.permit /\ Answering(row)
<1>1. CASE outcome = "text"
  <2>1. ShortAnswered(q, outcome) = Showing(q, "short") /\ "short" \in ShownTexts \ {"withheld", "general", ""}
    BY <1>1 DEF ShortAnswered, ShownTexts
  <2>2. QED BY <1>1, <2>1, ShowingAnswers, ZenonT(40)
<1>2. CASE outcome # "text"
  <2>1. ShortAnswered(q, outcome) = [q EXCEPT !.at = "general"] /\ "general" \in AskerPlaces
    BY <1>2 DEF ShortAnswered, AskerPlaces, Tasks
  <2>2. Unwritten(q)
    BY <1>2 DEF Unwritten
  <2>3. QED BY <2>1, <2>2, PlacedAnswers
<1>3. QED BY <1>1, <1>2

LEMMA GeneralAnswers ==
    ASSUME NEW q \in AskerRows, NEW outcome \in {"text", "empty", "unavailable"},
           q.cacheable, q.heard["evidence"] \notin {"text", "late"},
           q.heard["short"] \notin {"text", "late"}, q.heard["general"] = outcome,
           q.question.gate = "soft_fail" => q.heard["evidence"] = "unavailable"
    PROVE  LET row == GeneralAnswered(q, outcome)
           IN  row \in AskerRows /\ row.permit = q.permit /\ Answering(row)
<1>1. CASE outcome = "text"
  <2>1. GeneralAnswered(q, outcome) = Showing(q, "general") /\ "general" \in ShownTexts \ {"withheld", ""}
    BY <1>1 DEF GeneralAnswered, ShownTexts
  <2>2. QED BY <1>1, <2>1, ShowingAnswers, ZenonT(40)
<1>2. CASE outcome = "empty"
  <2>1. GeneralAnswered(q, outcome) = Showing(q, "") /\ "" \in ShownTexts \ {"withheld", "general"}
    BY <1>2 DEF GeneralAnswered, ShownTexts
  <2>2. QED BY <1>2, <2>1, ShowingAnswers, ZenonT(40)
<1>3. CASE outcome = "unavailable"
  <2> DEFINE row == [q EXCEPT !.at = "failed"]
  <2>1. GeneralAnswered(q, outcome) = row /\ "failed" \in AskerPlaces
    BY <1>3 DEF GeneralAnswered, AskerPlaces
  <2>2. row \in AskerRows /\ row.permit = q.permit /\ row.at = "failed"
    BY <2>1 DEF AskerRows
  <2> HIDE DEF row
  <2>3. Answering(row)
    BY <2>2 DEF Answering
  <2>4. QED BY <2>1, <2>2, <2>3
<1>4. QED BY <1>1, <1>2, <1>3

LEMMA FaithfulAnswers ==
    ASSUME NEW q \in AskerRows, NEW outcome, Earned(q), q.heard["faithfulness"] = outcome
    PROVE  LET row == Faithful(q, outcome)
           IN  row \in AskerRows /\ row.permit = q.permit /\ Answering(row)
<1> DEFINE judged == [q EXCEPT !.at = "hallucination"]
<1>1. "hallucination" \in AskerPlaces /\ "withheld" \in ShownTexts
  BY DEF AskerPlaces, Tasks, ShownTexts
<1>2. /\ judged \in AskerRows /\ judged.permit = q.permit /\ judged.at = "hallucination"
      /\ judged.heard = q.heard /\ judged.question = q.question /\ judged.text = q.text
      /\ judged.warned = q.warned /\ judged.cacheable = q.cacheable
  BY <1>1 DEF AskerRows
<1>3. Faithful(q, outcome) = IF outcome # "low" THEN judged
                             ELSE IF q.question.action = "block" THEN [judged EXCEPT !.text = "withheld"]
                             ELSE [judged EXCEPT !.warned = @ \union {"faithfulness"}]
  BY DEF Faithful
<1> HIDE DEF judged
<1>4. CASE outcome # "low"
  <2>1. Earned(judged) /\ Judged(judged)
    BY <1>2, <1>4 DEF Earned, Judged
  <2>2. QED BY <1>2, <1>3, <1>4, <2>1 DEF Answering
<1>5. CASE outcome = "low" /\ q.question.action = "block"
  <2> DEFINE row == [judged EXCEPT !.text = "withheld"]
  <2>1. /\ row \in AskerRows /\ row.permit = q.permit /\ row.at = "hallucination"
        /\ row.heard = q.heard /\ row.text = "withheld" /\ row.cacheable = q.cacheable
    BY <1>1, <1>2 DEF AskerRows
  <2>2. Faithful(q, outcome) = row
    BY <1>3, <1>5
  <2> HIDE DEF row
  <2>3. Earned(row) /\ Judged(row)
    BY <2>1 DEF Earned, Judged
  <2>4. QED BY <2>1, <2>2, <2>3 DEF Answering
<1>6. CASE outcome = "low" /\ q.question.action # "block"
  <2> DEFINE more == judged.warned \union {"faithfulness"}
             row == [judged EXCEPT !.warned = more]
  <2>1. more \in SUBSET {"faithfulness", "hallucination"}
    BY <1>2 DEF AskerRows
  <2>2. Faithful(q, outcome) = row /\ "faithfulness" \in more
    BY <1>3, <1>6
  <2> HIDE DEF more
  <2>3. /\ row \in AskerRows /\ row.permit = q.permit /\ row.at = "hallucination"
        /\ row.heard = q.heard /\ row.question = q.question /\ row.text = q.text
        /\ row.warned = more /\ row.cacheable = q.cacheable
    BY <1>2, <2>1 DEF AskerRows
  <2> HIDE DEF row
  <2>4. Earned(row) /\ Judged(row)
    BY <2>2, <2>3 DEF Earned, Judged
  <2>5. QED BY <2>2, <2>3, <2>4 DEF Answering
<1>7. QED BY <1>4, <1>5, <1>6

LEMMA GroundedAnswers ==
    ASSUME NEW q \in AskerRows, NEW outcome, Earned(q), Judged(q)
    PROVE  LET row == Grounded(q, outcome)
           IN  row \in AskerRows /\ row.permit = q.permit /\ Answering(row)
<1> DEFINE more == IF outcome = "low" THEN q.warned \union {"hallucination"} ELSE q.warned
           row == [q EXCEPT !.at = "answered", !.warned = more]
<1>1. more \in SUBSET {"faithfulness", "hallucination"} /\ q.warned \subseteq more
  BY DEF AskerRows
<1>2. Grounded(q, outcome) = row
  BY DEF Grounded
<1> HIDE DEF more
<1>3. /\ row \in AskerRows /\ row.permit = q.permit /\ row.at = "answered"
      /\ row.heard = q.heard /\ row.question = q.question /\ row.text = q.text
      /\ row.warned = more /\ row.cacheable = q.cacheable
  <2>1. "answered" \in AskerPlaces
    BY DEF AskerPlaces
  <2>2. QED BY <1>1, <2>1 DEF AskerRows
<1> HIDE DEF row
<1>4. Earned(row) /\ Judged(row)
  BY <1>1, <1>3 DEF Earned, Judged
<1>5. QED BY <1>2, <1>3, <1>4 DEF Answering

\* What an operation may come out with.
Outcome(task, outcome) ==
    \/ outcome \in Responses(task) \union {"unavailable"}
    \/ outcome = "late" /\ task \in GenerationTasks

LEMMA HeardEnded ==
    ASSUME GuardsInv, NEW r \in Askers, asker[r].at \in Tasks, NEW outcome,
           Outcome(asker[r].at, outcome)
    PROVE  Ended(r, Heard(r, outcome))
<1>1. PICK task, old : task = asker[r].at /\ old = asker[r]
  OBVIOUS
<1>2. /\ old \in AskerRows /\ Answering(old) /\ old.at = task /\ task \in Tasks
      /\ asker \in [Askers -> AskerRows]
  BY <1>1 DEF GuardsInv, GuardsTyped
<1>3. outcome \in Outcomes
  BY <1>1 DEF Outcome, Responses, GenerationTasks, Outcomes
<1> DEFINE heard == [t \in HeardTasks |-> IF t = task THEN outcome ELSE old.heard[t]]
<1>4. /\ old.heard \in [HeardTasks -> Outcomes] /\ heard \in [HeardTasks -> Outcomes]
      /\ HeardTasks = {"evidence", "short", "general", "faithfulness"}
  BY <1>2, <1>3 DEF AskerRows, HeardTasks, Tasks
<1>5. /\ heard["evidence"] = IF task = "evidence" THEN outcome ELSE old.heard["evidence"]
      /\ heard["short"] = IF task = "short" THEN outcome ELSE old.heard["short"]
      /\ heard["general"] = IF task = "general" THEN outcome ELSE old.heard["general"]
      /\ task = "faithfulness" => heard["faithfulness"] = outcome
      /\ task = "hallucination" => heard["faithfulness"] = old.heard["faithfulness"]
  BY <1>4
<1>6. [t \in DOMAIN old.heard |-> IF t = task THEN outcome ELSE old.heard[t]] = heard
  BY <1>4
<1> DEFINE q == [old EXCEPT !.heard = heard, !.permit = NoCallPermit, !.attempt = 1]
           after == IF outcome = "late" THEN AnsweredLate(q)
                    ELSE CASE task = "input" -> Inspected(q, outcome)
                           [] task = "evidence" -> Evidenced(q, outcome)
                           [] task = "short" -> ShortAnswered(q, outcome)
                           [] task = "general" -> GeneralAnswered(q, outcome)
                           [] task = "faithfulness" -> Faithful(q, outcome)
                           [] task = "hallucination" -> Grounded(q, outcome)
<1>7. Heard(r, outcome) = [asker EXCEPT ![r] = after]
  <2>1. [asker[r] EXCEPT !.heard = [t \in DOMAIN @ |-> IF t = asker[r].at THEN outcome ELSE @[t]],
                         !.permit = NoCallPermit, !.attempt = 1] = q
    BY <1>1, <1>6
  <2>2. Heard(r, outcome) =
           LET given == [asker[r] EXCEPT !.heard = [t \in DOMAIN @ |-> IF t = asker[r].at THEN outcome ELSE @[t]],
                                         !.permit = NoCallPermit, !.attempt = 1]
           IN  [asker EXCEPT ![r] =
                  IF outcome = "late" THEN AnsweredLate(given)
                  ELSE CASE asker[r].at = "input" -> Inspected(given, outcome)
                         [] asker[r].at = "evidence" -> Evidenced(given, outcome)
                         [] asker[r].at = "short" -> ShortAnswered(given, outcome)
                         [] asker[r].at = "general" -> GeneralAnswered(given, outcome)
                         [] asker[r].at = "faithfulness" -> Faithful(given, outcome)
                         [] asker[r].at = "hallucination" -> Grounded(given, outcome)]
    BY Zenon DEF Heard
  <2> HIDE DEF q
  <2>3. QED BY <1>1, <2>1, <2>2, Zenon
<1> HIDE DEF heard
<1>8. /\ q \in AskerRows /\ q.permit = NoCallPermit /\ q.heard = heard /\ q.at = old.at
      /\ q.question = old.question /\ q.text = old.text /\ q.warned = old.warned
      /\ q.cacheable = old.cacheable
  BY <1>2, <1>4, IdleAskerIsRow DEF AskerRows
<1> HIDE DEF q
<1>9. after \in AskerRows /\ after.permit = q.permit /\ Answering(after)
  <2>1. CASE outcome = "late"
    BY <1>8, <2>1, LateAnswers
  <2>2. CASE outcome # "late" /\ task = "input"
    <3>1. Unwritten(q)
      BY <1>2, <1>5, <1>8, <2>2 DEF Answering, Unwritten
    <3>2. after = Inspected(q, outcome)
      BY <2>2
    <3>3. QED BY <1>8, <3>1, <3>2, InspectedAnswers
  <2>3. CASE outcome # "late" /\ task = "evidence"
    <3>1. /\ outcome \in {"text", "empty", "unavailable"}
          /\ q.cacheable /\ q.heard["general"] = "nothing"
          /\ q.heard["short"] \notin {"text", "late"} /\ q.heard["evidence"] = outcome
      BY <1>1, <1>2, <1>5, <1>8, <2>3 DEF Answering, Unwritten, Outcome, Responses, GenerationTasks
    <3>2. after = Evidenced(q, outcome)
      BY <2>3
    <3>3. QED BY <1>8, <3>1, <3>2, EvidencedAnswers, ZenonT(40)
  <2>4. CASE outcome # "late" /\ task = "short"
    <3>1. /\ outcome \in {"text", "empty", "unavailable"}
          /\ q.cacheable /\ q.heard["general"] = "nothing"
          /\ q.heard["evidence"] \notin {"text", "late"} /\ q.heard["short"] = outcome
          /\ q.question.gate # "soft_fail"
      BY <1>1, <1>2, <1>5, <1>8, <2>4 DEF Answering, Unwritten, Outcome, Responses, GenerationTasks
    <3>2. after = ShortAnswered(q, outcome)
      BY <2>4
    <3>3. QED BY <1>8, <3>1, <3>2, ShortAnswers, ZenonT(40)
  <2>5. CASE outcome # "late" /\ task = "general"
    <3>1. /\ outcome \in {"text", "empty", "unavailable"} /\ q.cacheable
          /\ q.heard["evidence"] \notin {"text", "late"} /\ q.heard["short"] \notin {"text", "late"}
          /\ q.heard["general"] = outcome
          /\ q.question.gate = "soft_fail" => q.heard["evidence"] = "unavailable"
      BY <1>1, <1>2, <1>5, <1>8, <2>5 DEF Answering, Unwritten, Outcome, Responses, GenerationTasks
    <3>2. after = GeneralAnswered(q, outcome)
      BY <2>5
    <3>3. QED BY <1>8, <3>1, <3>2, GeneralAnswers
  <2>6. CASE outcome # "late" /\ task = "faithfulness"
    <3>1. Earned(q) /\ q.heard["faithfulness"] = outcome
      BY <1>2, <1>5, <1>8, <2>6 DEF Answering, Earned
    <3>2. after = Faithful(q, outcome)
      BY <2>6
    <3>3. QED BY <1>8, <3>1, <3>2, FaithfulAnswers
  <2>7. CASE outcome # "late" /\ task = "hallucination"
    <3>1. Earned(q) /\ Judged(q)
      BY <1>2, <1>5, <1>8, <2>7 DEF Answering, Earned, Judged
    <3>2. after = Grounded(q, outcome)
      BY <2>7
    <3>3. QED BY <1>8, <3>1, <3>2, GroundedAnswers
  <2>8. QED BY <1>2, <2>1, <2>2, <2>3, <2>4, <2>5, <2>6, <2>7 DEF Tasks
<1> HIDE DEF after
<1>10. QED BY <1>2, <1>7, <1>8, <1>9 DEF Ended

----------------------------------------------------------------------------
(* The steps *)

LEMMA GuardsInitSound == GuardsInit => GuardsInv
<1> SUFFICES ASSUME GuardsInit PROVE GuardsInv
  OBVIOUS
<1>1. GuardsTyped
  BY IdleAskerIsRow DEF GuardsInit, GuardsTyped
<1>2. \A r \in Askers : asker[r].at = "idle" /\ asker[r].permit = NoCallPermit
  BY DEF GuardsInit, IdleAsker
<1>3. \A r \in Askers : PermitSound(r) /\ ~Probing(r)
  BY <1>2 DEF PermitSound, Probing, NoCallPermit
<1>4. BreakerInv
  <2>1. ~llmBreaker.probe /\ ~llmBreaker.open /\ llmBreaker.failures = 0
    BY DEF GuardsInit
  <2>2. 0 < LlmThreshold
    BY GuardsAssumption
  <2>3. QED BY <1>3, <2>1, <2>2 DEF BreakerInv
<1>5. \A r \in Askers : Answering(asker[r])
  BY <1>2 DEF Answering
<1>6. QED BY <1>1, <1>4, <1>5 DEF GuardsInv

\* A step of one search that leaves its permit and the breaker alone.
LEMMA SearchMoved ==
    ASSUME GuardsInv, NEW r \in Askers, UNCHANGED llmBreaker,
           NEW row \in AskerRows, asker' = [asker EXCEPT ![r] = row],
           \/ ~asker[r].permit.out /\ ~row.permit.out /\ ~row.permit.current
           \/ row.permit = asker[r].permit /\ row.at = asker[r].at,
           Answering(row)
    PROVE  GuardsInv'
<1>1. /\ asker' \in [Askers -> AskerRows] /\ asker'[r] = row
      /\ \A s \in Askers \ {r} : asker'[s] = asker[s]
  BY DEF GuardsInv, GuardsTyped
<1>2. PermitSound(r) /\ PermitSound(r)' /\ (Probing(r)' <=> Probing(r))
  BY <1>1 DEF GuardsInv, BreakerInv, PermitSound, Probing
<1>3. \A s \in Askers \ {r} : PermitSound(s)' /\ (Probing(s)' <=> Probing(s))
  BY <1>1 DEF GuardsInv, BreakerInv, PermitSound, Probing
<1>4. BreakerInv'
  BY <1>2, <1>3 DEF GuardsInv, BreakerInv
<1>5. \A s \in Askers : Answering(asker[s])'
  BY <1>1 DEF GuardsInv
<1>6. QED BY <1>1, <1>4, <1>5 DEF GuardsInv, GuardsTyped

LEMMA AskSound == ASSUME GuardsInv, NEW r \in Askers, Ask(r) PROVE GuardsInv'
<1>1. PICK question \in Questions[r] :
         asker' = [asker EXCEPT ![r] = [IdleAsker EXCEPT !.at = AfterQuestion(question),
                                                         !.question = question]]
  BY DEF Ask
<1>2. PICK place : place = AfterQuestion(question)
  OBVIOUS
<1> DEFINE row == [IdleAsker EXCEPT !.at = place, !.question = question]
<1>3. /\ place \in {"blocked", "input", "answered", "evidence", "short", "general"}
      /\ place \in {"short", "general"} => question.gate # "soft_fail"
      /\ place = "answered" => question.kind = "no_answer"
  <2>1. place \in {"blocked", "input", FirstTask(question)}
    BY <1>2 DEF AfterQuestion
  <2>2. QED BY <2>1, FirstTaskPlace
<1>4. place \in AskerPlaces /\ question \in Asked
  BY <1>3 DEF AskerPlaces, Tasks, Asked
<1>5. /\ row \in AskerRows /\ row.at = place /\ row.question = question
      /\ row.permit = IdleAsker.permit /\ row.heard = IdleAsker.heard
      /\ row.cacheable = IdleAsker.cacheable
  BY <1>4, IdleAskerIsRow DEF AskerRows
<1>6. asker' = [asker EXCEPT ![r] = row]
  BY <1>1, <1>2
<1> HIDE DEF row
<1>7. /\ ~row.permit.out /\ ~row.permit.current /\ row.cacheable
      /\ row.heard["evidence"] = "nothing" /\ row.heard["short"] = "nothing"
      /\ row.heard["general"] = "nothing"
  BY <1>5 DEF IdleAsker, NoCallPermit, Tasks
<1>8. Unwritten(row)
  BY <1>7 DEF Unwritten
<1>9. Answering(row)
  BY <1>3, <1>5, <1>8 DEF Answering
<1>10. ~asker[r].permit.out /\ UNCHANGED llmBreaker
  BY DEF Ask, GuardsInv, BreakerInv, PermitSound, Tasks
<1>11. QED BY <1>5, <1>6, <1>7, <1>9, <1>10, SearchMoved

LEMMA CallSound ==
    ASSUME GuardsInv, NEW r \in Askers, asker[r].at \in Tasks, ~asker[r].permit.out, BeforeCall(r)
    PROVE  GuardsInv'
<1>1. PICK old, probe : old = asker[r] /\ probe = llmBreaker.open
  OBVIOUS
<1> DEFINE permit == [out |-> TRUE, probe |-> probe, current |-> TRUE]
           row == [old EXCEPT !.permit = permit]
<1>2. /\ old \in AskerRows /\ probe \in BOOLEAN /\ asker \in [Askers -> AskerRows]
      /\ llmBreaker \in [failures : Nat, open : BOOLEAN, rested : BOOLEAN, probe : BOOLEAN,
                         openings : Nat]
  BY <1>1 DEF GuardsInv, GuardsTyped
<1>3. /\ asker' = [asker EXCEPT ![r] = row] /\ llmBreaker' = [llmBreaker EXCEPT !.probe = probe]
      /\ Permitted
  BY <1>1, <1>2 DEF BeforeCall
<1>4. /\ permit \in CallPermits /\ permit.out /\ permit.current /\ permit.probe = probe
  BY <1>2 DEF CallPermits
<1> HIDE DEF permit
<1>5. /\ row \in AskerRows /\ row.permit = permit /\ row.at = old.at /\ row.heard = old.heard
      /\ row.question = old.question /\ row.text = old.text /\ row.warned = old.warned
      /\ row.cacheable = old.cacheable
  BY <1>2, <1>4 DEF AskerRows
<1> HIDE DEF row
<1>6. /\ asker' \in [Askers -> AskerRows] /\ asker'[r] = row
      /\ \A s \in Askers \ {r} : asker'[s] = asker[s]
  BY <1>2, <1>3, <1>5
<1>7. /\ llmBreaker' \in [failures : Nat, open : BOOLEAN, rested : BOOLEAN, probe : BOOLEAN,
                          openings : Nat]
      /\ llmBreaker'.probe = probe /\ llmBreaker'.open = llmBreaker.open
      /\ llmBreaker'.failures = llmBreaker.failures
  BY <1>2, <1>3
<1>8. llmBreaker.open => \A s \in Askers : ~asker[s].permit.current
  BY <1>3 DEF Permitted, GuardsInv, BreakerInv, PermitSound
<1>9. PermitSound(r)' /\ (probe => Probing(r)') /\ (Probing(r)' => llmBreaker.open)
  BY <1>1, <1>4, <1>5, <1>6, <1>7 DEF PermitSound, Probing
<1>10. \A s \in Askers \ {r} : PermitSound(s)' /\ (Probing(s)' <=> Probing(s))
  BY <1>6, <1>7, <1>8 DEF GuardsInv, BreakerInv, PermitSound, Probing
<1>11. \A s \in Askers : ~Probing(s)
  BY <1>8 DEF GuardsInv, BreakerInv, PermitSound, Probing
<1>12. BreakerInv'
  <2>1. \A s, t \in Askers : Probing(s)' /\ Probing(t)' => s = t
    BY <1>10, <1>11
  <2>2. llmBreaker'.probe => llmBreaker'.open /\ \E s \in Askers : Probing(s)'
    BY <1>1, <1>7, <1>9
  <2>3. ~llmBreaker'.open => llmBreaker'.failures < LlmThreshold
    BY <1>7 DEF GuardsInv, BreakerInv
  <2>4. QED BY <1>9, <1>10, <2>1, <2>2, <2>3 DEF BreakerInv
<1>13. Answering(old) => Answering(row)
  BY <1>5 DEF Answering, Unwritten, Earned, Judged
<1>14. \A s \in Askers : Answering(asker[s])'
  BY <1>1, <1>6, <1>13 DEF GuardsInv
<1>15. QED BY <1>6, <1>7, <1>12, <1>14 DEF GuardsInv, GuardsTyped

LEMMA SearcherSound == ASSUME GuardsInv, NEW r \in Askers, SearcherStep(r) PROVE GuardsInv'
<1>1. asker[r] \in AskerRows /\ Answering(asker[r]) /\ PermitSound(r)
  BY DEF GuardsInv, GuardsTyped, BreakerInv
<1>2. CASE Ask(r)
  BY <1>2, AskSound
<1>3. CASE StartOperation(r)
  <2>1. asker[r].at \in Tasks /\ ~asker[r].permit.out
    BY <1>3 DEF StartOperation
  <2>2. CASE BeforeCall(r)
    BY <2>1, <2>2, CallSound
  <2>3. CASE asker' = Heard(r, "unavailable") /\ UNCHANGED llmBreaker
    <3>1. Ended(r, Heard(r, "unavailable"))
      BY <2>1, HeardEnded DEF Outcome
    <3>2. ~Probing(r)
      BY <1>1, <2>1 DEF PermitSound, Probing
    <3>3. /\ llmBreaker' \in [failures : Nat, open : BOOLEAN, rested : BOOLEAN, probe : BOOLEAN,
                              openings : Nat]
          /\ llmBreaker'.open = llmBreaker.open /\ llmBreaker'.probe = llmBreaker.probe
          /\ ~llmBreaker'.open => llmBreaker'.failures < LlmThreshold
      BY <2>3 DEF GuardsInv, GuardsTyped, BreakerInv
    <3>4. QED BY <2>3, <3>1, <3>2, <3>3, OneEnded
  <2>4. QED BY <1>3, <2>2, <2>3 DEF StartOperation
<1>4. CASE Respond(r)
  <2>1. /\ asker[r].permit.out /\ asker[r].at \in Tasks
    BY <1>1, <1>4 DEF Respond, PermitSound
  <2>2. PICK outcome \in Responses(asker[r].at) : RecordSuccess(r, Heard(r, outcome))
    BY <1>4 DEF Respond
  <2>3. Ended(r, Heard(r, outcome))
    BY <2>1, HeardEnded DEF Outcome
  <2>4. QED BY <2>1, <2>2, <2>3, SuccessSound
<1>5. CASE RespondLate(r)
  <2>1. /\ asker[r].permit.out /\ asker[r].at \in Tasks /\ asker[r].at \in GenerationTasks
        /\ RecordSuccess(r, Heard(r, "late"))
    BY <1>1, <1>5 DEF RespondLate, PermitSound
  <2>2. Ended(r, Heard(r, "late"))
    BY <2>1, HeardEnded DEF Outcome
  <2>3. QED BY <2>1, <2>2, SuccessSound
<1>6. CASE RetryLlm(r)
  <2>1. PICK old : old = asker[r]
    OBVIOUS
  <2> DEFINE attempt == old.attempt + 1
             row == [old EXCEPT !.attempt = attempt]
  <2>2. attempt \in Nat
    BY <1>1, <2>1 DEF AskerRows
  <2>3. asker' = [asker EXCEPT ![r] = row] /\ UNCHANGED llmBreaker
    BY <1>6, <2>1 DEF RetryLlm
  <2> HIDE DEF attempt
  <2>4. /\ row \in AskerRows /\ row.permit = old.permit /\ row.at = old.at /\ row.heard = old.heard
        /\ row.question = old.question /\ row.text = old.text /\ row.warned = old.warned
        /\ row.cacheable = old.cacheable
    BY <1>1, <2>1, <2>2 DEF AskerRows
  <2> HIDE DEF row
  <2>5. Answering(row)
    BY <1>1, <2>1, <2>4 DEF Answering, Unwritten, Earned, Judged
  <2>6. QED BY <2>1, <2>3, <2>4, <2>5, SearchMoved
<1>7. CASE Exhaust(r)
  <2>1. asker[r].permit.out /\ asker[r].at \in Tasks /\ RecordFailure(r, Heard(r, "unavailable"))
    BY <1>1, <1>7 DEF Exhaust, PermitSound
  <2>2. Ended(r, Heard(r, "unavailable"))
    BY <2>1, HeardEnded DEF Outcome
  <2>3. QED BY <2>1, <2>2, FailureSound
<1>8. CASE MissDeadline(r)
  <2>1. /\ asker[r].permit.out /\ asker[r].at \in Tasks /\ asker[r].at \in GenerationTasks
        /\ RecordFailure(r, Heard(r, "late"))
    BY <1>1, <1>8 DEF MissDeadline, PermitSound
  <2>2. Ended(r, Heard(r, "late"))
    BY <2>1, HeardEnded DEF Outcome
  <2>3. QED BY <2>1, <2>2, FailureSound
<1>9. QED BY <1>2, <1>3, <1>4, <1>5, <1>6, <1>7, <1>8 DEF SearcherStep

LEMMA GuardsKept == ASSUME GuardsInv, UNCHANGED asker, UNCHANGED llmBreaker PROVE GuardsInv'
  BY DEF GuardsInv, GuardsTyped, BreakerInv, PermitSound, Probing

LEMMA GuardsInvPreserved == GuardsInv /\ [GuardsNext]_guardsVars => GuardsInv'
<1> SUFFICES ASSUME GuardsInv, [GuardsNext]_guardsVars PROVE GuardsInv'
  OBVIOUS
<1>1. CASE Rest
  <2>1. /\ llmBreaker' = [llmBreaker EXCEPT !.rested = TRUE] /\ UNCHANGED asker
        /\ llmBreaker \in [failures : Nat, open : BOOLEAN, rested : BOOLEAN, probe : BOOLEAN,
                           openings : Nat]
    BY <1>1 DEF Rest, GuardsInv, GuardsTyped
  <2>2. /\ llmBreaker' \in [failures : Nat, open : BOOLEAN, rested : BOOLEAN, probe : BOOLEAN,
                            openings : Nat]
        /\ llmBreaker'.open = llmBreaker.open /\ llmBreaker'.probe = llmBreaker.probe
        /\ llmBreaker'.failures = llmBreaker.failures
    BY <2>1
  <2>3. BreakerInv'
    BY <2>1, <2>2 DEF GuardsInv, BreakerInv, PermitSound, Probing
  <2>4. QED BY <2>1, <2>2, <2>3 DEF GuardsInv, GuardsTyped
<1>2. CASE \E r \in Askers : SearcherStep(r)
  BY <1>2, SearcherSound
<1>3. CASE UNCHANGED guardsVars
  <2>1. UNCHANGED asker /\ UNCHANGED llmBreaker
    BY <1>3 DEF guardsVars
  <2>2. QED BY <2>1, GuardsKept
<1>4. QED BY <1>1, <1>2, <1>3 DEF GuardsNext

LEMMA GuardsInvGuards == GuardsInv => GuardsSound
<1> SUFFICES ASSUME GuardsInv PROVE GuardsSound
  OBVIOUS
<1>1. BreakerSound
  <2> DEFINE Current == {r \in Askers : asker[r].permit.current}
             Probes == {r \in Current : asker[r].permit.probe}
  <2>1. IF llmBreaker.open THEN Current = Probes ELSE Probes = {}
    BY DEF GuardsInv, BreakerInv, PermitSound
  <2>2. Cardinality(Probes) = IF llmBreaker.probe THEN 1 ELSE 0
    <3>1. CASE llmBreaker.probe
      <4>1. PICK r \in Askers : Probing(r)
        BY <3>1 DEF GuardsInv, BreakerInv
      <4>2. Probes = {r}
        BY <4>1 DEF GuardsInv, BreakerInv, Probing
      <4>3. QED BY <3>1, <4>2, FS_Singleton
    <3>2. CASE ~llmBreaker.probe
      <4>1. Probes = {}
        BY <3>2 DEF GuardsInv, BreakerInv, PermitSound
      <4>2. QED BY <3>2, <4>1, FS_EmptySet
    <3>3. QED BY <3>1, <3>2
  <2>3. ~llmBreaker.open => llmBreaker.failures < LlmThreshold
    BY DEF GuardsInv, BreakerInv
  <2>4. QED BY <2>1, <2>2, <2>3 DEF BreakerSound
<1>2. AnswerEarned
  <2> SUFFICES ASSUME NEW r \in Askers, asker[r].at = "answered",
                      asker[r].question.kind # "no_answer"
               PROVE  LET q == asker[r]
                      IN  /\ q.text = "general" /\ q.question.gate = "soft_fail" => q.heard["evidence"] = "unavailable"
                          /\ q.text = "general" => "text" \notin {q.heard["evidence"], q.heard["short"]}
                          /\ "late" \in {q.heard[t] : t \in GenerationTasks}
                                 => ~q.cacheable /\ q.text \in {"", "withheld"}
                          /\ q.text = "" => \/ ~q.cacheable
                                            \/ q.heard["general"] = "empty"
                          /\ q.heard["faithfulness"] = "low" => q.text = "withheld" \/ "faithfulness" \in q.warned
    BY DEF AnswerEarned
  <2>1. Earned(asker[r]) /\ Judged(asker[r])
    BY DEF GuardsInv, Answering
  <2>2. \A q : "late" \in {q.heard[t] : t \in GenerationTasks} =>
           "late" \in {q.heard["evidence"], q.heard["short"], q.heard["general"]}
    BY DEF GenerationTasks
  <2>3. QED BY <2>1, <2>2 DEF Earned, Judged
<1>3. QED BY <1>1, <1>2 DEF GuardsSound

\* However many searches share the breaker and whatever the model answers: the breaker
\* belongs to the calls of its generation, it has one probe at most, and an answer that
\* is shown was earned, in time, and judged.
\* shared/search.py (LogicalCircuitBreaker), search/calls.py, search/steps/generation.py,
\* guardrails/answer/policies.py.
THEOREM SearchesAlwaysGuarded == GuardsSpec => []GuardsSound
<1>1. QED BY GuardsInitSound, GuardsInvPreserved, GuardsInvGuards, PTL DEF GuardsSpec


----------------------------------------------------------------------------
(* Induction, over sets of natural numbers. *)

LEMMA LeastOf ==
    ASSUME NEW T, T \subseteq Nat, T # {}
    PROVE  \E x \in T : \A y \in T : x <= y
<1>1. IsWellFoundedOn(OpToRel(<, Nat), Nat)
  BY NatLessThanWellFounded
<1>2. PICK x \in T : \A y \in T : <<y, x>> \notin OpToRel(<, Nat)
  BY <1>1, WFMin
<1>3. \A y \in T : ~(y < x)
  BY <1>2 DEF OpToRel
<1>4. QED BY <1>3

\* A set that has 0, and with each number the next, has them all.
LEMMA SetInduction ==
    ASSUME NEW S, 0 \in S, \A n \in Nat : n \in S => n + 1 \in S
    PROVE  Nat \subseteq S
<1> SUFFICES ASSUME ~(Nat \subseteq S) PROVE FALSE
  OBVIOUS
<1> DEFINE T == Nat \ S
<1>1. PICK x \in T : \A y \in T : x <= y
  <2>1. T \subseteq Nat /\ T # {}
    OBVIOUS
  <2> HIDE DEF T
  <2>2. QED BY <2>1, LeastOf
<1>2. x # 0 /\ x - 1 \in Nat /\ x - 1 \in S
  BY <1>1
<1>3. QED BY <1>1, <1>2

----------------------------------------------------------------------------
(* FlattenSeq: the sequence of the first i, for each i. *)

IsFlattening(f, seqs, n) ==
    f = [i \in 1 .. n |-> IF i = 1 THEN seqs[i] ELSE f[i - 1] \o seqs[i]]

LEMMA FlatteningExists ==
    ASSUME NEW seqs, NEW N \in Nat
    PROVE  \E f : IsFlattening(f, seqs, N)
<1> DEFINE S == {n \in Nat : \E f : IsFlattening(f, seqs, n)}
<1>1. 0 \in S
  <2>1. IsFlattening([i \in 1 .. 0 |-> 0], seqs, 0)
    BY DEF IsFlattening
  <2>2. QED BY <2>1
<1>2. ASSUME NEW n \in Nat, n \in S PROVE n + 1 \in S
  <2>1. PICK f : IsFlattening(f, seqs, n)
    BY <1>2
  <2> DEFINE g == [i \in 1 .. n + 1 |-> IF i \in 1 .. n THEN f[i]
                                        ELSE IF i = 1 THEN seqs[i] ELSE f[i - 1] \o seqs[i]]
  <2>2. \A i \in 1 .. n + 1 : g[i] = IF i = 1 THEN seqs[i] ELSE g[i - 1] \o seqs[i]
    <3>1. ASSUME NEW i \in 1 .. n + 1 PROVE g[i] = IF i = 1 THEN seqs[i] ELSE g[i - 1] \o seqs[i]
      <4>1. CASE i \in 1 .. n
        <5>1. f[i] = IF i = 1 THEN seqs[i] ELSE f[i - 1] \o seqs[i]
          BY <2>1, <4>1 DEF IsFlattening
        <5>2. g[i] = f[i] /\ (i # 1 => g[i - 1] = f[i - 1])
          BY <4>1
        <5>3. QED BY <5>1, <5>2
      <4>2. CASE i = n + 1
        BY <4>2
      <4>3. QED BY <4>1, <4>2
    <3>2. QED BY <3>1
  <2>3. IsFlattening(g, seqs, n + 1)
    BY <2>2 DEF IsFlattening
  <2>4. QED BY <2>3
<1> HIDE DEF S
<1>3. Nat \subseteq S
  BY <1>1, <1>2, SetInduction
<1>4. QED BY <1>3 DEF S

LEMMA FlattenSeqFlattens ==
    ASSUME NEW seqs, Len(seqs) \in Nat \ {0}
    PROVE  \E f : IsFlattening(f, seqs, Len(seqs)) /\ FlattenSeq(seqs) = f[Len(seqs)]
<1> DEFINE flat == CHOOSE f : IsFlattening(f, seqs, Len(seqs))
<1>1. IsFlattening(flat, seqs, Len(seqs))
  BY FlatteningExists
<1>2. FlattenSeq(seqs) = flat[Len(seqs)]
  BY DEF FlattenSeq, IsFlattening
<1>3. QED BY <1>1, <1>2

Begins(u, v) == Len(u) <= Len(v) /\ \A k \in 1 .. Len(u) : v[k] = u[k]

LEMMA FlatteningGrows ==
    ASSUME NEW A, NEW N \in Nat \ {0}, NEW seqs, NEW f, IsFlattening(f, seqs, N),
           \A s \in 1 .. N : seqs[s] \in Seq(A)
    PROVE  \A t \in 1 .. N : \A s \in 1 .. t : f[s] \in Seq(A) /\ Begins(f[s], f[t])
<1> DEFINE Grown(t) == \A s \in 1 .. t : f[s] \in Seq(A) /\ Begins(f[s], f[t])
           S == {n \in Nat : n + 1 \in 1 .. N => Grown(n + 1)}
<1>1. Grown(1)
  <2>1. f[1] = seqs[1] /\ f[1] \in Seq(A)
    BY DEF IsFlattening
  <2>2. QED BY <2>1 DEF Begins
<1>2. ASSUME NEW t \in 1 .. N, t + 1 \in 1 .. N, Grown(t) PROVE Grown(t + 1)
  <2>1. PICK u, v, w : u = f[t] /\ v = seqs[t + 1] /\ w = f[t + 1]
    OBVIOUS
  <2>2. u \in Seq(A) /\ v \in Seq(A)
    BY <1>2, <2>1
  <2>3. w = u \o v
    <3>1. t + 1 # 1 /\ (t + 1) - 1 = t
      OBVIOUS
    <3>2. f[t + 1] = IF t + 1 = 1 THEN seqs[t + 1] ELSE f[(t + 1) - 1] \o seqs[t + 1]
      BY <1>2 DEF IsFlattening
    <3>3. QED BY <2>1, <3>1, <3>2
  <2>4. w \in Seq(A) /\ Begins(u, w)
    BY <2>2, <2>3, ConcatProperties DEF Begins
  <2>5. ASSUME NEW s \in 1 .. t + 1 PROVE f[s] \in Seq(A) /\ Begins(f[s], f[t + 1])
    <3>1. CASE s = t + 1
      BY <2>1, <2>4, <3>1 DEF Begins
    <3>2. CASE s \in 1 .. t
      <4>1. PICK x : x = f[s]
        OBVIOUS
      <4>2. x \in Seq(A) /\ Begins(x, u)
        BY <1>2, <2>1, <3>2, <4>1
      <4>3. Begins(x, w)
        BY <2>2, <2>4, <4>2 DEF Begins
      <4>4. QED BY <2>1, <4>1, <4>2, <4>3
    <3>3. QED BY <3>1, <3>2
  <2>6. QED BY <2>5
<1> HIDE DEF Grown
<1>3. 0 \in S
  BY <1>1
<1>4. ASSUME NEW n \in Nat, n \in S PROVE n + 1 \in S
  BY <1>2, <1>4
<1> HIDE DEF S
<1>5. Nat \subseteq S
  BY <1>3, <1>4, SetInduction
<1>6. ASSUME NEW t \in 1 .. N PROVE Grown(t)
  <2>1. t - 1 \in Nat /\ (t - 1) + 1 = t
    OBVIOUS
  <2>2. t - 1 \in S
    BY <1>5, <2>1
  <2>3. QED BY <2>1, <2>2 DEF S
<1>7. QED BY <1>6 DEF Grown

----------------------------------------------------------------------------
(* Chunking: where the characters of a text are. *)

Characters == Nat \X Nat
PartOf(s, length) == (IF s = 1 THEN <<>> ELSE <<Newline>>) \o Letters(s, 0, length)
Before(s) == IF s = 1 THEN 0 ELSE 1
IsPart(part, s, length) ==
    /\ part \in Seq(Characters) /\ Len(part) = length + Before(s)
    /\ \A i \in 1 .. length : part[Before(s) + i] = <<s, i>>
    /\ s # 1 => part[1] = Newline

LEMMA PartShape ==
    ASSUME NEW s \in Nat \ {0}, NEW length \in Nat \ {0}, NEW part, part = PartOf(s, length)
    PROVE  IsPart(part, s, length)
<1>1. PICK letters : letters = Letters(s, 0, length)
  OBVIOUS
<1>2. letters \in Seq(Characters) /\ Len(letters) = length /\ \A i \in 1 .. length : letters[i] = <<s, i>>
  BY <1>1 DEF Letters, Characters
<1>3. CASE s = 1
  <2>1. part = <<>> \o letters
    BY <1>1, <1>3 DEF PartOf
  <2>2. part = letters
    BY <1>2, <2>1, ConcatEmptySeq
  <2>3. QED BY <1>2, <1>3, <2>2 DEF Before, IsPart
<1>4. CASE s # 1
  <2>1. part = <<Newline>> \o letters
    BY <1>1, <1>4 DEF PartOf
  <2>2. <<Newline>> \in Seq(Characters) /\ Len(<<Newline>>) = 1 /\ <<Newline>>[1] = Newline
    BY DEF Newline, Characters
  <2>3. /\ part \in Seq(Characters) /\ Len(part) = 1 + length
        /\ \A i \in 1 .. 1 + length : part[i] = IF i <= 1 THEN Newline ELSE letters[i - 1]
    BY <1>2, <2>1, <2>2, ConcatProperties
  <2>4. \A i \in 1 .. length : 1 + i \in 1 .. 1 + length /\ ~(1 + i <= 1) /\ (1 + i) - 1 = i
    OBVIOUS
  <2>5. QED BY <1>2, <1>4, <2>3, <2>4 DEF Before, IsPart
<1>5. QED BY <1>3, <1>4

\* A text: its sections begin at starts, each but the first after a newline.
TextShape(lengths, text, starts) ==
    /\ starts \in [1 .. Len(lengths) -> Nat] /\ starts[1] = 0
    /\ \A s \in 1 .. Len(lengths) - 1 : starts[s + 1] = starts[s] + lengths[s] + 1
    /\ text \in Seq(Characters)
    /\ Len(text) = starts[Len(lengths)] + lengths[Len(lengths)]
    /\ \A s \in 1 .. Len(lengths) :
          /\ starts[s] + lengths[s] <= Len(text)
          /\ \A i \in 1 .. lengths[s] : text[starts[s] + i] = <<s, i>>
          /\ s # 1 => starts[s] \in 1 .. Len(text) /\ text[starts[s]] = Newline

LEMMA TextHasShape ==
    ASSUME NEW N \in Nat \ {0}, sections \in [1 .. N -> Nat \ {0}]
    PROVE  Len(sections) = N /\ \E starts : TextShape(sections, Text, starts)
<1>1. Len(sections) = N /\ DOMAIN sections = 1 .. N
  OBVIOUS
<1>2. PICK parts : parts = [s \in DOMAIN sections |-> PartOf(s, sections[s])]
  OBVIOUS
<1>3. /\ \A s \in 1 .. N : parts[s] = PartOf(s, sections[s])
      /\ Len(parts) = N /\ Text = FlattenSeq(parts)
  BY <1>1, <1>2 DEF Text, PartOf
<1>4. PICK f : IsFlattening(f, parts, N) /\ Text = f[N]
  BY <1>3, FlattenSeqFlattens
<1>5. ASSUME NEW s \in 1 .. N
      PROVE  /\ parts[s] \in Seq(Characters) /\ Len(parts[s]) = sections[s] + Before(s)
             /\ \A i \in 1 .. sections[s] : parts[s][Before(s) + i] = <<s, i>>
             /\ s # 1 => parts[s][1] = Newline
  <2>1. PICK part, length : part = parts[s] /\ length = sections[s]
    OBVIOUS
  <2>2. s \in Nat \ {0} /\ length \in Nat \ {0} /\ part = PartOf(s, length)
    BY <1>3, <2>1
  <2>3. /\ part \in Seq(Characters) /\ Len(part) = length + Before(s)
        /\ \A i \in 1 .. length : part[Before(s) + i] = <<s, i>>
        /\ s # 1 => part[1] = Newline
    <3>1. IsPart(part, s, length)
      BY <2>2, PartShape
    <3>2. QED BY <3>1 DEF IsPart
  <2>4. QED BY <2>1, <2>3
<1>6. \A t \in 1 .. N : \A s \in 1 .. t : f[s] \in Seq(Characters) /\ Begins(f[s], f[t])
  BY <1>4, <1>5, FlatteningGrows
<1> DEFINE starts == [s \in 1 .. N |-> Len(f[s]) - sections[s]]
<1>7. f[1] = parts[1] /\ \A s \in 1 .. N - 1 : f[s + 1] = f[s] \o parts[s + 1]
  <2>1. f[1] = parts[1]
    BY <1>4 DEF IsFlattening
  <2>2. ASSUME NEW s \in 1 .. N - 1 PROVE f[s + 1] = f[s] \o parts[s + 1]
    <3>1. s + 1 \in 1 .. N /\ s + 1 # 1 /\ (s + 1) - 1 = s
      OBVIOUS
    <3>2. f[s + 1] = IF s + 1 = 1 THEN parts[s + 1] ELSE f[(s + 1) - 1] \o parts[s + 1]
      BY <1>4, <3>1 DEF IsFlattening
    <3>3. QED BY <3>1, <3>2
  <2>3. QED BY <2>1, <2>2
\* The part of a section is the end of what there is up to it.
<1>8. ASSUME NEW s \in 1 .. N
      PROVE  /\ starts[s] \in Nat /\ (s = 1 => starts[s] = 0)
             /\ s # 1 => starts[s] = Len(f[s - 1]) + 1
             /\ \A i \in 1 .. sections[s] : f[s][starts[s] + i] = <<s, i>>
             /\ s # 1 => f[s][starts[s]] = Newline
  <2>1. PICK u, part, start, length :
          u = f[s] /\ part = parts[s] /\ start = starts[s] /\ length = sections[s]
    OBVIOUS
  <2>2. /\ part \in Seq(Characters) /\ Len(part) = length + Before(s)
        /\ \A i \in 1 .. length : part[Before(s) + i] = <<s, i>>
        /\ s # 1 => part[1] = Newline
    BY <1>5, <2>1
  <2>3. start = Len(u) - length /\ length \in Nat \ {0}
    BY <2>1
  <2> HIDE DEF starts
  <2>4. CASE s = 1
    <3>1. u = part /\ Before(s) = 0
      BY <1>7, <2>1, <2>4 DEF Before
    <3>2. start = 0 /\ \A i \in 1 .. length : u[start + i] = <<s, i>>
      BY <2>2, <2>3, <3>1
    <3>3. starts[s] = 0 /\ sections[s] = length
      BY <2>1, <3>2
    <3>4. \A i \in 1 .. sections[s] : f[s][starts[s] + i] = <<s, i>>
      BY <2>1, <3>2, <3>3
    <3>5. QED BY <2>4, <3>3, <3>4
  <2>5. CASE s # 1
    <3>1. PICK v : v = f[s - 1]
      OBVIOUS
    <3>2. u = v \o part
      <4>1. s - 1 \in 1 .. N - 1 /\ (s - 1) + 1 = s
        BY <2>5
      <4>2. QED BY <1>7, <2>1, <3>1, <4>1
    <3>3. v \in Seq(Characters) /\ Len(v) \in Nat
      <4>1. s - 1 \in 1 .. s /\ s \in 1 .. N
        BY <2>5
      <4>2. QED BY <1>6, <3>1, <4>1
    <3>4. /\ Len(u) = Len(v) + Len(part)
          /\ \A i \in 1 .. Len(v) + Len(part) : u[i] = IF i <= Len(v) THEN v[i] ELSE part[i - Len(v)]
      BY <2>2, <3>2, <3>3, ConcatProperties, ZenonT(40)
    <3>5. Before(s) = 1 /\ Len(part) = length + 1 /\ start = Len(v) + 1
      BY <2>2, <2>3, <2>5, <3>3, <3>4 DEF Before
    <3>6. u[start] = Newline
      <4>1. start \in 1 .. Len(v) + Len(part) /\ ~(start <= Len(v)) /\ start - Len(v) = 1
        BY <2>3, <3>3, <3>5
      <4>2. QED BY <2>2, <2>5, <3>4, <4>1
    <3>7. ASSUME NEW i \in 1 .. length PROVE u[start + i] = <<s, i>>
      <4>1. PICK n \in Nat, m \in Nat : n = Len(v) /\ m = Len(part) /\ m = length + 1 /\ start = n + 1
        BY <2>2, <2>3, <3>3, <3>5
      <4>2. start + i \in 1 .. n + m /\ ~(start + i <= n) /\ (start + i) - n = 1 + i
        <5>1. length \in Nat /\ i \in Nat /\ 1 <= i /\ i <= length
          BY <2>3
        <5>2. start + i = n + 1 + i
          BY <4>1, <5>1
        <5>3. n + 1 + i \in 1 .. n + m
          BY <4>1, <5>1
        <5>4. ~(n + 1 + i <= n) /\ (n + 1 + i) - n = 1 + i
          BY <4>1, <5>1
        <5>5. QED BY <5>2, <5>3, <5>4
      <4>3. u[start + i] = part[(start + i) - n]
        BY <3>4, <4>1, <4>2
      <4>4. part[Before(s) + i] = <<s, i>>
        BY <2>2
      <4>5. Before(s) + i = (start + i) - n
        BY <3>5, <4>2
      <4>6. QED BY <4>3, <4>4, <4>5
    <3>8. start = Len(f[s - 1]) + 1 /\ start \in Nat
      BY <3>1, <3>3, <3>5
    <3>9. QED BY <2>1, <2>5, <3>6, <3>7, <3>8
  <2>6. QED BY <2>4, <2>5
<1>9. \A s \in 1 .. N : f[s] \in Seq(Characters) /\ Begins(f[s], f[N]) /\ Len(f[s]) = starts[s] + sections[s]
  BY <1>6
<1> HIDE DEF starts
<1>10. starts \in [1 .. N -> Nat] /\ starts[1] = 0
  BY <1>8 DEF starts
<1>11. ASSUME NEW s \in 1 .. N - 1 PROVE starts[s + 1] = starts[s] + sections[s] + 1
  <2>1. s + 1 \in 1 .. N /\ s + 1 # 1 /\ (s + 1) - 1 = s /\ s \in 1 .. N
    OBVIOUS
  <2>2. QED BY <1>8, <1>9, <2>1
<1>12. ASSUME NEW s \in 1 .. N
       PROVE  /\ starts[s] + sections[s] <= Len(Text)
              /\ \A i \in 1 .. sections[s] : Text[starts[s] + i] = <<s, i>>
              /\ s # 1 => starts[s] \in 1 .. Len(Text) /\ Text[starts[s]] = Newline
  <2>1. PICK u, text, start, length :
          u = f[s] /\ text = f[N] /\ start = starts[s] /\ length = sections[s]
    OBVIOUS
  <2>2. /\ Len(u) <= Len(text) /\ (\A k \in 1 .. Len(u) : text[k] = u[k])
        /\ Len(u) = start + length /\ start \in Nat /\ length \in Nat \ {0}
        /\ \A i \in 1 .. length : u[start + i] = <<s, i>>
        /\ s # 1 => u[start] = Newline /\ start # 0
        /\ Len(text) \in Nat
    <3>1. s # 1 => Len(f[s - 1]) \in Nat
      <4>1. s # 1 => s - 1 \in 1 .. N
        OBVIOUS
      <4>2. QED BY <1>9, <4>1
    <3>2. f[N] \in Seq(Characters)
      BY <1>9
    <3>3. Len(u) <= Len(text) /\ (\A k \in 1 .. Len(u) : text[k] = u[k]) /\ Len(u) = start + length
      BY <1>9, <2>1 DEF Begins
    <3>4. /\ start \in Nat /\ length \in Nat \ {0} /\ \A i \in 1 .. length : u[start + i] = <<s, i>>
          /\ s # 1 => u[start] = Newline /\ start # 0
      BY <1>8, <2>1, <3>1
    <3>5. QED BY <2>1, <3>2, <3>3, <3>4, SMTT(30)
  <2>3. \A i \in 1 .. length : start + i \in 1 .. Len(u)
    BY <2>2
  <2>4. s # 1 => start \in 1 .. Len(u) /\ start \in 1 .. Len(text)
    BY <2>2
  <2>5. QED BY <1>4, <2>1, <2>2, <2>3, <2>4
<1>13. Text \in Seq(Characters) /\ Len(Text) = starts[N] + sections[N]
  BY <1>4, <1>9
<1>14. TextShape(sections, Text, starts)
  BY <1>1, <1>10, <1>11, <1>12, <1>13 DEF TextShape
<1>15. QED BY <1>1, <1>14

----------------------------------------------------------------------------
(* Chunking: the invariant. *)

WindowRows == [start : Nat, end : Nat, text : Seq(Characters)]

\* A window is a piece of the text, and goes on where the windows before it end: within
\* them, or after the newline that follows.
WindowOf(text, chunk) ==
    /\ chunk \in WindowRows /\ chunk.start < chunk.end /\ chunk.end <= Len(text)
    /\ Len(chunk.text) = chunk.end - chunk.start
    /\ \A i \in 1 .. chunk.end - chunk.start : chunk.text[i] = text[chunk.start + i]
GoesOn(text, end, chunk) ==
    /\ end < chunk.end
    /\ chunk.start <= end \/ (chunk.start = end + 1 /\ text[chunk.start] = Newline)
WindowsFit(text, rows) ==
    /\ rows \in Seq(WindowRows)
    /\ \A i \in 1 .. Len(rows) : WindowOf(text, rows[i])
    /\ rows # <<>> => rows[1].start = 0
    /\ \A i \in 1 .. Len(rows) - 1 : GoesOn(text, rows[i].end, rows[i + 1])

CutUpTo(rows, end) == rows # <<>> /\ rows[Len(rows)].end = end

\* How far the windows reach, at each place of the loop that cuts them.
CutReaches(starts) ==
    \/ chunks = <<>> /\ section = 1 /\ localStart = 0
    \/ section <= Len(sections) /\ localStart = sections[section]
         /\ CutUpTo(chunks, base + sections[section])
    \/ section <= Len(sections) /\ section > 1 /\ localStart = 0 /\ CutUpTo(chunks, base - 1)
    \/ section <= Len(sections) /\ localStart > 0 /\ localStart + overlap < sections[section]
         /\ CutUpTo(chunks, base + localStart + overlap)
    \/ section = Len(sections) + 1 /\ CutUpTo(chunks, starts[Len(sections)] + sections[Len(sections)])

CutPlaced(starts) ==
    /\ section \in 1 .. Len(sections) + 1 /\ localStart \in Nat /\ base \in Nat
    /\ section <= Len(sections) => base = starts[section] /\ localStart <= sections[section]

ReadUpTo(text) ==
    /\ next \in 1 .. Len(chunks) + 1
    /\ coveredEnd = IF next = 1 THEN 0 ELSE chunks[next - 1].end
    /\ coveredEnd \in Nat
    /\ rebuilt \in Seq(Characters) /\ Len(rebuilt) = coveredEnd
    /\ \A i \in 1 .. coveredEnd : rebuilt[i] = text[i]

PassageInv(text, starts) ==
    /\ WindowsFit(text, chunks) /\ ReadUpTo(text)
    /\ phase = "cut" => CutPlaced(starts) /\ CutReaches(starts) /\ next = 1
    /\ phase # "cut" => CutUpTo(chunks, Len(text))
    /\ phase \in {"cut", "read", "answered"}
    /\ phase = "answered" => next = Len(chunks) + 1

InputGiven ==
    /\ \E N \in Nat \ {0} : sections \in [1 .. N -> Nat \ {0}]
    /\ chunkSize \in Nat \ {0} /\ overlap \in 0 .. chunkSize - 1

ChunkingInv ==
    /\ InputGiven
    /\ \E text, starts : /\ text = Text /\ TextShape(sections, text, starts)
                         /\ PassageInv(text, starts)

LEMMA WindowAdded ==
    ASSUME NEW text, NEW rows, WindowsFit(text, rows), NEW chunk, WindowOf(text, chunk),
           rows = <<>> => chunk.start = 0,
           rows # <<>> => GoesOn(text, rows[Len(rows)].end, chunk)
    PROVE  /\ WindowsFit(text, Append(rows, chunk)) /\ CutUpTo(Append(rows, chunk), chunk.end)
<1>1. rows \in Seq(WindowRows) /\ chunk \in WindowRows /\ Len(rows) \in Nat
  BY DEF WindowsFit, WindowOf
<1>2. PICK grown : grown = Append(rows, chunk)
  OBVIOUS
<1>3. /\ grown \in Seq(WindowRows) /\ Len(grown) = Len(rows) + 1 /\ grown[Len(rows) + 1] = chunk
      /\ \A i \in 1 .. Len(rows) : grown[i] = rows[i]
  BY <1>1, <1>2
<1>4. \A i \in 1 .. Len(grown) : WindowOf(text, grown[i])
  BY <1>1, <1>3 DEF WindowsFit
<1>5. grown[1].start = 0
  <2>1. CASE rows = <<>>
    BY <1>3, <2>1
  <2>2. CASE rows # <<>>
    BY <1>1, <1>3, <2>2 DEF WindowsFit
  <2>3. QED BY <2>1, <2>2
<1>6. ASSUME NEW i \in 1 .. Len(grown) - 1 PROVE GoesOn(text, grown[i].end, grown[i + 1])
  <2>1. CASE i \in 1 .. Len(rows) - 1
    <3>1. i \in 1 .. Len(rows) /\ i + 1 \in 1 .. Len(rows)
      BY <1>1, <2>1
    <3>2. grown[i] = rows[i] /\ grown[i + 1] = rows[i + 1]
      BY <1>3, <3>1
    <3>3. GoesOn(text, rows[i].end, rows[i + 1])
      BY <2>1 DEF WindowsFit
    <3>4. QED BY <3>2, <3>3
  <2>2. CASE i = Len(rows)
    <3>1. rows # <<>> /\ grown[i] = rows[Len(rows)] /\ grown[i + 1] = chunk
      BY <1>1, <1>3, <2>2
    <3>2. QED BY <3>1
  <2>3. QED BY <1>1, <1>3, <2>1, <2>2
<1>7. grown # <<>> /\ grown[Len(grown)].end = chunk.end
  BY <1>1, <1>3
<1>8. QED BY <1>2, <1>3, <1>4, <1>5, <1>6, <1>7 DEF WindowsFit, CutUpTo

\* The next window of a section is a piece of the text and goes on where the last one ends.
LEMMA WindowFits ==
    ASSUME NEW text, NEW starts, InputGiven, TextShape(sections, text, starts),
           PassageInv(text, starts), CutWindow
    PROVE  /\ WindowOf(text, Window)
           /\ chunks = <<>> => Window.start = 0
           /\ chunks # <<>> => GoesOn(text, chunks[Len(chunks)].end, Window)
           /\ Window.end = base + LocalEnd
<1>1. PICK length, start, stop : length = sections[section] /\ start = localStart /\ stop = LocalEnd
  OBVIOUS
<1>2. /\ section \in 1 .. Len(sections) /\ Len(sections) \in Nat /\ start < length
      /\ length \in Nat \ {0} /\ start \in Nat /\ base = starts[section] /\ base \in Nat
      /\ overlap \in Nat /\ chunkSize \in Nat /\ overlap < chunkSize
      /\ CutReaches(starts)
  <2>1. PICK N \in Nat \ {0} : sections \in [1 .. N -> Nat \ {0}]
    BY DEF InputGiven
  <2>2. Len(sections) = N
    BY <2>1
  <2>3. phase = "cut" /\ CutPlaced(starts) /\ CutReaches(starts) /\ section <= Len(sections)
        /\ localStart < sections[section]
    BY DEF CutWindow, PassageInv
  <2>4. section \in 1 .. N /\ sections[section] \in Nat \ {0}
    BY <2>1, <2>2, <2>3 DEF CutPlaced
  <2>5. QED BY <1>1, <2>2, <2>3, <2>4 DEF CutPlaced, InputGiven
<1>3. stop \in Nat /\ start < stop /\ stop <= length
      /\ (stop = length \/ stop = start + chunkSize)
  BY <1>1, <1>2 DEF LocalEnd
<1>4. /\ base + length <= Len(text) /\ (\A i \in 1 .. length : text[base + i] = <<section, i>>)
      /\ section # 1 => base \in 1 .. Len(text) /\ text[base] = Newline
      /\ text \in Seq(Characters) /\ Len(text) \in Nat /\ starts[1] = 0
  BY <1>1, <1>2, SMTT(30) DEF TextShape
<1>5. PICK letters : letters = Letters(section, start, stop)
  OBVIOUS
<1>6. /\ letters \in Seq(Characters) /\ Len(letters) = stop - start
      /\ \A i \in 1 .. stop - start : letters[i] = <<section, start + i>>
  <2>1. letters = [i \in 1 .. stop - start |-> <<section, start + i>>] /\ stop - start \in Nat
    BY <1>2, <1>3, <1>5 DEF Letters
  <2>2. \A i \in 1 .. stop - start : <<section, start + i>> \in Characters
    BY <1>2, <1>3 DEF Characters
  <2>3. QED BY <2>1, <2>2
<1>7. PICK chunk : chunk = Window
  OBVIOUS
<1>8. chunk = [start |-> base + start, end |-> base + stop, text |-> letters]
  BY <1>1, <1>5, <1>7 DEF Window
<1>9. chunk.start = base + start /\ chunk.end = base + stop /\ chunk.text = letters
  BY <1>8
<1>10. WindowOf(text, chunk)
  <2>1. chunk \in WindowRows
    <3>1. base + start \in Nat /\ base + stop \in Nat
      BY <1>2, <1>3
    <3>2. QED BY <1>6, <1>8, <3>1 DEF WindowRows
  <2>2. chunk.start < chunk.end /\ chunk.end <= Len(text) /\ chunk.end - chunk.start = stop - start
    <3>1. PICK len : len = Len(text)
      OBVIOUS
    <3>2. base \in Nat /\ start \in Nat /\ length \in Nat /\ len \in Nat /\ base + length <= len
      BY <1>2, <1>4, <3>1
    <3>3. base + start < base + stop /\ base + stop <= len /\ (base + stop) - (base + start) = stop - start
      BY <1>3, <3>2
    <3>4. QED BY <1>9, <3>1, <3>3
  <2>3. ASSUME NEW i \in 1 .. stop - start PROVE letters[i] = text[chunk.start + i]
    <3>1. start + i \in 1 .. length /\ chunk.start + i = base + (start + i)
      BY <1>2, <1>3, <1>9
    <3>2. QED BY <1>4, <1>6, <3>1
  <2>4. QED BY <1>6, <1>9, <2>1, <2>2, <2>3 DEF WindowOf
<1>11. chunks = <<>> => chunk.start = 0
  <2>1. chunks = <<>> => section = 1 /\ start = 0
    BY <1>1 , <1>2 DEF CutReaches, CutUpTo
  <2>2. QED BY <1>2, <1>4, <1>9, <2>1
<1>12. ASSUME chunks # <<>> PROVE GoesOn(text, chunks[Len(chunks)].end, chunk)
  <2>1. PICK end : end = chunks[Len(chunks)].end
    OBVIOUS
  <2>2. \/ section > 1 /\ start = 0 /\ end = base - 1
        \/ start > 0 /\ start + overlap < length /\ end = base + start + overlap
    BY <1>1, <1>2, <1>12, <2>1 DEF CutReaches, CutUpTo
  <2>3. CASE section > 1 /\ start = 0 /\ end = base - 1
    <3>1. base \in 1 .. Len(text) /\ text[base] = Newline
      BY <1>2, <1>4, <2>3
    <3>2. chunk.start = base /\ chunk.start = end + 1 /\ end < chunk.end
      BY <1>2, <1>3, <1>9, <2>3
    <3>3. QED BY <2>1, <3>1, <3>2 DEF GoesOn
  <2>4. CASE start > 0 /\ start + overlap < length /\ end = base + start + overlap
    <3>1. chunk.start <= end /\ end < chunk.end
      BY <1>2, <1>3, <1>9, <2>4, SMTT(30)
    <3>2. QED BY <2>1, <3>1 DEF GoesOn
  <2>5. QED BY <2>2, <2>3, <2>4
<1>13. QED BY <1>1, <1>7, <1>9, <1>10, <1>11, <1>12

LEMMA CutWindowSound ==
    ASSUME NEW text, NEW starts, InputGiven, TextShape(sections, text, starts),
           PassageInv(text, starts), CutWindow
    PROVE  PassageInv(text, starts)'
<1>1. PICK chunk : chunk = Window
  OBVIOUS
<1>2. /\ phase = "cut" /\ CutPlaced(starts) /\ CutReaches(starts) /\ next = 1 /\ ReadUpTo(text)
      /\ WindowsFit(text, chunks) /\ section <= Len(sections) /\ localStart < sections[section]
      /\ sections' = sections /\ chunkSize' = chunkSize /\ overlap' = overlap /\ section' = section
      /\ base' = base /\ phase' = phase /\ next' = next /\ rebuilt' = rebuilt
      /\ coveredEnd' = coveredEnd /\ chunks' = Append(chunks, chunk)
      /\ localStart' = IF LocalEnd = sections[section] THEN LocalEnd ELSE localStart + Stride
  BY <1>1 DEF CutWindow, PassageInv, input, reading
<1>3. WindowsFit(text, chunks') /\ CutUpTo(chunks', base + LocalEnd)
  <2>1. WindowOf(text, chunk) /\ (chunks = <<>> => chunk.start = 0) /\ chunk.end = base + LocalEnd
        /\ (chunks # <<>> => GoesOn(text, chunks[Len(chunks)].end, chunk))
    BY <1>1, WindowFits
  <2>2. QED BY <1>2, <2>1, WindowAdded
<1>4. sections[section] \in Nat \ {0} /\ Len(sections) \in Nat /\ section \in 1 .. Len(sections)
  <2>1. PICK N \in Nat \ {0} : sections \in [1 .. N -> Nat \ {0}]
    BY DEF InputGiven
  <2>2. QED BY <1>2, <2>1 DEF CutPlaced
<1>5. /\ localStart \in Nat /\ base \in Nat /\ chunkSize \in Nat \ {0} /\ overlap \in 0 .. chunkSize - 1
      /\ base = starts[section]
  BY <1>2 DEF CutPlaced, InputGiven
<1>6. PICK length, stop : length = sections[section] /\ stop = LocalEnd
  OBVIOUS
<1>7. stop \in Nat /\ length \in Nat /\ (stop = length \/ (stop = localStart + chunkSize /\ stop < length))
  BY <1>2, <1>4, <1>5, <1>6 DEF LocalEnd
<1>8. CutPlaced(starts)' /\ CutReaches(starts)'
  <2>1. CASE stop = length
    <3>1. localStart' = length
      BY <1>2, <1>6, <2>1
    <3>2. CutUpTo(chunks', base + length)
      BY <1>3, <1>6, <2>1
    <3>3. CutReaches(starts)'
      BY <1>2, <1>6, <3>1, <3>2 DEF CutReaches
    <3>4. CutPlaced(starts)'
      BY <1>2, <1>4, <1>5, <1>6, <1>7, <3>1 DEF CutPlaced
    <3>5. QED BY <3>3, <3>4
  <2>2. CASE stop # length /\ stop = localStart + chunkSize /\ stop < length
    <3>1. localStart' = localStart + (chunkSize - overlap)
      BY <1>2, <1>6, <2>2 DEF Stride
    <3>2. /\ localStart' \in Nat /\ localStart' > 0 /\ localStart' + overlap = stop
          /\ localStart' + overlap < length /\ base + localStart' + overlap = base + stop
          /\ localStart' <= length
      BY <1>5, <1>7, <2>2, <3>1
    <3>3. CutUpTo(chunks', base + localStart' + overlap)
      BY <1>3, <1>6, <3>2
    <3>4. CutReaches(starts)'
      BY <1>2, <1>6, <3>2, <3>3 DEF CutReaches
    <3>5. CutPlaced(starts)'
      BY <1>2, <1>4, <1>5, <1>6, <3>2 DEF CutPlaced
    <3>6. QED BY <3>4, <3>5
  <2>3. QED BY <1>7, <2>1, <2>2
<1>9. ReadUpTo(text)'
  <2>1. Len(chunks') \in Nat
    BY <1>3 DEF WindowsFit
  <2>2. QED BY <1>2, <2>1 DEF ReadUpTo
<1>10. WindowsFit(text, chunks)'
  BY <1>3
<1>11. QED BY <1>2, <1>8, <1>9, <1>10 DEF PassageInv

LEMMA NextSectionSound ==
    ASSUME NEW text, NEW starts, InputGiven, TextShape(sections, text, starts),
           PassageInv(text, starts), NextSection
    PROVE  PassageInv(text, starts)'
<1>1. /\ phase = "cut" /\ CutPlaced(starts) /\ CutReaches(starts) /\ next = 1 /\ ReadUpTo(text)
      /\ WindowsFit(text, chunks) /\ section <= Len(sections) /\ localStart >= sections[section]
      /\ sections' = sections /\ chunkSize' = chunkSize /\ overlap' = overlap
      /\ section' = section + 1 /\ localStart' = 0
      /\ base' = base + sections[section] + Gap /\ phase' = phase /\ next' = next
      /\ rebuilt' = rebuilt /\ coveredEnd' = coveredEnd /\ chunks' = chunks
  BY DEF NextSection, PassageInv, input, reading
<1>2. PICK N \in Nat \ {0} : sections \in [1 .. N -> Nat \ {0}]
  BY DEF InputGiven
<1>3. Len(sections) = N /\ section \in 1 .. N
  BY <1>1, <1>2 DEF CutPlaced
<1>4. PICK length : length = sections[section]
  OBVIOUS
<1>5. /\ length \in Nat \ {0} /\ base = starts[section] /\ base \in Nat /\ localStart = length
      /\ overlap \in Nat
  BY <1>1, <1>2, <1>3, <1>4 DEF CutPlaced, InputGiven
<1>6. CutUpTo(chunks, base + length)
  BY <1>1, <1>3, <1>4, <1>5 DEF CutReaches
<1>7. CASE section < N
  <2>1. base' = base + length + 1 /\ starts[section + 1] = base + length + 1 /\ section + 1 \in 1 .. N
    BY <1>1, <1>3, <1>4, <1>5, <1>7 DEF Gap, TextShape
  <2>2. sections[section + 1] \in Nat \ {0}
    BY <1>2, <2>1
  <2>3. CutPlaced(starts)'
    BY <1>1, <1>3, <1>5, <2>1, <2>2 DEF CutPlaced
  <2>4. CutUpTo(chunks, base' - 1)
    BY <1>5, <1>6, <2>1
  <2>5. CutReaches(starts)'
    BY <1>1, <1>3, <2>1, <2>4 DEF CutReaches
  <2>6. QED BY <1>1, <2>3, <2>5 DEF PassageInv, ReadUpTo
<1>8. CASE section = N
  <2>1. base' = base + length /\ section + 1 = N + 1
    BY <1>1, <1>3, <1>4, <1>5, <1>8 DEF Gap
  <2>2. CutPlaced(starts)'
    BY <1>1, <1>3, <1>5, <2>1 DEF CutPlaced
  <2>3. CutUpTo(chunks, starts[N] + sections[N])
    BY <1>4, <1>5, <1>6, <1>8
  <2>4. CutReaches(starts)'
    BY <1>1, <1>3, <2>1, <2>3 DEF CutReaches
  <2>5. QED BY <1>1, <2>2, <2>4 DEF PassageInv, ReadUpTo
<1>9. QED BY <1>3, <1>7, <1>8

LEMMA StoredSound ==
    ASSUME NEW text, NEW starts, InputGiven, TextShape(sections, text, starts),
           PassageInv(text, starts), Stored
    PROVE  PassageInv(text, starts)'
<1>1. /\ CutPlaced(starts) /\ CutReaches(starts) /\ section > Len(sections)
      /\ sections' = sections /\ phase' = "read" /\ next' = next /\ rebuilt' = rebuilt
      /\ coveredEnd' = coveredEnd /\ chunks' = chunks /\ WindowsFit(text, chunks) /\ ReadUpTo(text)
  BY DEF Stored, PassageInv, input, cutting, reading
<1>2. Len(sections) \in Nat \ {0} /\ section = Len(sections) + 1
  <2>1. PICK N \in Nat \ {0} : sections \in [1 .. N -> Nat \ {0}]
    BY DEF InputGiven
  <2>2. QED BY <1>1, <2>1 DEF CutPlaced
<1>3. CutUpTo(chunks, Len(text))
  BY <1>1, <1>2 DEF CutReaches, TextShape
<1>4. QED BY <1>1, <1>3 DEF PassageInv, ReadUpTo

\* What a window adds to the text that was read is the text from there to its end.
LEMMA AddedShape ==
    ASSUME NEW text, NEW chunk, WindowOf(text, chunk), coveredEnd \in Nat,
           GoesOn(text, coveredEnd, chunk), text \in Seq(Characters)
    PROVE  /\ Added(chunk) \in Seq(Characters) /\ Len(Added(chunk)) = chunk.end - coveredEnd
           /\ \A i \in 1 .. chunk.end - coveredEnd : Added(chunk)[i] = text[coveredEnd + i]
           /\ OverlapOf(chunk) < Len(chunk.text) /\ chunk.end > coveredEnd
           /\ chunk.start <= coveredEnd + 1
<1>1. PICK start, end, letters : start = chunk.start /\ end = chunk.end /\ letters = chunk.text
  OBVIOUS
<1>2. /\ start \in Nat /\ end \in Nat /\ letters \in Seq(Characters) /\ start < end
      /\ Len(letters) = end - start /\ Len(text) \in Nat /\ end <= Len(text)
      /\ \A i \in 1 .. end - start : letters[i] = text[start + i]
  BY <1>1 DEF WindowOf, WindowRows
<1>3. coveredEnd < end /\ (start <= coveredEnd \/ (start = coveredEnd + 1 /\ text[start] = Newline))
  BY <1>1 DEF GoesOn
<1>4. CASE start <= coveredEnd
  <2>1. PICK cut \in Nat : cut = coveredEnd - start /\ cut < end - start
    BY <1>2, <1>3, <1>4
  <2>2. OverlapOf(chunk) = cut
    BY <1>1, <1>2, <1>4, <2>1 DEF OverlapOf
  <2>3. PICK rest : rest = SubSeq(letters, cut + 1, end - start)
    OBVIOUS
  <2>4. Separator(chunk) = <<>>
    BY <1>1, <1>2, <1>4 DEF Separator
  <2>5. /\ rest \in Seq(Characters) /\ Len(rest) = end - coveredEnd
        /\ \A i \in 1 .. end - coveredEnd : rest[i] = letters[cut + i]
    <3>1. cut + 1 \in 1 .. Len(letters) + 1 /\ end - start \in 0 .. Len(letters)
      BY <1>2, <2>1
    <3>2. rest \in Seq(Characters)
      BY <1>2, <2>3, <3>1
    <3>3. Len(rest) = end - coveredEnd
      BY <1>2, <2>1, <2>3, <3>1
    <3>4. \A i \in 1 .. end - coveredEnd : rest[i] = letters[cut + i]
      BY <1>2, <2>1, <2>3, <3>1
    <3>5. QED BY <3>2, <3>3, <3>4
  <2>6. Added(chunk) = rest
    <3>1. Added(chunk) = <<>> \o rest
      BY <1>1, <1>2, <2>2, <2>3, <2>4 DEF Added
    <3>2. QED BY <2>5, <3>1, ConcatEmptySeq
  <2>7. ASSUME NEW i \in 1 .. end - coveredEnd PROVE rest[i] = text[coveredEnd + i]
    <3>1. cut + i \in 1 .. end - start /\ start + (cut + i) = coveredEnd + i
      BY <1>2, <2>1
    <3>2. QED BY <1>2, <2>5, <3>1
  <2>8. QED BY <1>1, <1>2, <1>3, <1>4, <2>1, <2>2, <2>5, <2>6, <2>7
<1>5. CASE start = coveredEnd + 1 /\ text[start] = Newline
  <2>1. OverlapOf(chunk) = 0 /\ Separator(chunk) = <<Newline>>
    BY <1>1, <1>5 DEF OverlapOf, Separator
  <2>2. SubSeq(letters, 1, Len(letters)) = letters
    BY <1>2, SubSeqFull
  <2>3. Added(chunk) = <<Newline>> \o letters
    BY <1>1, <2>1, <2>2 DEF Added
  <2>4. <<Newline>> \in Seq(Characters) /\ Len(<<Newline>>) = 1 /\ <<Newline>>[1] = Newline
    BY DEF Newline, Characters
  <2>5. PICK added : added = <<Newline>> \o letters
    OBVIOUS
  <2>6. /\ added \in Seq(Characters) /\ Len(added) = 1 + (end - start)
        /\ \A i \in 1 .. 1 + (end - start) : added[i] = IF i <= 1 THEN Newline ELSE letters[i - 1]
    <3>1. PICK mark : mark = <<Newline>>
      OBVIOUS
    <3>2. mark \in Seq(Characters) /\ Len(mark) = 1 /\ mark[1] = Newline
      BY <2>4, <3>1
    <3>3. /\ added \in Seq(Characters) /\ Len(added) = Len(mark) + Len(letters)
          /\ \A i \in 1 .. Len(mark) + Len(letters) :
                added[i] = IF i <= Len(mark) THEN mark[i] ELSE letters[i - Len(mark)]
      <4>1. added = mark \o letters
        BY <2>5, <3>1
      <4>2. mark \in Seq(Characters) /\ letters \in Seq(Characters)
        BY <1>2, <3>2
      <4>3. QED BY <4>1, <4>2, ConcatProperties
    <3>4. ASSUME NEW i \in 1 .. 1 + (end - start)
          PROVE  added[i] = IF i <= 1 THEN Newline ELSE letters[i - 1]
      <4>1. i \in 1 .. Len(mark) + Len(letters) /\ (i <= 1 => i = 1)
        BY <1>2, <3>2
      <4>2. QED BY <3>2, <3>3, <4>1
    <3>5. Len(added) = 1 + (end - start)
      BY <1>2, <3>2, <3>3
    <3>6. QED BY <3>3, <3>4, <3>5
  <2>7. 1 + (end - start) = end - coveredEnd
    BY <1>2, <1>5
  <2>8. ASSUME NEW i \in 1 .. end - coveredEnd PROVE added[i] = text[coveredEnd + i]
    <3>1. CASE i = 1
      BY <1>5, <2>6, <2>7, <3>1
    <3>2. CASE i # 1
      <4>1. i - 1 \in 1 .. end - start /\ start + (i - 1) = coveredEnd + i /\ ~(i <= 1)
        BY <1>2, <1>5, <3>2
      <4>2. QED BY <1>2, <2>6, <2>7, <4>1
    <3>3. QED BY <3>1, <3>2
  <2>9. QED BY <1>1, <1>2, <1>3, <1>5, <2>1, <2>3, <2>5, <2>6, <2>7, <2>8
<1>6. QED BY <1>3, <1>4, <1>5

LEMMA ReadChunkSound ==
    ASSUME NEW text, NEW starts, InputGiven, TextShape(sections, text, starts),
           PassageInv(text, starts), ReadChunk
    PROVE  PassageInv(text, starts)'
<1>1. PICK chunk : chunk = chunks[next]
  OBVIOUS
<1>2. /\ phase = "read" /\ next <= Len(chunks) /\ WindowsFit(text, chunks) /\ ReadUpTo(text)
      /\ CutUpTo(chunks, Len(text)) /\ text \in Seq(Characters)
      /\ sections' = sections /\ chunks' = chunks
  BY DEF ReadChunk, PassageInv, input, cutting, TextShape
<1>3. /\ next \in 1 .. Len(chunks) /\ Len(chunks) \in Nat /\ chunks \in Seq(WindowRows)
      /\ coveredEnd \in Nat /\ WindowOf(text, chunk)
  BY <1>1, <1>2 DEF ReadUpTo, WindowsFit
<1>4. GoesOn(text, coveredEnd, chunk) /\ (next = 1 => chunk.start = 0)
  <2>1. CASE next = 1
    <3>1. chunk.start = 0 /\ coveredEnd = 0 /\ chunks # <<>>
      BY <1>1, <1>2, <1>3, <2>1 DEF WindowsFit, ReadUpTo
    <3>2. chunk.start < chunk.end
      BY <1>3 DEF WindowOf
    <3>3. QED BY <3>1, <3>2 DEF GoesOn
  <2>2. CASE next # 1
    <3>1. next - 1 \in 1 .. Len(chunks) - 1 /\ (next - 1) + 1 = next
      BY <1>3, <2>2
    <3>2. coveredEnd = chunks[next - 1].end
      BY <1>2, <2>2 DEF ReadUpTo
    <3>3. GoesOn(text, chunks[next - 1].end, chunks[(next - 1) + 1])
      BY <1>2, <3>1 DEF WindowsFit
    <3>4. QED BY <1>1, <2>2, <3>1, <3>2, <3>3
  <2>3. QED BY <2>1, <2>2
<1>5. PICK added : added = Added(chunk)
  OBVIOUS
<1>6. /\ added \in Seq(Characters) /\ Len(added) = chunk.end - coveredEnd
      /\ \A i \in 1 .. chunk.end - coveredEnd : added[i] = text[coveredEnd + i]
      /\ OverlapOf(chunk) < Len(chunk.text) /\ chunk.end > coveredEnd
      /\ chunk.start <= coveredEnd + 1
  BY <1>2, <1>3, <1>4, <1>5, AddedShape
<1>7. /\ chunk.start \in Nat /\ chunk.end \in Nat /\ chunk.start < chunk.end
      /\ Len(chunk.text) = chunk.end - chunk.start
  BY <1>3 DEF WindowOf, WindowRows
<1>8. OverlapOf(chunk) \in Nat
  BY <1>3, <1>7 DEF OverlapOf
<1>9. ~Broken(chunk)
  BY <1>3, <1>4, <1>6, <1>7, <1>8 DEF Broken
<1>10. /\ rebuilt' = rebuilt \o added /\ coveredEnd' = chunk.end /\ next' = next + 1
       /\ phase' = "read"
  BY <1>1, <1>2, <1>5, <1>9 DEF ReadChunk
<1>11. ReadUpTo(text)'
  <2>1. PICK before, after : before = rebuilt /\ after = before \o added
    OBVIOUS
  <2>2. /\ before \in Seq(Characters) /\ Len(before) = coveredEnd
        /\ \A i \in 1 .. coveredEnd : before[i] = text[i]
    BY <1>2, <2>1 DEF ReadUpTo
  <2>3. /\ after \in Seq(Characters) /\ Len(after) = coveredEnd + Len(added)
        /\ \A i \in 1 .. coveredEnd + Len(added) :
              after[i] = IF i <= coveredEnd THEN before[i] ELSE added[i - coveredEnd]
    BY <1>6, <2>1, <2>2, ConcatProperties
  <2>4. coveredEnd + Len(added) = chunk.end
    BY <1>3, <1>6, <1>7
  <2>5. ASSUME NEW i \in 1 .. chunk.end PROVE after[i] = text[i]
    <3>1. CASE i <= coveredEnd
      BY <1>3, <2>2, <2>3, <2>4, <3>1
    <3>2. CASE ~(i <= coveredEnd)
      <4>1. i - coveredEnd \in 1 .. chunk.end - coveredEnd /\ coveredEnd + (i - coveredEnd) = i
        BY <1>3, <1>7, <3>2
      <4>2. QED BY <1>6, <2>3, <2>4, <3>2, <4>1
    <3>3. QED BY <3>1, <3>2
  <2>6. rebuilt' = after /\ Len(after) = chunk.end
    BY <1>10, <2>1, <2>3, <2>4
  <2>7. next' \in 1 .. Len(chunks) + 1 /\ next' # 1 /\ next' - 1 = next
    BY <1>3, <1>10
  <2>8. QED BY <1>1, <1>2, <1>7, <1>10, <2>3, <2>5, <2>6, <2>7 DEF ReadUpTo
<1>12. QED BY <1>2, <1>10, <1>11 DEF PassageInv

LEMMA AnsweredSound ==
    ASSUME NEW text, NEW starts, InputGiven, PassageInv(text, starts), Answered
    PROVE  PassageInv(text, starts)'
<1>1. /\ phase = "read" /\ next > Len(chunks) /\ phase' = "answered" /\ sections' = sections
      /\ chunks' = chunks /\ next' = next /\ rebuilt' = rebuilt /\ coveredEnd' = coveredEnd
      /\ WindowsFit(text, chunks) /\ ReadUpTo(text) /\ CutUpTo(chunks, Len(text))
  BY DEF Answered, PassageInv, input, cutting, reading
<1>2. next = Len(chunks) + 1
  <2>1. Len(chunks) \in Nat
    BY <1>1 DEF WindowsFit
  <2>2. QED BY <1>1, <2>1 DEF ReadUpTo
<1>3. QED BY <1>1, <1>2 DEF PassageInv, ReadUpTo

LEMMA ChunkingBegins == ChunkingInit => ChunkingInv
<1> SUFFICES ASSUME ChunkingInit PROVE ChunkingInv
  OBVIOUS
<1>1. PICK N \in 1 .. MaxSections : sections \in [1 .. N -> 1 .. MaxLength]
  BY DEF ChunkingInit, ParsedSections
<1>2. N \in Nat \ {0} /\ sections \in [1 .. N -> Nat \ {0}]
  BY <1>1, ChunkingAssumption DEF ChunkingAssumption
<1>3. InputGiven
  BY <1>2, ChunkingAssumption DEF ChunkingInit, InputGiven, ChunkingAssumption
<1>4. PICK text, starts : text = Text /\ TextShape(sections, text, starts) /\ Len(sections) = N
  BY <1>2, TextHasShape
<1>5. /\ chunks = <<>> /\ phase = "cut" /\ next = 1 /\ rebuilt = <<>> /\ coveredEnd = 0
      /\ section = 1 /\ localStart = 0 /\ base = 0
  BY DEF ChunkingInit
<1>6. WindowsFit(text, chunks) /\ ReadUpTo(text)
  BY <1>5 DEF WindowsFit, ReadUpTo
<1>7. CutPlaced(starts) /\ CutReaches(starts)
  BY <1>2, <1>4, <1>5 DEF CutPlaced, CutReaches, TextShape
<1>8. QED BY <1>3, <1>4, <1>5, <1>6, <1>7 DEF ChunkingInv, PassageInv

LEMMA ChunkingInvPreserved == ChunkingInv /\ [ChunkingNext]_chunkingVars => ChunkingInv'
<1> SUFFICES ASSUME ChunkingInv, [ChunkingNext]_chunkingVars PROVE ChunkingInv'
  OBVIOUS
<1>1. sections' = sections /\ chunkSize' = chunkSize /\ overlap' = overlap
  BY DEF ChunkingNext, CutWindow, NextSection, Stored, ReadChunk, Answered, chunkingVars, input
<1>2. InputGiven /\ InputGiven'
  BY <1>1 DEF ChunkingInv, InputGiven
<1>3. PICK text, starts : /\ text = Text /\ TextShape(sections, text, starts)
                          /\ PassageInv(text, starts)
  BY DEF ChunkingInv
<1>4. text = Text' /\ TextShape(sections', text, starts)
  BY <1>1, <1>3 DEF Text
<1>5. PassageInv(text, starts)'
  <2>1. CASE UNCHANGED chunkingVars
    BY <1>3, <2>1 DEF chunkingVars, input, cutting, reading, PassageInv, ReadUpTo, CutPlaced, CutReaches
  <2>2. QED BY <1>2, <1>3, <2>1, CutWindowSound, NextSectionSound, StoredSound, ReadChunkSound,
            AnsweredSound DEF ChunkingNext
<1>6. QED BY <1>2, <1>4, <1>5 DEF ChunkingInv

LEMMA ChunkingInvReads == ChunkingInv => ReadsWhatWasParsed
<1> SUFFICES ASSUME ChunkingInv PROVE ReadsWhatWasParsed
  OBVIOUS
<1>1. PICK text, starts : /\ text = Text /\ TextShape(sections, text, starts)
                          /\ PassageInv(text, starts)
  BY DEF ChunkingInv
<1>2. ASSUME phase = "answered" PROVE rebuilt = text
  <2>1. /\ next = Len(chunks) + 1 /\ ReadUpTo(text) /\ WindowsFit(text, chunks)
        /\ CutUpTo(chunks, Len(text)) /\ text \in Seq(Characters)
    BY <1>1, <1>2 DEF PassageInv, TextShape
  <2>2. Len(chunks) \in Nat \ {0}
    BY <2>1 DEF WindowsFit, CutUpTo
  <2>3. coveredEnd = Len(text)
    BY <2>1, <2>2 DEF ReadUpTo, CutUpTo
  <2>4. /\ rebuilt \in Seq(Characters) /\ Len(rebuilt) = Len(text)
        /\ \A i \in 1 .. Len(rebuilt) : rebuilt[i] = text[i]
    BY <2>1, <2>3 DEF ReadUpTo
  <2>5. QED BY <2>1, <2>4, SeqEqual
<1>3. QED BY <1>1, <1>2 DEF ReadsWhatWasParsed, PassageInv

(* For any sections, windows and overlaps: what is read of a version is    *)
(* what was parsed.  No window that was cut is refused when it is read.     *)
(* parsing/core.py: chunk_sections, documents/query/flow.py: content.       *)
THEOREM ReadsAlwaysWhatWasParsed == ChunkingSpec => []ReadsWhatWasParsed
<1>1. QED BY ChunkingBegins, ChunkingInvPreserved, ChunkingInvReads, PTL DEF ChunkingSpec

----------------------------------------------------------------------------
(* Masking: what the replacement of a match leaves. *)

Chars == Nat \X Nat

Increasing(letters) ==
    \A i, j \in DOMAIN letters : i < j => Precedes(letters[i], letters[j])

\* As far as a match reaches, every letter is in its place.
Untouched(letters, upto) == \A i \in 1 .. upto : i \in DOMAIN letters /\ letters[i] = <<i, 0>>

MatchGiven(m) == m.from \in Nat /\ m.mask \in Nat /\ m.upto \in Nat /\ m.from < m.upto

\* The elements of two sequences, in the one and in the other.
LEMMA Joined ==
    ASSUME NEW S, NEW a \in Seq(S), NEW b \in Seq(S)
    PROVE  /\ a \o b \in Seq(S) /\ Len(a \o b) = Len(a) + Len(b)
           /\ \A i \in 1 .. Len(a) : (a \o b)[i] = a[i]
           /\ \A k \in 1 .. Len(b) : (a \o b)[Len(a) + k] = b[k]
<1>1. a \o b \in Seq(S)
  BY ConcatProperties
<1>2. PICK f \in Nat, r \in Nat : f = Len(a) /\ r = Len(b)
  BY LenProperties
<1>3. PICK new : new = a \o b
  OBVIOUS
<1>4. Len(new) = f + r /\ \A i \in 1 .. f + r : new[i] = IF i <= f THEN a[i] ELSE b[i - f]
  BY <1>2, <1>3, ConcatProperties
<1>5. \A i \in 1 .. f : i \in 1 .. f + r /\ i <= f
  OBVIOUS
<1>6. \A k \in 1 .. r : f + k \in 1 .. f + r /\ ~(f + k <= f) /\ f + k - f = k
  OBVIOUS
<1>7. (\A i \in 1 .. f : new[i] = a[i]) /\ \A k \in 1 .. r : new[f + k] = b[k]
  BY <1>4, <1>5, <1>6
<1>8. QED BY <1>1, <1>2, <1>3, <1>4, <1>7

LEMMA ReplacedWhere ==
    ASSUME NEW letters \in Seq(Chars), NEW m, MatchGiven(m), Untouched(letters, m.upto)
    PROVE  /\ Replaced(letters, m) \in Seq(Chars)
           /\ m.upto <= Len(letters)
           /\ Len(Replaced(letters, m)) = m.from + m.mask + (Len(letters) - m.upto)
           /\ \A i \in 1 .. m.from : Replaced(letters, m)[i] = <<i, 0>>
           /\ \A k \in 1 .. m.mask : Replaced(letters, m)[m.from + k] = <<m.from, k>>
           /\ \A k \in 1 .. Len(letters) - m.upto :
                 Replaced(letters, m)[m.from + m.mask + k] = letters[m.upto + k]
<1>1. PICK from \in Nat : from = m.from
  BY DEF MatchGiven
<1>2. PICK upto \in Nat : upto = m.upto /\ from < upto
  BY <1>1 DEF MatchGiven
<1>3. PICK mask \in Nat : mask = m.mask
  BY DEF MatchGiven
<1>4. PICK n \in Nat : n = Len(letters) /\ DOMAIN letters = 1 .. n
  BY LenProperties
<1>5. upto \in DOMAIN letters
  BY <1>2 DEF Untouched
<1>6. upto <= n
  BY <1>4, <1>5
<1> DEFINE head == SubSeq(letters, 1, from)
           middle == [k \in 1 .. mask |-> <<from, k>>]
           tail == SubSeq(letters, upto + 1, n)
<1>7. head \in Seq(Chars) /\ Len(head) = from /\ \A i \in 1 .. from : head[i] = letters[i]
  <2>1. \A i \in 1 .. from : i \in 1 .. n
    BY <1>2, <1>6
  <2>2. \A i \in 1 .. from : letters[i] \in Chars
    BY <2>1, <1>4, ElementOfSeq
  <2>3. head = [i \in 1 .. from |-> letters[i]]
    BY <1>4
  <2> HIDE DEF head
  <2>4. QED BY <2>2, <2>3
<1>8. middle \in Seq(Chars) /\ Len(middle) = mask /\ \A k \in 1 .. mask : middle[k] = <<from, k>>
  <2>1. \A k \in 1 .. mask : <<from, k>> \in Chars
    BY DEF Chars
  <2>2. middle \in [1 .. mask -> Chars]
    BY <2>1
  <2>3. QED BY <2>2
<1>9. /\ tail \in Seq(Chars) /\ Len(tail) = n - upto
      /\ \A k \in 1 .. n - upto : tail[k] = letters[upto + k]
  <2>1. \A k \in 1 .. n - upto : upto + k \in 1 .. n
    BY <1>6
  <2>2. \A k \in 1 .. n - upto : letters[upto + k] \in Chars
    BY <2>1, <1>4, ElementOfSeq
  <2>3. tail = [k \in 1 .. n - upto |-> letters[upto + k]]
    <3>1. tail = [k \in 1 .. n - (upto + 1) + 1 |-> letters[k + (upto + 1) - 1]]
      BY <1>4
    <3>2. n - (upto + 1) + 1 = n - upto
      BY <1>6
    <3>3. \A k \in 1 .. n - upto : k + (upto + 1) - 1 = upto + k
      OBVIOUS
    <3>4. QED BY <3>1, <3>2, <3>3
  <2>4. n - upto \in Nat
    BY <1>6
  <2> HIDE DEF tail
  <2>5. QED BY <2>2, <2>3, <2>4
<1>10. Replaced(letters, m) = head \o middle \o tail
  BY <1>1, <1>2, <1>3, <1>4 DEF Replaced
<1> HIDE DEF head, middle, tail
<1>11. PICK front : front = head \o middle
  OBVIOUS
<1>12. /\ front \in Seq(Chars) /\ Len(front) = from + mask
       /\ \A i \in 1 .. from : front[i] = head[i]
       /\ \A k \in 1 .. mask : front[from + k] = middle[k]
  <2>1. /\ head \o middle \in Seq(Chars) /\ Len(head \o middle) = from + mask
        /\ \A i \in 1 .. from : (head \o middle)[i] = head[i]
        /\ \A k \in 1 .. mask : (head \o middle)[from + k] = middle[k]
    <3>1. head \in Seq(Chars) /\ middle \in Seq(Chars)
      BY <1>7, <1>8
    <3>2. /\ head \o middle \in Seq(Chars) /\ Len(head \o middle) = Len(head) + Len(middle)
          /\ \A i \in 1 .. Len(head) : (head \o middle)[i] = head[i]
          /\ \A k \in 1 .. Len(middle) : (head \o middle)[Len(head) + k] = middle[k]
      BY <3>1, Joined
    <3>3. Len(head) = from /\ Len(middle) = mask
      BY <1>7, <1>8
    <3>4. QED BY <3>2, <3>3
  <2>2. QED BY <2>1, <1>11
<1>13. PICK new : new = front \o tail
  OBVIOUS
<1>14. /\ new \in Seq(Chars) /\ Len(new) = from + mask + (n - upto)
       /\ \A i \in 1 .. from + mask : new[i] = front[i]
       /\ \A k \in 1 .. n - upto : new[from + mask + k] = tail[k]
  <2>1. PICK f \in Nat : f = from + mask
    OBVIOUS
  <2>2. PICK r \in Nat : r = n - upto
    BY <1>6
  <2>3. Len(front) = f /\ Len(tail) = r
    BY <1>9, <1>12, <2>1, <2>2
  <2>4. /\ front \o tail \in Seq(Chars) /\ Len(front \o tail) = f + r
        /\ \A i \in 1 .. f : (front \o tail)[i] = front[i]
        /\ \A k \in 1 .. r : (front \o tail)[f + k] = tail[k]
    <3>1. front \in Seq(Chars) /\ tail \in Seq(Chars)
      BY <1>9, <1>12
    <3>2. /\ front \o tail \in Seq(Chars) /\ Len(front \o tail) = Len(front) + Len(tail)
          /\ \A i \in 1 .. Len(front) : (front \o tail)[i] = front[i]
          /\ \A k \in 1 .. Len(tail) : (front \o tail)[Len(front) + k] = tail[k]
      BY <3>1, Joined
    <3>3. QED BY <2>3, <3>2
  <2>5. QED BY <2>1, <2>2, <2>4, <1>13
<1>15. Replaced(letters, m) = new
  BY <1>10, <1>11, <1>13
<1>16. \A i \in 1 .. from : new[i] = <<i, 0>>
  <2>1. \A i \in 1 .. from : i \in 1 .. from + mask /\ i \in 1 .. upto
    BY <1>2
  <2>2. \A i \in 1 .. from : letters[i] = <<i, 0>>
    BY <2>1, <1>2 DEF Untouched
  <2>3. QED BY <2>1, <2>2, <1>7, <1>12, <1>14
<1>17. \A k \in 1 .. mask : new[from + k] = <<from, k>>
  <2>1. \A k \in 1 .. mask : from + k \in 1 .. from + mask
    OBVIOUS
  <2>2. QED BY <2>1, <1>8, <1>12, <1>14
<1>18. \A k \in 1 .. n - upto : new[from + mask + k] = letters[upto + k]
  BY <1>9, <1>14
<1>19. QED BY <1>1, <1>2, <1>3, <1>4, <1>6, <1>14, <1>15, <1>16, <1>17, <1>18

LEMMA CharIsPair ==
    ASSUME NEW c \in Chars
    PROVE  \E a \in Nat, b \in Nat : c = <<a, b>>
<1>1. c = <<c[1], c[2]>> /\ c[1] \in Nat /\ c[2] \in Nat
  BY DEF Chars
<1>2. QED BY <1>1

LEMMA PrecedesPairs ==
    ASSUME NEW a \in Nat, NEW b \in Nat, NEW c \in Nat, NEW d \in Nat
    PROVE  Precedes(<<a, b>>, <<c, d>>) <=> a < c \/ (a = c /\ b < d)
BY DEF Precedes

\* What comes after the untouched letters is not one of them.
LEMMA AfterUntouched ==
    ASSUME NEW letters \in Seq(Chars), Increasing(letters), NEW upto \in Nat, 0 < upto,
           Untouched(letters, upto), NEW k \in 1 .. Len(letters) - upto
    PROVE  /\ upto + k \in DOMAIN letters
           /\ letters[upto + k] \in Chars
           /\ Precedes(<<upto, 0>>, letters[upto + k])
<1>1. PICK n \in Nat : n = Len(letters) /\ DOMAIN letters = 1 .. n
  BY LenProperties
<1>2. upto \in 1 .. upto
  OBVIOUS
<1>3. upto \in DOMAIN letters /\ letters[upto] = <<upto, 0>>
  BY <1>2 DEF Untouched
<1>4. upto + k \in 1 .. n /\ upto < upto + k
  BY <1>1, <1>3
<1>5. letters[upto + k] \in Chars
  BY <1>1, <1>4, ElementOfSeq
<1>6. QED BY <1>1, <1>3, <1>4, <1>5 DEF Increasing

LEMMA ReplacedIncreases ==
    ASSUME NEW letters \in Seq(Chars), NEW m, MatchGiven(m), Untouched(letters, m.upto),
           Increasing(letters)
    PROVE  Increasing(Replaced(letters, m))
<1>1. PICK from \in Nat, upto \in Nat, mask \in Nat :
          from = m.from /\ upto = m.upto /\ mask = m.mask /\ from < upto
  BY DEF MatchGiven
<1>2. PICK n \in Nat : n = Len(letters) /\ DOMAIN letters = 1 .. n
  BY LenProperties
<1>3. PICK new : new = Replaced(letters, m)
  OBVIOUS
<1>4. new \in Seq(Chars) /\ upto <= n /\ Len(new) = from + mask + (n - upto)
  BY <1>1, <1>2, <1>3, ReplacedWhere
<1>head. \A i \in 1 .. from : new[i] = <<i, 0>>
  BY <1>1, <1>2, <1>3, ReplacedWhere
<1>mask. \A k \in 1 .. mask : new[from + k] = <<from, k>>
  BY <1>1, <1>2, <1>3, ReplacedWhere
<1>tail. \A k \in 1 .. n - upto : new[from + mask + k] = letters[upto + k]
  BY <1>1, <1>2, <1>3, ReplacedWhere
<1>zones. \A i \in 1 .. from + mask + (n - upto) :
             \/ i \in 1 .. from
             \/ \E k \in 1 .. mask : i = from + k
             \/ \E k \in 1 .. n - upto : i = from + mask + k
  <2> SUFFICES ASSUME NEW i \in 1 .. from + mask + (n - upto)
               PROVE  \/ i \in 1 .. from
                      \/ \E k \in 1 .. mask : i = from + k
                      \/ \E k \in 1 .. n - upto : i = from + mask + k
    OBVIOUS
  <2>1. CASE i <= from
    BY <2>1
  <2>2. CASE from < i /\ i <= from + mask
    <3>1. i - from \in 1 .. mask /\ i = from + (i - from)
      BY <2>2
    <3>2. QED BY <3>1
  <2>3. CASE from + mask < i
    <3>1. i - (from + mask) \in 1 .. n - upto /\ i = from + mask + (i - (from + mask))
      BY <2>3, <1>4
    <3>2. QED BY <3>1
  <2>4. QED BY <2>1, <2>2, <2>3
<1>5. \A k \in 1 .. n - upto :
          /\ upto + k \in DOMAIN letters /\ letters[upto + k] \in Chars
          /\ Precedes(<<upto, 0>>, letters[upto + k])
  BY <1>1, <1>2, AfterUntouched, SMTT(30)
<1>6. DOMAIN new = 1 .. from + mask + (n - upto)
  BY <1>4, LenProperties
<1>7. ASSUME NEW i \in DOMAIN new, NEW j \in DOMAIN new, i < j
      PROVE  Precedes(new[i], new[j])
  <2>0. /\ i \in 1 .. from + mask + (n - upto) /\ j \in 1 .. from + mask + (n - upto)
        /\ i \in Int /\ j \in Int /\ n - upto \in Nat
    BY <1>4, <1>6
  <2>1. /\ i \in 1 .. from \/ (\E k \in 1 .. mask : i = from + k)
              \/ (\E k \in 1 .. n - upto : i = from + mask + k)
        /\ j \in 1 .. from \/ (\E k \in 1 .. mask : j = from + k)
              \/ (\E k \in 1 .. n - upto : j = from + mask + k)
    BY <1>zones, <2>0
  <2>2. ASSUME NEW l \in 1 .. n - upto, j = from + mask + l, i \in 1 .. from \/ \E k \in 1 .. mask : i = from + k
        PROVE  Precedes(new[i], new[j])
    <3>1. PICK a \in Nat, b \in Nat : letters[upto + l] = <<a, b>>
      BY <1>5, CharIsPair
    <3>2. upto <= a
      <4>1. Precedes(<<upto, 0>>, <<a, b>>)
        BY <1>5, <3>1
      <4>2. upto < a \/ upto = a
        BY <4>1, PrecedesPairs
      <4>3. QED BY <4>2
    <3>3. new[j] = <<a, b>>
      BY <1>tail, <2>2, <3>1
    <3>4. PICK c \in Nat, d \in Nat : new[i] = <<c, d>> /\ c <= from
      <4>1. CASE i \in 1 .. from
        <5>1. new[i] = <<i, 0>>
          BY <4>1, <1>head
        <5>2. i \in Nat /\ i <= from
          BY <4>1
        <5>3. QED BY <5>1, <5>2
      <4>2. CASE \E k \in 1 .. mask : i = from + k
        <5>1. PICK k \in 1 .. mask : i = from + k
          BY <4>2
        <5>2. new[i] = <<from, k>>
          BY <5>1, <1>mask
        <5>3. k \in Nat /\ from <= from
          OBVIOUS
        <5>4. QED BY <5>2, <5>3
      <4>3. QED BY <2>2, <4>1, <4>2
    <3>5. c < a
      BY <3>2, <3>4, <1>1
    <3>6. Precedes(<<c, d>>, <<a, b>>)
      BY <3>5, PrecedesPairs
    <3>7. QED BY <3>3, <3>4, <3>6
  <2>3. CASE i \in 1 .. from /\ j \in 1 .. from
    <3>1. new[i] = <<i, 0>> /\ new[j] = <<j, 0>>
      BY <2>3, <1>head
    <3>2. QED BY <3>1, <2>3, <1>7, PrecedesPairs
  <2>4. ASSUME i \in 1 .. from, NEW k \in 1 .. mask, j = from + k PROVE Precedes(new[i], new[j])
    <3>1. new[i] = <<i, 0>> /\ new[j] = <<from, k>>
      BY <2>4, <1>head, <1>mask
    <3>2. i < from \/ (i = from /\ 0 < k)
      BY <2>4
    <3>3. Precedes(<<i, 0>>, <<from, k>>)
      BY <2>0, <2>4, <3>2, PrecedesPairs
    <3>4. QED BY <3>1, <3>3
  <2>5. ASSUME NEW k \in 1 .. mask, i = from + k, NEW l \in 1 .. mask, j = from + l
        PROVE  Precedes(new[i], new[j])
    <3>0. k < l
      BY <2>5, <1>7
    <3>1. new[i] = <<from, k>> /\ new[j] = <<from, l>>
      BY <2>5, <1>mask
    <3>2. QED BY <3>0, <3>1, PrecedesPairs
  <2>6. ASSUME NEW k \in 1 .. n - upto, i = from + mask + k, NEW l \in 1 .. n - upto, j = from + mask + l
        PROVE  Precedes(new[i], new[j])
    <3>0. upto + k < upto + l
      BY <2>6, <1>7
    <3>1. new[i] = letters[upto + k] /\ new[j] = letters[upto + l]
      BY <2>6, <1>tail
    <3>2. upto + k \in DOMAIN letters /\ upto + l \in DOMAIN letters
      BY <1>5
    <3>3. QED BY <3>0, <3>1, <3>2 DEF Increasing
  <2>7. ASSUME NEW k \in 1 .. mask, i = from + k, j \in 1 .. from PROVE FALSE
    BY <2>7, <1>7
  <2>8. ASSUME NEW k \in 1 .. n - upto, i = from + mask + k,
               j \in 1 .. from \/ \E l \in 1 .. mask : j = from + l
        PROVE  FALSE
    BY <2>8, <1>7
  <2>9. QED BY <2>1, <2>2, <2>3, <2>4, <2>5, <2>6, <2>7, <2>8
<1>8. QED BY <1>3, <1>7 DEF Increasing

LEMMA ReplacedHas ==
    ASSUME NEW letters \in Seq(Chars), NEW m, MatchGiven(m), Untouched(letters, m.upto),
           Increasing(letters)
    PROVE  /\ ToSet(Replaced(letters, m)) =
                  (ToSet(letters) \ {<<i, 0>> : i \in m.from + 1 .. m.upto})
                      \union {<<m.from, k>> : k \in 1 .. m.mask}
           /\ Untouched(Replaced(letters, m), m.from)
<1>1. PICK from \in Nat, upto \in Nat, mask \in Nat :
          from = m.from /\ upto = m.upto /\ mask = m.mask /\ from < upto
  BY DEF MatchGiven
<1>2. PICK n \in Nat : n = Len(letters) /\ DOMAIN letters = 1 .. n
  BY LenProperties
<1>3. PICK new : new = Replaced(letters, m)
  OBVIOUS
<1>4. new \in Seq(Chars) /\ upto <= n /\ Len(new) = from + mask + (n - upto)
  BY <1>1, <1>2, <1>3, ReplacedWhere
<1>head. \A i \in 1 .. from : new[i] = <<i, 0>>
  BY <1>1, <1>2, <1>3, ReplacedWhere
<1>mask. \A k \in 1 .. mask : new[from + k] = <<from, k>>
  BY <1>1, <1>2, <1>3, ReplacedWhere
<1>tail. \A k \in 1 .. n - upto : new[from + mask + k] = letters[upto + k]
  BY <1>1, <1>2, <1>3, ReplacedWhere
<1>zones. \A i \in 1 .. from + mask + (n - upto) :
             \/ i \in 1 .. from
             \/ \E k \in 1 .. mask : i = from + k
             \/ \E k \in 1 .. n - upto : i = from + mask + k
  <2> SUFFICES ASSUME NEW i \in 1 .. from + mask + (n - upto)
               PROVE  \/ i \in 1 .. from
                      \/ \E k \in 1 .. mask : i = from + k
                      \/ \E k \in 1 .. n - upto : i = from + mask + k
    OBVIOUS
  <2>1. CASE i <= from
    BY <2>1
  <2>2. CASE from < i /\ i <= from + mask
    <3>1. i - from \in 1 .. mask /\ i = from + (i - from)
      BY <2>2
    <3>2. QED BY <3>1
  <2>3. CASE from + mask < i
    <3>1. i - (from + mask) \in 1 .. n - upto /\ i = from + mask + (i - (from + mask))
      BY <2>3, <1>4
    <3>2. QED BY <3>1
  <2>4. QED BY <2>1, <2>2, <2>3
<1>5. \A k \in 1 .. n - upto :
          /\ upto + k \in DOMAIN letters /\ letters[upto + k] \in Chars
          /\ Precedes(<<upto, 0>>, letters[upto + k])
  BY <1>1, <1>2, AfterUntouched, SMTT(30)
<1>6. DOMAIN new = 1 .. from + mask + (n - upto)
  BY <1>4, LenProperties
<1>7. \A i \in 1 .. upto : i \in DOMAIN letters /\ letters[i] = <<i, 0>>
  BY <1>1 DEF Untouched
<1> DEFINE gone == {<<i, 0>> : i \in from + 1 .. upto}
           marks == {<<from, k>> : k \in 1 .. mask}
<1>8. ASSUME NEW i \in DOMAIN new PROVE new[i] \in (ToSet(letters) \ gone) \union marks
  <2>1. CASE i \in 1 .. from
    <3>1. i \in 1 .. upto /\ i \notin from + 1 .. upto
      BY <2>1, <1>1
    <3>2. new[i] = <<i, 0>> /\ letters[i] = <<i, 0>> /\ i \in DOMAIN letters
      BY <2>1, <3>1, <1>head, <1>7
    <3>3. <<i, 0>> \notin gone
      BY <3>1
    <3>4. QED BY <3>2, <3>3 DEF ToSet
  <2>2. ASSUME NEW k \in 1 .. mask, i = from + k PROVE new[i] \in marks
    BY <2>2, <1>mask
  <2>3. ASSUME NEW k \in 1 .. n - upto, i = from + mask + k PROVE new[i] \in ToSet(letters) \ gone
    <3>1. new[i] = letters[upto + k]
      BY <2>3, <1>tail
    <3>2. PICK a \in Nat, b \in Nat : letters[upto + k] = <<a, b>>
      BY <1>5, CharIsPair
    <3>3. upto < a \/ 0 < b
      <4>1. Precedes(<<upto, 0>>, <<a, b>>)
        BY <1>5, <3>2
      <4>2. QED BY <4>1, PrecedesPairs
    <3>4. <<a, b>> \notin gone
      BY <3>3
    <3>5. letters[upto + k] \in ToSet(letters)
      BY <1>5 DEF ToSet
    <3>6. QED BY <3>1, <3>2, <3>4, <3>5
  <2>4. i \in 1 .. from \/ (\E k \in 1 .. mask : i = from + k)
           \/ (\E k \in 1 .. n - upto : i = from + mask + k)
    BY <1>6, <1>zones
  <2> HIDE DEF gone, marks
  <2>5. QED BY <2>1, <2>2, <2>3, <2>4
<1>9. ASSUME NEW c \in marks PROVE c \in ToSet(new)
  <2>1. PICK k \in 1 .. mask : c = <<from, k>>
    OBVIOUS
  <2>2. from + k \in DOMAIN new
    BY <1>4, <1>6
  <2>3. new[from + k] = c
    BY <2>1, <1>mask
  <2>4. QED BY <2>2, <2>3 DEF ToSet
<1>10. ASSUME NEW i \in DOMAIN letters, letters[i] \notin gone PROVE letters[i] \in ToSet(new)
  <2>0. i \in 1 .. n
    BY <1>2
  <2>1. CASE i <= from
    <3>0. i \in 1 .. from /\ i \in 1 .. upto
      BY <2>0, <2>1, <1>1
    <3>1. i \in DOMAIN new
      <4>1. i \in 1 .. from + mask + (n - upto)
        BY <2>0, <2>1, <1>4
      <4>2. QED BY <4>1, <1>6
    <3>2. new[i] = letters[i]
      BY <3>0, <1>head, <1>7
    <3>3. QED BY <3>1, <3>2 DEF ToSet
  <2>2. CASE from < i /\ i <= upto
    <3>1. i \in from + 1 .. upto /\ i \in 1 .. upto
      BY <2>0, <2>2
    <3>2. letters[i] = <<i, 0>>
      BY <3>1, <1>7
    <3>3. QED BY <3>1, <3>2, <1>10
  <2>3. CASE upto < i
    <3>1. PICK k \in Nat : k = i - upto
      BY <2>0, <2>3
    <3>2. k \in 1 .. n - upto /\ upto + k = i
      BY <2>0, <2>3, <3>1
    <3>3. from + mask + k \in DOMAIN new
      BY <3>2, <1>4, <1>6
    <3>4. new[from + mask + k] = letters[i]
      BY <3>2, <1>tail
    <3>5. QED BY <3>3, <3>4 DEF ToSet
  <2>4. QED BY <2>0, <2>1, <2>2, <2>3
<1>11. ToSet(new) = (ToSet(letters) \ gone) \union marks
  <2>1. ToSet(new) \subseteq (ToSet(letters) \ gone) \union marks
    BY <1>8 DEF ToSet
  <2>2. ToSet(letters) \ gone \subseteq ToSet(new)
    <3> HIDE DEF gone
    <3>1. \A c \in ToSet(letters) : \E i \in DOMAIN letters : c = letters[i]
      BY DEF ToSet
    <3>2. QED BY <3>1, <1>10
  <2> HIDE DEF gone, marks
  <2>3. QED BY <2>1, <2>2, <1>9
<1>12. Untouched(new, from)
  <2>1. \A i \in 1 .. from : i \in DOMAIN new
    BY <1>4, <1>6
  <2>2. QED BY <2>1, <1>head DEF Untouched
<1>13. QED BY <1>1, <1>3, <1>11, <1>12

----------------------------------------------------------------------------
(* Masking: the invariant. *)

Matches == UNION {ToSet(t.found) : t \in Texts}
FoundHere == ToSet(passage.text.found)
Passages == [text : Texts, left : Seq(Matches), taken : SUBSET Matches,
             replaced : SUBSET Matches, masked : Seq(Chars)]

\* The matches that were taken do not overlap, and each of the others is still to
\* be looked at, overlaps one of them, or is like a date.
Settled(match) ==
    \/ \E m \in passage.taken : Overlaps(match, m)
    \/ match.kind \in DateLike /\ \E d \in passage.text.dates : Overlaps(match, d)

TakenSound ==
    /\ passage.left \in Seq(FoundHere)
    /\ passage.taken \subseteq FoundHere /\ passage.replaced \subseteq passage.taken
    /\ \A m, n \in passage.taken : m # n => ~Overlaps(m, n)
    /\ \A match \in FoundHere : match \in ToSet(passage.left) \/ Settled(match)

\* Only what was replaced is masked so far, and as far as the others reach every
\* letter is in its place.
MaskedSound ==
    /\ passage.left # <<>> => passage.replaced = {}
    /\ ToSet(passage.masked) = MaskedLetters(passage.replaced)
    /\ Increasing(passage.masked)
    /\ passage.replaced = {} => Untouched(passage.masked, passage.text.length)
    /\ \A m \in passage.taken \ passage.replaced : Untouched(passage.masked, m.upto)

MaskingInv == passage \in Passages /\ TakenSound /\ MaskedSound

LEMMA FoundGiven ==
    ASSUME NEW t \in Texts, NEW m \in ToSet(t.found)
    PROVE  m \in Matches /\ MatchGiven(m) /\ m.upto <= t.length /\ t.length \in Nat
<1>1. /\ t.length \in Nat /\ m.from \in Nat /\ m.mask \in Nat
      /\ m.upto \in m.from + 1 .. t.length
  BY MaskingAssumption DEF MaskingAssumption
<1>2. PICK from \in Nat, upto \in Nat : from = m.from /\ upto = m.upto /\ from < upto /\ upto <= t.length
  BY <1>1
<1>3. QED BY <1>1, <1>2 DEF Matches, MatchGiven

LEMMA UntouchedBefore ==
    ASSUME NEW letters, NEW upto \in Nat, NEW less \in Nat, less <= upto, Untouched(letters, upto)
    PROVE  Untouched(letters, less)
<1>1. \A i \in 1 .. less : i \in 1 .. upto
  OBVIOUS
<1>2. QED BY <1>1 DEF Untouched

LEMMA MaskingBegins == MaskingInit => MaskingInv
<1> SUFFICES ASSUME MaskingInit PROVE MaskingInv
  OBVIOUS
<1>1. PICK t \in Texts : passage = Passage(t)
  BY DEF MaskingInit
<1>2. /\ passage.text = t /\ passage.left = t.found /\ passage.taken = {} /\ passage.replaced = {}
      /\ passage.masked = [i \in 1 .. t.length |-> <<i, 0>>]
  BY <1>1 DEF Passage
<1>3. PICK n \in Nat : n = t.length
  BY MaskingAssumption DEF MaskingAssumption
<1>4. PICK letters : letters = [i \in 1 .. n |-> <<i, 0>>]
  OBVIOUS
<1>5. passage.masked = letters
  BY <1>2, <1>3, <1>4
<1>6. DOMAIN letters = 1 .. n /\ \A i \in 1 .. n : letters[i] = <<i, 0>>
  BY <1>4
<1>7. letters \in Seq(Chars)
  <2>1. \A i \in 1 .. n : <<i, 0>> \in Chars
    BY DEF Chars
  <2>2. letters \in [1 .. n -> Chars]
    BY <2>1, <1>4
  <2>3. QED BY <2>2
<1>8. t.found \in Seq(ToSet(t.found)) /\ ToSet(t.found) \subseteq Matches
  BY MaskingAssumption DEF MaskingAssumption, Matches
<1>9. t.found \in Seq(Matches)
  BY <1>8
<1>10. passage \in Passages
  <2>1. passage = [text |-> t, left |-> t.found, taken |-> {}, replaced |-> {}, masked |-> letters]
    BY <1>1, <1>3, <1>4 DEF Passage
  <2>2. QED BY <2>1, <1>7, <1>9 DEF Passages
<1>11. TakenSound
  BY <1>2, <1>8 DEF TakenSound, FoundHere
<1>12. ToSet(letters) = MaskedLetters({})
  <2>1. \A i \in 1 .. n : ~Hides({}, i)
    BY DEF Hides
  <2>2. MaskedLetters({}) = {<<i, 0>> : i \in 1 .. n}
    BY <2>1, <1>2, <1>3 DEF MaskedLetters
  <2>3. ToSet(letters) = {<<i, 0>> : i \in 1 .. n}
    BY <1>6 DEF ToSet
  <2>4. QED BY <2>2, <2>3
<1>13. Increasing(letters)
  <2>1. ASSUME NEW i \in 1 .. n, NEW j \in 1 .. n, i < j PROVE Precedes(letters[i], letters[j])
    <3>1. letters[i] = <<i, 0>> /\ letters[j] = <<j, 0>>
      BY <1>6
    <3>2. Precedes(<<i, 0>>, <<j, 0>>)
      BY <2>1, PrecedesPairs
    <3>3. QED BY <3>1, <3>2
  <2>2. QED BY <2>1, <1>6 DEF Increasing
<1>14. Untouched(letters, n)
  BY <1>6 DEF Untouched
<1>15. MaskedSound
  BY <1>2, <1>3, <1>5, <1>12, <1>13, <1>14 DEF MaskedSound
<1>16. QED BY <1>10, <1>11, <1>15 DEF MaskingInv

LEMMA LookAtMatchSound ==
    ASSUME MaskingInv, LookAtMatch
    PROVE  MaskingInv'
<1>1. PICK match : match = Head(passage.left)
  OBVIOUS
<1>2. PICK left : left = Tail(passage.left)
  OBVIOUS
<1>3. PICK taken : taken = IF Skipped(match) THEN passage.taken ELSE passage.taken \union {match}
  OBVIOUS
<1>4. passage.left # <<>> /\ passage' = [passage EXCEPT !.left = left, !.taken = taken]
  BY <1>1, <1>2, <1>3 DEF LookAtMatch
<1>5. passage \in Passages /\ passage.left \in Seq(FoundHere) /\ passage.text \in Texts
  BY DEF MaskingInv, TakenSound, Passages
<1>6. match \in FoundHere /\ left \in Seq(FoundHere)
  BY <1>1, <1>2, <1>4, <1>5, HeadTailProperties
<1>7. FoundHere \subseteq Matches
  BY <1>5 DEF FoundHere, Matches
<1>8. taken \subseteq FoundHere
  BY <1>3, <1>6 DEF MaskingInv, TakenSound
<1>9. left \in Seq(Matches) /\ taken \in SUBSET Matches
  BY <1>6, <1>7, <1>8
<1>10. /\ passage'.text = passage.text /\ passage'.left = left /\ passage'.taken = taken
       /\ passage'.replaced = passage.replaced /\ passage'.masked = passage.masked
       /\ passage' \in Passages
  BY <1>4, <1>5, <1>9 DEF Passages
<1>11. passage.replaced = {}
  BY <1>4 DEF MaskingInv, MaskedSound
<1>12. FoundHere' = FoundHere
  BY <1>10 DEF FoundHere
<1>13. \A m, n \in taken : m # n => ~Overlaps(m, n)
  <2>1. CASE Skipped(match)
    BY <2>1, <1>3 DEF MaskingInv, TakenSound
  <2>2. CASE ~Skipped(match)
    <3>1. \A m \in passage.taken : ~Overlaps(match, m) /\ ~Overlaps(m, match)
      BY <2>2 DEF Skipped, Overlaps
    <3>2. QED BY <2>2, <3>1, <1>3 DEF MaskingInv, TakenSound
  <2>3. QED BY <2>1, <2>2
<1>14. passage.taken \subseteq taken
  BY <1>3
<1>15. ASSUME NEW m \in FoundHere PROVE m \in ToSet(left) \/ Settled(m)'
  <2>1. Settled(m) => Settled(m)'
    BY <1>10, <1>14 DEF Settled
  <2>2. ASSUME m \in ToSet(passage.left), m # match PROVE m \in ToSet(left)
    <3>1. PICK n \in Nat : n = Len(passage.left) /\ DOMAIN passage.left = 1 .. n
      BY <1>5, LenProperties
    <3>2. PICK i \in 1 .. n : m = passage.left[i]
      BY <2>2, <3>1 DEF ToSet
    <3>3. i # 1
      BY <2>2, <3>2, <1>1
    <3>4. Len(left) = n - 1 /\ DOMAIN left = 1 .. n - 1
      <4>1. Len(left) = n - 1
        BY <1>2, <1>4, <1>5, <3>1, HeadTailProperties
      <4>2. QED BY <4>1, <1>6, LenProperties
    <3>5. i - 1 \in 1 .. n - 1
      BY <3>3
    <3>6. left[i - 1] = m
      <4>1. \A k \in 1 .. n - 1 : left[k] = passage.left[k + 1]
        BY <1>2, <1>4, <1>5, <3>1, HeadTailProperties
      <4>2. left[i - 1] = passage.left[(i - 1) + 1] /\ (i - 1) + 1 = i
        BY <4>1, <3>5
      <4>3. QED BY <4>2, <3>2
    <3>7. QED BY <3>4, <3>5, <3>6 DEF ToSet
  <2>3. Settled(match)'
    <3>1. CASE Skipped(match)
      BY <3>1, <2>1, <1>10, <1>14 DEF Skipped, Settled
    <3>2. CASE ~Skipped(match)
      <4>1. match \in taken
        BY <3>2, <1>3
      <4>2. MatchGiven(match)
        BY <1>5, <1>6, FoundGiven DEF FoundHere
      <4>3. Overlaps(match, match)
        BY <4>2 DEF MatchGiven, Overlaps
      <4>4. QED BY <4>1, <4>3, <1>10 DEF Settled
    <3>3. QED BY <3>1, <3>2
  <2>4. m \in ToSet(passage.left) \/ Settled(m)
    BY DEF MaskingInv, TakenSound
  <2>5. QED BY <2>1, <2>2, <2>3, <2>4
<1>16. TakenSound'
  BY <1>6, <1>8, <1>10, <1>11, <1>12, <1>13, <1>15 DEF TakenSound
<1>17. MaskedLetters({})' = MaskedLetters({})
  BY <1>10 DEF MaskedLetters
<1>18. Untouched(passage.masked, passage.text.length)
  BY <1>11 DEF MaskingInv, MaskedSound
<1>19. ASSUME NEW m \in taken PROVE Untouched(passage.masked, m.upto)
  <2>1. MatchGiven(m) /\ m.upto <= passage.text.length /\ passage.text.length \in Nat
    BY <1>5, <1>8, FoundGiven DEF FoundHere
  <2>2. QED BY <2>1, <1>18, UntouchedBefore DEF MatchGiven
<1>20. MaskedSound'
  <2>1. ToSet(passage.masked) = MaskedLetters({}) /\ Increasing(passage.masked)
    BY <1>11 DEF MaskingInv, MaskedSound
  <2>2. QED BY <2>1, <1>10, <1>11, <1>17, <1>18, <1>19 DEF MaskedSound
<1>21. QED BY <1>10, <1>16, <1>20 DEF MaskingInv

\* A letter that one more match hides is one that it covers.
LEMMA CharactersAfter ==
    ASSUME NEW matches, NEW match, MatchGiven(match),
           NEW length \in Nat, length = passage.text.length, match.upto <= length
    PROVE  MaskedLetters(matches \union {match}) =
               (MaskedLetters(matches) \ {<<i, 0>> : i \in match.from + 1 .. match.upto})
                   \union {<<match.from, k>> : k \in 1 .. match.mask}
<1> DEFINE gone == {<<i, 0>> : i \in match.from + 1 .. match.upto}
           marks == {<<match.from, k>> : k \in 1 .. match.mask}
           seen == {<<i, 0>> : i \in {j \in 1 .. length : ~Hides(matches, j)}}
           seenAfter == {<<i, 0>> : i \in {j \in 1 .. length : ~Hides(matches \union {match}, j)}}
           masks == UNION {{<<m.from, k>> : k \in 1 .. m.mask} : m \in matches}
           masksAfter == UNION {{<<m.from, k>> : k \in 1 .. m.mask} : m \in matches \union {match}}
<1>1. PICK from \in Nat, upto \in Nat : from = match.from /\ upto = match.upto
  BY DEF MatchGiven
<1>2. \A i \in 1 .. length : Hides(matches \union {match}, i) <=> Hides(matches, i) \/ i \in from + 1 .. upto
  <2> SUFFICES ASSUME NEW i \in 1 .. length
               PROVE  Hides(matches \union {match}, i) <=> Hides(matches, i) \/ i \in from + 1 .. upto
    OBVIOUS
  <2>1. match.from < i /\ i <= match.upto <=> i \in from + 1 .. upto
    BY <1>1
  <2>2. QED BY <2>1 DEF Hides
<1>3. seenAfter = seen \ gone
  <2>1. ASSUME NEW c \in seenAfter PROVE c \in seen \ gone
    <3>1. PICK i \in 1 .. length : c = <<i, 0>> /\ ~Hides(matches \union {match}, i)
      BY <2>1
    <3>2. ~Hides(matches, i) /\ i \notin from + 1 .. upto
      BY <3>1, <1>2
    <3>3. c \in seen
      BY <3>1, <3>2
    <3>4. c \notin gone
      BY <3>1, <3>2, <1>1
    <3>5. QED BY <3>3, <3>4
  <2>2. ASSUME NEW c \in seen \ gone PROVE c \in seenAfter
    <3>1. PICK i \in 1 .. length : c = <<i, 0>> /\ ~Hides(matches, i)
      BY <2>2
    <3>2. i \notin from + 1 .. upto
      BY <2>2, <3>1, <1>1
    <3>3. QED BY <3>1, <3>2, <1>2
  <2> HIDE DEF seen, seenAfter, gone
  <2>3. QED BY <2>1, <2>2
<1>4. masksAfter = masks \union marks
  OBVIOUS
<1>5. masks \intersect gone = {}
  <2>1. ASSUME NEW c \in masks, c \in gone PROVE FALSE
    <3>0. PICK m \in matches : c \in {<<m.from, k>> : k \in 1 .. m.mask}
      BY <2>1
    <3>1. PICK k \in 1 .. m.mask : c = <<m.from, k>>
      BY <3>0
    <3>2. PICK i \in match.from + 1 .. match.upto : c = <<i, 0>>
      BY <2>1
    <3>3. k = 0
      BY <3>1, <3>2
    <3>4. QED BY <3>1, <3>3
  <2> HIDE DEF masks, gone
  <2>2. QED BY <2>1
<1>6. MaskedLetters(matches) = seen \union masks
  BY DEF MaskedLetters
<1>7. MaskedLetters(matches \union {match}) = seenAfter \union masksAfter
  BY DEF MaskedLetters
<1> HIDE DEF gone, marks, seen, seenAfter, masks, masksAfter
<1>8. MaskedLetters(matches \union {match}) = (MaskedLetters(matches) \ gone) \union marks
  BY <1>3, <1>4, <1>5, <1>6, <1>7
<1>9. QED BY <1>8 DEF gone, marks

LEMMA MaskStepSound ==
    ASSUME MaskingInv, Mask
    PROVE  MaskingInv'
<1>1. PICK match \in passage.taken \ passage.replaced :
          /\ \A m \in passage.taken \ passage.replaced : m.from <= match.from
          /\ passage' = [passage EXCEPT !.masked = Replaced(@, match),
                                        !.replaced = @ \union {match}]
  BY DEF Mask
<1>2. PICK letters : letters = passage.masked
  OBVIOUS
<1>3. PICK new : new = Replaced(letters, match)
  OBVIOUS
<1>4. PICK replaced : replaced = passage.replaced \union {match}
  OBVIOUS
<1>5. passage' = [passage EXCEPT !.masked = new, !.replaced = replaced]
  BY <1>1, <1>2, <1>3, <1>4
<1>6. passage \in Passages /\ passage.left = <<>> /\ letters \in Seq(Chars) /\ passage.text \in Texts
  BY <1>2 DEF MaskingInv, Passages, Mask
<1>7. PICK length \in Nat : length = passage.text.length
  BY <1>6, MaskingAssumption DEF MaskingAssumption
<1>8. \A m \in passage.taken : m \in Matches /\ MatchGiven(m) /\ m.upto <= length
  BY <1>6, <1>7, FoundGiven DEF FoundHere, MaskingInv, TakenSound
<1>9. MatchGiven(match) /\ match \in Matches /\ match.upto <= length
  BY <1>1, <1>8
<1>10. /\ ToSet(letters) = MaskedLetters(passage.replaced) /\ Increasing(letters)
       /\ \A m \in passage.taken \ passage.replaced : Untouched(letters, m.upto)
  BY <1>2 DEF MaskingInv, MaskedSound
<1>11. Untouched(letters, match.upto)
  BY <1>1, <1>10
<1>12. new \in Seq(Chars)
  BY <1>3, <1>6, <1>9, <1>11, ReplacedWhere
<1>13. Increasing(new)
  BY <1>3, <1>6, <1>9, <1>10, <1>11, ReplacedIncreases
<1>14. /\ ToSet(new) = (ToSet(letters) \ {<<i, 0>> : i \in match.from + 1 .. match.upto})
                           \union {<<match.from, k>> : k \in 1 .. match.mask}
       /\ Untouched(new, match.from)
  BY <1>3, <1>6, <1>9, <1>10, <1>11, ReplacedHas
<1>15. replaced \in SUBSET Matches
  BY <1>4, <1>6, <1>9 DEF Passages
<1>16. /\ passage'.text = passage.text /\ passage'.left = passage.left /\ passage'.taken = passage.taken
       /\ passage'.replaced = replaced /\ passage'.masked = new /\ passage' \in Passages
  BY <1>5, <1>6, <1>12, <1>15 DEF Passages
<1>17. FoundHere' = FoundHere /\ MaskedLetters(replaced)' = MaskedLetters(replaced)
  BY <1>16 DEF FoundHere, MaskedLetters
<1>18. TakenSound'
  <2>1. \A m \in FoundHere : Settled(m) => Settled(m)'
    BY <1>16 DEF Settled
  <2>2. replaced \subseteq passage.taken
    BY <1>1, <1>4 DEF MaskingInv, TakenSound
  <2>3. QED BY <2>1, <2>2, <1>16, <1>17 DEF MaskingInv, TakenSound
<1>19. ToSet(new) = MaskedLetters(replaced)
  BY <1>4, <1>7, <1>9, <1>10, <1>14, CharactersAfter
<1>20. ASSUME NEW m \in passage.taken \ replaced PROVE Untouched(new, m.upto)
  <2>1. m \in passage.taken \ passage.replaced /\ m # match
    BY <1>4
  <2>2. ~Overlaps(m, match)
    BY <2>1, <1>1 DEF MaskingInv, TakenSound
  <2>3. PICK upto \in Nat, from \in Nat : upto = m.upto /\ from = m.from /\ from < upto
    BY <2>1, <1>8 DEF MatchGiven
  <2>4. PICK here \in Nat, there \in Nat : here = match.from /\ there = match.upto /\ here < there
    BY <1>9 DEF MatchGiven
  <2>5. from <= here
    BY <2>1, <2>3, <2>4, <1>1
  <2>6. ~(from < there /\ here < upto)
    BY <2>2, <2>3, <2>4 DEF Overlaps
  <2>7. upto <= here
    BY <2>4, <2>5, <2>6
  <2>8. QED BY <2>3, <2>4, <2>7, <1>14, UntouchedBefore
<1>21. MaskedSound'
  <2>1. replaced # {}
    BY <1>4
  <2>2. QED BY <2>1, <1>6, <1>13, <1>16, <1>17, <1>19, <1>20 DEF MaskedSound
<1>22. QED BY <1>16, <1>18, <1>21 DEF MaskingInv

LEMMA MaskingInvPreserved == MaskingInv /\ [MaskingNext]_passage => MaskingInv'
<1> SUFFICES ASSUME MaskingInv, [MaskingNext]_passage PROVE MaskingInv'
  OBVIOUS
<1>1. CASE passage' = passage
  BY <1>1 DEF MaskingInv, TakenSound, MaskedSound, FoundHere, Settled, MaskedLetters
<1>2. QED BY <1>1, LookAtMatchSound, MaskStepSound DEF MaskingNext

LEMMA MaskingInvMasks == MaskingInv => MaskedWell
<1> SUFFICES ASSUME MaskingInv, passage.left = <<>>, passage.replaced = passage.taken
             PROVE  /\ ToSet(passage.masked) = MaskedLetters(passage.taken)
                    /\ Increasing(passage.masked)
                    /\ \A match \in FoundHere :
                          \/ \E i \in match.from + 1 .. match.upto : Hides(passage.taken, i)
                          \/ match.kind \in DateLike /\ \E d \in passage.text.dates : Overlaps(match, d)
  BY DEF MaskedWell, Increasing, FoundHere
<1>1. ToSet(passage.masked) = MaskedLetters(passage.taken) /\ Increasing(passage.masked)
  BY DEF MaskingInv, MaskedSound
<1>2. ASSUME NEW match \in FoundHere, NEW m \in passage.taken, Overlaps(match, m)
      PROVE  \E i \in match.from + 1 .. match.upto : Hides(passage.taken, i)
  <2>1. passage.text \in Texts /\ m \in FoundHere
    BY DEF MaskingInv, TakenSound, Passages
  <2>2. MatchGiven(match) /\ MatchGiven(m)
    BY <2>1, FoundGiven DEF FoundHere
  <2>3. PICK a \in Nat, b \in Nat : a = match.from /\ b = match.upto /\ a < b
    BY <2>2 DEF MatchGiven
  <2>4. PICK c \in Nat, d \in Nat : c = m.from /\ d = m.upto /\ c < d
    BY <2>2 DEF MatchGiven
  <2>5. a < d /\ c < b
    BY <1>2, <2>3, <2>4 DEF Overlaps
  <2>6. PICK i \in Nat : i = IF a < c THEN c + 1 ELSE a + 1
    OBVIOUS
  <2>7. i \in a + 1 .. b /\ c < i /\ i <= d
    BY <2>3, <2>4, <2>5, <2>6, SMTT(30)
  <2>8. QED BY <2>3, <2>4, <2>7 DEF Hides
<1>3. \A match \in FoundHere : Settled(match)
  BY DEF MaskingInv, TakenSound, ToSet
<1>4. QED BY <1>1, <1>2, <1>3 DEF Settled

\* What a reader is given is what was parsed, whatever the sections, the window and
\* the overlap, and with every match masked in its place that is not like a date,
\* whatever was found, however the spans overlap and long the masks are.
\* parsing/core.py, documents/query/flow.py, guardrails/privacy/masking.py.
THEOREM PassagesAlwaysSound == ChunkingSpec /\ MaskingSpec => []PassagesSound
<1>1. ChunkingSpec => []ReadsWhatWasParsed
  BY ReadsAlwaysWhatWasParsed
<1>2. MaskingSpec => []MaskedWell
  BY MaskingBegins, MaskingInvPreserved, MaskingInvMasks, PTL DEF MaskingSpec
<1>3. ReadsWhatWasParsed /\ MaskedWell => PassagesSound
  BY DEF PassagesSound
<1>4. QED BY <1>1, <1>2, <1>3, PTL

----------------------------------------------------------------------------
(* Retrieval: lists that are sorted by rank. *)

\* A strict and total order of finitely many, as the sets of those ahead.
Orders(ahead) ==
    LET S == DOMAIN ahead
    IN  /\ IsFiniteSet(S)
        /\ \A x \in S : ahead[x] \subseteq S /\ x \notin ahead[x]
        /\ \A x, y \in S : x # y => x \in ahead[y] \/ y \in ahead[x]
        /\ \A x, y \in S : x \in ahead[y] => ahead[x] \subseteq ahead[y]

LEMMA RankedInOrder ==
    ASSUME NEW ahead, Orders(ahead), NEW S, S = DOMAIN ahead, NEW R, R = Ranked(ahead)
    PROVE  /\ Cardinality(S) \in Nat
           /\ R \in [1 .. Cardinality(S) -> S]
           /\ \A x \in S : \E k \in 1 .. Cardinality(S) : R[k] = x
           /\ \A i, j \in 1 .. Cardinality(S) : i < j => R[i] # R[j] /\ R[i] \in ahead[R[j]]
           /\ \A k \in 1 .. Cardinality(S) : Cardinality(ahead[R[k]]) = k - 1
<1> DEFINE n == Cardinality(S)
<1>1. n \in Nat /\ IsFiniteSet(S)
  BY FS_CardinalityType DEF Orders
<1>2. ASSUME NEW x \in S PROVE IsFiniteSet(ahead[x]) /\ Cardinality(ahead[x]) \in 0 .. n - 1
  <2>1. ahead[x] \in SUBSET S /\ ahead[x] # S
    BY DEF Orders
  <2>2. /\ IsFiniteSet(ahead[x]) /\ Cardinality(ahead[x]) <= n
        /\ Cardinality(S) = Cardinality(ahead[x]) => S = ahead[x]
    BY <1>1, <2>1, FS_Subset
  <2>3. Cardinality(ahead[x]) \in Nat
    BY <2>2, FS_CardinalityType
  <2>4. QED BY <1>1, <2>1, <2>2, <2>3
<1>3. ASSUME NEW x \in S, NEW y \in S, x \in ahead[y]
      PROVE  Cardinality(ahead[x]) < Cardinality(ahead[y])
  <2>1. ahead[x] \in SUBSET ahead[y] /\ ahead[x] # ahead[y]
    BY <1>3 DEF Orders
  <2>2. /\ Cardinality(ahead[x]) <= Cardinality(ahead[y])
        /\ Cardinality(ahead[y]) = Cardinality(ahead[x]) => ahead[y] = ahead[x]
    BY <1>2, <2>1, FS_Subset
  <2>3. QED BY <1>2, <2>1, <2>2
<1> DEFINE rank == [x \in S |-> Cardinality(ahead[x]) + 1]
<1>4. rank \in [S -> 1 .. n] /\ \A x, y \in S : rank[x] = rank[y] => x = y
  <2>1. \A x \in S : rank[x] \in 1 .. n
    BY <1>1, <1>2
  <2>2. ASSUME NEW x \in S, NEW y \in S, x # y PROVE rank[x] # rank[y]
    <3>1. CASE x \in ahead[y]
      BY <1>2, <1>3, <3>1
    <3>2. CASE y \in ahead[x]
      BY <1>2, <1>3, <3>2
    <3>3. QED BY <2>2, <3>1, <3>2 DEF Orders
  <2>3. QED BY <2>1, <2>2
<1> HIDE DEF n
<1>5. ASSUME NEW k \in 1 .. n PROVE \E x \in S : rank[x] = k
  <2>1. rank \in Injection(S, 1 .. n)
    BY <1>4 DEF Injection, IsInjective
  <2>2. IsFiniteSet(1 .. n) /\ Cardinality(1 .. n) = n
    BY <1>1, FS_Interval
  <2>3. rank \in Surjection(S, 1 .. n)
    BY <2>1, <2>2, FS_Injection DEF n
  <2>4. QED BY <2>3 DEF Surjection
<1>6. R = [k \in 1 .. n |-> CHOOSE x \in S : Cardinality(ahead[x]) = k - 1]
  BY DEF Ranked, n
<1>7. ASSUME NEW k \in 1 .. n PROVE R[k] \in S /\ rank[R[k]] = k
  <2>1. PICK x \in S : rank[x] = k
    BY <1>5
  <2>2. Cardinality(ahead[x]) = k - 1
    BY <1>2, <2>1
  <2>3. R[k] \in S /\ Cardinality(ahead[R[k]]) = k - 1
    BY <1>6, <2>2
  <2>4. QED BY <1>2, <2>3
<1>8. R \in [1 .. n -> S]
  BY <1>6, <1>7
<1>9. ASSUME NEW x \in S PROVE rank[x] \in 1 .. n /\ R[rank[x]] = x
  <2>1. rank[x] \in 1 .. n
    BY <1>4
  <2>2. R[rank[x]] \in S /\ rank[R[rank[x]]] = rank[x]
    BY <1>7, <2>1
  <2>3. QED BY <1>4, <2>1, <2>2
<1>10. ASSUME NEW i \in 1 .. n, NEW j \in 1 .. n, i < j
       PROVE  R[i] # R[j] /\ R[i] \in ahead[R[j]]
  <2>1. PICK x \in S, y \in S : x = R[i] /\ y = R[j] /\ rank[x] = i /\ rank[y] = j
    BY <1>7, ZenonT(40)
  <2>2. x # y
    BY <1>10, <2>1
  <2>3. Cardinality(ahead[x]) < Cardinality(ahead[y])
    BY <1>2, <1>10, <2>1
  <2>4. y \notin ahead[x]
    BY <1>2, <1>3, <2>3
  <2>5. QED BY <2>1, <2>2, <2>4 DEF Orders
<1>11. ASSUME NEW k \in 1 .. n PROVE Cardinality(ahead[R[k]]) = k - 1
  <2>1. PICK x \in S : x = R[k] /\ rank[x] = k
    BY <1>7
  <2>2. Cardinality(ahead[x]) \in Int
    BY <1>1, <1>2
  <2>3. QED BY <2>1, <2>2
<1>12. QED BY <1>1, <1>8, <1>9, <1>10, <1>11 DEF n

\* Numbers that are finitely many have a largest.
LEMMA LargestOf ==
    ASSUME NEW S \in SUBSET Int, IsFiniteSet(S), S # {}
    PROVE  Max(S) \in S /\ \A y \in S : y <= Max(S)
<1> DEFINE ahead == [x \in S |-> {y \in S : y < x}]
           R == Ranked(ahead)
           n == Cardinality(S)
<1>1. Orders(ahead)
  <2>1. \A x \in S : ahead[x] \subseteq S /\ x \notin ahead[x]
    OBVIOUS
  <2>2. ASSUME NEW x \in S, NEW y \in S, x # y PROVE x \in ahead[y] \/ y \in ahead[x]
    <3>1. x \in Int /\ y \in Int
      OBVIOUS
    <3>2. x < y \/ y < x
      BY <2>2, <3>1
    <3>3. QED BY <3>2
  <2>3. ASSUME NEW x \in S, NEW y \in S, x \in ahead[y] PROVE ahead[x] \subseteq ahead[y]
    <3>1. x < y /\ x \in Int /\ y \in Int
      BY <2>3
    <3>2. \A z \in S : z < x => z < y
      BY <3>1
    <3>3. QED BY <3>2
  <2>4. S = DOMAIN ahead
    OBVIOUS
  <2> HIDE DEF ahead
  <2>5. QED BY <2>1, <2>2, <2>3, <2>4 DEF Orders
<1>2. /\ n \in Nat /\ R \in [1 .. n -> S]
      /\ \A x \in S : \E k \in 1 .. n : R[k] = x
      /\ \A i, j \in 1 .. n : i < j => R[i] # R[j] /\ R[i] \in ahead[R[j]]
  <2>1. S = DOMAIN ahead
    OBVIOUS
  <2> HIDE DEF ahead
  <2>2. QED BY <1>1, <2>1, RankedInOrder
<1>3. n \in 1 .. n
  <2>1. PICK x \in S : TRUE
    OBVIOUS
  <2>2. PICK k \in 1 .. n : R[k] = x
    BY <1>2
  <2> HIDE DEF n, R
  <2>3. QED BY <1>2, <2>2
<1>4. ASSUME NEW y \in S PROVE y <= R[n]
  <2>1. PICK k \in 1 .. n : R[k] = y
    BY <1>2
  <2>2. CASE k = n
    BY <2>1, <2>2, <1>2, <1>3
  <2>3. CASE k # n
    <3>1. k < n
      BY <2>3, <1>2
    <3>2. PICK x \in S : x = R[n] /\ R[k] \in ahead[x]
      <4>1. R[n] \in S /\ R[k] \in ahead[R[n]]
        BY <1>2, <1>3, <3>1
      <4> HIDE DEF R, n, ahead
      <4>2. QED BY <4>1
    <3>3. y \in ahead[x]
      BY <2>1, <3>2
    <3>4. y < x
      BY <3>3
    <3>5. QED BY <3>2, <3>4
  <2>4. QED BY <2>2, <2>3
<1>5. \E x \in S : \A y \in S : x >= y
  <2>1. R[n] \in S
    BY <1>2, <1>3
  <2> HIDE DEF R, n
  <2>2. QED BY <1>4, <2>1
<1>6. QED BY <1>5 DEF Max

LEMMA RangeFinite ==
    ASSUME NEW f, NEW S, f = [x \in S |-> f[x]], IsFiniteSet(S)
    PROVE  IsFiniteSet({f[x] : x \in S})
<1>1. f \in Surjection(S, {f[x] : x \in S})
  BY DEF Surjection
<1>2. QED BY <1>1, FS_Surjection

\* A sequence and then another.
Joins(w, u, v) ==
    /\ Len(u) \in Nat /\ Len(v) \in Nat /\ Len(w) = Len(u) + Len(v)
    /\ \A k \in 1 .. Len(w) :
          \/ k \in 1 .. Len(u) /\ w[k] = u[k]
          \/ k \in Len(u) + 1 .. Len(w) /\ k - Len(u) \in 1 .. Len(v) /\ w[k] = v[k - Len(u)]
    /\ \A k \in 1 .. Len(u) : k \in 1 .. Len(w) /\ w[k] = u[k]
    /\ \A k \in 1 .. Len(v) : Len(u) + k \in 1 .. Len(w) /\ w[Len(u) + k] = v[k]

LEMMA Concatenated ==
    ASSUME NEW A, NEW u \in Seq(A), NEW v \in Seq(A)
    PROVE  u \o v \in Seq(A) /\ Joins(u \o v, u, v)
<1>1. PICK w : w = u \o v
  OBVIOUS
<1>2. /\ w \in Seq(A) /\ Len(w) = Len(u) + Len(v)
      /\ \A i \in 1 .. Len(u) + Len(v) : w[i] = IF i <= Len(u) THEN u[i] ELSE v[i - Len(u)]
  BY <1>1, ConcatProperties, Zenon
<1>3. PICK m \in Nat, n \in Nat : m = Len(u) /\ n = Len(v) /\ Len(w) = m + n
  BY <1>2
<1>4. \A i \in 1 .. m + n : w[i] = IF i <= m THEN u[i] ELSE v[i - m]
  BY <1>2, <1>3
<1>5. ASSUME NEW k \in 1 .. m PROVE k \in 1 .. m + n /\ w[k] = u[k]
  <2>1. k \in 1 .. m + n /\ k <= m
    OBVIOUS
  <2>2. QED BY <1>4, <2>1, Zenon
<1>6. ASSUME NEW k \in 1 .. n PROVE m + k \in 1 .. m + n /\ w[m + k] = v[k]
  <2>1. m + k \in 1 .. m + n /\ ~(m + k <= m) /\ (m + k) - m = k
    OBVIOUS
  <2>2. w[m + k] = v[(m + k) - m]
    BY <1>4, <2>1, Zenon
  <2>3. QED BY <2>1, <2>2
<1>7. ASSUME NEW k \in 1 .. m + n
      PROVE  \/ k \in 1 .. m /\ w[k] = u[k]
             \/ k \in m + 1 .. m + n /\ k - m \in 1 .. n /\ w[k] = v[k - m]
  <2>1. CASE k \in 1 .. m
    BY <1>5, <2>1
  <2>2. CASE k \notin 1 .. m
    <3>1. k \in m + 1 .. m + n /\ k - m \in 1 .. n /\ ~(k <= m)
      BY <2>2
    <3>2. w[k] = v[k - m]
      BY <1>4, <3>1, Zenon
    <3>3. QED BY <3>1, <3>2
  <2>3. QED BY <2>1, <2>2
<1>8. Joins(w, u, v)
  BY <1>3, <1>5, <1>6, <1>7 DEF Joins
<1>9. QED BY <1>1, <1>2, <1>8

LEMMA LeastIs ==
    ASSUME NEW S \in SUBSET Nat, S # {}
    PROVE  Min(S) \in S /\ \A y \in S : Min(S) <= y
<1>1. PICK x \in S : \A y \in S : x <= y
  BY LeastOf
<1>2. QED BY <1>1 DEF Min

LEMMA IntervalFinite ==
    ASSUME NEW A, NEW list \in Seq(A), NEW places \in SUBSET (1 .. Len(list))
    PROVE  IsFiniteSet(places)
<1>1. Len(list) \in Int
  OBVIOUS
<1>2. IsFiniteSet(1 .. Len(list))
  BY <1>1, FS_Interval
<1>3. QED BY <1>2, FS_Subset

\* It has what is at these places, in their order.
Picks(new, list, places) ==
    \E order \in [1 .. Len(new) -> places] :
       /\ \A k \in 1 .. Len(new) : new[k] = list[order[k]]
       /\ \A k, l \in 1 .. Len(new) : k < l => order[k] < order[l]
       /\ \A i \in places : \E k \in 1 .. Len(new) : order[k] = i

LEMMA AtPlaces ==
    ASSUME NEW A, NEW list \in Seq(A), NEW places \in SUBSET (1 .. Len(list)),
           NEW new, new = At(list, places)
    PROVE  /\ new \in Seq(A)
           /\ Picks(new, list, places)
<1> DEFINE ahead == [i \in places |-> {j \in places : j < i}]
           n == Cardinality(places)
<1>1. Orders(ahead)
  <2>1. IsFiniteSet(places)
    BY IntervalFinite
  <2>2. \A i \in places : ahead[i] \subseteq places /\ i \notin ahead[i]
    OBVIOUS
  <2>3. \A i, j \in places : i # j => i \in ahead[j] \/ j \in ahead[i]
    OBVIOUS
  <2>4. ASSUME NEW i \in places, NEW j \in places, i \in ahead[j] PROVE ahead[i] \subseteq ahead[j]
    <3>1. i < j /\ i \in Int /\ j \in Int
      BY <2>4
    <3>2. \A k \in places : k < i => k < j
      BY <3>1
    <3>3. QED BY <3>2
  <2>5. places = DOMAIN ahead
    OBVIOUS
  <2> HIDE DEF ahead
  <2>6. QED BY <2>1, <2>2, <2>3, <2>4, <2>5 DEF Orders
<1>2. PICK R : R = Ranked(ahead)
  OBVIOUS
<1>3. /\ n \in Nat /\ R \in [1 .. n -> places]
      /\ \A i \in places : \E k \in 1 .. n : R[k] = i
      /\ \A k, l \in 1 .. n : k < l => R[k] # R[l] /\ R[k] \in ahead[R[l]]
  <2>1. places = DOMAIN ahead
    OBVIOUS
  <2> HIDE DEF ahead
  <2>2. QED BY <1>1, <1>2, <2>1, RankedInOrder
<1>4. new = [k \in 1 .. n |-> list[R[k]]]
  <2>1. DOMAIN R = 1 .. n
    BY <1>3
  <2>2. new = [k \in DOMAIN R |-> list[R[k]]]
    BY <1>2 DEF At
  <2>3. QED BY <2>1, <2>2
<1>5. \A k, l \in 1 .. n : k < l => R[k] < R[l]
  BY <1>3
<1> HIDE DEF n
<1>6. new \in Seq(A) /\ Len(new) = n
  <2>1. ASSUME NEW k \in 1 .. n PROVE list[R[k]] \in A
    <3>1. PICK i \in 1 .. Len(list) : i = R[k]
      BY <1>3
    <3>2. list[i] \in A
      OBVIOUS
    <3>3. QED BY <3>1, <3>2
  <2>2. QED BY <1>3, <1>4, <2>1
<1>7. Picks(new, list, places)
  BY <1>3, <1>4, <1>5, <1>6 DEF Picks
<1>8. QED BY <1>6, <1>7

LEMMA TopIs ==
    ASSUME NEW A, NEW rows \in Seq(A), NEW n \in Nat, NEW new, new = Top(rows, n)
    PROVE  /\ new \in Seq(A) /\ Len(new) = IF n <= Len(rows) THEN n ELSE Len(rows)
           /\ \A i \in 1 .. Len(new) : new[i] = rows[i]
<1>1. PICK m \in Nat : m = IF n <= Len(rows) THEN n ELSE Len(rows)
  OBVIOUS
<1>2. Min({n, Len(rows)}) = m
  <2>1. {n, Len(rows)} \in SUBSET Nat /\ {n, Len(rows)} # {}
    OBVIOUS
  <2>2. Min({n, Len(rows)}) \in {n, Len(rows)} /\ \A y \in {n, Len(rows)} : Min({n, Len(rows)}) <= y
    BY <2>1, LeastIs
  <2>3. QED BY <1>1, <2>2
<1>3. new = SubSeq(rows, 1, m) /\ m <= Len(rows)
  <2>1. m <= Len(rows)
    BY <1>1
  <2>2. new = SubSeq(rows, 1, m)
    BY <1>2 DEF Top
  <2>3. QED BY <2>1, <2>2
<1>4. QED BY <1>1, <1>3

\* The best first, and no chunk twice.
Sorted(rows) ==
    \A i, j \in 1 .. Len(rows) :
       i < j => rows[i].score >= rows[j].score /\ rows[i].chunk # rows[j].chunk

\* They are of these chunks, with these scores.
Lists(rows, S, score) ==
    /\ rows \in Seq([chunk : S, score : Int]) /\ Sorted(rows) /\ Len(rows) = Cardinality(S)
    /\ \A i \in 1 .. Len(rows) : rows[i].chunk \in S /\ rows[i].score = score[rows[i].chunk]
    /\ \A c \in S : \E i \in 1 .. Len(rows) : rows[i].chunk = c

LEMMA ByScoreSorted ==
    ASSUME NEW S, IsFiniteSet(S), NEW score \in [S -> Int], NEW place \in [S -> Int],
           \A c, d \in S : c # d => place[c] # place[d],
           NEW rows, rows = ByScore(score, place)
    PROVE  Lists(rows, S, score)
<1> DEFINE ahead == [c \in S |-> {d \in S : \/ score[d] > score[c]
                                            \/ score[d] = score[c] /\ place[d] < place[c]}]
           n == Cardinality(S)
<1>1. Orders(ahead)
  <2>1. \A c \in S : ahead[c] \subseteq S /\ c \notin ahead[c]
    OBVIOUS
  <2>2. \A c, d \in S : c # d => c \in ahead[d] \/ d \in ahead[c]
    OBVIOUS
  <2>3. ASSUME NEW c \in S, NEW d \in S, c \in ahead[d] PROVE ahead[c] \subseteq ahead[d]
    BY <2>3
  <2>4. QED BY <2>1, <2>2, <2>3 DEF Orders
<1>2. PICK R : R = Ranked(ahead)
  OBVIOUS
<1>3. /\ n \in Nat /\ R \in [1 .. n -> S]
      /\ \A c \in S : \E k \in 1 .. n : R[k] = c
      /\ \A k, l \in 1 .. n : k < l => R[k] # R[l] /\ R[k] \in ahead[R[l]]
  <2>1. S = DOMAIN ahead
    OBVIOUS
  <2> HIDE DEF ahead
  <2>2. QED BY <1>1, <1>2, <2>1, RankedInOrder
<1>4. rows = [k \in 1 .. n |-> [chunk |-> R[k], score |-> score[R[k]]]]
  <2>1. DOMAIN R = 1 .. n /\ DOMAIN score = S
    BY <1>3
  <2>2. rows = [k \in DOMAIN R |-> [chunk |-> R[k], score |-> score[R[k]]]]
    BY <1>2, <2>1 DEF ByScore
  <2>3. QED BY <2>1, <2>2
<1>5. ASSUME NEW k \in 1 .. n, NEW l \in 1 .. n, k < l
      PROVE  R[k] # R[l] /\ score[R[k]] >= score[R[l]]
  <2>1. PICK c \in S, d \in S : c = R[k] /\ d = R[l] /\ c # d /\ c \in ahead[d]
    BY <1>3, <1>5
  <2>2. score[c] >= score[d]
    BY <2>1
  <2>3. QED BY <2>1, <2>2
<1> HIDE DEF n
<1>6. rows \in Seq([chunk : S, score : Int]) /\ Len(rows) = n
  <2>1. \A k \in 1 .. n : [chunk |-> R[k], score |-> score[R[k]]] \in [chunk : S, score : Int]
    BY <1>3
  <2>2. QED BY <1>3, <1>4, <2>1
<1>7. \A k \in 1 .. n : rows[k].chunk = R[k] /\ R[k] \in S /\ rows[k].score = score[R[k]]
  <2>1. ASSUME NEW k \in 1 .. n PROVE rows[k].chunk = R[k] /\ R[k] \in S /\ rows[k].score = score[R[k]]
    <3>1. rows[k] = [chunk |-> R[k], score |-> score[R[k]]]
      BY <1>4, Zenon
    <3>2. QED BY <1>3, <3>1
  <2>2. QED BY <2>1
<1>8. Sorted(rows)
  <2>1. 1 .. Len(rows) = 1 .. n
    BY <1>6
  <2>2. ASSUME NEW i \in 1 .. n, NEW j \in 1 .. n, i < j
        PROVE  rows[i].score >= rows[j].score /\ rows[i].chunk # rows[j].chunk
    <3>1. rows[i].score = score[R[i]] /\ rows[j].score = score[R[j]]
      BY <1>7
    <3>2. rows[i].chunk = R[i] /\ rows[j].chunk = R[j]
      BY <1>7
    <3>3. QED BY <1>5, <2>2, <3>1, <3>2
  <2>3. QED BY <2>1, <2>2, ZenonT(40) DEF Sorted
<1>9. \A i \in 1 .. Len(rows) : rows[i].chunk \in S /\ rows[i].score = score[rows[i].chunk]
  <2>1. 1 .. Len(rows) = 1 .. n
    BY <1>6
  <2>2. ASSUME NEW i \in 1 .. n
        PROVE  rows[i].chunk \in S /\ rows[i].score = score[rows[i].chunk]
    <3>1. rows[i].chunk = R[i] /\ R[i] \in S /\ rows[i].score = score[R[i]]
      BY <1>7
    <3>2. QED BY <3>1
  <2>3. QED BY <2>1, <2>2, Zenon
<1>10. ASSUME NEW c \in S PROVE \E i \in 1 .. Len(rows) : rows[i].chunk = c
  <2>1. PICK k \in 1 .. n : R[k] = c
    BY <1>3
  <2>2. k \in 1 .. Len(rows)
    BY <1>6
  <2>3. rows[k].chunk = c
    BY <1>7, <2>1
  <2>4. QED BY <2>2, <2>3
<1>11. Len(rows) = Cardinality(S)
  BY <1>6 DEF n
<1>12. QED BY <1>6, <1>8, <1>9, <1>10, <1>11, Zenon DEF Lists

----------------------------------------------------------------------------
(* Rows of chunks *)

Row == [chunk : Chunks, score : Int]

LEMMA BestAt ==
    ASSUME NEW rows \in Seq(Row), NEW places \in SUBSET (1 .. Len(rows)), places # {},
           NEW best, best = Max({rows[i].score : i \in places})
    PROVE  /\ best \in Int
           /\ \E i \in places : rows[i].score = best
           /\ \A i \in places : rows[i].score <= best
<1> DEFINE f == [i \in places |-> rows[i].score]
<1>1. IsFiniteSet({f[i] : i \in places})
  <2>1. IsFiniteSet(places)
    BY IntervalFinite
  <2>2. f = [i \in places |-> f[i]]
    OBVIOUS
  <2> HIDE DEF f
  <2>3. QED BY <2>1, <2>2, RangeFinite
<1>2. PICK S : S = {rows[i].score : i \in places}
  OBVIOUS
<1>3. S \in SUBSET Int /\ S # {}
  <2>1. \A i \in 1 .. Len(rows) : rows[i] \in Row
    OBVIOUS
  <2>2. \A i \in places : rows[i].score \in Int
    BY <2>1 DEF Row
  <2>3. QED BY <1>2, <2>2
<1>4. IsFiniteSet(S)
  <2>1. S = {f[i] : i \in places}
    BY <1>2
  <2>2. QED BY <1>1, <2>1
<1>5. best \in S /\ \A y \in S : y <= best
  BY <1>2, <1>3, <1>4, LargestOf
<1>6. QED BY <1>2, <1>3, <1>5

LEMMA ScoreInIs ==
    ASSUME NEW rows \in Seq(Row), NEW c \in ChunksOf(rows)
    PROVE  /\ ScoreIn(rows, c) \in Int
           /\ \E i \in 1 .. Len(rows) : rows[i].chunk = c /\ rows[i].score = ScoreIn(rows, c)
           /\ \A i \in 1 .. Len(rows) : rows[i].chunk = c => rows[i].score <= ScoreIn(rows, c)
<1> DEFINE places == {i \in 1 .. Len(rows) : rows[i].chunk = c}
<1>1. places \in SUBSET (1 .. Len(rows)) /\ places # {}
  BY DEF ChunksOf, ToSet
<1>2. {r.score : r \in {q \in ToSet(rows) : q.chunk = c}} = {rows[i].score : i \in places}
  BY DEF ToSet
<1>3. ScoreIn(rows, c) = Max({rows[i].score : i \in places})
  BY <1>2 DEF ScoreIn
<1> HIDE DEF places
<1>4. /\ ScoreIn(rows, c) \in Int
      /\ \E i \in places : rows[i].score = ScoreIn(rows, c)
      /\ \A i \in places : rows[i].score <= ScoreIn(rows, c)
  BY <1>1, <1>3, BestAt
<1>5. QED BY <1>4 DEF places

LEMMA BestOfIs ==
    ASSUME NEW rows \in Seq(Row), NEW d \in DocsOf(rows)
    PROVE  /\ BestOf(rows, d) \in Int
           /\ \E i \in 1 .. Len(rows) :
                 DocumentOf[rows[i].chunk] = d /\ rows[i].score = BestOf(rows, d)
           /\ \A i \in 1 .. Len(rows) :
                 DocumentOf[rows[i].chunk] = d => rows[i].score <= BestOf(rows, d)
<1> DEFINE places == {i \in 1 .. Len(rows) : DocumentOf[rows[i].chunk] = d}
<1>1. places \in SUBSET (1 .. Len(rows)) /\ places # {}
  BY DEF DocsOf, ChunksOf, ToSet
<1>2. {r.score : r \in {q \in ToSet(rows) : DocumentOf[q.chunk] = d}} = {rows[i].score : i \in places}
  BY DEF ToSet
<1>3. BestOf(rows, d) = Max({rows[i].score : i \in places})
  BY <1>2 DEF BestOf
<1> HIDE DEF places
<1>4. /\ BestOf(rows, d) \in Int
      /\ \E i \in places : rows[i].score = BestOf(rows, d)
      /\ \A i \in places : rows[i].score <= BestOf(rows, d)
  BY <1>1, <1>3, BestAt
<1>5. QED BY <1>4 DEF places

LEMMA FirstPlaces ==
    ASSUME NEW rows \in Seq(Row)
    PROVE  /\ ChunksOf(rows) \subseteq Chunks /\ IsFiniteSet(ChunksOf(rows))
           /\ FirstPlace(rows) \in [ChunksOf(rows) -> 1 .. Len(rows)]
           /\ \A c \in ChunksOf(rows) : rows[FirstPlace(rows)[c]].chunk = c
           /\ \A c, d \in ChunksOf(rows) : c # d => FirstPlace(rows)[c] # FirstPlace(rows)[d]
<1>1. ChunksOf(rows) \subseteq Chunks
  <2>1. \A r \in ToSet(rows) : r \in Row
    BY DEF ToSet
  <2>2. QED BY <2>1 DEF ChunksOf, Row
<1>2. IsFiniteSet(ChunksOf(rows))
  BY <1>1, RetrievalAssumption, FS_Subset
<1>3. ASSUME NEW c \in ChunksOf(rows)
      PROVE  FirstPlace(rows)[c] \in 1 .. Len(rows) /\ rows[FirstPlace(rows)[c]].chunk = c
  <2> DEFINE places == {i \in DOMAIN rows : rows[i].chunk = c}
  <2>1. places \in SUBSET Nat /\ places # {}
    BY DEF ChunksOf, ToSet
  <2> HIDE DEF places
  <2>2. Min(places) \in places
    BY <2>1, LeastIs
  <2> USE DEF places
  <2>3. FirstPlace(rows)[c] = Min(places)
    BY DEF FirstPlace
  <2> HIDE DEF places
  <2>4. FirstPlace(rows)[c] \in places
    BY <2>2, <2>3
  <2>5. QED BY <2>4 DEF places
<1>4. FirstPlace(rows) = [c \in ChunksOf(rows) |-> FirstPlace(rows)[c]]
  BY DEF FirstPlace
<1>5. FirstPlace(rows) \in [ChunksOf(rows) -> 1 .. Len(rows)]
  BY <1>3, <1>4
<1>6. QED BY <1>1, <1>2, <1>3, <1>5

LEMMA RowsOfSubset ==
    ASSUME NEW S \in SUBSET Chunks, NEW rows \in Seq([chunk : S, score : Int])
    PROVE  rows \in Seq(Row)
<1>1. PICK Kind : Kind = [chunk : S, score : Int]
  OBVIOUS
<1>2. \A r \in Kind : r \in Row
  BY <1>1 DEF Row
<1>3. rows \in Seq(Kind)
  BY <1>1
<1>4. rows = [i \in 1 .. Len(rows) |-> rows[i]] /\ Len(rows) \in Nat
  BY <1>3
<1>5. \A i \in 1 .. Len(rows) : rows[i] \in Row
  <2>1. \A i \in 1 .. Len(rows) : rows[i] \in Kind
    BY <1>3
  <2>2. QED BY <1>2, <2>1
<1>6. QED BY <1>4, <1>5

RowsAmong(documents) ==
    {rows \in Seq(Row) : \A i \in 1 .. Len(rows) : DocumentOf[rows[i].chunk] \in documents}

LEMMA TopAmong ==
    ASSUME NEW D, NEW rows \in RowsAmong(D), NEW n \in Nat
    PROVE  Top(rows, n) \in RowsAmong(D)
<1>1. PICK new : new = Top(rows, n)
  OBVIOUS
<1>2. rows \in Seq(Row) /\ \A i \in 1 .. Len(rows) : DocumentOf[rows[i].chunk] \in D
  BY DEF RowsAmong
<1>3. /\ new \in Seq(Row) /\ Len(new) <= Len(rows)
      /\ \A i \in 1 .. Len(new) : new[i] = rows[i]
  BY <1>1, <1>2, TopIs
<1>4. \A i \in 1 .. Len(new) : DocumentOf[new[i].chunk] \in D
  BY <1>2, <1>3
<1>5. QED BY <1>1, <1>3, <1>4 DEF RowsAmong

LEMMA ByScoreAmong ==
    ASSUME NEW D, NEW S \in SUBSET Chunks, \A c \in S : DocumentOf[c] \in D,
           NEW score \in [S -> Int], NEW place \in [S -> Int],
           \A c, d \in S : c # d => place[c] # place[d]
    PROVE  ByScore(score, place) \in RowsAmong(D)
<1>1. PICK rows : rows = ByScore(score, place)
  OBVIOUS
<1>2. IsFiniteSet(S)
  BY RetrievalAssumption, FS_Subset
<1>3. rows \in Seq([chunk : S, score : Int])
  BY <1>1, <1>2, ByScoreSorted DEF Lists
<1>4. PICK Kind : Kind = [chunk : S, score : Int]
  OBVIOUS
<1>5. \A r \in Kind : r \in Row /\ DocumentOf[r.chunk] \in D
  BY <1>4 DEF Row
<1>6. rows \in Seq(Kind)
  BY <1>3, <1>4
<1>7. \A i \in 1 .. Len(rows) : rows[i] \in Row /\ DocumentOf[rows[i].chunk] \in D
  <2>1. \A i \in 1 .. Len(rows) : rows[i] \in Kind
    BY <1>6
  <2>2. QED BY <1>5, <2>1
<1>8. rows \in Seq(Row)
  <2>1. rows = [i \in 1 .. Len(rows) |-> rows[i]] /\ Len(rows) \in Nat
    BY <1>6
  <2>2. QED BY <1>7, <2>1
<1>9. QED BY <1>1, <1>7, <1>8 DEF RowsAmong

LEMMA HitsAmong ==
    ASSUME NEW context, NEW score \in Scores
    PROVE  Hits(context, score) \in RowsAmong(context.allowed)
<1> DEFINE S == {c \in Chunks : score[c] > 0 /\ DocumentOf[c] \in context.allowed}
           scored == [c \in S |-> score[c] * Scale]
           place == [c \in S |-> c]
<1>1. score \in [Chunks -> Nat] /\ Scale \in Nat /\ Chunks \subseteq Nat
  BY RetrievalAssumption
<1>2. S \in SUBSET Chunks /\ \A c \in S : DocumentOf[c] \in context.allowed
  OBVIOUS
<1>3. \A c \in S : score[c] * Scale \in Int
  <2>1. \A c \in S : score[c] \in Int
    BY <1>1, <1>2
  <2>2. \A x \in Int : x * Scale \in Int
    BY <1>1
  <2>3. QED BY <2>1, <2>2
<1>4. scored \in [S -> Int] /\ place \in [S -> Int]
  <2>1. \A c \in S : c \in Int
    BY <1>1
  <2> HIDE DEF S
  <2>2. QED BY <1>3, <2>1
<1>5. \A c, d \in S : c # d => place[c] # place[d]
  OBVIOUS
<1>6. Hits(context, score) = Top(ByScore(scored, place), RetrieverTopK)
  BY DEF Hits
<1> HIDE DEF S, scored, place
<1>7. ByScore(scored, place) \in RowsAmong(context.allowed)
  BY <1>2, <1>4, <1>5, ByScoreAmong
<1>8. QED BY <1>6, <1>7, TopAmong, RetrievalAssumption

LEMMA ShareIsNumber ==
    ASSUME NEW rows \in Seq(Row), NEW weight \in Int, NEW c
    PROVE  ShareOf(Group(rows, weight), c) \in Int
<1>1. CASE c \notin ChunksOf(rows)
  BY <1>1 DEF ShareOf, Group
<1>2. CASE c \in ChunksOf(rows)
  <2>1. PICK k \in Nat \ {0} : k = RrfConstant + FirstPlace(rows)[c]
    <3>1. FirstPlace(rows)[c] \in 1 .. Len(rows)
      BY <1>2, FirstPlaces
    <3>2. QED BY <3>1, RetrievalAssumption
  <2>2. Scale \div k \in Int
    BY RetrievalAssumption
  <2>3. ShareOf(Group(rows, weight), c) = weight * (Scale \div k)
    BY <1>2, <2>1 DEF ShareOf, Group
  <2>4. QED BY <2>2, <2>3
<1>3. QED BY <1>1, <1>2

LEMMA RrfAmong ==
    ASSUME NEW D, NEW one \in RowsAmong(D), NEW two \in RowsAmong(D), NEW v \in Int, NEW w \in Int
    PROVE  Rrf(Group(one, v), Group(two, w)) \in RowsAmong(D)
<1>1. PICK rows : rows = one \o two
  OBVIOUS
<1>2. one \in Seq(Row) /\ two \in Seq(Row)
  BY DEF RowsAmong
<1>3. rows \in Seq(Row) /\ Joins(rows, one, two)
  BY <1>1, <1>2, Concatenated
<1>4. \A i \in 1 .. Len(rows) : DocumentOf[rows[i].chunk] \in D
  <2>1. ASSUME NEW i \in 1 .. Len(rows) PROVE DocumentOf[rows[i].chunk] \in D
    <3>1. CASE i \in 1 .. Len(one) /\ rows[i] = one[i]
      BY <3>1 DEF RowsAmong
    <3>2. CASE i - Len(one) \in 1 .. Len(two) /\ rows[i] = two[i - Len(one)]
      BY <3>2 DEF RowsAmong
    <3>3. QED BY <1>3, <3>1, <3>2 DEF Joins
  <2>2. QED BY <2>1
<1>5. PICK S : S = ChunksOf(rows)
  OBVIOUS
<1>6. S \in SUBSET Chunks /\ \A c \in S : DocumentOf[c] \in D
  <2>1. \A c \in S : \E i \in 1 .. Len(rows) : rows[i].chunk = c
    BY <1>3, <1>5 DEF ChunksOf, ToSet
  <2>2. QED BY <1>3, <1>4, <1>5, <2>1, FirstPlaces
<1> DEFINE score == [c \in S |-> ShareOf(Group(one, v), c) + ShareOf(Group(two, w), c)]
<1>7. score \in [S -> Int]
  <2>1. \A c \in S : ShareOf(Group(one, v), c) \in Int /\ ShareOf(Group(two, w), c) \in Int
    BY <1>2, ShareIsNumber
  <2>2. QED BY <2>1
<1>8. PICK place \in [S -> Int] : /\ place = FirstPlace(rows)
                                 /\ \A c, d \in S : c # d => place[c] # place[d]
  <2>1. /\ FirstPlace(rows) \in [S -> 1 .. Len(rows)]
        /\ \A c, d \in S : c # d => FirstPlace(rows)[c] # FirstPlace(rows)[d]
    BY <1>3, <1>5, FirstPlaces
  <2>2. FirstPlace(rows) \in [S -> Int]
    BY <2>1
  <2>3. QED BY <2>1, <2>2
<1>9. Rrf(Group(one, v), Group(two, w)) = ByScore(score, place)
  <2>1. Group(one, v).rows \o Group(two, w).rows = rows
    BY <1>1 DEF Group
  <2>2. QED BY <1>5, <1>8, <2>1 DEF Rrf
<1> HIDE DEF score
<1>10. QED BY <1>6, <1>7, <1>8, <1>9, ByScoreAmong

LEMMA HybridAmong ==
    ASSUME NEW context, NEW near \in Scores, NEW term \in Scores
    PROVE  Hybrid(context, near, term) \in RowsAmong(context.allowed)
BY HitsAmong, RrfAmong DEF Hybrid, VectorHits, KeywordHits

LEMMA CascadingAmong ==
    ASSUME NEW context, NEW near \in Scores, NEW term \in Scores, NEW expanded \in Scores
    PROVE  /\ Cascading(context, near, term, expanded).rows \in RowsAmong(context.allowed)
           /\ Cascading(context, near, term, expanded).stages \in Seq(1 .. 3)
<1> DEFINE first == KeywordHits(context, term)
           more == IF context.settings.query_expansion THEN KeywordHits(context, expanded) ELSE first
           fallback == Rrf(Group(VectorHits(context, near), 3),
                           Group(IF more = <<>> THEN first ELSE more, 7))
           second == IF context.settings.query_expansion THEN <<2>> ELSE <<>>
<1>1. first \in RowsAmong(context.allowed) /\ more \in RowsAmong(context.allowed)
  BY HitsAmong DEF KeywordHits
<1>2. fallback \in RowsAmong(context.allowed)
  <2>1. VectorHits(context, near) \in RowsAmong(context.allowed)
    BY HitsAmong DEF VectorHits
  <2>2. PICK rest : rest = IF more = <<>> THEN first ELSE more
    OBVIOUS
  <2>3. rest \in RowsAmong(context.allowed)
    BY <1>1, <2>2
  <2>4. Rrf(Group(VectorHits(context, near), 3), Group(rest, 7)) \in RowsAmong(context.allowed)
    BY <2>1, <2>3, RrfAmong
  <2>5. QED BY <2>2, <2>4
<1>3. <<1>> \in Seq(1 .. 3) /\ <<1, 2>> \in Seq(1 .. 3) /\ <<1>> \o second \o <<3>> \in Seq(1 .. 3)
  <2>1. <<1>> \in Seq(1 .. 3) /\ <<3>> \in Seq(1 .. 3) /\ second \in Seq(1 .. 3)
    <3>1. /\ <<1>> \in Seq(1 .. 3) /\ <<3>> \in Seq(1 .. 3)
          /\ <<2>> \in Seq(1 .. 3) /\ <<>> \in Seq(1 .. 3)
      OBVIOUS
    <3>2. second = <<2>> \/ second = <<>>
      OBVIOUS
    <3> HIDE DEF second
    <3>3. QED BY <3>1, <3>2
  <2> HIDE DEF second
  <2>2. <<1>> \o second \in Seq(1 .. 3)
    BY <2>1, ConcatProperties
  <2>3. QED BY <2>1, <2>2, ConcatProperties
<1>4. Cascading(context, near, term, expanded) =
         IF Sufficient(first) THEN [rows |-> first, stages |-> <<1>>]
         ELSE IF second # <<>> /\ Sufficient(more)
         THEN [rows |-> more, stages |-> <<1, 2>>]
         ELSE [rows |-> fallback, stages |-> <<1>> \o second \o <<3>>]
  BY DEF Cascading
<1> HIDE DEF first, more, fallback, second
<1>5. PICK found : found = Cascading(context, near, term, expanded)
  OBVIOUS
<1>6. \/ found = [rows |-> first, stages |-> <<1>>]
      \/ found = [rows |-> more, stages |-> <<1, 2>>]
      \/ found = [rows |-> fallback, stages |-> <<1>> \o second \o <<3>>]
  <2>1. CASE Sufficient(first)
    BY <1>4, <1>5, <2>1, Zenon
  <2>2. CASE ~Sufficient(first) /\ second # <<>> /\ Sufficient(more)
    BY <1>4, <1>5, <2>2, Zenon
  <2>3. CASE ~Sufficient(first) /\ ~(second # <<>> /\ Sufficient(more))
    BY <1>4, <1>5, <2>3, Zenon
  <2>4. QED BY <2>1, <2>2, <2>3
<1>7. found.rows \in RowsAmong(context.allowed)
  BY <1>1, <1>2, <1>6
<1>8. found.stages \in Seq(1 .. 3)
  <2>1. PICK s \in Seq(1 .. 3) : s = <<1>> \o second \o <<3>>
    BY <1>3
  <2>2. found.stages = <<1>> \/ found.stages = <<1, 2>> \/ found.stages = s
    BY <1>6, <2>1
  <2>3. QED BY <1>3, <2>2
<1>9. QED BY <1>5, <1>7, <1>8

LEMMA OriginalAmong ==
    ASSUME NEW context, NEW near \in Scores, NEW term \in Scores, NEW expanded \in Scores,
           NEW found, found = Original(context, near, term, expanded)
    PROVE  /\ found.rows \in RowsAmong(context.allowed) /\ found.stages \in Seq(1 .. 3)
           /\ found.stages # <<>> => context.settings.search_mode = "cascading"
<1>1. CASE context.settings.search_mode = "cascading"
  <2>1. found = Cascading(context, near, term, expanded)
    BY <1>1 DEF Original
  <2>2. QED BY <1>1, <2>1, CascadingAmong
<1>2. CASE context.settings.search_mode # "cascading"
  <2>1. \/ found = [rows |-> VectorHits(context, near), stages |-> <<>>]
        \/ found = [rows |-> KeywordHits(context, term), stages |-> <<>>]
        \/ found = [rows |-> Hybrid(context, near, term), stages |-> <<>>]
    BY <1>2 DEF Original
  <2>2. <<>> \in Seq(1 .. 3)
    OBVIOUS
  <2>3. /\ VectorHits(context, near) \in RowsAmong(context.allowed)
        /\ KeywordHits(context, term) \in RowsAmong(context.allowed)
    BY HitsAmong DEF VectorHits, KeywordHits
  <2>4. Hybrid(context, near, term) \in RowsAmong(context.allowed)
    BY HybridAmong
  <2>5. found.stages = <<>> /\ found.rows \in RowsAmong(context.allowed)
    BY <2>1, <2>3, <2>4
  <2>6. QED BY <2>2, <2>5
<1>3. QED BY <1>1, <1>2

----------------------------------------------------------------------------
(* The steps of a pipeline, as what they leave of a context. *)

Names == StepIds \union {"variant"}
         \union UNION {{n.name : n \in ToSet(Declared[mode].names)} : mode \in DOMAIN Declared}
Entry == [stage : Nat, name : Names]

Context ==
    [settings : Settings, next : Nat \ {0}, status : {"running", "ended", "failed"},
     allowed : SUBSET Nat, queries : Nat \ {0}, batches : Seq(Seq(Row)), stages : Seq(1 .. 3),
     results : Seq(Row), live : SUBSET Nat, reranked : BOOLEAN,
     gate : {"pass", "soft_fail", "hard_fail"}, trace : Seq(Entry)]

\* The batches a search may leave.
Searched(p, batches, stages) ==
    /\ batches \in Seq(RowsAmong(p.allowed)) /\ Len(batches) = p.queries
    /\ stages \in Seq(1 .. 3)
    /\ stages # <<>> => p.settings.search_mode = "cascading"

LEMMA FirstSearched ==
    ASSUME NEW p \in Context, NEW first \in Firsts(p), NEW others \in [1 .. p.queries - 1 -> Variants(p)]
    PROVE  Searched(p, <<first.rows>> \o others, first.stages)
<1>1. PICK A : A = RowsAmong(p.allowed)
  OBVIOUS
<1>2. \A v \in Variants(p) : v \in A
  BY <1>1, HybridAmong DEF Variants
<1>3. /\ first.rows \in A /\ first.stages \in Seq(1 .. 3)
      /\ first.stages # <<>> => p.settings.search_mode = "cascading"
  <2>1. PICK near \in Scores, term \in Scores, expanded \in Scores :
           first = Original(p, near, term, expanded)
    BY DEF Firsts
  <2>2. QED BY <1>1, <2>1, OriginalAmong, Zenon
<1>4. PICK n \in Nat : p.queries - 1 = n /\ p.queries = 1 + n
  <2>1. p.queries \in Nat \ {0}
    BY DEF Context
  <2>2. QED BY <2>1
<1>5. others \in Seq(A) /\ Len(others) = n
  <2>1. PICK V : V = Variants(p)
    OBVIOUS
  <2>2. others \in [1 .. n -> V] /\ \A v \in V : v \in A
    BY <1>2, <1>4, <2>1
  <2>3. QED BY <2>2
<1>6. PICK one \in Seq(A) : one = <<first.rows>> /\ Len(one) = 1
  <2>1. PICK r \in A : r = first.rows
    BY <1>3
  <2>2. <<r>> \in Seq(A) /\ Len(<<r>>) = 1
    OBVIOUS
  <2>3. QED BY <2>1, <2>2
<1>7. one \o others \in Seq(A) /\ Len(one \o others) = Len(one) + Len(others)
  BY <1>5, <1>6, Concatenated DEF Joins
<1>8. QED BY <1>1, <1>3, <1>4, <1>5, <1>6, <1>7 DEF Searched

LEMMA ModeSearchSearches ==
    ASSUME NEW p \in Context, NEW q \in ModeSearch(p)
    PROVE  \/ q = [p EXCEPT !.status = "failed"]
           \/ \E batches, stages : /\ Searched(p, batches, stages)
                                   /\ q = [p EXCEPT !.stages = stages, !.batches = batches]
<1>1. \/ q = [p EXCEPT !.status = "failed"]
      \/ \E first \in Firsts(p) : q \in Completed(p, first)
  BY DEF ModeSearch
<1>2. ASSUME NEW first \in Firsts(p), q \in Completed(p, first)
      PROVE  \E batches, stages : /\ Searched(p, batches, stages)
                                  /\ q = [p EXCEPT !.stages = stages, !.batches = batches]
  <2>1. PICK others \in [1 .. p.queries - 1 -> Variants(p)] :
           q = [p EXCEPT !.stages = first.stages, !.batches = <<first.rows>> \o others]
    BY <1>2 DEF Completed
  <2>2. Searched(p, <<first.rows>> \o others, first.stages)
    BY FirstSearched
  <2>3. QED BY <2>1, <2>2
<1>3. QED BY <1>1, <1>2

\* The batches that have a chunk, and its best score in them.
FoundIn(batches, c) == {b \in ToSet(batches) : \E r \in ToSet(b) : r.chunk = c}
BestIn(batches, c) == Max({ScoreIn(b, c) : b \in FoundIn(batches, c)})

LEMMA BestInIs ==
    ASSUME NEW batches \in Seq(Seq(Row)), NEW c, FoundIn(batches, c) # {}
    PROVE  /\ BestIn(batches, c) \in Int
           /\ \E b \in 1 .. Len(batches) : \E i \in 1 .. Len(batches[b]) :
                 batches[b][i].chunk = c /\ batches[b][i].score = BestIn(batches, c)
           /\ \A b \in 1 .. Len(batches) : \A i \in 1 .. Len(batches[b]) :
                 batches[b][i].chunk = c => batches[b][i].score <= BestIn(batches, c)
<1> DEFINE P == {b \in 1 .. Len(batches) : \E i \in 1 .. Len(batches[b]) : batches[b][i].chunk = c}
           f == [b \in P |-> ScoreIn(batches[b], c)]
<1>1. \A b \in 1 .. Len(batches) : batches[b] \in Seq(Row)
  OBVIOUS
<1>2. \A b \in 1 .. Len(batches) :
         batches[b] \in FoundIn(batches, c) <=> \E i \in 1 .. Len(batches[b]) : batches[b][i].chunk = c
  <2>1. ASSUME NEW b \in 1 .. Len(batches)
        PROVE  batches[b] \in ToSet(batches) /\ batches[b] \in Seq(Row)
    BY <1>1 DEF ToSet
  <2>2. ASSUME NEW rows \in Seq(Row)
        PROVE  (\E r \in ToSet(rows) : r.chunk = c) <=> \E i \in 1 .. Len(rows) : rows[i].chunk = c
    <3>1. ToSet(rows) = {rows[i] : i \in 1 .. Len(rows)}
      BY DEF ToSet
    <3>2. QED BY <3>1
  <2>3. QED BY <2>1, <2>2 DEF FoundIn
<1>3. FoundIn(batches, c) = {batches[b] : b \in P}
  <2>1. \A x \in FoundIn(batches, c) : \E b \in 1 .. Len(batches) : x = batches[b]
    BY DEF FoundIn, ToSet
  <2>2. QED BY <1>2, <2>1
<1>4. \A b \in P : c \in ChunksOf(batches[b])
  BY <1>1 DEF ChunksOf, ToSet
<1>5. {ScoreIn(b, c) : b \in FoundIn(batches, c)} = {f[b] : b \in P}
  <2>1. {ScoreIn(b, c) : b \in FoundIn(batches, c)} = {ScoreIn(batches[b], c) : b \in P}
    <3> HIDE DEF P
    <3>1. QED BY <1>3
  <2>2. \A b \in P : f[b] = ScoreIn(batches[b], c)
    OBVIOUS
  <2> HIDE DEF f, P
  <2>3. QED BY <2>1, <2>2
<1>6. IsFiniteSet({f[b] : b \in P})
  <2>1. IsFiniteSet(P)
    BY IntervalFinite
  <2>2. f = [b \in P |-> f[b]]
    OBVIOUS
  <2> HIDE DEF f, P
  <2>3. QED BY <2>1, <2>2, RangeFinite
<1>7. ASSUME NEW b \in P
      PROVE  /\ f[b] \in Int
             /\ \E i \in 1 .. Len(batches[b]) : batches[b][i].chunk = c /\ batches[b][i].score = f[b]
             /\ \A i \in 1 .. Len(batches[b]) : batches[b][i].chunk = c => batches[b][i].score <= f[b]
  BY <1>1, <1>4, ScoreInIs
<1>8. P # {}
  BY <1>3
<1>9. P \subseteq 1 .. Len(batches)
  OBVIOUS
<1>10. \A b \in 1 .. Len(batches) : \A i \in 1 .. Len(batches[b]) : batches[b][i].chunk = c => b \in P
  OBVIOUS
<1>11. PICK S \in SUBSET Int : S = {f[b] : b \in P} /\ S # {} /\ IsFiniteSet(S)
  <2> HIDE DEF f, P
  <2>1. QED BY <1>6, <1>7, <1>8
<1>12. Max(S) \in S /\ \A y \in S : y <= Max(S)
  BY <1>11, LargestOf
<1>13. BestIn(batches, c) = Max(S)
  BY <1>5, <1>11 DEF BestIn
<1> HIDE DEF f, P
<1>14. PICK m \in P : Max(S) = f[m] /\ \A b \in P : f[b] <= f[m]
  BY <1>11, <1>12
<1>15. \A b \in P : \A i \in 1 .. Len(batches[b]) :
          batches[b][i].chunk = c => batches[b][i].score <= f[b] /\ batches[b][i].score \in Int
  <2>1. \A b \in P : \A i \in 1 .. Len(batches[b]) : batches[b][i] \in Row
    BY <1>1, <1>9
  <2>2. QED BY <1>7, <2>1 DEF Row
<1>16. \A b \in P : \A i \in 1 .. Len(batches[b]) : batches[b][i].chunk = c => batches[b][i].score <= f[m]
  BY <1>7, <1>14, <1>15, SMTT(30)
<1>17. QED BY <1>7, <1>9, <1>10, <1>13, <1>14, <1>16

\* It has what the first n have.
HasAll(flat, seqs, n) ==
    /\ \A k \in 1 .. Len(flat) : \E s \in 1 .. n : \E i \in 1 .. Len(seqs[s]) :
          flat[k] = seqs[s][i]
    /\ \A s \in 1 .. n : \A i \in 1 .. Len(seqs[s]) :
          \E k \in 1 .. Len(flat) : flat[k] = seqs[s][i]

LEMMA FlattenedRows ==
    ASSUME NEW A, NEW seqs \in Seq(Seq(A)), NEW flat, flat = FlattenSeq(seqs)
    PROVE  flat \in Seq(A) /\ HasAll(flat, seqs, Len(seqs))
<1> DEFINE N == Len(seqs)
<1>1. N \in Nat /\ \A s \in 1 .. N : seqs[s] \in Seq(A)
  OBVIOUS
<1>2. CASE N = 0
  <2>1. flat = seqs /\ seqs = <<>>
    BY <1>2 DEF FlattenSeq
  <2>2. QED BY <2>1, <1>2 DEF HasAll
<1>3. CASE N # 0
  <2>1. PICK f : IsFlattening(f, seqs, N) /\ flat = f[N]
    BY <1>1, <1>3, FlattenSeqFlattens
  <2>2. \A t \in 1 .. N : \A s \in 1 .. t : f[s] \in Seq(A) /\ Begins(f[s], f[t])
    BY <1>1, <1>3, <2>1, FlatteningGrows
  <2> HIDE DEF N
  <2>3. \A t \in 1 .. N : f[t] \in Seq(A)
    BY <2>2
  <2> DEFINE Parted(t) == HasAll(f[t], seqs, t)
             S == {n \in Nat : n + 1 \in 1 .. N => Parted(n + 1)}
  <2>4. Parted(1)
    <3>1. f[1] = seqs[1]
      BY <1>1, <1>3, <2>1 DEF IsFlattening
    <3>2. QED BY <3>1 DEF HasAll
  <2>5. ASSUME NEW t \in 1 .. N, t + 1 \in 1 .. N, Parted(t) PROVE Parted(t + 1)
    <3>1. PICK u \in Seq(A), v \in Seq(A), w \in Seq(A) : u = f[t] /\ v = seqs[t + 1] /\ w = f[t + 1]
      BY <1>1, <2>3, <2>5
    <3>2. w = u \o v
      <4>1. t + 1 # 1 /\ (t + 1) - 1 = t
        OBVIOUS
      <4>2. f[t + 1] = IF t + 1 = 1 THEN seqs[t + 1] ELSE f[(t + 1) - 1] \o seqs[t + 1]
        BY <2>1, <2>5 DEF IsFlattening
      <4>3. QED BY <3>1, <4>1, <4>2
    <3>3. Joins(w, u, v)
      BY <3>1, <3>2, Concatenated
    <3>4. ASSUME NEW k \in 1 .. Len(w)
          PROVE  \E s \in 1 .. t + 1 : \E i \in 1 .. Len(seqs[s]) : w[k] = seqs[s][i]
      <4>1. CASE k \in 1 .. Len(u) /\ w[k] = u[k]
        <5>1. k \in 1 .. Len(f[t]) /\ w[k] = f[t][k]
          BY <3>1, <4>1
        <5>2. PICK s \in 1 .. t : \E i \in 1 .. Len(seqs[s]) : f[t][k] = seqs[s][i]
          BY <2>5, <5>1 DEF HasAll
        <5>3. s \in 1 .. t + 1
          OBVIOUS
        <5>4. QED BY <5>1, <5>2, <5>3
      <4>2. CASE k - Len(u) \in 1 .. Len(v) /\ w[k] = v[k - Len(u)]
        <5>1. t + 1 \in 1 .. t + 1
          OBVIOUS
        <5>2. QED BY <3>1, <4>2, <5>1
      <4>3. QED BY <3>3, <4>1, <4>2 DEF Joins
    <3>5. ASSUME NEW s \in 1 .. t + 1, NEW i \in 1 .. Len(seqs[s])
          PROVE  \E k \in 1 .. Len(w) : w[k] = seqs[s][i]
      <4>1. CASE s = t + 1
        <5>1. i \in 1 .. Len(v) /\ seqs[s][i] = v[i]
          BY <3>1, <4>1
        <5>2. Len(u) + i \in 1 .. Len(w) /\ w[Len(u) + i] = v[i]
          BY <3>3, <5>1 DEF Joins
        <5>3. QED BY <5>1, <5>2
      <4>2. CASE s # t + 1
        <5>1. s \in 1 .. t
          BY <4>2
        <5>2. PICK k \in 1 .. Len(u) : u[k] = seqs[s][i]
          BY <2>5, <3>1, <5>1 DEF HasAll
        <5>3. k \in 1 .. Len(w) /\ w[k] = u[k]
          BY <3>3 DEF Joins
        <5>4. QED BY <5>2, <5>3
      <4>3. QED BY <4>1, <4>2
    <3>6. QED BY <3>1, <3>4, <3>5 DEF HasAll
  <2> HIDE DEF Parted
  <2>6. 0 \in S
    BY <2>4
  <2>7. ASSUME NEW n \in Nat, n \in S PROVE n + 1 \in S
    <3>1. ASSUME (n + 1) + 1 \in 1 .. N PROVE Parted((n + 1) + 1)
      <4>1. n + 1 \in 1 .. N
        BY <1>1, <3>1
      <4>2. QED BY <2>5, <2>7, <3>1, <4>1
    <3>2. QED BY <3>1
  <2> HIDE DEF S
  <2>8. Nat \subseteq S
    BY <2>6, <2>7, SetInduction
  <2>9. Parted(N)
    <3>1. N - 1 \in Nat /\ (N - 1) + 1 = N
      BY <1>1, <1>3
    <3>2. N - 1 \in S
      BY <2>8, <3>1
    <3>3. QED BY <1>1, <1>3, <3>1, <3>2 DEF S
  <2>10. N \in 1 .. N
    BY <1>1, <1>3
  <2>11. QED BY <2>1, <2>3, <2>9, <2>10 DEF Parted, N
<1>4. QED BY <1>2, <1>3

\* It has all that was found, with its best score.
Merges(new, batches) ==
    /\ \A i \in 1 .. Len(new) : /\ FoundIn(batches, new[i].chunk) # {}
                                /\ new[i].score = BestIn(batches, new[i].chunk)
    /\ \A c : FoundIn(batches, c) # {} => \E i \in 1 .. Len(new) : new[i].chunk = c

LEMMA MergedRows ==
    ASSUME NEW batches \in Seq(Seq(Row)), NEW rows, rows = FlattenSeq(batches),
           NEW new, new = ByScore([c \in ChunksOf(rows) |-> ScoreIn(rows, c)], FirstPlace(rows))
    PROVE  new \in Seq(Row) /\ Sorted(new) /\ Merges(new, batches)
<1> DEFINE score == [c \in ChunksOf(rows) |-> ScoreIn(rows, c)]
<1>1. /\ rows \in Seq(Row)
      /\ \A k \in 1 .. Len(rows) : \E b \in 1 .. Len(batches) : \E i \in 1 .. Len(batches[b]) :
            rows[k] = batches[b][i]
      /\ \A b \in 1 .. Len(batches) : \A i \in 1 .. Len(batches[b]) :
            \E k \in 1 .. Len(rows) : rows[k] = batches[b][i]
  <2>1. rows \in Seq(Row) /\ HasAll(rows, batches, Len(batches))
    BY FlattenedRows
  <2>2. QED BY <2>1 DEF HasAll
<1>2. \A c : c \in ChunksOf(rows) <=> \E k \in 1 .. Len(rows) : rows[k].chunk = c
  BY <1>1 DEF ChunksOf, ToSet
<1>3. \A c : FoundIn(batches, c) # {} <=>
         \E b \in 1 .. Len(batches) : \E i \in 1 .. Len(batches[b]) : batches[b][i].chunk = c
  <2>1. \A b \in 1 .. Len(batches) : batches[b] \in Seq(Row)
    OBVIOUS
  <2>2. ASSUME NEW c, FoundIn(batches, c) # {}
        PROVE  \E b \in 1 .. Len(batches) : \E i \in 1 .. Len(batches[b]) : batches[b][i].chunk = c
    <3>1. PICK x \in ToSet(batches) : \E r \in ToSet(x) : r.chunk = c
      BY <2>2 DEF FoundIn
    <3>2. PICK b \in 1 .. Len(batches) : x = batches[b]
      BY <3>1 DEF ToSet
    <3>3. PICK i \in 1 .. Len(x) : x[i].chunk = c
      BY <2>1, <3>1, <3>2 DEF ToSet
    <3>4. QED BY <3>2, <3>3
  <2>3. ASSUME NEW c, NEW b \in 1 .. Len(batches), NEW i \in 1 .. Len(batches[b]), batches[b][i].chunk = c
        PROVE  FoundIn(batches, c) # {}
    <3>1. batches[b] \in ToSet(batches)
      BY DEF ToSet
    <3>2. batches[b][i] \in ToSet(batches[b])
      BY <2>1 DEF ToSet
    <3>3. QED BY <2>3, <3>1, <3>2 DEF FoundIn
  <2>4. QED BY <2>2, <2>3
<1>4. ASSUME NEW c PROVE c \in ChunksOf(rows) <=> FoundIn(batches, c) # {}
  <2>1. ASSUME c \in ChunksOf(rows) PROVE FoundIn(batches, c) # {}
    <3>1. PICK k \in 1 .. Len(rows) : rows[k].chunk = c
      BY <1>2, <2>1
    <3>2. PICK b \in 1 .. Len(batches) : \E i \in 1 .. Len(batches[b]) : rows[k] = batches[b][i]
      BY <1>1
    <3>3. QED BY <1>3, <3>1, <3>2
  <2>2. ASSUME FoundIn(batches, c) # {} PROVE c \in ChunksOf(rows)
    <3>1. PICK b \in 1 .. Len(batches) : \E i \in 1 .. Len(batches[b]) : batches[b][i].chunk = c
      BY <1>3, <2>2
    <3>2. PICK i \in 1 .. Len(batches[b]) : batches[b][i].chunk = c
      BY <3>1
    <3>3. PICK k \in 1 .. Len(rows) : rows[k] = batches[b][i]
      BY <1>1
    <3>4. QED BY <1>2, <3>2, <3>3
  <2>3. QED BY <2>1, <2>2
<1>5. ASSUME NEW c \in ChunksOf(rows) PROVE ScoreIn(rows, c) = BestIn(batches, c)
  <2>1. PICK s \in Int, t \in Int : s = ScoreIn(rows, c) /\ t = BestIn(batches, c)
    BY <1>1, <1>4, ScoreInIs, BestInIs
  <2>2. s <= t
    <3>1. PICK k \in 1 .. Len(rows) : rows[k].chunk = c /\ rows[k].score = s
      BY <1>1, <2>1, ScoreInIs
    <3>2. PICK b \in 1 .. Len(batches) : \E i \in 1 .. Len(batches[b]) : rows[k] = batches[b][i]
      BY <1>1
    <3>3. PICK i \in 1 .. Len(batches[b]) : rows[k] = batches[b][i]
      BY <3>2
    <3>4. batches[b][i].score <= t
      BY <1>4, <2>1, <3>1, <3>3, BestInIs
    <3>5. QED BY <3>1, <3>3, <3>4
  <2>3. t <= s
    <3>1. PICK b \in 1 .. Len(batches) : \E i \in 1 .. Len(batches[b]) :
             batches[b][i].chunk = c /\ batches[b][i].score = t
      BY <1>4, <2>1, BestInIs
    <3>2. PICK i \in 1 .. Len(batches[b]) : batches[b][i].chunk = c /\ batches[b][i].score = t
      BY <3>1
    <3>3. PICK k \in 1 .. Len(rows) : rows[k] = batches[b][i]
      BY <1>1
    <3>4. rows[k].score <= s
      BY <1>1, <2>1, <3>2, <3>3, ScoreInIs
    <3>5. QED BY <3>2, <3>3, <3>4
  <2>4. QED BY <2>1, <2>2, <2>3
<1>6. PICK S : S = ChunksOf(rows)
  OBVIOUS
<1>7. score \in [S -> Int]
  BY <1>1, <1>6, ScoreInIs
<1>8. PICK place \in [S -> Int] : /\ place = FirstPlace(rows)
                                 /\ \A c, d \in S : c # d => place[c] # place[d]
  <2>1. /\ FirstPlace(rows) \in [S -> 1 .. Len(rows)]
        /\ \A c, d \in S : c # d => FirstPlace(rows)[c] # FirstPlace(rows)[d]
    BY <1>1, <1>6, FirstPlaces
  <2>2. FirstPlace(rows) \in [S -> Int]
    BY <2>1
  <2>3. QED BY <2>1, <2>2
<1>9. S \subseteq Chunks /\ IsFiniteSet(S)
  BY <1>1, <1>6, FirstPlaces
<1>10. new = ByScore(score, place)
  BY <1>8
<1>11. \A c \in S : score[c] = BestIn(batches, c)
  BY <1>5, <1>6
<1> HIDE DEF score
<1>12. Lists(new, S, score)
  BY <1>7, <1>8, <1>9, <1>10, ByScoreSorted
<1>13. /\ new \in Seq([chunk : S, score : Int]) /\ Sorted(new)
       /\ \A i \in 1 .. Len(new) : new[i].chunk \in S /\ new[i].score = score[new[i].chunk]
       /\ \A c \in S : \E i \in 1 .. Len(new) : new[i].chunk = c
  BY <1>12, Zenon DEF Lists
<1>14. new \in Seq(Row)
  BY <1>9, <1>13, RowsOfSubset
<1>15. \A i \in 1 .. Len(new) : /\ FoundIn(batches, new[i].chunk) # {}
                                /\ new[i].score = BestIn(batches, new[i].chunk)
  <2>1. ASSUME NEW i \in 1 .. Len(new)
        PROVE  FoundIn(batches, new[i].chunk) # {} /\ new[i].score = BestIn(batches, new[i].chunk)
    <3>1. PICK c \in S : c = new[i].chunk /\ new[i].score = score[c]
      BY <1>13, ZenonT(40)
    <3>2. FoundIn(batches, c) # {} /\ score[c] = BestIn(batches, c)
      BY <1>4, <1>6, <1>11
    <3>3. QED BY <3>1, <3>2
  <2>2. QED BY <2>1
<1>16. \A c : FoundIn(batches, c) # {} => \E i \in 1 .. Len(new) : new[i].chunk = c
  BY <1>4, <1>6, <1>13
<1>17. Merges(new, batches)
  BY <1>15, <1>16 DEF Merges
<1>18. QED BY <1>13, <1>14, <1>17

\* What a list of rows is made of.
LEMMA RowsHave ==
    ASSUME NEW rows \in Seq(Row)
    PROVE  /\ \A c : c \in ChunksOf(rows) <=> \E i \in 1 .. Len(rows) : rows[i].chunk = c
           /\ \A d : d \in DocsOf(rows) <=> \E i \in 1 .. Len(rows) : DocumentOf[rows[i].chunk] = d
           /\ \A i \in 1 .. Len(rows) : rows[i].chunk \in Chunks
<1>1. \A c : c \in ChunksOf(rows) <=> \E i \in 1 .. Len(rows) : rows[i].chunk = c
  BY DEF ChunksOf, ToSet
<1>2. \A d : d \in DocsOf(rows) <=> \E i \in 1 .. Len(rows) : DocumentOf[rows[i].chunk] = d
  BY <1>1 DEF DocsOf
<1>3. \A i \in 1 .. Len(rows) : rows[i] \in Row
  OBVIOUS
<1>4. QED BY <1>1, <1>2, <1>3 DEF Row

Keeps(new, rows, documents) ==
    /\ \A k \in 1 .. Len(new) : \E i \in 1 .. Len(rows) :
          new[k] = rows[i] /\ DocumentOf[rows[i].chunk] \in documents
    /\ \A i \in 1 .. Len(rows) : DocumentOf[rows[i].chunk] \in documents =>
          \E k \in 1 .. Len(new) : new[k] = rows[i]

LEMMA RowsOfKeeps ==
    ASSUME NEW D, NEW rows \in RowsAmong(D), Sorted(rows), NEW documents,
           NEW new, new = RowsOf(rows, documents)
    PROVE  new \in RowsAmong(D) /\ Sorted(new) /\ Keeps(new, rows, documents)
<1>1. rows \in Seq(Row) /\ \A i \in 1 .. Len(rows) : DocumentOf[rows[i].chunk] \in D
  BY DEF RowsAmong
<1>2. PICK places : places = {i \in 1 .. Len(rows) : DocumentOf[rows[i].chunk] \in documents}
  OBVIOUS
<1>3. new = At(rows, places) /\ places \in SUBSET (1 .. Len(rows))
  <2>1. DOMAIN rows = 1 .. Len(rows)
    BY <1>1
  <2>2. QED BY <1>2, <2>1 DEF RowsOf
<1>4. new \in Seq(Row)
  BY <1>1, <1>3, AtPlaces
<1>5. PICK order \in [1 .. Len(new) -> places] :
         /\ \A k \in 1 .. Len(new) : new[k] = rows[order[k]]
         /\ \A k, l \in 1 .. Len(new) : k < l => order[k] < order[l]
         /\ \A i \in places : \E k \in 1 .. Len(new) : order[k] = i
  <2>1. Picks(new, rows, places)
    BY <1>1, <1>3, AtPlaces
  <2>2. QED BY <2>1 DEF Picks
<1>6. \A k \in 1 .. Len(new) : order[k] \in places /\ order[k] \in 1 .. Len(rows)
  BY <1>3, <1>5
<1>7. new \in RowsAmong(D)
  BY <1>1, <1>4, <1>5, <1>6 DEF RowsAmong
<1>8. Sorted(new)
  <2>1. ASSUME NEW k \in 1 .. Len(new), NEW l \in 1 .. Len(new), k < l
        PROVE  new[k].score >= new[l].score /\ new[k].chunk # new[l].chunk
    <3>1. PICK i \in 1 .. Len(rows), j \in 1 .. Len(rows) : i = order[k] /\ j = order[l]
      BY <1>6
    <3>2. i < j
      BY <1>5, <2>1, <3>1
    <3>3. rows[i].score >= rows[j].score /\ rows[i].chunk # rows[j].chunk
      BY <3>2 DEF Sorted
    <3>4. new[k] = rows[i] /\ new[l] = rows[j]
      BY <1>5, <3>1
    <3>5. QED BY <3>3, <3>4
  <2>2. QED BY <2>1 DEF Sorted
<1>9. Keeps(new, rows, documents)
  <2>1. \A k \in 1 .. Len(new) : \E i \in 1 .. Len(rows) :
           new[k] = rows[i] /\ DocumentOf[rows[i].chunk] \in documents
    BY <1>2, <1>5, <1>6
  <2>2. \A i \in 1 .. Len(rows) : DocumentOf[rows[i].chunk] \in documents =>
           \E k \in 1 .. Len(new) : new[k] = rows[i]
    BY <1>2, <1>5
  <2>3. QED BY <2>1, <2>2 DEF Keeps
<1>10. QED BY <1>7, <1>8, <1>9

\* Every selected document is at least as good as every other.
Selects(rows, selected) ==
    \A d \in selected, e \in DocsOf(rows) \ selected :
       d \in DocsOf(rows) /\ BestOf(rows, d) >= BestOf(rows, e)

LEMMA DocumentScopeSelects ==
    ASSUME NEW p, NEW rows \in Seq(Row), p.results = rows, NEW q \in DocumentScope(p)
    PROVE  \E selected : Selects(rows, selected)
                         /\ q = Kept(p, RowsOf(rows, selected))
<1> DEFINE First(d) == Min({i \in DOMAIN rows : DocumentOf[rows[i].chunk] = d})
           Ahead(d) == {e \in DocsOf(rows) :
                           \/ BestOf(rows, e) > BestOf(rows, d)
                           \/ BestOf(rows, e) = BestOf(rows, d) /\ First(e) < First(d)}
           selected == {d \in DocsOf(rows) : Cardinality(Ahead(d)) < DocumentScopeTopN}
<1>1. q = Kept(p, RowsOf(rows, selected))
  BY DEF DocumentScope
<1> HIDE DEF First
<1>2. IsFiniteSet(DocsOf(rows))
  <2>1. IsFiniteSet(ChunksOf(rows)) /\ ChunksOf(rows) \subseteq Chunks
    BY FirstPlaces
  <2> DEFINE f == [c \in ChunksOf(rows) |-> DocumentOf[c]]
  <2>2. f = [c \in ChunksOf(rows) |-> f[c]]
    OBVIOUS
  <2>3. DocsOf(rows) = {f[c] : c \in ChunksOf(rows)}
    BY DEF DocsOf
  <2> HIDE DEF f
  <2>4. QED BY <2>1, <2>2, <2>3, RangeFinite
<1>3. ASSUME NEW d \in DocsOf(rows)
      PROVE  IsFiniteSet(Ahead(d)) /\ Cardinality(Ahead(d)) \in Nat /\ BestOf(rows, d) \in Int
  <2>1. Ahead(d) \in SUBSET DocsOf(rows)
    OBVIOUS
  <2>2. IsFiniteSet(Ahead(d))
    BY <1>2, <2>1, FS_Subset
  <2> HIDE DEF Ahead
  <2>3. QED BY <2>2, FS_CardinalityType, BestOfIs
<1>4. ASSUME NEW d \in DocsOf(rows), NEW e \in DocsOf(rows), BestOf(rows, e) > BestOf(rows, d)
      PROVE  Cardinality(Ahead(e)) <= Cardinality(Ahead(d))
  <2>1. Ahead(e) \in SUBSET Ahead(d)
    <3>1. ASSUME NEW x \in Ahead(e) PROVE x \in Ahead(d)
      <4>1. BestOf(rows, x) \in Int /\ BestOf(rows, d) \in Int /\ BestOf(rows, e) \in Int
        BY <1>3
      <4>2. BestOf(rows, x) > BestOf(rows, e) \/ BestOf(rows, x) = BestOf(rows, e)
        OBVIOUS
      <4>3. BestOf(rows, x) > BestOf(rows, d)
        BY <1>4, <4>1, <4>2
      <4>4. QED BY <4>3
    <3>2. QED BY <3>1
  <2> HIDE DEF Ahead
  <2>2. QED BY <1>3, <2>1, FS_Subset
<1>5. Selects(rows, selected)
  <2>1. ASSUME NEW d \in selected, NEW e \in DocsOf(rows) \ selected
        PROVE  d \in DocsOf(rows) /\ BestOf(rows, d) >= BestOf(rows, e)
    <3>1. /\ d \in DocsOf(rows) /\ Cardinality(Ahead(d)) < DocumentScopeTopN
          /\ e \in DocsOf(rows) /\ ~(Cardinality(Ahead(e)) < DocumentScopeTopN)
      OBVIOUS
    <3> HIDE DEF Ahead, selected
    <3>2. DocumentScopeTopN \in Nat
      BY RetrievalAssumption
    <3>3. /\ Cardinality(Ahead(d)) \in Nat /\ Cardinality(Ahead(e)) \in Nat
          /\ BestOf(rows, d) \in Int /\ BestOf(rows, e) \in Int
      BY <1>3, <3>1
    <3>4. ~(BestOf(rows, e) > BestOf(rows, d))
      BY <1>4, <3>1, <3>2, <3>3
    <3>5. QED BY <3>1, <3>3, <3>4
  <2>2. QED BY <2>1 DEF Selects
<1> HIDE DEF selected
<1>6. QED BY <1>1, <1>5

Reranked(p, rows) == [Kept(p, rows) EXCEPT !.reranked = TRUE]

\* What a reranker that answers leaves of the rows.
Reranks(new, rows, D) ==
    /\ new \in RowsAmong(D) /\ Sorted(new)
    /\ \A k \in 1 .. Len(new) : \E i \in 1 .. Len(rows) : new[k].chunk = rows[i].chunk
    /\ \A i \in 1 .. Len(rows) : \/ \E k \in 1 .. Len(new) : new[k].chunk = rows[i].chunk
                                 \/ Len(new) = RerankerTopK

RerankedFrom(p, q, rows, D) == \E new : Reranks(new, rows, D) /\ q = Reranked(p, new)

LEMMA RerankingReranks ==
    ASSUME NEW D, NEW p, NEW rows \in RowsAmong(D), Sorted(rows), p.results = rows,
           NEW q \in Reranking(p)
    PROVE  q = p \/ RerankedFrom(p, q, rows, D)
<1> DEFINE window == Top(rows, RerankerTopK * 4)
           Scored(s) == [c \in ChunksOf(window) |-> s[c] * Scale]
           New(s) == Top(ByScore(Scored(s), FirstPlace(window)), RerankerTopK)
<1>1. q = p \/ \E s \in Scores : q = Reranked(p, New(s))
  BY DEF Reranking, Reranked
<1>2. RerankerTopK \in Nat \ {0} /\ RerankerTopK * 4 \in Nat /\ RerankerTopK <= RerankerTopK * 4
  BY RetrievalAssumption
<1>3. rows \in Seq(Row) /\ window \in RowsAmong(D) /\ window \in Seq(Row)
  BY <1>2, TopAmong DEF RowsAmong
<1>4. /\ Len(window) = IF RerankerTopK * 4 <= Len(rows) THEN RerankerTopK * 4 ELSE Len(rows)
      /\ \A i \in 1 .. Len(window) : window[i] = rows[i]
  BY <1>2, <1>3, TopIs
<1> HIDE DEF window
<1>5. PICK S : S = ChunksOf(window)
  OBVIOUS
<1>6. /\ S \in SUBSET Chunks /\ IsFiniteSet(S)
      /\ \A c \in S : \E i \in 1 .. Len(window) : window[i].chunk = c
      /\ \A i \in 1 .. Len(window) : window[i].chunk \in S
      /\ \A c \in S : DocumentOf[c] \in D
  <2>1. S \in SUBSET Chunks /\ IsFiniteSet(S)
    BY <1>3, <1>5, FirstPlaces
  <2>2. /\ \A c \in S : \E i \in 1 .. Len(window) : window[i].chunk = c
        /\ \A i \in 1 .. Len(window) : window[i].chunk \in S
    BY <1>3, <1>5, RowsHave
  <2>3. QED BY <1>3, <2>1, <2>2 DEF RowsAmong
<1>7. PICK place \in [S -> Int] : /\ place = FirstPlace(window)
                                 /\ \A c, d \in S : c # d => place[c] # place[d]
  <2>1. /\ FirstPlace(window) \in [S -> 1 .. Len(window)]
        /\ \A c, d \in S : c # d => FirstPlace(window)[c] # FirstPlace(window)[d]
    BY <1>3, <1>5, FirstPlaces
  <2>2. FirstPlace(window) \in [S -> Int]
    BY <2>1
  <2>3. QED BY <2>1, <2>2
<1>8. ASSUME NEW s \in Scores PROVE Reranks(New(s), rows, D)
  <2>1. PICK score \in [S -> Int] : score = Scored(s)
    <3>1. s \in [Chunks -> Nat] /\ Scale \in Nat
      BY RetrievalAssumption
    <3>2. \A c \in S : s[c] * Scale \in Int
      <4>1. \A c \in S : s[c] \in Int
        BY <1>6, <3>1
      <4>2. \A x \in Int : x * Scale \in Int
        BY <3>1
      <4>3. QED BY <4>1, <4>2
    <3>3. QED BY <1>5, <3>2
  <2>2. PICK full : full = ByScore(score, place)
    OBVIOUS
  <2>3. PICK new : new = New(s)
    OBVIOUS
  <2>4. new = Top(full, RerankerTopK)
    BY <1>7, <2>1, <2>2, <2>3
  <2> HIDE DEF New, Scored
  <2>5. Lists(full, S, score)
    BY <1>6, <1>7, <2>2, ByScoreSorted
  <2>6. full \in RowsAmong(D)
    BY <1>6, <1>7, <2>2, ByScoreAmong
  <2>7. /\ full \in Seq(Row) /\ Sorted(full) /\ Len(full) = Cardinality(S)
        /\ \A i \in 1 .. Len(full) : full[i].chunk \in S
        /\ \A c \in S : \E i \in 1 .. Len(full) : full[i].chunk = c
    <3>1. full \in Seq(Row)
      BY <2>6 DEF RowsAmong
    <3>2. QED BY <2>5, <3>1 DEF Lists
  <2>8. /\ new \in RowsAmong(D)
        /\ new \in Seq(Row) /\ Len(new) = IF RerankerTopK <= Len(full) THEN RerankerTopK ELSE Len(full)
        /\ \A i \in 1 .. Len(new) : new[i] = full[i]
    <3>1. new \in RowsAmong(D)
      BY <1>2, <2>4, <2>6, TopAmong
    <3>2. /\ new \in Seq(Row) /\ Len(new) = IF RerankerTopK <= Len(full) THEN RerankerTopK ELSE Len(full)
          /\ \A i \in 1 .. Len(new) : new[i] = full[i]
      BY <1>2, <2>4, <2>7, TopIs
    <3>3. QED BY <3>1, <3>2
  <2>9. PICK n \in Nat, m \in Nat : n = Len(new) /\ m = Len(full) /\ n <= m
    BY <1>2, <2>7, <2>8
  <2>10. \A i \in 1 .. n : i \in 1 .. m
    BY <2>9
  <2>11. Sorted(new)
    <3>1. ASSUME NEW i \in 1 .. n, NEW j \in 1 .. n, i < j
          PROVE  new[i].score >= new[j].score /\ new[i].chunk # new[j].chunk
      <4>1. i \in 1 .. m /\ j \in 1 .. m
        BY <2>10
      <4>2. full[i].score >= full[j].score /\ full[i].chunk # full[j].chunk
        BY <2>7, <2>9, <3>1, <4>1 DEF Sorted
      <4>3. new[i] = full[i] /\ new[j] = full[j]
        BY <2>8, <2>9
      <4>4. QED BY <4>2, <4>3
    <3>2. QED BY <2>9, <3>1 DEF Sorted
  <2>12. ASSUME NEW k \in 1 .. Len(new)
         PROVE  \E i \in 1 .. Len(rows) : new[k].chunk = rows[i].chunk
    <3>1. new[k].chunk \in S
      BY <2>7, <2>8, <2>9, <2>10
    <3>2. PICK i \in 1 .. Len(window) : window[i].chunk = new[k].chunk
      BY <1>6, <3>1
    <3>3. i \in 1 .. Len(rows) /\ window[i] = rows[i]
      BY <1>2, <1>3, <1>4
    <3>4. QED BY <3>2, <3>3
  <2>13. ASSUME NEW i \in 1 .. Len(rows), n # RerankerTopK
         PROVE  \E k \in 1 .. n : new[k].chunk = rows[i].chunk
    <3>1. m < RerankerTopK /\ n = m
      BY <1>2, <2>8, <2>9, <2>13
    <3>2. Len(window) = Len(rows)
      <4>1. SUFFICES ASSUME Len(window) # Len(rows) PROVE FALSE
        OBVIOUS
      <4>2. Len(window) \in Nat /\ Len(window) = RerankerTopK * 4
        BY <1>2, <1>4, <4>1
      <4> DEFINE f == [j \in 1 .. Len(window) |-> window[j].chunk]
      <4>3. ASSUME NEW j \in 1 .. Len(window), NEW l \in 1 .. Len(window), j # l PROVE f[j] # f[l]
        <5>1. j \in 1 .. Len(rows) /\ l \in 1 .. Len(rows)
          BY <1>2, <1>3, <1>4
        <5>2. window[j] = rows[j] /\ window[l] = rows[l]
          BY <1>4
        <5>3. j < l \/ l < j
          BY <4>3
        <5>4. rows[j].chunk # rows[l].chunk
          BY <5>1, <5>3 DEF Sorted
        <5>5. QED BY <5>2, <5>4
      <4>4. f \in Injection(1 .. Len(window), S)
        <5>1. f \in [1 .. Len(window) -> S]
          BY <1>6
        <5> HIDE DEF f
        <5>2. QED BY <4>3, <5>1 DEF Injection, IsInjective
      <4> HIDE DEF f
      <4>5. IsFiniteSet(1 .. Len(window)) /\ Cardinality(1 .. Len(window)) = Len(window)
        BY <4>2, FS_Interval
      <4>6. Len(window) <= Cardinality(S)
        BY <1>6, <4>4, <4>5, FS_Injection
      <4>7. QED BY <1>2, <2>7, <2>9, <3>1, <4>2, <4>6
    <3>3. rows[i].chunk \in S
      BY <1>4, <1>6, <3>2
    <3>4. PICK k \in 1 .. m : full[k].chunk = rows[i].chunk
      BY <2>7, <2>9, <3>3
    <3>5. new[k] = full[k] /\ k \in 1 .. n
      BY <2>8, <2>9, <3>1
    <3>6. QED BY <3>4, <3>5
  <2>14. QED BY <2>3, <2>8, <2>9, <2>11, <2>12, <2>13 DEF Reranks
<1> HIDE DEF New
<1>9. QED BY <1>1, <1>8 DEF RerankedFrom

----------------------------------------------------------------------------
(* The steps, in their order. *)

LEMMA StepsOrdered ==
    /\ Len(Steps) \in Nat
    /\ \A i \in 1 .. Len(Steps) : \E k \in DOMAIN Definition : Steps[i] = Definition[k]
    /\ \A i, j \in 1 .. Len(Steps) : i < j => Steps[i].order < Steps[j].order
    /\ \A i \in 1 .. Len(Steps) : Steps[i].order \in Nat
    /\ \A k \in DOMAIN Definition : \E i \in 1 .. Len(Steps) : Steps[i] = Definition[k]
<1> DEFINE S == DOMAIN Definition
           ahead == [i \in S |-> {j \in S : Definition[j].order < Definition[i].order}]
           n == Cardinality(S)
<1>1. IsFiniteSet(S)
  <2>1. S = 1 .. Len(Definition) /\ Len(Definition) \in Nat
    BY RetrievalAssumption
  <2>2. QED BY <2>1, FS_Interval
<1>2. /\ \A i \in S : Definition[i].order \in Nat
      /\ \A i, j \in S : i # j => Definition[i].order # Definition[j].order
  BY RetrievalAssumption
<1>3. Orders(ahead)
  <2>1. \A i \in S : ahead[i] \subseteq S /\ i \notin ahead[i]
    BY <1>2
  <2>2. \A i, j \in S : i # j => i \in ahead[j] \/ j \in ahead[i]
    BY <1>2
  <2>3. ASSUME NEW i \in S, NEW j \in S, i \in ahead[j] PROVE ahead[i] \subseteq ahead[j]
    BY <1>2, <2>3
  <2>4. S = DOMAIN ahead
    OBVIOUS
  <2> HIDE DEF ahead, S
  <2>5. QED BY <1>1, <2>1, <2>2, <2>3, <2>4 DEF Orders
<1>4. PICK R : R = Ranked(ahead)
  OBVIOUS
<1>5. /\ n \in Nat /\ R \in [1 .. n -> S]
      /\ \A x \in S : \E k \in 1 .. n : R[k] = x
      /\ \A k, l \in 1 .. n : k < l => R[k] # R[l] /\ R[k] \in ahead[R[l]]
  <2>1. S = DOMAIN ahead
    OBVIOUS
  <2> HIDE DEF ahead, S
  <2>2. QED BY <1>3, <1>4, <2>1, RankedInOrder
<1>6. Steps = [k \in 1 .. n |-> Definition[R[k]]]
  <2>1. DOMAIN R = 1 .. n
    BY <1>5
  <2>2. Steps = [k \in DOMAIN R |-> Definition[R[k]]]
    BY <1>4 DEF Steps
  <2>3. QED BY <2>1, <2>2
<1>7. \A k, l \in 1 .. n : k < l => Definition[R[k]].order < Definition[R[l]].order
  BY <1>5
<1> HIDE DEF n, S, ahead
<1>8. Len(Steps) = n
  <2>1. PICK A : A = {Definition[k] : k \in S}
    OBVIOUS
  <2>2. Steps \in [1 .. n -> A]
    BY <1>5, <1>6, <2>1
  <2>3. QED BY <1>5, <2>2
<1>9. \A k \in 1 .. n : Steps[k] = Definition[R[k]] /\ R[k] \in S
  BY <1>5, <1>6
<1>10. QED BY <1>2, <1>5, <1>7, <1>8, <1>9 DEF S

LEMMA RankingIs ==
    /\ DOMAIN Ranking = 1 .. 6
    /\ Ranking[1] = "permission_prefilter" /\ Ranking[2] = "mode_search"
    /\ Ranking[3] = "merge_dedup" /\ Ranking[4] = "permission_livecheck"
    /\ Ranking[5] = "document_scope" /\ Ranking[6] = "reranking"
BY DEF Ranking

Filters == {"merge_dedup", "permission_livecheck", "document_scope"}

LEMMA StepsRanked ==
    ASSUME RankingOrder
    PROVE  /\ \A i \in 1 .. Len(Steps) :
                 Steps[i].id \in StepIds /\ (Steps[i].id \in Filters => Steps[i].precondition = {})
           /\ \A i, j \in 1 .. Len(Steps) : \A a, b \in 1 .. 6 :
                 Steps[i].id = Ranking[a] /\ Steps[j].id = Ranking[b] /\ a < b => i < j
           /\ \A i, j \in 1 .. Len(Steps) : Steps[i].id = Steps[j].id => i = j
<1>1. \A i \in 1 .. Len(Steps) :
         Steps[i].id \in StepIds /\ (Steps[i].id \in Filters => Steps[i].precondition = {})
  BY StepsOrdered DEF RankingOrder, Filters
<1>2. ASSUME NEW i \in 1 .. Len(Steps), NEW j \in 1 .. Len(Steps), NEW a \in 1 .. 6, NEW b \in 1 .. 6,
             Steps[i].id = Ranking[a], Steps[j].id = Ranking[b], a < b
      PROVE  i < j
  <2>1. PICK k \in DOMAIN Definition, l \in DOMAIN Definition : Steps[i] = Definition[k] /\ Steps[j] = Definition[l]
    BY StepsOrdered
  <2>2. a \in DOMAIN Ranking /\ b \in DOMAIN Ranking
    BY RankingIs
  <2>3. Steps[i].order < Steps[j].order
    BY <1>2, <2>1, <2>2 DEF RankingOrder
  <2>4. Steps[i].order \in Nat /\ Steps[j].order \in Nat
    BY StepsOrdered
  <2>5. i # j
    BY <2>3, <2>4
  <2>6. ASSUME j < i PROVE FALSE
    <3>1. Steps[j].order < Steps[i].order
      BY <2>6, StepsOrdered
    <3>2. QED BY <2>3, <2>4, <3>1
  <2>7. i \in Int /\ j \in Int
    BY StepsOrdered
  <2>8. QED BY <2>5, <2>6, <2>7
<1>3. ASSUME NEW i \in 1 .. Len(Steps), NEW j \in 1 .. Len(Steps), Steps[i].id = Steps[j].id
      PROVE  i = j
  <2>1. PICK k \in DOMAIN Definition, l \in DOMAIN Definition : Steps[i] = Definition[k] /\ Steps[j] = Definition[l]
    BY StepsOrdered
  <2>2. k = l
    BY <1>3, <2>1, RetrievalAssumption
  <2>3. Steps[i].order = Steps[j].order /\ Steps[i].order \in Nat
    BY <2>1, <2>2, StepsOrdered
  <2>4. ~(i < j) /\ ~(j < i)
    <3>1. ASSUME i < j \/ j < i PROVE Steps[i].order < Steps[j].order \/ Steps[j].order < Steps[i].order
      BY <3>1, StepsOrdered
    <3>2. QED BY <2>3, <3>1
  <2>5. i \in Int /\ j \in Int
    BY StepsOrdered
  <2>6. QED BY <2>4, <2>5
<1>4. QED BY <1>1, <1>2, <1>3

\* A step of this rank, or a later one, was gone through.
Reached(p, a) == \E i \in 1 .. p.next - 1 : \E b \in a .. 6 : Steps[i].id = Ranking[b]
PastOf(p, id) == \E i \in 1 .. p.next - 1 : Steps[i].id = id /\ Enabled(Steps[i], p)

Advances(p, q) ==
    /\ p \in Context /\ q \in Context
    /\ p.next \in 1 .. Len(Steps) /\ q.next = p.next + 1 /\ q.settings = p.settings

LEMMA ReachedAdvances ==
    ASSUME RankingOrder, NEW p, NEW q, Advances(p, q)
    PROVE  /\ \A a \in 1 .. 6 : Reached(p, a) => Reached(q, a)
           /\ \A a \in 1 .. 6 : Steps[p.next].id = Ranking[a] => ~Reached(p, a) /\ Reached(q, a)
<1>1. PICK n \in Nat, N \in Nat : n = p.next /\ N = Len(Steps) /\ n \in 1 .. N /\ q.next = n + 1
  <2>1. p.next \in 1 .. Len(Steps) /\ q.next = p.next + 1
    BY DEF Advances
  <2>2. Len(Steps) \in Nat
    BY StepsOrdered
  <2>3. QED BY <2>1, <2>2
<1>2. \A i \in 1 .. n - 1 : i \in 1 .. n /\ i \in 1 .. N /\ i < n
  BY <1>1
<1>3. (n + 1) - 1 = n
  OBVIOUS
<1>4. ASSUME NEW a \in 1 .. 6, Reached(p, a) PROVE Reached(q, a)
  <2>1. PICK i \in 1 .. n - 1 : \E b \in a .. 6 : Steps[i].id = Ranking[b]
    BY <1>1, <1>4 DEF Reached
  <2>2. i \in 1 .. q.next - 1
    BY <1>1, <1>2, <1>3
  <2>3. QED BY <2>1, <2>2 DEF Reached
<1>5. ASSUME NEW a \in 1 .. 6, Steps[n].id = Ranking[a] PROVE ~Reached(p, a)
  <2>1. ASSUME NEW i \in 1 .. n - 1, NEW b \in a .. 6, Steps[i].id = Ranking[b] PROVE FALSE
    <3>1. b \in 1 .. 6 /\ (b = a \/ a < b)
      OBVIOUS
    <3>2. CASE b = a
      <4>1. i = n
        BY <1>1, <1>2, <1>5, <2>1, <3>2, StepsRanked
      <4>2. QED BY <1>2, <4>1
    <3>3. CASE a < b
      <4>1. n < i
        BY <1>1, <1>2, <1>5, <2>1, <3>1, <3>3, StepsRanked
      <4>2. QED BY <1>2, <4>1
    <3>4. QED BY <3>1, <3>2, <3>3
  <2>2. QED BY <1>1, <2>1 DEF Reached
<1>6. ASSUME NEW a \in 1 .. 6, Steps[n].id = Ranking[a] PROVE Reached(q, a)
  <2>1. n \in 1 .. q.next - 1 /\ a \in a .. 6
    BY <1>1, <1>3
  <2>2. QED BY <1>6, <2>1 DEF Reached
<1>7. QED BY <1>1, <1>4, <1>5, <1>6

LEMMA NotReached ==
    ASSUME NEW p, NEW a \in 1 .. 6, ~Reached(p, a)
    PROVE  /\ \A b \in a .. 6 : ~Reached(p, b)
           /\ a <= 3 => ~PastOf(p, "merge_dedup")
           /\ a <= 4 => ~PastOf(p, "permission_livecheck")
           /\ a <= 5 => ~PastOf(p, "document_scope")
<1>1. \A b \in a .. 6 : \A d \in b .. 6 : d \in a .. 6
  OBVIOUS
<1>2. \A i \in 1 .. p.next - 1 : \A b \in a .. 6 : Steps[i].id # Ranking[b]
  BY DEF Reached
<1>3. a <= 3 => 3 \in a .. 6
  OBVIOUS
<1>4. a <= 4 => 4 \in a .. 6
  OBVIOUS
<1>5. a <= 5 => 5 \in a .. 6
  OBVIOUS
<1>6. QED BY <1>1, <1>2, <1>3, <1>4, <1>5, RankingIs DEF Reached, PastOf

LEMMA FiltersEnabled ==
    ASSUME RankingOrder, NEW i \in 1 .. Len(Steps), Steps[i].id \in Filters,
           NEW p, NEW q, q.settings = p.settings
    PROVE  Enabled(Steps[i], q) <=> Enabled(Steps[i], p)
<1>1. Steps[i].precondition = {}
  BY StepsRanked
<1>2. QED BY <1>1 DEF Enabled, Condition

LEMMA PastAdvances ==
    ASSUME RankingOrder, NEW p, NEW q, Advances(p, q), NEW id \in Filters
    PROVE  PastOf(q, id) <=> PastOf(p, id) \/ (Steps[p.next].id = id /\ Enabled(Steps[p.next], p))
<1>1. PICK n \in Nat, N \in Nat : n = p.next /\ N = Len(Steps) /\ n \in 1 .. N /\ q.next = n + 1
  <2>1. p.next \in 1 .. Len(Steps) /\ q.next = p.next + 1
    BY DEF Advances
  <2>2. Len(Steps) \in Nat
    BY StepsOrdered
  <2>3. QED BY <2>1, <2>2
<1>2. \A i \in 1 .. n : i \in 1 .. N /\ (i \in 1 .. n - 1 \/ i = n)
  BY <1>1
<1>3. \A i \in 1 .. n - 1 : i \in 1 .. n
  OBVIOUS
<1>4. (n + 1) - 1 = n /\ n \in 1 .. n
  BY <1>1
<1>5. PastOf(q, id) <=> \E i \in 1 .. n : Steps[i].id = id /\ Enabled(Steps[i], q)
  BY <1>1, <1>4 DEF PastOf
<1>6. PastOf(p, id) <=> \E i \in 1 .. n - 1 : Steps[i].id = id /\ Enabled(Steps[i], p)
  BY <1>1 DEF PastOf
<1>7. \A i \in 1 .. n : Steps[i].id = id => (Enabled(Steps[i], q) <=> Enabled(Steps[i], p))
  BY <1>1, <1>2, FiltersEnabled DEF Advances
<1>8. QED BY <1>1, <1>2, <1>3, <1>4, <1>5, <1>6, <1>7

----------------------------------------------------------------------------
(* What the ranking steps keep. *)

BestDocIn(batches, d) ==
    Max({BestIn(batches, c) : c \in {e \in Chunks : DocumentOf[e] = d /\ FoundIn(batches, e) # {}}})

HasDocBest(batches, d) ==
    \E c \in Chunks : /\ DocumentOf[c] = d /\ FoundIn(batches, c) # {}
                      /\ BestIn(batches, c) = BestDocIn(batches, d)

LEMMA BestDocIs ==
    ASSUME NEW batches \in Seq(Seq(Row)), NEW x \in Chunks, FoundIn(batches, x) # {},
           NEW d, d = DocumentOf[x]
    PROVE  /\ BestDocIn(batches, d) \in Int
           /\ HasDocBest(batches, d)
           /\ \A c \in Chunks : DocumentOf[c] = d /\ FoundIn(batches, c) # {} =>
                 BestIn(batches, c) <= BestDocIn(batches, d)
<1> DEFINE C == {e \in Chunks : DocumentOf[e] = d /\ FoundIn(batches, e) # {}}
           f == [c \in C |-> BestIn(batches, c)]
<1>1. C \in SUBSET Chunks /\ x \in C
  OBVIOUS
<1>2. IsFiniteSet(C)
  BY <1>1, RetrievalAssumption, FS_Subset
<1>3. f = [c \in C |-> f[c]]
  OBVIOUS
<1>4. \A c \in C : f[c] = BestIn(batches, c) /\ f[c] \in Int
  BY BestInIs
<1>5. BestDocIn(batches, d) = Max({f[c] : c \in C})
  <2>1. {f[c] : c \in C} = {BestIn(batches, c) : c \in C}
    BY <1>4
  <2>2. QED BY <2>1 DEF BestDocIn
<1> HIDE DEF f
<1>6. PICK S \in SUBSET Int : S = {f[c] : c \in C} /\ S # {} /\ IsFiniteSet(S)
  <2> HIDE DEF C
  <2>1. {f[c] : c \in C} \in SUBSET Int /\ {f[c] : c \in C} # {}
    BY <1>1, <1>4
  <2>2. IsFiniteSet({f[c] : c \in C})
    BY <1>2, <1>3, RangeFinite
  <2>3. QED BY <2>1, <2>2
<1>7. Max(S) \in S /\ \A y \in S : y <= Max(S)
  BY <1>6, LargestOf
<1>8. Max(S) = BestDocIn(batches, d)
  BY <1>5, <1>6
<1>9. QED BY <1>4, <1>6, <1>7, <1>8 DEF HasDocBest

\* Each row has the best score of its chunk.
BestScored(p) ==
    \A i \in 1 .. Len(p.results) :
       /\ FoundIn(p.batches, p.results[i].chunk) # {}
       /\ p.results[i].score = BestIn(p.batches, p.results[i].chunk)

\* Nothing that was found is missing without a reason.
Missing(p, c) ==
    \/ PastOf(p, "permission_livecheck") /\ DocumentOf[c] \notin p.live
    \/ PastOf(p, "document_scope") /\ DocumentOf[c] \notin DocsOf(p.results)
    \/ p.reranked /\ Len(p.results) = RerankerTopK
Accounted(p) ==
    \A c \in Chunks : FoundIn(p.batches, c) # {} => c \in ChunksOf(p.results) \/ Missing(p, c)

\* The documents that are kept are at least as good as those that are not.
Scoped(p) ==
    \A d \in DocsOf(p.results), c \in Chunks :
       FoundIn(p.batches, c) # {} /\ DocumentOf[c] \in p.live \ DocsOf(p.results)
          => BestDocIn(p.batches, d) >= BestDocIn(p.batches, DocumentOf[c])

RankInv(p) ==
    /\ p \in Context
    /\ p.results \in RowsAmong(p.allowed) /\ Sorted(p.results)
    /\ p.batches \in Seq(RowsAmong(p.allowed))
    /\ ~Reached(p, 2) => p.batches = <<>>
    /\ ~Reached(p, 6) => ~p.reranked
    /\ ~PastOf(p, "merge_dedup") => p.results = <<>>
    /\ ~PastOf(p, "permission_livecheck") => p.live = {}
    /\ ~p.reranked => BestScored(p)
    /\ PastOf(p, "merge_dedup") =>
          Accounted(p) /\ (PastOf(p, "document_scope") /\ ~p.reranked => Scoped(p))

\* A step that filters nothing.
LEMMA StaysRanked ==
    ASSUME RankingOrder, NEW p, NEW q, Advances(p, q), RankInv(p),
           q.allowed = p.allowed, q.batches = p.batches, q.results = p.results,
           q.live = p.live, q.reranked = p.reranked,
           Steps[p.next].id \notin Filters \/ ~Enabled(Steps[p.next], p)
    PROVE  RankInv(q)
<1>1. \A id \in Filters : PastOf(q, id) <=> PastOf(p, id)
  BY PastAdvances
<1>2. /\ PastOf(q, "merge_dedup") <=> PastOf(p, "merge_dedup")
      /\ PastOf(q, "permission_livecheck") <=> PastOf(p, "permission_livecheck")
      /\ PastOf(q, "document_scope") <=> PastOf(p, "document_scope")
  BY <1>1 DEF Filters
<1>3. (Reached(p, 2) => Reached(q, 2)) /\ (Reached(p, 6) => Reached(q, 6))
  BY ReachedAdvances
<1>4. Accounted(p) => Accounted(q)
  BY <1>2 DEF Accounted, Missing
<1>5. Scoped(p) => Scoped(q)
  BY DEF Scoped
<1>6. BestScored(p) => BestScored(q)
  BY DEF BestScored
<1>7. q \in Context
  BY DEF Advances
<1>8. QED BY <1>2, <1>3, <1>4, <1>5, <1>6, <1>7 DEF RankInv

\* Before the rows are merged there are none.
LEMMA NothingRanked ==
    ASSUME NEW q, q \in Context, q.results = <<>>, q.batches \in Seq(RowsAmong(q.allowed)),
           ~Reached(q, 2) => q.batches = <<>>, ~Reached(q, 6) => ~q.reranked,
           ~PastOf(q, "merge_dedup"), ~PastOf(q, "permission_livecheck") => q.live = {}
    PROVE  RankInv(q)
<1>1. q.results \in RowsAmong(q.allowed)
  BY DEF RowsAmong
<1>2. Sorted(q.results) /\ BestScored(q)
  BY DEF Sorted, BestScored
<1>3. QED BY <1>1, <1>2 DEF RankInv

LEMMA PrefilterRanked ==
    ASSUME RankingOrder, NEW p, NEW q, Advances(p, q), RankInv(p),
           Steps[p.next].id = Ranking[1],
           q.batches = p.batches, q.results = p.results, q.live = p.live, q.reranked = p.reranked
    PROVE  RankInv(q)
<1>1. Steps[p.next].id \notin Filters
  BY RankingIs DEF Filters
<1>2. ~Reached(p, 1) /\ (Reached(p, 2) => Reached(q, 2)) /\ (Reached(p, 6) => Reached(q, 6))
  BY ReachedAdvances
<1>3. ~Reached(p, 2) /\ ~PastOf(p, "merge_dedup")
  BY <1>2, NotReached
<1>4. /\ PastOf(q, "merge_dedup") <=> PastOf(p, "merge_dedup")
      /\ PastOf(q, "permission_livecheck") <=> PastOf(p, "permission_livecheck")
  BY <1>1, PastAdvances DEF Filters
<1>5. q \in Context /\ q.results = <<>> /\ q.batches = <<>>
  BY <1>3 DEF RankInv, Advances
<1>6. q.batches \in Seq(RowsAmong(q.allowed))
  BY <1>5
<1>7. QED BY <1>2, <1>3, <1>4, <1>5, <1>6, NothingRanked DEF RankInv

LEMMA ModeSearchRanked ==
    ASSUME RankingOrder, NEW p, NEW q, Advances(p, q), RankInv(p),
           Steps[p.next].id = Ranking[2], q.batches \in Seq(RowsAmong(p.allowed)),
           q.allowed = p.allowed, q.results = p.results, q.live = p.live, q.reranked = p.reranked
    PROVE  RankInv(q)
<1>1. Steps[p.next].id \notin Filters
  BY RankingIs DEF Filters
<1>2. ~Reached(p, 2) /\ Reached(q, 2) /\ (Reached(p, 6) => Reached(q, 6))
  BY ReachedAdvances
<1>3. ~PastOf(p, "merge_dedup")
  BY <1>2, NotReached
<1>4. /\ PastOf(q, "merge_dedup") <=> PastOf(p, "merge_dedup")
      /\ PastOf(q, "permission_livecheck") <=> PastOf(p, "permission_livecheck")
  BY <1>1, PastAdvances DEF Filters
<1>5. q \in Context /\ q.results = <<>>
  BY <1>3 DEF RankInv, Advances
<1>6. QED BY <1>2, <1>3, <1>4, <1>5, NothingRanked DEF RankInv

LEMMA MergeRanked ==
    ASSUME RankingOrder, NEW p, NEW q, Advances(p, q), RankInv(p),
           Steps[p.next].id = Ranking[3], Enabled(Steps[p.next], p),
           NEW rows, rows = FlattenSeq(p.batches),
           q.results = ByScore([c \in ChunksOf(rows) |-> ScoreIn(rows, c)], FirstPlace(rows)),
           q.allowed = p.allowed, q.batches = p.batches, q.live = p.live, q.reranked = p.reranked
    PROVE  RankInv(q)
<1>1. ~Reached(p, 3) /\ (Reached(p, 2) => Reached(q, 2)) /\ (Reached(p, 6) => Reached(q, 6))
  BY ReachedAdvances
<1>2. /\ ~Reached(p, 6) /\ ~PastOf(p, "permission_livecheck") /\ ~PastOf(p, "document_scope")
  BY <1>1, NotReached
<1>3. /\ PastOf(q, "merge_dedup") /\ ~PastOf(q, "permission_livecheck") /\ ~PastOf(q, "document_scope")
  BY <1>2, RankingIs, PastAdvances DEF Filters
<1>4. p.batches \in Seq(Seq(Row)) /\ p.batches \in Seq(RowsAmong(p.allowed))
  <2>1. p.batches \in Seq(Seq(Row))
    BY DEF RankInv, Context
  <2>2. QED BY <2>1 DEF RankInv
<1>5. q.results \in Seq(Row) /\ Sorted(q.results) /\ Merges(q.results, p.batches)
  BY <1>4, MergedRows
<1>6. q.results \in RowsAmong(q.allowed)
  <2>1. ASSUME NEW i \in 1 .. Len(q.results) PROVE DocumentOf[q.results[i].chunk] \in q.allowed
    <3>1. PICK c : c = q.results[i].chunk /\ FoundIn(p.batches, c) # {}
      BY <1>5 DEF Merges
    <3>2. PICK b \in 1 .. Len(p.batches) : \E j \in 1 .. Len(p.batches[b]) : p.batches[b][j].chunk = c
      <4>1. PICK batches \in Seq(Seq(Row)) : batches = p.batches
        BY <1>4
      <4>2. \E b \in 1 .. Len(batches) : \E j \in 1 .. Len(batches[b]) :
               batches[b][j].chunk = c /\ batches[b][j].score = BestIn(batches, c)
        BY <3>1, <4>1, BestInIs
      <4>3. QED BY <4>1, <4>2
    <3>3. p.batches[b] \in RowsAmong(p.allowed)
      BY <1>4
    <3>4. QED BY <3>1, <3>2, <3>3 DEF RowsAmong
  <2>2. QED BY <1>5, <2>1 DEF RowsAmong
<1>7. BestScored(q)
  BY <1>5 DEF BestScored, Merges
<1>8. Accounted(q)
  BY <1>5, RowsHave DEF Accounted, Merges
<1>9. q \in Context
  BY DEF Advances
<1>10. QED BY <1>1, <1>2, <1>3, <1>4, <1>5, <1>6, <1>7, <1>8, <1>9 DEF RankInv

LEMMA KeptRows ==
    ASSUME NEW D, NEW rows \in RowsAmong(D), Sorted(rows), NEW documents,
           NEW new, new = RowsOf(rows, documents)
    PROVE  /\ new \in RowsAmong(D) /\ new \in Seq(Row) /\ Sorted(new) /\ Keeps(new, rows, documents)
           /\ rows = <<>> => new = <<>>
           /\ DocsOf(new) = DocsOf(rows) \cap documents
<1>1. new \in RowsAmong(D) /\ Sorted(new) /\ Keeps(new, rows, documents)
  BY RowsOfKeeps
<1>2. new \in Seq(Row) /\ rows \in Seq(Row)
  BY <1>1 DEF RowsAmong
<1>3. ASSUME rows = <<>> PROVE new = <<>>
  <2>1. Len(rows) = 0
    BY <1>3
  <2>2. Len(new) = 0
    <3>1. \A k \in 1 .. Len(new) : FALSE
      BY <1>1, <2>1 DEF Keeps
    <3>2. Len(new) \in Nat
      BY <1>2
    <3>3. QED BY <3>1, <3>2
  <2>3. QED BY <1>2, <2>2
<1>4. ASSUME NEW d PROVE d \in DocsOf(new) <=> d \in DocsOf(rows) /\ d \in documents
  <2>1. ASSUME d \in DocsOf(new) PROVE d \in DocsOf(rows) /\ d \in documents
    <3>1. PICK k \in 1 .. Len(new) : DocumentOf[new[k].chunk] = d
      BY <1>2, <2>1, RowsHave
    <3>2. PICK i \in 1 .. Len(rows) : new[k] = rows[i] /\ DocumentOf[rows[i].chunk] \in documents
      BY <1>1 DEF Keeps
    <3>3. QED BY <1>2, <3>1, <3>2, RowsHave
  <2>2. ASSUME d \in DocsOf(rows), d \in documents PROVE d \in DocsOf(new)
    <3>1. PICK i \in 1 .. Len(rows) : DocumentOf[rows[i].chunk] = d
      BY <1>2, <2>2, RowsHave
    <3>2. PICK k \in 1 .. Len(new) : new[k] = rows[i]
      BY <1>1, <2>2, <3>1 DEF Keeps
    <3>3. QED BY <1>2, <3>1, <3>2, RowsHave
  <2>3. QED BY <2>1, <2>2
<1>5. QED BY <1>1, <1>2, <1>3, <1>4

\* What is left of rows of the best scores has the best scores.
LEMMA KeptScored ==
    ASSUME NEW p, NEW q, NEW documents, BestScored(p), q.batches = p.batches,
           Keeps(q.results, p.results, documents)
    PROVE  BestScored(q)
<1>1. ASSUME NEW k \in 1 .. Len(q.results)
      PROVE  /\ FoundIn(q.batches, q.results[k].chunk) # {}
             /\ q.results[k].score = BestIn(q.batches, q.results[k].chunk)
  <2>1. PICK i \in 1 .. Len(p.results) : q.results[k] = p.results[i]
    BY DEF Keeps
  <2>2. QED BY <2>1 DEF BestScored
<1>2. QED BY <1>1 DEF BestScored

LEMMA LivecheckRanked ==
    ASSUME RankingOrder, NEW p, NEW q, Advances(p, q), RankInv(p),
           Steps[p.next].id = Ranking[4], Enabled(Steps[p.next], p),
           q.results = RowsOf(p.results, q.live),
           q.allowed = p.allowed, q.batches = p.batches, q.reranked = p.reranked
    PROVE  RankInv(q)
<1>1. ~Reached(p, 4) /\ (Reached(p, 2) => Reached(q, 2)) /\ (Reached(p, 6) => Reached(q, 6))
  BY ReachedAdvances
<1>2. /\ ~Reached(p, 6) /\ ~PastOf(p, "permission_livecheck") /\ ~PastOf(p, "document_scope")
  BY <1>1, NotReached
<1>3. /\ PastOf(q, "merge_dedup") <=> PastOf(p, "merge_dedup")
      /\ PastOf(q, "permission_livecheck") /\ ~PastOf(q, "document_scope")
  BY <1>2, RankingIs, PastAdvances DEF Filters
<1>4. /\ p.results \in RowsAmong(p.allowed) /\ Sorted(p.results) /\ p.results \in Seq(Row)
      /\ ~p.reranked /\ BestScored(p)
  BY <1>2 DEF RankInv, RowsAmong
<1>5. /\ q.results \in RowsAmong(q.allowed) /\ q.results \in Seq(Row) /\ Sorted(q.results)
      /\ Keeps(q.results, p.results, q.live) /\ (p.results = <<>> => q.results = <<>>)
  BY <1>4, KeptRows
<1>6. BestScored(q)
  BY <1>4, <1>5, KeptScored
<1>7. ASSUME PastOf(q, "merge_dedup") PROVE Accounted(q)
  <2>1. ASSUME NEW c \in Chunks, FoundIn(q.batches, c) # {}, DocumentOf[c] \in q.live
        PROVE  c \in ChunksOf(q.results)
    <3>1. Accounted(p)
      BY <1>3, <1>7 DEF RankInv
    <3>2. c \in ChunksOf(p.results)
      BY <1>2, <1>4, <2>1, <3>1 DEF Accounted, Missing
    <3>3. PICK i \in 1 .. Len(p.results) : p.results[i].chunk = c
      BY <1>4, <3>2, RowsHave
    <3>4. PICK k \in 1 .. Len(q.results) : q.results[k] = p.results[i]
      BY <1>5, <2>1, <3>3 DEF Keeps
    <3>5. QED BY <1>5, <3>3, <3>4, RowsHave
  <2>2. QED BY <1>3, <2>1 DEF Accounted, Missing
<1>8. q \in Context
  BY DEF Advances
<1>9. q.batches \in Seq(RowsAmong(q.allowed)) /\ (~Reached(q, 2) => q.batches = <<>>)
  BY <1>1 DEF RankInv
<1>10. ~Reached(q, 6) => ~q.reranked
  BY <1>4
<1>11. ~PastOf(q, "merge_dedup") => q.results = <<>>
  BY <1>3, <1>5 DEF RankInv
<1>12. QED BY <1>3, <1>5, <1>6, <1>7, <1>8, <1>9, <1>10, <1>11 DEF RankInv

LEMMA ScopeRanked ==
    ASSUME RankingOrder, NEW p, NEW q, Advances(p, q), RankInv(p),
           Steps[p.next].id = Ranking[5], Enabled(Steps[p.next], p),
           NEW selected, Selects(p.results, selected), q.results = RowsOf(p.results, selected),
           q.allowed = p.allowed, q.batches = p.batches, q.live = p.live, q.reranked = p.reranked
    PROVE  RankInv(q)
<1>1. ~Reached(p, 5) /\ (Reached(p, 2) => Reached(q, 2)) /\ (Reached(p, 6) => Reached(q, 6))
  BY ReachedAdvances
<1>2. ~Reached(p, 6) /\ ~PastOf(p, "document_scope")
  BY <1>1, NotReached
<1>3. /\ PastOf(q, "merge_dedup") <=> PastOf(p, "merge_dedup")
      /\ PastOf(q, "permission_livecheck") <=> PastOf(p, "permission_livecheck")
      /\ PastOf(q, "document_scope")
  BY <1>2, RankingIs, PastAdvances DEF Filters
<1>4. /\ p.results \in RowsAmong(p.allowed) /\ Sorted(p.results) /\ p.results \in Seq(Row)
      /\ ~p.reranked /\ BestScored(p) /\ p.batches \in Seq(Seq(Row))
  <2>1. p.batches \in Seq(Seq(Row))
    BY DEF RankInv, Context
  <2>2. QED BY <1>2, <2>1 DEF RankInv, RowsAmong
<1>5. /\ q.results \in RowsAmong(q.allowed) /\ q.results \in Seq(Row) /\ Sorted(q.results)
      /\ Keeps(q.results, p.results, selected) /\ (p.results = <<>> => q.results = <<>>)
      /\ DocsOf(q.results) = DocsOf(p.results) \cap selected
  BY <1>4, KeptRows
<1>6. BestScored(q)
  BY <1>4, <1>5, KeptScored
<1>7. ASSUME PastOf(q, "merge_dedup"), NEW c \in Chunks, FoundIn(p.batches, c) # {}
      PROVE  c \in ChunksOf(p.results) \/ (PastOf(p, "permission_livecheck") /\ DocumentOf[c] \notin p.live)
  <2>1. Accounted(p)
    BY <1>3, <1>7 DEF RankInv
  <2>2. QED BY <1>2, <1>4, <1>7, <2>1 DEF Accounted, Missing
<1>8. ASSUME PastOf(q, "merge_dedup") PROVE Accounted(q)
  <2>1. ASSUME NEW c \in Chunks, FoundIn(q.batches, c) # {}, c \in ChunksOf(p.results),
               DocumentOf[c] \in DocsOf(q.results)
        PROVE  c \in ChunksOf(q.results)
    <3>1. PICK i \in 1 .. Len(p.results) : p.results[i].chunk = c
      BY <1>4, <2>1, RowsHave
    <3>2. DocumentOf[c] \in selected
      BY <1>5, <2>1
    <3>3. PICK k \in 1 .. Len(q.results) : q.results[k] = p.results[i]
      BY <1>5, <3>1, <3>2 DEF Keeps
    <3>4. QED BY <1>5, <3>1, <3>3, RowsHave
  <2>2. QED BY <1>3, <1>7, <1>8, <2>1 DEF Accounted, Missing
<1>9. ASSUME PastOf(q, "merge_dedup") PROVE Scoped(q)
  <2>1. ASSUME NEW d \in DocsOf(q.results), NEW c \in Chunks, FoundIn(q.batches, c) # {},
               DocumentOf[c] \in q.live, DocumentOf[c] \notin DocsOf(q.results)
        PROVE  BestDocIn(q.batches, d) >= BestDocIn(q.batches, DocumentOf[c])
    <3>1. PICK batches \in Seq(Seq(Row)), rows \in Seq(Row), e \in Nat :
             batches = p.batches /\ rows = p.results /\ e = DocumentOf[c]
      BY <1>4, RetrievalAssumption
    <3>2. \A x \in Chunks : FoundIn(batches, x) # {} /\ DocumentOf[x] = e => x \in ChunksOf(rows)
      BY <1>7, <1>9, <2>1, <3>1
    <3>3. e \in DocsOf(rows) /\ e \notin selected
      <4>1. c \in ChunksOf(rows)
        BY <2>1, <3>1, <3>2
      <4>2. e \in DocsOf(rows)
        BY <3>1, <4>1 DEF DocsOf
      <4>3. QED BY <1>5, <2>1, <3>1, <4>2
    <3>4. d \in DocsOf(rows) /\ BestOf(rows, d) >= BestOf(rows, e)
      BY <1>5, <2>1, <3>1, <3>3 DEF Selects
    <3>5. /\ BestOf(rows, d) \in Int /\ BestOf(rows, e) \in Int
          /\ \A i \in 1 .. Len(rows) : DocumentOf[rows[i].chunk] = e => rows[i].score <= BestOf(rows, e)
      BY <3>3, <3>4, BestOfIs
    <3>6. PICK i \in 1 .. Len(rows) : DocumentOf[rows[i].chunk] = d /\ rows[i].score = BestOf(rows, d)
      BY <3>4, BestOfIs
    <3>7. PICK x \in Chunks : x = rows[i].chunk /\ FoundIn(batches, x) # {} /\ BestIn(batches, x) = BestOf(rows, d)
      <4>1. rows[i].chunk \in Chunks
        BY RowsHave
      <4>2. FoundIn(batches, rows[i].chunk) # {} /\ rows[i].score = BestIn(batches, rows[i].chunk)
        BY <1>4, <3>1 DEF BestScored
      <4>3. QED BY <3>6, <4>1, <4>2
    <3>8. BestDocIn(batches, d) \in Int /\ BestOf(rows, d) <= BestDocIn(batches, d)
      <4>1. d = DocumentOf[x]
        BY <3>6, <3>7
      <4>2. BestDocIn(batches, d) \in Int /\ BestIn(batches, x) <= BestDocIn(batches, d)
        BY <3>7, <4>1, BestDocIs
      <4>3. QED BY <3>7, <4>2
    <3>9. BestDocIn(batches, e) \in Int /\ BestDocIn(batches, e) <= BestOf(rows, e)
      <4>1. FoundIn(batches, c) # {}
        BY <2>1, <3>1
      <4>2. BestDocIn(batches, e) \in Int
        BY <3>1, <4>1, BestDocIs
      <4>3. PICK y \in Chunks : /\ DocumentOf[y] = e /\ FoundIn(batches, y) # {}
                                /\ BestIn(batches, y) = BestDocIn(batches, e)
        <5>1. HasDocBest(batches, e)
          BY <3>1, <4>1, BestDocIs
        <5>2. QED BY <5>1 DEF HasDocBest
      <4>4. y \in ChunksOf(rows)
        BY <3>2, <4>3
      <4>5. PICK j \in 1 .. Len(rows) : rows[j].chunk = y
        BY <4>4, RowsHave
      <4>6. rows[j].score = BestIn(batches, y)
        BY <1>4, <3>1, <4>5 DEF BestScored
      <4>7. QED BY <3>5, <4>2, <4>3, <4>5, <4>6
    <3>10. BestDocIn(batches, d) >= BestDocIn(batches, e)
      BY <3>4, <3>5, <3>8, <3>9
    <3>11. QED BY <3>1, <3>10
  <2>2. QED BY <2>1 DEF Scoped
<1>10. q \in Context
  BY DEF Advances
<1>11. q.batches \in Seq(RowsAmong(q.allowed)) /\ (~Reached(q, 2) => q.batches = <<>>)
  BY <1>1 DEF RankInv
<1>12. ~Reached(q, 6) => ~q.reranked
  BY <1>4
<1>13. ~PastOf(q, "merge_dedup") => q.results = <<>>
  BY <1>3, <1>5 DEF RankInv
<1>14. ~PastOf(q, "permission_livecheck") => q.live = {}
  BY <1>3 DEF RankInv
<1>15. QED BY <1>3, <1>5, <1>6, <1>8, <1>9, <1>10, <1>11, <1>12, <1>13, <1>14 DEF RankInv

LEMMA RerankingRanked ==
    ASSUME RankingOrder, NEW p, NEW q, Advances(p, q), RankInv(p),
           Steps[p.next].id = Ranking[6],
           Reranks(q.results, p.results, p.allowed), q.reranked,
           q.allowed = p.allowed, q.batches = p.batches, q.live = p.live
    PROVE  RankInv(q)
<1>1. ~Reached(p, 6) /\ Reached(q, 6) /\ (Reached(p, 2) => Reached(q, 2))
  BY ReachedAdvances
<1>2. Steps[p.next].id \notin Filters
  BY RankingIs DEF Filters
<1>3. /\ PastOf(q, "merge_dedup") <=> PastOf(p, "merge_dedup")
      /\ PastOf(q, "permission_livecheck") <=> PastOf(p, "permission_livecheck")
      /\ PastOf(q, "document_scope") <=> PastOf(p, "document_scope")
  BY <1>2, PastAdvances DEF Filters
<1>4. p.results \in Seq(Row) /\ ~p.reranked
  BY <1>1 DEF RankInv, RowsAmong
<1>5. /\ q.results \in RowsAmong(q.allowed) /\ q.results \in Seq(Row) /\ Sorted(q.results)
      /\ \A k \in 1 .. Len(q.results) : \E i \in 1 .. Len(p.results) :
            q.results[k].chunk = p.results[i].chunk
      /\ \A i \in 1 .. Len(p.results) :
            \/ \E k \in 1 .. Len(q.results) : q.results[k].chunk = p.results[i].chunk
            \/ Len(q.results) = RerankerTopK
  BY DEF Reranks, RowsAmong
<1>6. DocsOf(q.results) \subseteq DocsOf(p.results)
  <2>1. ASSUME NEW d \in DocsOf(q.results) PROVE d \in DocsOf(p.results)
    <3>1. PICK k \in 1 .. Len(q.results) : DocumentOf[q.results[k].chunk] = d
      BY <1>5, RowsHave
    <3>2. PICK i \in 1 .. Len(p.results) : q.results[k].chunk = p.results[i].chunk
      BY <1>5
    <3>3. QED BY <1>4, <3>1, <3>2, RowsHave
  <2>2. QED BY <2>1
<1>7. ASSUME PastOf(q, "merge_dedup") PROVE Accounted(q)
  <2>1. ASSUME NEW c \in Chunks, FoundIn(q.batches, c) # {}, c \in ChunksOf(p.results),
               Len(q.results) # RerankerTopK
        PROVE  c \in ChunksOf(q.results)
    <3>1. PICK i \in 1 .. Len(p.results) : p.results[i].chunk = c
      BY <1>4, <2>1, RowsHave
    <3>2. PICK k \in 1 .. Len(q.results) : q.results[k].chunk = p.results[i].chunk
      BY <1>5, <2>1
    <3>3. QED BY <1>5, <3>1, <3>2, RowsHave
  <2>2. Accounted(p)
    BY <1>3, <1>7 DEF RankInv
  <2>3. ASSUME NEW c \in Chunks, Missing(p, c) PROVE Missing(q, c)
    BY <1>3, <1>4, <1>6, <2>3 DEF Missing
  <2>4. QED BY <2>1, <2>2, <2>3 DEF Accounted, Missing
<1>8. ~PastOf(q, "merge_dedup") => q.results = <<>>
  <2>1. ASSUME p.results = <<>> PROVE q.results = <<>>
    <3>1. Len(p.results) = 0
      BY <2>1
    <3>2. \A k \in 1 .. Len(q.results) : FALSE
      BY <1>5, <3>1
    <3>3. Len(q.results) \in Nat
      BY <1>5
    <3>4. Len(q.results) = 0
      BY <3>2, <3>3
    <3>5. QED BY <1>5, <3>4
  <2>2. QED BY <1>3, <2>1 DEF RankInv
<1>9. q \in Context
  BY DEF Advances
<1>10. q.batches \in Seq(RowsAmong(q.allowed)) /\ (~Reached(q, 2) => q.batches = <<>>)
  BY <1>1 DEF RankInv
<1>11. ~PastOf(q, "permission_livecheck") => q.live = {}
  BY <1>3 DEF RankInv
<1>12. QED BY <1>1, <1>5, <1>7, <1>8, <1>9, <1>10, <1>11 DEF RankInv

----------------------------------------------------------------------------
(* One step of the interpreter, but for its trace. *)

\* A hard failure of the gate is the end.
GateInv(p) ==
    p.gate = "hard_fail" => p.status = "ended" /\ (p.results = <<>> \/ ~p.settings.soft_mode)

\* The search was completed, or the batches and stages are what they were.
Searches(p, q) ==
    /\ Steps[p.next].id = "mode_search" /\ Enabled(Steps[p.next], p)
    /\ Searched(p, q.batches, q.stages) /\ q.status = "running" /\ q.queries = p.queries
Leaves(p, q) ==
    /\ q.batches = p.batches /\ q.stages = p.stages
    /\ Steps[p.next].id = "mode_search" /\ Enabled(Steps[p.next], p) => q.status = "failed"

StepOutcome(p, q) ==
    /\ Advances(p, q) /\ RankInv(q) /\ GateInv(q)
    /\ q.trace = p.trace /\ (Searches(p, q) \/ Leaves(p, q))

\* Where a step finds the context, with its own place behind it.
Takes(p, c) ==
    /\ RankingOrder /\ RankInv(p) /\ p.status = "running" /\ p.gate # "hard_fail"
    /\ p.next \in 1 .. Len(Steps) /\ c = [p EXCEPT !.next = p.next + 1]

LEMMA TakenContext ==
    ASSUME NEW p, NEW c, Takes(p, c)
    PROVE  /\ p \in Context /\ c \in Context /\ Advances(p, c) /\ c.next = p.next + 1
           /\ c.settings = p.settings /\ c.status = p.status /\ c.allowed = p.allowed
           /\ c.queries = p.queries /\ c.batches = p.batches /\ c.stages = p.stages
           /\ c.results = p.results /\ c.live = p.live /\ c.reranked = p.reranked
           /\ c.gate = p.gate /\ c.trace = p.trace
           /\ RankingOrder /\ RankInv(p) /\ p.status = "running" /\ p.gate # "hard_fail"
           /\ p.next \in 1 .. Len(Steps)
<1>1. p \in Context /\ p.next \in Nat /\ p.next + 1 \in Nat \ {0}
  BY SMTT(30) DEF Takes, RankInv, Context
<1>2. c \in Context /\ c.next = p.next + 1
  BY <1>1 DEF Takes, Context
<1>3. /\ c.settings = p.settings /\ c.status = p.status /\ c.allowed = p.allowed
      /\ c.queries = p.queries /\ c.batches = p.batches /\ c.stages = p.stages
      /\ c.results = p.results /\ c.live = p.live /\ c.reranked = p.reranked
      /\ c.gate = p.gate /\ c.trace = p.trace
  BY <1>1 DEF Takes, Context
<1>4. Advances(p, c)
  BY <1>1, <1>2, <1>3 DEF Advances, Takes
<1>5. QED BY <1>1, <1>2, <1>3, <1>4 DEF Takes

LEMMA SkippedOutcome ==
    ASSUME NEW p, NEW c, Takes(p, c), ~Enabled(Steps[p.next], p)
    PROVE  StepOutcome(p, c)
<1>1. RankInv(c)
  BY TakenContext, StaysRanked
<1>2. QED BY <1>1, TakenContext DEF StepOutcome, Leaves, GateInv

LEMMA PrefilterOutcome ==
    ASSUME NEW p, NEW c, Takes(p, c), Steps[p.next].id = "permission_prefilter",
           NEW q \in Prefilter(c)
    PROVE  StepOutcome(p, q)
<1>1. PICK a \in SUBSET {DocumentOf[x] : x \in Chunks} :
         q = [c EXCEPT !.allowed = a, !.status = IF a = {} THEN "ended" ELSE @]
  BY DEF Prefilter
<1>2. a \in SUBSET Nat
  BY RetrievalAssumption
<1>3. c \in Context
  BY TakenContext
<1>4. /\ q \in Context /\ q.next = c.next /\ q.settings = c.settings
      /\ q.queries = c.queries /\ q.batches = c.batches /\ q.stages = c.stages
      /\ q.results = c.results /\ q.live = c.live /\ q.reranked = c.reranked
      /\ q.gate = c.gate /\ q.trace = c.trace
  BY <1>1, <1>2, <1>3 DEF Context
<1>5. Advances(p, q)
  BY <1>4, TakenContext DEF Advances
<1>6. RankInv(q)
  BY <1>4, <1>5, TakenContext, RankingIs, PrefilterRanked
<1>7. QED BY <1>4, <1>5, <1>6, TakenContext DEF StepOutcome, Leaves, GateInv

LEMMA MultiQueryOutcome ==
    ASSUME NEW p, NEW c, Takes(p, c), Steps[p.next].id = "multi_query", NEW q \in MultiQuery(c)
    PROVE  StepOutcome(p, q)
<1>1. PICK n \in 1 .. MaxQueries : q = [c EXCEPT !.queries = n]
  BY DEF MultiQuery
<1>2. n \in Nat \ {0}
  BY RetrievalAssumption
<1>3. c \in Context
  BY TakenContext
<1>4. /\ q \in Context /\ q.next = c.next /\ q.settings = c.settings /\ q.status = c.status
      /\ q.allowed = c.allowed /\ q.batches = c.batches /\ q.stages = c.stages
      /\ q.results = c.results /\ q.live = c.live /\ q.reranked = c.reranked
      /\ q.gate = c.gate /\ q.trace = c.trace
  BY <1>1, <1>2, <1>3 DEF Context
<1>5. Advances(p, q)
  BY <1>4, TakenContext DEF Advances
<1>6. RankInv(q)
  <2>1. Steps[p.next].id \notin Filters
    BY DEF Filters
  <2>2. QED BY <1>4, <1>5, <2>1, TakenContext, StaysRanked
<1>7. QED BY <1>4, <1>5, <1>6, TakenContext DEF StepOutcome, Leaves, GateInv

LEMMA ModeSearchOutcome ==
    ASSUME NEW p, NEW c, Takes(p, c), Steps[p.next].id = "mode_search",
           Enabled(Steps[p.next], p), NEW q \in ModeSearch(c)
    PROVE  StepOutcome(p, q)
<1>1. c \in Context
  BY TakenContext
<1>2. CASE q = [c EXCEPT !.status = "failed"]
  <2>1. /\ q \in Context /\ q.next = c.next /\ q.settings = c.settings /\ q.status = "failed"
        /\ q.allowed = c.allowed /\ q.batches = c.batches /\ q.stages = c.stages
        /\ q.results = c.results /\ q.live = c.live /\ q.reranked = c.reranked
        /\ q.gate = c.gate /\ q.trace = c.trace
    BY <1>1, <1>2 DEF Context
  <2>2. Advances(p, q)
    BY <2>1, TakenContext DEF Advances
  <2>3. RankInv(q)
    <3>1. Steps[p.next].id \notin Filters
      BY DEF Filters
    <3>2. QED BY <2>1, <2>2, <3>1, TakenContext, StaysRanked
  <2>4. QED BY <2>1, <2>2, <2>3, TakenContext DEF StepOutcome, Leaves, GateInv
<1>3. CASE \E batches, stages : /\ Searched(c, batches, stages)
                                /\ q = [c EXCEPT !.stages = stages, !.batches = batches]
  <2>1. PICK batches, stages : /\ Searched(c, batches, stages)
                               /\ q = [c EXCEPT !.stages = stages, !.batches = batches]
    BY <1>3
  <2>2. /\ batches \in Seq(RowsAmong(c.allowed)) /\ stages \in Seq(1 .. 3)
        /\ Len(batches) = c.queries
        /\ stages # <<>> => c.settings.search_mode = "cascading"
    BY <2>1 DEF Searched
  <2>3. batches \in Seq(Seq(Row))
    <3>1. PICK A : A = RowsAmong(c.allowed)
      OBVIOUS
    <3>2. \A rows \in A : rows \in Seq(Row)
      BY <3>1 DEF RowsAmong
    <3>3. batches \in Seq(A)
      BY <2>2, <3>1
    <3>4. PICK B : B = Seq(Row)
      OBVIOUS
    <3>5. batches \in Seq(B)
      BY <3>2, <3>3, <3>4
    <3>6. QED BY <3>4, <3>5
  <2>4. /\ q \in Context /\ q.next = c.next /\ q.settings = c.settings /\ q.status = c.status
        /\ q.allowed = c.allowed /\ q.batches = batches /\ q.stages = stages
        /\ q.results = c.results /\ q.live = c.live /\ q.reranked = c.reranked
        /\ q.gate = c.gate /\ q.trace = c.trace /\ q.queries = c.queries
    BY <1>1, <2>1, <2>2, <2>3 DEF Context
  <2>5. Advances(p, q)
    BY <2>4, TakenContext DEF Advances
  <2>6. RankInv(q)
    BY <2>2, <2>4, <2>5, TakenContext, RankingIs, ModeSearchRanked
  <2>7. Searches(p, q)
    BY <2>2, <2>4, TakenContext DEF Searches, Searched
  <2>8. QED BY <2>4, <2>5, <2>6, <2>7, TakenContext DEF StepOutcome, GateInv
<1>4. QED BY <1>1, <1>2, <1>3, ModeSearchSearches

\* What a step that puts other rows in its place leaves of the rest.
Replaces(p, q) ==
    /\ Advances(p, q) /\ q.status = "running" /\ q.gate = p.gate /\ q.trace = p.trace
    /\ q.stages = p.stages /\ q.allowed = p.allowed /\ q.batches = p.batches

Checked(p, rows, live) == [Kept(p, rows) EXCEPT !.live = live]

LEMMA ResultsReplaced ==
    ASSUME NEW p, NEW c, Takes(p, c), NEW rows \in Seq(Row), NEW q,
           q = Kept(c, rows)
    PROVE  Replaces(p, q) /\ q.results = rows /\ q.live = p.live /\ q.reranked = p.reranked
<1>1. c \in Context /\ c.live = p.live /\ c.reranked = p.reranked
  BY TakenContext
<1>2. /\ q \in Context /\ q.next = c.next /\ q.settings = c.settings /\ q.status = c.status
      /\ q.allowed = c.allowed /\ q.batches = c.batches /\ q.stages = c.stages
      /\ q.gate = c.gate /\ q.trace = c.trace
      /\ q.results = rows /\ q.live = p.live /\ q.reranked = p.reranked
  BY <1>1 DEF Context, Kept
<1>3. Replaces(p, q)
  BY <1>2, TakenContext DEF Replaces, Advances
<1>4. QED BY <1>2, <1>3

LEMMA LiveReplaced ==
    ASSUME NEW p, NEW c, Takes(p, c), NEW rows \in Seq(Row), NEW live \in SUBSET Nat, NEW q,
           q = Checked(c, rows, live)
    PROVE  Replaces(p, q) /\ q.results = rows /\ q.live = live /\ q.reranked = p.reranked
<1>1. c \in Context /\ c.live = p.live /\ c.reranked = p.reranked
  BY TakenContext
<1>2. /\ q \in Context /\ q.next = c.next /\ q.settings = c.settings /\ q.status = c.status
      /\ q.allowed = c.allowed /\ q.batches = c.batches /\ q.stages = c.stages
      /\ q.gate = c.gate /\ q.trace = c.trace
      /\ q.results = rows /\ q.live = live /\ q.reranked = p.reranked
  BY <1>1 DEF Context, Checked, Kept
<1>3. Replaces(p, q)
  BY <1>2, TakenContext DEF Replaces, Advances
<1>4. QED BY <1>2, <1>3

LEMMA RerankedReplaced ==
    ASSUME NEW p, NEW c, Takes(p, c), NEW rows \in Seq(Row), NEW q,
           q = Reranked(c, rows)
    PROVE  Replaces(p, q) /\ q.results = rows /\ q.live = p.live /\ q.reranked
<1>1. c \in Context /\ c.live = p.live /\ c.reranked = p.reranked
  BY TakenContext
<1>2. /\ q \in Context /\ q.next = c.next /\ q.settings = c.settings /\ q.status = c.status
      /\ q.allowed = c.allowed /\ q.batches = c.batches /\ q.stages = c.stages
      /\ q.gate = c.gate /\ q.trace = c.trace
      /\ q.results = rows /\ q.live = p.live /\ q.reranked
  BY <1>1 DEF Context, Reranked, Kept
<1>3. Replaces(p, q)
  BY <1>2, TakenContext DEF Replaces, Advances
<1>4. QED BY <1>2, <1>3

LEMMA ReplacedOutcome ==
    ASSUME NEW p, NEW c, Takes(p, c), NEW q, Replaces(p, q), RankInv(q),
           Steps[p.next].id # "mode_search"
    PROVE  StepOutcome(p, q)
BY TakenContext DEF StepOutcome, Replaces, Leaves, GateInv

LEMMA MergeDedupOutcome ==
    ASSUME NEW p, NEW c, Takes(p, c), Steps[p.next].id = "merge_dedup",
           Enabled(Steps[p.next], p), NEW q \in MergeDedup(c)
    PROVE  StepOutcome(p, q)
<1>1. PICK flat, rows : /\ flat = FlattenSeq(p.batches)
                        /\ rows = ByScore([x \in ChunksOf(flat) |-> ScoreIn(flat, x)], FirstPlace(flat))
  OBVIOUS
<1>2. q = Kept(c, rows)
  BY <1>1, TakenContext DEF MergeDedup
<1>3. rows \in Seq(Row)
  <2>1. p.batches \in Seq(Seq(Row))
    BY TakenContext DEF Context
  <2>2. QED BY <1>1, <2>1, MergedRows
<1>4. Replaces(p, q) /\ q.results = rows /\ q.live = p.live /\ q.reranked = p.reranked
  BY <1>2, <1>3, ResultsReplaced
<1>5. RankInv(q)
  BY TakenContext, <1>1, <1>4, RankingIs, MergeRanked DEF Replaces
<1>6. QED BY TakenContext, <1>4, <1>5, ReplacedOutcome

LEMMA PermissionLivecheckOutcome ==
    ASSUME NEW p, NEW c, Takes(p, c), Steps[p.next].id = "permission_livecheck",
           Enabled(Steps[p.next], p), NEW q \in PermissionLivecheck(c)
    PROVE  StepOutcome(p, q)
<1>1. PICK live \in SUBSET DocsOf(p.results) :
         q = Checked(c, RowsOf(p.results, live), live)
  BY TakenContext DEF PermissionLivecheck, Checked
<1>2. p.results \in RowsAmong(p.allowed) /\ Sorted(p.results) /\ p.results \in Seq(Row)
  BY TakenContext DEF RankInv, RowsAmong
<1>3. PICK rows \in Seq(Row) : rows = RowsOf(p.results, live)
  <2>1. PICK rows : rows = RowsOf(p.results, live)
    OBVIOUS
  <2>2. QED BY <1>2, <2>1, KeptRows
<1>4. live \in SUBSET Nat
  <2>1. ChunksOf(p.results) \subseteq Chunks
    BY <1>2, FirstPlaces
  <2>2. \A x \in ChunksOf(p.results) : DocumentOf[x] \in Nat
    BY <2>1, RetrievalAssumption
  <2>3. DocsOf(p.results) \in SUBSET Nat
    BY <2>2 DEF DocsOf
  <2>4. QED BY <2>3
<1>5. Replaces(p, q) /\ q.results = rows /\ q.live = live /\ q.reranked = p.reranked
  <2>1. q = Checked(c, rows, live)
    BY <1>1, <1>3
  <2>2. QED BY <1>3, <1>4, <2>1, LiveReplaced
<1>6. RankInv(q)
  BY TakenContext, <1>3, <1>5, RankingIs, LivecheckRanked DEF Replaces
<1>7. QED BY TakenContext, <1>5, <1>6, ReplacedOutcome

LEMMA DocumentScopeOutcome ==
    ASSUME NEW p, NEW c, Takes(p, c), Steps[p.next].id = "document_scope",
           Enabled(Steps[p.next], p), NEW q \in DocumentScope(c)
    PROVE  StepOutcome(p, q)
<1>1. p.results \in RowsAmong(p.allowed) /\ Sorted(p.results) /\ p.results \in Seq(Row)
  BY TakenContext DEF RankInv, RowsAmong
<1>2. PICK selected : Selects(p.results, selected) /\ q = Kept(c, RowsOf(p.results, selected))
  BY <1>1, TakenContext, DocumentScopeSelects
<1>3. PICK rows : rows = RowsOf(p.results, selected)
  OBVIOUS
<1>4. rows \in Seq(Row)
  BY <1>1, <1>3, KeptRows
<1>5. Replaces(p, q) /\ q.results = rows /\ q.live = p.live /\ q.reranked = p.reranked
  <2>1. q = Kept(c, rows)
    BY <1>2, <1>3
  <2>2. QED BY <1>4, <2>1, ResultsReplaced
<1>6. RankInv(q)
  BY TakenContext, <1>2, <1>3, <1>5, RankingIs, ScopeRanked DEF Replaces
<1>7. QED BY TakenContext, <1>5, <1>6, ReplacedOutcome

LEMMA RerankingOutcome ==
    ASSUME NEW p, NEW c, Takes(p, c), Steps[p.next].id = "reranking", NEW q \in Reranking(c)
    PROVE  StepOutcome(p, q)
<1>1. p.results \in RowsAmong(p.allowed) /\ Sorted(p.results)
  BY TakenContext DEF RankInv
<1>2. CASE q = c
  <2>1. Steps[p.next].id \notin Filters
    BY DEF Filters
  <2>2. RankInv(c)
    BY <2>1, TakenContext, StaysRanked
  <2>3. QED BY <1>2, <2>2, TakenContext DEF StepOutcome, Leaves, GateInv
<1>3. CASE RerankedFrom(c, q, p.results, p.allowed)
  <2>1. PICK new : Reranks(new, p.results, p.allowed) /\ q = Reranked(c, new)
    BY <1>3 DEF RerankedFrom
  <2>2. new \in Seq(Row) /\ q = Reranked(c, new)
    BY <2>1 DEF Reranks, RowsAmong
  <2>3. Replaces(p, q) /\ q.results = new /\ q.live = p.live /\ q.reranked
    BY <2>2, RerankedReplaced
  <2>4. RankInv(q)
    <3>1. Reranks(q.results, p.results, p.allowed)
      BY <2>1, <2>3
    <3>2. Steps[p.next].id = Ranking[6] /\ RankingOrder /\ RankInv(p)
      BY TakenContext, RankingIs
    <3>3. QED BY <2>3, <3>1, <3>2, RerankingRanked DEF Replaces
  <2>5. QED BY TakenContext, <2>3, <2>4, ReplacedOutcome
<1>4. c.results = p.results
  BY TakenContext
<1>5. QED BY <1>1, <1>2, <1>3, <1>4, RerankingReranks

LEMMA RetrievalGateOutcome ==
    ASSUME NEW p, NEW c, Takes(p, c), Steps[p.next].id = "retrieval_gate", NEW q \in RetrievalGate(c)
    PROVE  StepOutcome(p, q)
<1>1. \/ q = c
      \/ q = [c EXCEPT !.gate = "soft_fail"]
      \/ q = [c EXCEPT !.gate = "hard_fail", !.status = "ended"]
         /\ (c.results = <<>> \/ ~c.settings.soft_mode)
  BY DEF RetrievalGate
<1>2. c \in Context
  BY TakenContext
<1>3. /\ q \in Context /\ q.next = c.next /\ q.settings = c.settings
      /\ q.allowed = c.allowed /\ q.batches = c.batches /\ q.stages = c.stages
      /\ q.results = c.results /\ q.live = c.live /\ q.reranked = c.reranked
      /\ q.trace = c.trace
      /\ \/ q.gate = c.gate
         \/ q.gate = "soft_fail"
         \/ q.gate = "hard_fail" /\ q.status = "ended" /\ (c.results = <<>> \/ ~c.settings.soft_mode)
  <2>1. CASE q = c
    BY <1>2, <2>1
  <2>2. CASE q = [c EXCEPT !.gate = "soft_fail"]
    BY <1>2, <2>2 DEF Context
  <2>3. CASE q = [c EXCEPT !.gate = "hard_fail", !.status = "ended"]
             /\ (c.results = <<>> \/ ~c.settings.soft_mode)
    BY <1>2, <2>3 DEF Context
  <2>4. QED BY <1>1, <2>1, <2>2, <2>3
<1>4. Advances(p, q)
  BY <1>3, TakenContext DEF Advances
<1>5. RankInv(q)
  <2>1. Steps[p.next].id \notin Filters
    BY DEF Filters
  <2>2. QED BY <1>3, <1>4, <2>1, TakenContext, StaysRanked
<1>6. GateInv(q)
  BY <1>3, TakenContext DEF GateInv
<1>7. QED BY <1>3, <1>4, <1>5, <1>6, TakenContext DEF StepOutcome, Leaves

LEMMA HandledOutcome ==
    ASSUME NEW p, NEW c, Takes(p, c), Enabled(Steps[p.next], p), NEW q \in Handle(Steps[p.next].id, c)
    PROVE  StepOutcome(p, q)
<1>1. PICK id : id = Steps[p.next].id /\ q \in Handle(id, c)
  OBVIOUS
<1>2. id \in StepIds
  BY <1>1, TakenContext, StepsRanked
<1>3. \/ id \in {"permission_prefilter", "mode_search", "merge_dedup", "permission_livecheck"}
      \/ id \in {"document_scope", "reranking", "multi_query", "retrieval_gate"}
  <2>1. \A x \in ToSet(Ranking) : \E k \in 1 .. 6 : x = Ranking[k]
    BY RankingIs DEF ToSet
  <2>2. QED BY <1>2, <2>1, RankingIs DEF StepIds
<1>4. CASE id = "permission_prefilter"
  BY <1>1, <1>4, PrefilterOutcome DEF Handle
<1>5. CASE id = "mode_search"
  BY <1>1, <1>5, ModeSearchOutcome DEF Handle
<1>6. CASE id = "merge_dedup"
  BY <1>1, <1>6, MergeDedupOutcome DEF Handle
<1>7. CASE id = "permission_livecheck"
  BY <1>1, <1>7, PermissionLivecheckOutcome DEF Handle
<1>8. CASE id = "document_scope"
  BY <1>1, <1>8, DocumentScopeOutcome DEF Handle
<1>9. CASE id = "reranking"
  BY <1>1, <1>9, RerankingOutcome DEF Handle
<1>10. CASE id = "multi_query"
  BY <1>1, <1>10, MultiQueryOutcome DEF Handle
<1>11. CASE id = "retrieval_gate"
  BY <1>1, <1>11, RetrievalGateOutcome DEF Handle
<1>12. QED BY <1>3, <1>4, <1>5, <1>6, <1>7, <1>8, <1>9, <1>10, <1>11

----------------------------------------------------------------------------
(* The trace *)

Mark(k) == [stage |-> 0, name |-> Steps[k].id]

\* Entries that name no step, and are no variant.
Declares(names) ==
    /\ names \in Seq(Entry)
    /\ \A i \in 1 .. Len(names) : names[i].stage = 0 => names[i].name \notin StepIds \union {"variant"}

LEMMA DeclaredNames ==
    ASSUME TracesDeclared, NEW mode \in DOMAIN Declared, NEW names, names = Declared[mode].names
    PROVE  Declares(names) /\ DOMAIN names = 1 .. Len(names) /\ Len(names) \in Nat
<1>1. PICK Kind : Kind = [stage : Nat, name : STRING]
  OBVIOUS
<1>2. names \in Seq(Kind)
  BY <1>1 DEF TracesDeclared
<1>3. /\ names = [i \in 1 .. Len(names) |-> names[i]] /\ Len(names) \in Nat
      /\ DOMAIN names = 1 .. Len(names)
  BY <1>2
<1>4. \A i \in 1 .. Len(names) : names[i] \in Kind /\ names[i] \in ToSet(names)
  BY <1>2, <1>3 DEF ToSet
<1>5. ASSUME NEW i \in 1 .. Len(names) PROVE names[i] \in Entry
  <2>1. names[i].name \in Names
    BY <1>4 DEF Names
  <2>2. names[i] = [stage |-> names[i].stage, name |-> names[i].name] /\ names[i].stage \in Nat
    BY <1>1, <1>4
  <2>3. QED BY <2>1, <2>2 DEF Entry
<1>6. names \in Seq(Entry)
  BY <1>3, <1>5
<1>7. \A i \in 1 .. Len(names) : names[i].stage = 0 => names[i].name \notin StepIds \union {"variant"}
  BY <1>4 DEF TracesDeclared
<1>8. QED BY <1>3, <1>6, <1>7 DEF Declares

LEMMA MarkIs ==
    ASSUME RankingOrder, NEW k \in 1 .. Len(Steps)
    PROVE  /\ Mark(k) \in Entry /\ Mark(k).stage = 0 /\ Mark(k).name \in StepIds /\ Mark(k) # Variant
           /\ \A l \in 1 .. Len(Steps) : Mark(l) = Mark(k) => l = k
<1>1. Steps[k].id \in StepIds
  BY StepsRanked
<1>2. StepIds \subseteq Names /\ "variant" \notin StepIds
  <2>1. \A x \in ToSet(Ranking) : \E a \in 1 .. 6 : x = Ranking[a]
    BY RankingIs DEF ToSet
  <2>2. \A a \in 1 .. 6 : a = 1 \/ a = 2 \/ a = 3 \/ a = 4 \/ a = 5 \/ a = 6
    OBVIOUS
  <2>3. \A a \in 1 .. 6 : Ranking[a] # "variant"
    BY <2>2, RankingIs
  <2>4. QED BY <2>1, <2>3 DEF StepIds, Names
<1>3. Mark(k) \in Entry /\ Mark(k).stage = 0 /\ Mark(k).name = Steps[k].id
  BY <1>1, <1>2 DEF Mark, Entry
<1>4. Mark(k) # Variant
  BY <1>1, <1>2 DEF Mark, Variant
<1>5. ASSUME NEW l \in 1 .. Len(Steps), Mark(l) = Mark(k) PROVE l = k
  <2>1. Steps[l].id = Steps[k].id
    BY <1>5 DEF Mark
  <2>2. QED BY <2>1, StepsRanked
<1>6. QED BY <1>1, <1>3, <1>4, <1>5

\* The stages end where they are declared to.
StagesEnd(names, end) ==
    /\ \A k \in 1 .. 3 : \A i \in 1 .. Len(names) :
          names[i].stage = k <=> end[k - 1] < i /\ i <= end[k]
    /\ \A k \in 1 .. 3 : \E i \in 1 .. Len(names) : names[i].stage = k
    /\ \A i \in 1 .. Len(names) : names[i].stage \in 1 .. 3

LEMMA CascadeEnds ==
    ASSUME TracesDeclared, "cascading" \in DOMAIN Declared,
           NEW names, names = Declared["cascading"].names, NEW end, end = StageEnds("cascading")
    PROVE  StagesEnd(names, end)
<1>1. names \in Seq(Entry) /\ DOMAIN names = 1 .. Len(names) /\ Len(names) \in Nat
  BY DeclaredNames DEF Declares
<1>2. {n.stage : n \in ToSet(names)} = 1 .. 3
  BY DEF TracesDeclared
<1>3. \A i \in 1 .. Len(names) : names[i].stage \in 1 .. 3
  BY <1>1, <1>2 DEF ToSet
<1>4. \A k \in 1 .. 3 : \E i \in 1 .. Len(names) : names[i].stage = k
  BY <1>1, <1>2 DEF ToSet
<1>5. \A i, j \in 1 .. Len(names) : i < j => names[i].stage <= names[j].stage
  BY <1>1 DEF TracesDeclared
<1>6. ASSUME NEW k \in 1 .. 2
      PROVE  \E i \in 1 .. Len(names) : \A j \in 1 .. Len(names) :
                /\ names[j] = [stage |-> k, name |-> "eval"] <=> j = i
                /\ names[j].stage = k => j <= i
  BY <1>1, ZenonT(40) DEF TracesDeclared
<1>7. 1 \in 1 .. 2 /\ 2 \in 1 .. 2
  OBVIOUS
<1>8. PICK one \in 1 .. Len(names) : \A j \in 1 .. Len(names) :
         /\ names[j] = [stage |-> 1, name |-> "eval"] <=> j = one
         /\ names[j].stage = 1 => j <= one
  BY <1>6, <1>7
<1>9. PICK two \in 1 .. Len(names) : \A j \in 1 .. Len(names) :
         /\ names[j] = [stage |-> 2, name |-> "eval"] <=> j = two
         /\ names[j].stage = 2 => j <= two
  BY <1>6, <1>7
<1>10. names[one].stage = 1 /\ names[two].stage = 2
  BY <1>8, <1>9
<1>11. one < two
  <2>1. ASSUME two < one PROVE FALSE
    BY <1>5, <1>10, <2>1
  <2>2. one # two
    BY <1>10
  <2>3. QED BY <1>1, <2>1, <2>2
<1>12. ASSUME NEW S \in SUBSET Nat, NEW m, S = {m} PROVE S # {} /\ Min(S) = m
  BY <1>12, LeastIs
<1>13. StageEnd(names, 0, 1) = one
  <2>1. {i \in 0 + 1 .. Len(names) : names[i] = [stage |-> 1, name |-> "eval"]} = {one}
    BY <1>8
  <2>2. PICK S \in SUBSET Nat : /\ S = {i \in 0 + 1 .. Len(names) : names[i] = [stage |-> 1, name |-> "eval"]}
                                /\ S = {one}
    <3>1. {one} \in SUBSET Nat
      OBVIOUS
    <3>2. QED BY <2>1, <3>1, Zenon
  <2>3. S # {} /\ Min(S) = one
    BY <1>12, <2>2
  <2>4. StageEnd(names, 0, 1) = IF S = {} THEN 0 ELSE Min(S)
    BY <2>2 DEF StageEnd
  <2>5. QED BY <2>3, <2>4
<1>14. StageEnd(names, one, 2) = two
  <2>1. {i \in one + 1 .. Len(names) : names[i] = [stage |-> 2, name |-> "eval"]} = {two}
    BY <1>1, <1>9, <1>11
  <2>2. PICK S \in SUBSET Nat : /\ S = {i \in one + 1 .. Len(names) : names[i] = [stage |-> 2, name |-> "eval"]}
                                /\ S = {two}
    <3>1. {two} \in SUBSET Nat
      OBVIOUS
    <3>2. QED BY <2>1, <3>1, Zenon
  <2>3. S # {} /\ Min(S) = two
    BY <1>12, <2>2
  <2>4. StageEnd(names, one, 2) = IF S = {} THEN one ELSE Min(S)
    BY <2>2 DEF StageEnd
  <2>5. QED BY <2>3, <2>4
<1>15. end[0] = 0 /\ end[1] = one /\ end[2] = two /\ end[3] = Len(names)
  <2>1. Declared["cascading"].stages = <<1, 2, 3>>
    BY DEF TracesDeclared
  <2> DEFINE Ends(f) == f = [k \in 0 .. 3 |->
                 IF k = 0 THEN 0
                 ELSE IF k = 3 THEN Len(names)
                 ELSE StageEnd(names, f[k - 1], <<1, 2, 3>>[k])]
  <2>2. end = CHOOSE f : Ends(f)
    <3>1. Len(<<1, 2, 3>>) = 3
      OBVIOUS
    <3>2. QED BY <2>1, <3>1 DEF StageEnds
  <2> DEFINE g == [k \in 0 .. 3 |-> IF k = 0 THEN 0 ELSE IF k = 3 THEN Len(names)
                                    ELSE IF k = 1 THEN one ELSE two]
  <2>3. Ends(g)
    <3>1. ASSUME NEW k \in 0 .. 3
          PROVE  g[k] = IF k = 0 THEN 0 ELSE IF k = 3 THEN Len(names)
                        ELSE StageEnd(names, g[k - 1], <<1, 2, 3>>[k])
      <4>1. CASE k = 0
        BY <4>1
      <4>2. CASE k = 3
        BY <4>2
      <4>3. CASE k = 1
        <5>1. g[1 - 1] = 0 /\ <<1, 2, 3>>[1] = 1 /\ g[1] = one
          OBVIOUS
        <5> HIDE DEF g
        <5>2. QED BY <1>13, <4>3, <5>1
      <4>4. CASE k = 2
        <5>1. g[2 - 1] = one /\ <<1, 2, 3>>[2] = 2 /\ g[2] = two
          OBVIOUS
        <5> HIDE DEF g
        <5>2. QED BY <1>14, <4>4, <5>1
      <4>5. QED BY <4>1, <4>2, <4>3, <4>4
    <3>2. g = [k \in 0 .. 3 |-> g[k]]
      OBVIOUS
    <3> HIDE DEF g
    <3>3. QED BY <3>1, <3>2
  <2> HIDE DEF g
  <2>4. Ends(end)
    <3> HIDE DEF Ends
    <3>1. QED BY <2>2, <2>3
  <2>5. \A k \in 0 .. 3 : end[k] = IF k = 0 THEN 0 ELSE IF k = 3 THEN Len(names)
                                   ELSE StageEnd(names, end[k - 1], <<1, 2, 3>>[k])
    BY <2>4
  <2>6. end[0] = 0 /\ end[3] = Len(names)
    BY <2>5
  <2>7. end[1] = StageEnd(names, end[0], 1)
    <3>1. end[1] = StageEnd(names, end[1 - 1], <<1, 2, 3>>[1])
      BY <2>5
    <3>2. 1 - 1 = 0 /\ <<1, 2, 3>>[1] = 1
      OBVIOUS
    <3>3. QED BY <3>1, <3>2
  <2>8. end[2] = StageEnd(names, end[1], 2)
    <3>1. end[2] = StageEnd(names, end[2 - 1], <<1, 2, 3>>[2])
      BY <2>5
    <3>2. 2 - 1 = 1 /\ <<1, 2, 3>>[2] = 2
      OBVIOUS
    <3>3. QED BY <3>1, <3>2
  <2>9. QED BY <1>13, <1>14, <2>6, <2>7, <2>8
<1>16. ASSUME NEW i \in 1 .. Len(names)
       PROVE  /\ names[i].stage = 1 <=> i <= one
              /\ names[i].stage = 2 <=> one < i /\ i <= two
              /\ names[i].stage = 3 <=> two < i
  <2>1. /\ i < one => names[i].stage <= 1
        /\ one < i => names[i].stage >= 1
        /\ i < two => names[i].stage <= 2
        /\ two < i => names[i].stage >= 2
    <3>1. PICK s \in 1 .. 3 : s = names[i].stage
      BY <1>3
    <3>2. i < one => s <= 1
      BY <1>5, <1>10, <3>1
    <3>3. one < i => s >= 1
      BY <3>1
    <3>4. i < two => s <= 2
      BY <1>5, <1>10, <3>1
    <3>5. two < i => 2 <= s
      BY <1>5, <1>10, <3>1
    <3>6. QED BY <3>1, <3>2, <3>3, <3>4, <3>5
  <2>2. /\ names[i].stage = 1 => i <= one
        /\ names[i].stage = 2 => i <= two
    BY <1>8, <1>9
  <2>3. i = one => names[i].stage = 1
    BY <1>10
  <2>4. i = two => names[i].stage = 2
    BY <1>10
  <2>5. PICK s \in 1 .. 3 : s = names[i].stage
    BY <1>3
  <2>6. QED BY <1>11, <2>1, <2>2, <2>3, <2>4, <2>5
<1>17. ASSUME NEW k \in 1 .. 3, NEW i \in 1 .. Len(names)
       PROVE  names[i].stage = k <=> end[k - 1] < i /\ i <= end[k]
  <2>1. CASE k = 1
    <3>1. end[k - 1] = 0 /\ end[k] = one
      BY <1>15, <2>1
    <3>2. QED BY <1>16, <2>1, <3>1
  <2>2. CASE k = 2
    <3>1. end[k - 1] = one /\ end[k] = two
      BY <1>15, <2>2
    <3>2. QED BY <1>16, <2>2, <3>1
  <2>3. CASE k = 3
    <3>1. end[k - 1] = two /\ end[k] = Len(names)
      BY <1>15, <2>3
    <3>2. QED BY <1>1, <1>16, <2>3, <3>1
  <2>4. QED BY <2>1, <2>2, <2>3
<1>18. QED BY <1>3, <1>4, <1>17 DEF StagesEnd

LEMMA CascadeStages ==
    ASSUME TracesDeclared, "cascading" \in DOMAIN Declared, NEW stages \in Seq(1 .. 3),
           NEW names, names = NamesForStages("cascading", stages)
    PROVE  Declares(names) /\ \A s : s \in ToSet(stages) <=> \E i \in 1 .. Len(names) : names[i].stage = s
<1>1. PICK all, end : all = Declared["cascading"].names /\ end = StageEnds("cascading")
  OBVIOUS
<1>2. Declares(all) /\ DOMAIN all = 1 .. Len(all) /\ Len(all) \in Nat
  BY <1>1, DeclaredNames
<1>3. /\ \A k \in 1 .. 3 : \A i \in 1 .. Len(all) : all[i].stage = k <=> end[k - 1] < i /\ i <= end[k]
      /\ \A k \in 1 .. 3 : \E i \in 1 .. Len(all) : all[i].stage = k
      /\ \A i \in 1 .. Len(all) : all[i].stage \in 1 .. 3
  <2>1. StagesEnd(all, end)
    BY <1>1, CascadeEnds
  <2>2. QED BY <2>1 DEF StagesEnd
<1>4. \A s \in ToSet(stages) : s \in 1 .. 3
  BY DEF ToSet
<1>5. PICK places : places = {i \in 1 .. Len(all) : all[i].stage \in ToSet(stages)}
  OBVIOUS
<1>6. names = At(all, places)
  <2>1. Declared["cascading"].stages = <<1, 2, 3>>
    BY DEF TracesDeclared
  <2>2. DOMAIN <<1, 2, 3>> = 1 .. 3 /\ \A k \in 1 .. 3 : <<1, 2, 3>>[k] = k
    OBVIOUS
  <2>3. names = At(all, {i \in DOMAIN all : \E k \in 1 .. 3 :
                           k \in ToSet(stages) /\ end[k - 1] < i /\ i <= end[k]})
    <3>1. PICK three : three = <<1, 2, 3>>
      OBVIOUS
    <3>2. names = At(all, {i \in DOMAIN all : \E k \in DOMAIN three :
                             three[k] \in ToSet(stages) /\ end[k - 1] < i /\ i <= end[k]})
      BY <1>1, <2>1, <3>1 DEF NamesForStages
    <3>3. DOMAIN three = 1 .. 3 /\ \A k \in 1 .. 3 : three[k] = k
      BY <2>2, <3>1
    <3>4. {i \in DOMAIN all : \E k \in DOMAIN three :
             three[k] \in ToSet(stages) /\ end[k - 1] < i /\ i <= end[k]}
          = {i \in DOMAIN all : \E k \in 1 .. 3 :
               k \in ToSet(stages) /\ end[k - 1] < i /\ i <= end[k]}
      BY <3>3
    <3>5. QED BY <3>2, <3>4
  <2>4. \A i \in 1 .. Len(all) : all[i].stage \in ToSet(stages) <=>
           \E k \in 1 .. 3 : k \in ToSet(stages) /\ end[k - 1] < i /\ i <= end[k]
    BY <1>3, <1>4
  <2>5. places = {i \in DOMAIN all : \E k \in 1 .. 3 :
                    k \in ToSet(stages) /\ end[k - 1] < i /\ i <= end[k]}
    BY <1>2, <1>5, <2>4
  <2>6. QED BY <2>3, <2>5
<1>7. all \in Seq(Entry) /\ places \in SUBSET (1 .. Len(all))
  BY <1>2, <1>5 DEF Declares
<1>8. names \in Seq(Entry) /\ Picks(names, all, places)
  BY <1>6, <1>7, AtPlaces
<1>9. PICK order \in [1 .. Len(names) -> places] :
         /\ \A k \in 1 .. Len(names) : names[k] = all[order[k]]
         /\ \A i \in places : \E k \in 1 .. Len(names) : order[k] = i
  BY <1>8 DEF Picks
<1>10. \A k \in 1 .. Len(names) : order[k] \in places
  BY <1>9
<1>11. Declares(names)
  BY <1>2, <1>5, <1>8, <1>9, <1>10 DEF Declares
<1>12. ASSUME NEW s PROVE s \in ToSet(stages) <=> \E i \in 1 .. Len(names) : names[i].stage = s
  <2>1. ASSUME s \in ToSet(stages) PROVE \E k \in 1 .. Len(names) : names[k].stage = s
    <3>1. PICK i \in 1 .. Len(all) : all[i].stage = s
      BY <1>3, <1>4, <2>1
    <3>2. i \in places
      BY <1>5, <2>1, <3>1
    <3>3. QED BY <1>9, <3>1, <3>2
  <2>2. ASSUME NEW k \in 1 .. Len(names), names[k].stage = s PROVE s \in ToSet(stages)
    BY <1>5, <1>9, <1>10, <2>2
  <2>3. QED BY <2>1, <2>2
<1>13. QED BY <1>11, <1>12

\* What a step adds: its own mark at last, and of a search what its mode declares and a
\* variant for each further query.
Ends(entries, n) ==
    /\ entries \in Seq(Entry) /\ Len(entries) \in Nat \ {0} /\ entries[Len(entries)] = Mark(n)
    /\ \A i \in 1 .. Len(entries) - 1 : entries[i].stage = 0 => entries[i].name \notin StepIds
HasVariants(entries, v) ==
    \E m \in Nat :
       /\ m + v <= Len(entries)
       /\ \A i \in 1 .. Len(entries) : entries[i] = Variant <=> i \in m + 1 .. m + v
HasStages(entries, stages) ==
    \A s : s \in ToSet(stages) <=> s # 0 /\ \E i \in 1 .. Len(entries) : entries[i].stage = s

LEMMA MarkAdded ==
    ASSUME RankingOrder, NEW n \in 1 .. Len(Steps), Steps[n].id # "mode_search", NEW q,
           NEW entries, entries = TraceNames(Steps[n], q)
    PROVE  Ends(entries, n) /\ Len(entries) = 1 /\ entries[1] = Mark(n)
<1>1. PICK mark \in Entry : mark = Mark(n)
  BY MarkIs
<1>2. entries = <<>> \o <<mark>>
  BY <1>1 DEF TraceNames, Mark
<1>3. entries = <<mark>>
  BY <1>2
<1>4. entries \in Seq(Entry) /\ Len(entries) = 1 /\ entries[1] = mark
  BY <1>3
<1>5. QED BY <1>1, <1>4 DEF Ends

LEMMA SearchAdded ==
    ASSUME RankingOrder, TracesDeclared, NEW n \in 1 .. Len(Steps), Steps[n].id = "mode_search",
           NEW q \in Context, q.stages # <<>> => q.settings.search_mode = "cascading",
           NEW entries, entries = TraceNames(Steps[n], q)
    PROVE  /\ Ends(entries, n) /\ HasVariants(entries, q.queries - 1)
           /\ q.stages # <<>> => HasStages(entries, q.stages)
<1>1. PICK mode \in DOMAIN Declared : mode = q.settings.search_mode
  <2>1. q.settings \in Settings
    BY DEF Context
  <2>2. QED BY <2>1, RetrievalAssumption
<1>2. PICK ofMode : ofMode = IF q.stages = <<>> THEN Declared[mode].names
                             ELSE NamesForStages(mode, q.stages)
  OBVIOUS
<1>3. /\ Declares(ofMode)
      /\ q.stages # <<>> => \A s : s \in ToSet(q.stages) <=> \E i \in 1 .. Len(ofMode) : ofMode[i].stage = s
  <2>1. CASE q.stages = <<>>
    BY <1>2, <2>1, DeclaredNames
  <2>2. CASE q.stages # <<>>
    <3>1. mode = "cascading" /\ q.stages \in Seq(1 .. 3)
      BY <1>1, <2>2 DEF Context
    <3>2. PICK stages \in Seq(1 .. 3) : stages = q.stages
      BY <3>1
    <3>3. ofMode = NamesForStages("cascading", stages) /\ "cascading" \in DOMAIN Declared
      BY <1>2, <2>2, <3>1, <3>2
    <3>4. Declares(ofMode) /\ \A s : s \in ToSet(stages) <=> \E i \in 1 .. Len(ofMode) : ofMode[i].stage = s
      BY <3>3, CascadeStages
    <3>5. QED BY <3>2, <3>4
  <2>3. QED BY <2>1, <2>2
<1>4. PICK v \in Nat : v = q.queries - 1
  <2>1. q.queries \in Nat \ {0}
    BY DEF Context
  <2>2. QED BY <2>1
<1>5. PICK variants : variants = [i \in 1 .. v |-> Variant]
  OBVIOUS
<1>6. PICK mark \in Entry : mark = Mark(n)
  BY MarkIs
<1>7. Variant \in Entry /\ Variant.stage = 0 /\ Variant.name \notin StepIds
  <2>1. "variant" \notin StepIds
    <3>1. \A x \in ToSet(Ranking) : \E a \in 1 .. 6 : x = Ranking[a]
      BY RankingIs DEF ToSet
    <3>2. \A a \in 1 .. 6 : a = 1 \/ a = 2 \/ a = 3 \/ a = 4 \/ a = 5 \/ a = 6
      OBVIOUS
    <3>3. \A a \in 1 .. 6 : Ranking[a] # "variant"
      BY <3>2, RankingIs
    <3>4. QED BY <3>1, <3>3 DEF StepIds
  <2>2. QED BY <2>1 DEF Variant, Entry, Names
<1>8. variants \in Seq(Entry) /\ Len(variants) = v /\ \A i \in 1 .. v : variants[i] = Variant
  BY <1>5, <1>7
<1>9. ofMode \in Seq(Entry)
  BY <1>3 DEF Declares
<1>10. PICK front \in Seq(Entry) : front = ofMode \o variants /\ Joins(front, ofMode, variants)
  BY <1>8, <1>9, Concatenated
<1>11. <<mark>> \in Seq(Entry) /\ Len(<<mark>>) = 1 /\ <<mark>>[1] = mark
  OBVIOUS
<1>12. PICK last \in Seq(Entry) : last = <<mark>> /\ Len(last) = 1 /\ last[1] = mark
  BY <1>11
<1>13. entries = front \o last
  BY <1>1, <1>2, <1>4, <1>5, <1>6, <1>10, <1>12 DEF TraceNames, Mark
<1>14. entries \in Seq(Entry) /\ Joins(entries, front, last)
  BY <1>13, Concatenated
<1>15. PICK m \in Nat : m = Len(ofMode) /\ Len(front) = m + v /\ Len(entries) = (m + v) + 1
  BY <1>8, <1>9, <1>10, <1>12, <1>14 DEF Joins
<1>16. /\ \A i \in 1 .. m : entries[i] = ofMode[i]
       /\ \A i \in m + 1 .. m + v : entries[i] = Variant
       /\ entries[(m + v) + 1] = mark
  <2>1. ASSUME NEW i \in 1 .. m PROVE entries[i] = ofMode[i]
    <3>1. front[i] = ofMode[i] /\ i \in 1 .. Len(front)
      BY <1>10, <1>15 DEF Joins
    <3>2. QED BY <1>14, <3>1 DEF Joins
  <2>2. ASSUME NEW i \in m + 1 .. m + v PROVE entries[i] = Variant
    <3>1. i - m \in 1 .. v /\ m + (i - m) = i
      OBVIOUS
    <3>2. front[m + (i - m)] = variants[i - m] /\ m + (i - m) \in 1 .. Len(front)
      BY <1>8, <1>10, <1>15, <3>1 DEF Joins
    <3>3. QED BY <1>8, <1>14, <3>1, <3>2 DEF Joins
  <2>3. entries[(m + v) + 1] = mark
    <3>1. 1 \in 1 .. Len(last)
      BY <1>12
    <3>2. entries[Len(front) + 1] = last[1]
      BY <1>14, <3>1 DEF Joins
    <3>3. QED BY <1>12, <1>15, <3>2
  <2>4. QED BY <2>1, <2>2, <2>3
<1>17. \A i \in 1 .. (m + v) + 1 : i \in 1 .. m \/ i \in m + 1 .. m + v \/ i = (m + v) + 1
  OBVIOUS
<1>18. \A i \in 1 .. m : /\ ofMode[i] # Variant
                         /\ ofMode[i].stage = 0 => ofMode[i].name \notin StepIds
  <2>1. Variant.name = "variant" /\ Variant.stage = 0
    BY DEF Variant
  <2>2. QED BY <1>3, <1>15, <2>1 DEF Declares
<1>19. mark # Variant /\ mark.stage = 0
  BY <1>6, MarkIs
<1>20. Ends(entries, n)
  <2>1. \A i \in 1 .. Len(entries) - 1 : i \in 1 .. m \/ i \in m + 1 .. m + v
    BY <1>15
  <2>2. \A i \in 1 .. Len(entries) - 1 : entries[i].stage = 0 => entries[i].name \notin StepIds
    BY <1>7, <1>16, <1>18, <2>1
  <2>3. QED BY <1>6, <1>14, <1>15, <1>16, <2>2 DEF Ends
<1>21. HasVariants(entries, v)
  <2>1. ASSUME NEW i \in 1 .. Len(entries) PROVE entries[i] = Variant <=> i \in m + 1 .. m + v
    <3>1. CASE i \in 1 .. m
      <4>1. i \notin m + 1 .. m + v
        BY <3>1
      <4>2. QED BY <1>16, <1>18, <3>1, <4>1
    <3>2. CASE i \in m + 1 .. m + v
      BY <1>16, <3>2
    <3>3. CASE i = (m + v) + 1
      <4>1. i \notin m + 1 .. m + v
        BY <3>3
      <4>2. QED BY <1>16, <1>19, <3>3, <4>1
    <3>4. QED BY <1>15, <1>17, <3>1, <3>2, <3>3
  <2>2. m + v <= Len(entries)
    BY <1>15
  <2>3. QED BY <2>1, <2>2 DEF HasVariants
<1>22. ASSUME q.stages # <<>> PROVE HasStages(entries, q.stages)
  <2>1. \A s \in ToSet(q.stages) : s \in 1 .. 3
    BY DEF Context, ToSet
  <2>2. ASSUME NEW s, s \in ToSet(q.stages)
        PROVE  s # 0 /\ \E i \in 1 .. Len(entries) : entries[i].stage = s
    <3>1. PICK i \in 1 .. Len(ofMode) : ofMode[i].stage = s
      BY <1>3, <1>22, <2>2
    <3>2. i \in 1 .. m /\ i \in 1 .. Len(entries)
      BY <1>15
    <3>3. entries[i].stage = s
      BY <1>16, <3>1, <3>2
    <3>4. s # 0
      BY <2>1, <2>2
    <3>5. QED BY <3>2, <3>3, <3>4
  <2>3. ASSUME NEW s, s # 0, NEW i \in 1 .. Len(entries), entries[i].stage = s
        PROVE  s \in ToSet(q.stages)
    <3>1. i \in 1 .. m
      BY <1>7, <1>15, <1>16, <1>17, <1>19, <2>3
    <3>2. i \in 1 .. Len(ofMode) /\ ofMode[i].stage = s
      BY <1>15, <1>16, <2>3, <3>1
    <3>3. QED BY <1>3, <1>22, <3>2
  <2>4. QED BY <2>2, <2>3 DEF HasStages
<1>23. QED BY <1>4, <1>20, <1>21, <1>22


\* The steps in a trace are those before this one, in their order.
Placed(trace, n) ==
    /\ \A i \in 1 .. Len(trace) : \A k \in 1 .. Len(Steps) : trace[i] = Mark(k) => k < n
    /\ \A i, j \in 1 .. Len(trace) : \A k, l \in 1 .. Len(Steps) :
          i < j /\ trace[i] = Mark(k) /\ trace[j] = Mark(l) => k < l
Plain(trace) == \A i \in 1 .. Len(trace) : trace[i].stage = 0 /\ trace[i] # Variant

LEMMA PlacedAppended ==
    ASSUME RankingOrder, NEW n \in 1 .. Len(Steps), NEW old \in Seq(Entry), Placed(old, n),
           NEW entries, Ends(entries, n), NEW new, new = old \o entries
    PROVE  new \in Seq(Entry) /\ Placed(new, n + 1)
<1>1. entries \in Seq(Entry) /\ new \in Seq(Entry) /\ Joins(new, old, entries)
  BY Concatenated DEF Ends
<1>2. PICK M \in Nat, N \in Nat \ {0} : M = Len(old) /\ N = Len(entries) /\ Len(new) = M + N
  BY <1>1 DEF Joins, Ends
<1>3. ASSUME NEW i \in 1 .. N, NEW k \in 1 .. Len(Steps), entries[i] = Mark(k)
      PROVE  i = N /\ k = n
  <2>1. CASE i = N
    <3>1. Mark(k) = Mark(n)
      BY <1>2, <1>3, <2>1 DEF Ends
    <3>2. QED BY <2>1, <3>1, MarkIs
  <2>2. CASE i # N
    <3>1. i \in 1 .. Len(entries) - 1
      BY <1>2, <2>2
    <3>2. Mark(k).stage = 0 /\ Mark(k).name \in StepIds
      BY MarkIs
    <3>3. QED BY <1>3, <3>1, <3>2 DEF Ends
  <2>3. QED BY <2>1, <2>2
<1>4. ASSUME NEW i \in 1 .. Len(new), NEW k \in 1 .. Len(Steps), new[i] = Mark(k)
      PROVE  (i \in 1 .. M /\ old[i] = Mark(k) /\ k < n) \/ (i = M + N /\ k = n)
  <2>1. CASE i \in 1 .. Len(old) /\ new[i] = old[i]
    BY <1>2, <1>4, <2>1 DEF Placed
  <2>2. CASE i - Len(old) \in 1 .. Len(entries) /\ new[i] = entries[i - Len(old)]
    <3>1. i - M \in 1 .. N /\ entries[i - M] = Mark(k)
      BY <1>2, <1>4, <2>2
    <3>2. i - M = N /\ k = n
      BY <1>3, <3>1
    <3>3. QED BY <1>2, <3>2
  <2>3. QED BY <1>1, <2>1, <2>2 DEF Joins
<1>5. PICK T \in Nat : T = Len(Steps)
  BY StepsOrdered
<1>6. ASSUME NEW i \in 1 .. Len(new), NEW k \in 1 .. Len(Steps), new[i] = Mark(k)
      PROVE  k < n + 1
  <2>1. k < n \/ k = n
    BY <1>4, <1>6
  <2>2. k \in 1 .. T /\ n \in 1 .. T
    BY <1>5
  <2>3. QED BY <2>1, <2>2
<1>7. ASSUME NEW i \in 1 .. Len(new), NEW j \in 1 .. Len(new),
             NEW k \in 1 .. Len(Steps), NEW l \in 1 .. Len(Steps),
             i < j, new[i] = Mark(k), new[j] = Mark(l)
      PROVE  k < l
  <2>1. i \in 1 .. M /\ old[i] = Mark(k) /\ k < n
    <3>1. i # M + N
      BY <1>2, <1>7
    <3>2. QED BY <1>4, <1>7, <3>1
  <2>2. CASE j \in 1 .. M /\ old[j] = Mark(l)
    BY <1>2, <1>7, <2>1, <2>2 DEF Placed
  <2>3. CASE l = n
    BY <2>1, <2>3
  <2>4. QED BY <1>4, <1>7, <2>2, <2>3
<1>8. QED BY <1>1, <1>6, <1>7 DEF Placed

LEMMA MarkAppended ==
    ASSUME RankingOrder, NEW n \in 1 .. Len(Steps), NEW old \in Seq(Entry),
           NEW entries \in Seq(Entry), Len(entries) = 1, entries[1] = Mark(n),
           NEW new, new = old \o entries
    PROVE  /\ Plain(old) => Plain(new)
           /\ \A stages : HasStages(old, stages) => HasStages(new, stages)
           /\ \A v \in Nat : HasVariants(old, v) => HasVariants(new, v)
<1>1. Joins(new, old, entries)
  BY Concatenated
<1>2. PICK M \in Nat : M = Len(old) /\ Len(new) = M + 1
  BY <1>1 DEF Joins
<1>3. /\ \A i \in 1 .. M : i \in 1 .. M + 1 /\ new[i] = old[i]
      /\ new[M + 1] = Mark(n)
  BY <1>1, <1>2 DEF Joins
<1>4. \A i \in 1 .. M + 1 : i \in 1 .. M \/ i = M + 1
  OBVIOUS
<1>5. Mark(n).stage = 0 /\ Mark(n) # Variant
  BY MarkIs
<1>6. Plain(old) => Plain(new)
  BY <1>2, <1>3, <1>4, <1>5 DEF Plain
<1>7. ASSUME NEW stages, HasStages(old, stages) PROVE HasStages(new, stages)
  <2>1. \A s : s # 0 => ((\E i \in 1 .. M + 1 : new[i].stage = s) <=> \E i \in 1 .. M : old[i].stage = s)
    BY <1>3, <1>4, <1>5
  <2>2. QED BY <1>2, <1>7, <2>1 DEF HasStages
<1>8. ASSUME NEW v \in Nat, HasVariants(old, v) PROVE HasVariants(new, v)
  <2>1. PICK m \in Nat : /\ m + v <= M
                         /\ \A i \in 1 .. M : old[i] = Variant <=> i \in m + 1 .. m + v
    BY <1>2, <1>8 DEF HasVariants
  <2>2. M + 1 \notin m + 1 .. m + v /\ m + v <= M + 1
    BY <2>1
  <2>3. \A i \in 1 .. M + 1 : new[i] = Variant <=> i \in m + 1 .. m + v
    BY <1>3, <1>4, <1>5, <2>1, <2>2
  <2>4. QED BY <1>2, <2>2, <2>3 DEF HasVariants
<1>9. QED BY <1>6, <1>7, <1>8

LEMMA SearchAppended ==
    ASSUME NEW old \in Seq(Entry), Plain(old), NEW entries \in Seq(Entry),
           NEW new, new = old \o entries
    PROVE  /\ \A stages : HasStages(entries, stages) => HasStages(new, stages)
           /\ \A v \in Nat : HasVariants(entries, v) => HasVariants(new, v)
<1>1. Joins(new, old, entries)
  BY Concatenated
<1>2. PICK M \in Nat, N \in Nat : M = Len(old) /\ N = Len(entries) /\ Len(new) = M + N
  BY <1>1 DEF Joins
<1>3. /\ \A i \in 1 .. M : i \in 1 .. M + N /\ new[i] = old[i]
      /\ \A k \in 1 .. N : M + k \in 1 .. M + N /\ new[M + k] = entries[k]
      /\ \A i \in 1 .. M + N : i \in 1 .. M \/ (i - M \in 1 .. N /\ new[i] = entries[i - M])
  BY <1>1, <1>2 DEF Joins
<1>4. \A i \in 1 .. M : old[i].stage = 0 /\ old[i] # Variant
  BY <1>2 DEF Plain
<1>5. ASSUME NEW stages, HasStages(entries, stages) PROVE HasStages(new, stages)
  <2>1. ASSUME NEW s, s # 0, NEW i \in 1 .. M + N, new[i].stage = s
        PROVE  \E k \in 1 .. N : entries[k].stage = s
    <3>1. ~(i \in 1 .. M)
      BY <1>3, <1>4, <2>1
    <3>2. i - M \in 1 .. N /\ entries[i - M].stage = s
      BY <1>3, <2>1, <3>1
    <3>3. QED BY <3>2
  <2>2. ASSUME NEW s, NEW k \in 1 .. N, entries[k].stage = s
        PROVE  \E i \in 1 .. M + N : new[i].stage = s
    <3>1. M + k \in 1 .. M + N /\ new[M + k].stage = s
      BY <1>3, <2>2
    <3>2. QED BY <3>1
  <2>3. QED BY <1>2, <1>5, <2>1, <2>2, ZenonT(40) DEF HasStages
<1>6. ASSUME NEW v \in Nat, HasVariants(entries, v) PROVE HasVariants(new, v)
  <2>1. PICK m \in Nat : /\ m + v <= N
                         /\ \A i \in 1 .. N : entries[i] = Variant <=> i \in m + 1 .. m + v
    BY <1>2, <1>6 DEF HasVariants
  <2>2. PICK o \in Nat : o = M + m /\ o + v <= M + N
    BY <2>1
  <2>3. ASSUME NEW i \in 1 .. M + N PROVE new[i] = Variant <=> i \in o + 1 .. o + v
    <3>1. CASE i \in 1 .. M
      <4>1. i \notin o + 1 .. o + v
        BY <2>2, <3>1
      <4>2. QED BY <1>3, <1>4, <3>1, <4>1
    <3>2. CASE i - M \in 1 .. N /\ new[i] = entries[i - M]
      <4>1. i \in o + 1 .. o + v <=> i - M \in m + 1 .. m + v
        BY <2>2
      <4>2. QED BY <2>1, <3>2, <4>1
    <3>3. QED BY <1>3, <3>1, <3>2
  <2>4. QED BY <1>2, <2>2, <2>3 DEF HasVariants
<1>7. QED BY <1>5, <1>6

\* Before the search there are the marks of steps, and it leaves its stages and a variant for
\* each batch but the first.
TraceInv(p) ==
    /\ Placed(p.trace, p.next)
    /\ ~Reached(p, 2) => p.stages = <<>> /\ Plain(p.trace)
    /\ p.stages # <<>> => HasStages(p.trace, p.stages)
    /\ p.batches # <<>> => HasVariants(p.trace, Len(p.batches) - 1)

LEMMA TraceStays ==
    ASSUME RankingOrder, NEW p, NEW q, Advances(p, q), TraceInv(p), p \in Context,
           q.trace = p.trace, q.batches = p.batches, q.stages = p.stages
    PROVE  TraceInv(q)
<1>1. PICK n \in Nat : n = p.next /\ q.next = n + 1
  BY DEF Advances, Context
<1>2. PICK T \in Nat : T = Len(Steps)
  BY StepsOrdered
<1>3. Placed(p.trace, n + 1)
  <2>1. \A k \in 1 .. T : k < n => k < n + 1
    OBVIOUS
  <2>2. Placed(p.trace, n)
    BY <1>1 DEF TraceInv
  <2>3. QED BY <1>2, <2>1, <2>2 DEF Placed
<1>4. ~Reached(q, 2) => ~Reached(p, 2)
  <2>1. 2 \in 1 .. 6
    OBVIOUS
  <2>2. QED BY <2>1, ReachedAdvances
<1>5. QED BY <1>1, <1>3, <1>4 DEF TraceInv

RetrievalInv(p) == RankInv(p) /\ GateInv(p) /\ TraceInv(p)

WithTrace(q, t) == [q EXCEPT !.trace = t]

CarriesOver(q, r, t) ==
    /\ RankInv(r) /\ GateInv(r) /\ r.trace = t
    /\ r.next = q.next /\ r.batches = q.batches /\ r.stages = q.stages

\* Of the rest of the invariant a trace changes nothing.
LEMMA Traced ==
    ASSUME NEW q, RankInv(q), GateInv(q), NEW t \in Seq(Entry), NEW r, r = WithTrace(q, t)
    PROVE  CarriesOver(q, r, t)
<1>1. q \in Context
  BY DEF RankInv
<1>2. r \in Context
  BY <1>1 DEF Context, WithTrace
<1>3. /\ r.settings = q.settings /\ r.next = q.next /\ r.status = q.status
      /\ r.allowed = q.allowed /\ r.queries = q.queries /\ r.batches = q.batches
      /\ r.stages = q.stages /\ r.results = q.results /\ r.live = q.live
      /\ r.reranked = q.reranked /\ r.gate = q.gate /\ r.trace = t
  BY <1>1 DEF Context, WithTrace
<1>4. \A a : Reached(r, a) <=> Reached(q, a)
  BY <1>3 DEF Reached
<1>5. \A id : PastOf(r, id) <=> PastOf(q, id)
  <2>1. \A name : Value(name, r) = Value(name, q)
    BY <1>3 DEF Value
  <2>2. \A step : Enabled(step, r) <=> Enabled(step, q)
    BY <1>3, <2>1 DEF Enabled, Condition
  <2>3. QED BY <1>3, <2>2 DEF PastOf
<1>6. /\ BestScored(r) <=> BestScored(q)
      /\ Accounted(r) <=> Accounted(q)
      /\ Scoped(r) <=> Scoped(q)
  <2>1. BestScored(r) <=> BestScored(q)
    BY <1>3 DEF BestScored
  <2>2. Accounted(r) <=> Accounted(q)
    BY <1>3, <1>5 DEF Accounted, Missing
  <2>3. Scoped(r) <=> Scoped(q)
    BY <1>3 DEF Scoped
  <2>4. QED BY <2>1, <2>2, <2>3
<1>7. RankInv(r)
  BY <1>2, <1>3, <1>4, <1>5, <1>6 DEF RankInv
<1>8. GateInv(r)
  BY <1>3 DEF GateInv
<1>9. QED BY <1>3, <1>7, <1>8 DEF CarriesOver

LEMMA SearchTraced ==
    ASSUME TracesDeclared, NEW p, NEW c, Takes(p, c), TraceInv(p), NEW q, RankInv(q), GateInv(q),
           Advances(p, q), q.trace = p.trace, Searches(p, q),
           NEW r, r = [q EXCEPT !.trace = q.trace \o TraceNames(Steps[p.next], q)]
    PROVE  RetrievalInv(r)
<1>1. PICK n \in 1 .. Len(Steps) : n = p.next /\ Steps[n].id = "mode_search"
  BY TakenContext DEF Searches
<1>2. p \in Context /\ q \in Context /\ RankingOrder
  BY TakenContext DEF Advances
<1>3. /\ q.stages # <<>> => q.settings.search_mode = "cascading"
      /\ Len(q.batches) = q.queries
  BY DEF Searches, Searched, Advances
<1>4. PICK entries : entries = TraceNames(Steps[n], q)
  OBVIOUS
<1>5. /\ Ends(entries, n) /\ HasVariants(entries, q.queries - 1)
      /\ q.stages # <<>> => HasStages(entries, q.stages)
  BY <1>1, <1>2, <1>3, <1>4, SearchAdded
<1>6. ~Reached(p, 2) /\ Reached(q, 2)
  <2>1. 2 \in 1 .. 6 /\ Steps[p.next].id = Ranking[2]
    BY <1>1, RankingIs
  <2>2. QED BY <1>2, <2>1, ReachedAdvances
<1>7. PICK old \in Seq(Entry) : old = p.trace /\ Plain(old) /\ Placed(old, n)
  BY <1>1, <1>2, <1>6 DEF TraceInv, Context
<1>8. PICK new : new = old \o entries
  OBVIOUS
<1>9. new \in Seq(Entry) /\ Placed(new, n + 1)
  BY <1>2, <1>5, <1>7, <1>8, PlacedAppended
<1>10. entries \in Seq(Entry)
  BY <1>5 DEF Ends
<1>11. PICK v \in Nat : v = q.queries - 1
  <2>1. q.queries \in Nat \ {0}
    BY <1>2 DEF Context
  <2>2. QED BY <2>1
<1>12. HasVariants(new, v) /\ (q.stages # <<>> => HasStages(new, q.stages))
  <2>1. PICK stages : stages = q.stages
    OBVIOUS
  <2>2. \A s : HasStages(entries, s) => HasStages(new, s)
    BY <1>7, <1>8, <1>10, SearchAppended
  <2>3. HasVariants(entries, v) => HasVariants(new, v)
    BY <1>7, <1>8, <1>10, SearchAppended
  <2>4. HasStages(entries, stages) => HasStages(new, stages)
    BY <2>2
  <2>5. QED BY <1>5, <1>11, <2>1, <2>3, <2>4
<1>13. r = WithTrace(q, new)
  BY <1>1, <1>4, <1>7, <1>8 DEF WithTrace
<1>14. /\ RankInv(r) /\ GateInv(r) /\ r.trace = new
       /\ r.next = q.next /\ r.batches = q.batches /\ r.stages = q.stages
  <2>1. new \in Seq(Entry) /\ r = WithTrace(q, new) /\ RankInv(q) /\ GateInv(q)
    BY <1>9, <1>13
  <2>2. CarriesOver(q, r, new)
    BY <2>1, Traced
  <2>3. QED BY <2>2 DEF CarriesOver
<1>15. r.next = n + 1 /\ Reached(r, 2)
  BY <1>1, <1>6, <1>14 DEF Advances, Reached
<1>16. TraceInv(r)
  BY <1>3, <1>9, <1>11, <1>12, <1>14, <1>15 DEF TraceInv
<1>17. QED BY <1>14, <1>16 DEF RetrievalInv

LEMMA OtherTraced ==
    ASSUME NEW p, NEW c, Takes(p, c), TraceInv(p), NEW q, RankInv(q), GateInv(q),
           Advances(p, q), q.trace = p.trace, q.batches = p.batches, q.stages = p.stages,
           Steps[p.next].id # "mode_search",
           NEW r, r = [q EXCEPT !.trace = q.trace \o TraceNames(Steps[p.next], q)]
    PROVE  RetrievalInv(r)
<1>1. PICK n \in 1 .. Len(Steps) : n = p.next /\ Steps[n].id # "mode_search"
  BY TakenContext
<1>2. p \in Context /\ q \in Context /\ RankingOrder
  BY TakenContext DEF Advances
<1>3. PICK entries : entries = TraceNames(Steps[n], q)
  OBVIOUS
<1>4. Ends(entries, n) /\ Len(entries) = 1 /\ entries[1] = Mark(n)
  BY <1>1, <1>2, <1>3, MarkAdded
<1>5. PICK old \in Seq(Entry) : old = p.trace /\ Placed(old, n)
  BY <1>1, <1>2 DEF TraceInv, Context
<1>6. PICK new : new = old \o entries
  OBVIOUS
<1>7. new \in Seq(Entry) /\ Placed(new, n + 1)
  BY <1>2, <1>4, <1>5, <1>6, PlacedAppended
<1>8. entries \in Seq(Entry)
  BY <1>4 DEF Ends
<1>9. /\ Plain(old) => Plain(new)
      /\ \A stages : HasStages(old, stages) => HasStages(new, stages)
      /\ \A v \in Nat : HasVariants(old, v) => HasVariants(new, v)
  BY <1>2, <1>4, <1>5, <1>6, <1>8, MarkAppended
<1>10. r = WithTrace(q, new)
  BY <1>1, <1>3, <1>5, <1>6 DEF WithTrace
<1>11. /\ RankInv(r) /\ GateInv(r) /\ r.trace = new
       /\ r.next = q.next /\ r.batches = q.batches /\ r.stages = q.stages
  <2>1. new \in Seq(Entry) /\ r = WithTrace(q, new) /\ RankInv(q) /\ GateInv(q)
    BY <1>7, <1>10
  <2>2. CarriesOver(q, r, new)
    BY <2>1, Traced
  <2>3. QED BY <2>2 DEF CarriesOver
<1>12. r.next = n + 1 /\ (~Reached(r, 2) => ~Reached(p, 2))
  <2>1. 2 \in 1 .. 6
    OBVIOUS
  <2>2. Reached(p, 2) => Reached(q, 2)
    BY <1>2, <2>1, ReachedAdvances
  <2>3. QED BY <1>1, <1>11, <2>2 DEF Advances, Reached
<1>13. r.batches # <<>> => Len(r.batches) - 1 \in Nat
  <2>1. PICK b \in Seq(Seq(Row)) : b = r.batches
    BY <1>2, <1>11 DEF Context
  <2>2. b # <<>> => Len(b) \in Nat /\ Len(b) # 0
    BY <2>1
  <2>3. QED BY <2>1, <2>2
<1>14. TraceInv(r)
  BY <1>5, <1>7, <1>9, <1>11, <1>12, <1>13 DEF TraceInv
<1>15. QED BY <1>11, <1>14 DEF RetrievalInv

LEMMA StepTraced ==
    ASSUME TracesDeclared, NEW p, NEW c, Takes(p, c), TraceInv(p), Enabled(Steps[p.next], p),
           NEW q, StepOutcome(p, q), q.status # "failed",
           NEW r, r = [q EXCEPT !.trace = q.trace \o TraceNames(Steps[p.next], q)]
    PROVE  RetrievalInv(r)
<1>1. RankInv(q) /\ GateInv(q) /\ Advances(p, q) /\ q.trace = p.trace
  BY DEF StepOutcome
<1>2. CASE Searches(p, q)
  BY <1>1, <1>2, SearchTraced
<1>3. CASE Leaves(p, q)
  <2>1. q.batches = p.batches /\ q.stages = p.stages /\ Steps[p.next].id # "mode_search"
    BY <1>3 DEF Leaves
  <2>2. QED BY <1>1, <2>1, OtherTraced
<1>4. QED BY <1>2, <1>3 DEF StepOutcome

LEMMA StepUntraced ==
    ASSUME TracesDeclared, NEW p, NEW c, Takes(p, c), TraceInv(p), NEW q, StepOutcome(p, q),
           \/ ~Enabled(Steps[p.next], p)
           \/ q.status = "failed"
           \/ TraceIsNoop(Steps[p.next], p)
    PROVE  RetrievalInv(q)
<1>1. ~Searches(p, q)
  <2>1. ASSUME Steps[p.next].id = "mode_search" PROVE ~TraceIsNoop(Steps[p.next], p)
    <3>1. PICK k \in DOMAIN Definition : Steps[p.next] = Definition[k]
      BY TakenContext, StepsOrdered
    <3>2. Steps[p.next].quiet = {}
      BY <2>1, <3>1 DEF TracesDeclared
    <3>3. QED BY <3>2 DEF TraceIsNoop
  <2>2. QED BY <2>1 DEF Searches
<1>2. /\ Advances(p, q) /\ q.trace = p.trace /\ q.batches = p.batches /\ q.stages = p.stages
      /\ RankInv(q) /\ GateInv(q)
  BY <1>1 DEF StepOutcome, Leaves
<1>3. TraceInv(q)
  BY <1>2, TakenContext, TraceStays
<1>4. QED BY <1>2, <1>3 DEF RetrievalInv

LEMMA RunStepInvariant ==
    ASSUME RankingOrder, TracesDeclared, RetrievalInv(pipeline), RetrievalNext
    PROVE  RetrievalInv(pipeline')
<1>1. PICK p : p = pipeline
  OBVIOUS
<1>2. PICK c : c = [p EXCEPT !.next = p.next + 1]
  OBVIOUS
<1>3. /\ RankInv(p) /\ GateInv(p) /\ TraceInv(p)
      /\ p.status = "running" /\ p.next <= Len(Steps)
  BY <1>1 DEF RetrievalInv, RetrievalNext, RunStep
<1>4. Takes(p, c)
  <2>1. p.next \in Nat \ {0}
    BY <1>3 DEF RankInv, Context
  <2>2. p.next \in 1 .. Len(Steps)
    BY <1>3, <2>1, StepsOrdered
  <2>3. p.gate # "hard_fail"
    BY <1>3 DEF GateInv
  <2>4. QED BY <1>2, <1>3, <2>2, <2>3 DEF Takes
<1>5. \/ ~Enabled(Steps[p.next], p) /\ pipeline' = c
      \/ /\ Enabled(Steps[p.next], p)
         /\ \E q \in Handle(Steps[p.next].id, c) :
               pipeline' = IF q.status = "failed" \/ TraceIsNoop(Steps[p.next], p) THEN q
                           ELSE [q EXCEPT !.trace = q.trace \o TraceNames(Steps[p.next], q)]
  BY <1>1, <1>2 DEF RetrievalNext, RunStep
<1>6. CASE ~Enabled(Steps[p.next], p) /\ pipeline' = c
  <2>1. StepOutcome(p, c)
    BY <1>4, <1>6, SkippedOutcome
  <2>2. QED BY <1>3, <1>4, <1>6, <2>1, StepUntraced
<1>7. ASSUME Enabled(Steps[p.next], p), NEW q \in Handle(Steps[p.next].id, c),
             pipeline' = IF q.status = "failed" \/ TraceIsNoop(Steps[p.next], p) THEN q
                         ELSE [q EXCEPT !.trace = q.trace \o TraceNames(Steps[p.next], q)]
      PROVE  RetrievalInv(pipeline')
  <2>1. StepOutcome(p, q)
    BY <1>4, <1>7, HandledOutcome
  <2>2. CASE q.status = "failed" \/ TraceIsNoop(Steps[p.next], p)
    <3>1. RetrievalInv(q)
      BY <1>3, <1>4, <2>1, <2>2, StepUntraced
    <3>2. QED BY <1>7, <2>2, <3>1
  <2>3. CASE ~(q.status = "failed" \/ TraceIsNoop(Steps[p.next], p))
    <3>1. PICK r : r = [q EXCEPT !.trace = q.trace \o TraceNames(Steps[p.next], q)]
      OBVIOUS
    <3>2. RetrievalInv(r)
      BY <1>3, <1>4, <1>7, <2>1, <2>3, <3>1, StepTraced
    <3>3. QED BY <1>7, <2>3, <3>1, <3>2
  <2>4. QED BY <2>2, <2>3
<1>8. QED BY <1>5, <1>6, <1>7

LEMMA InitInvariant ==
    ASSUME RetrievalInit
    PROVE  RetrievalInv(pipeline)
<1>1. PICK s \in Settings :
         pipeline = [settings |-> s, next |-> 1, status |-> "running", allowed |-> {},
                     queries |-> 1, batches |-> <<>>, stages |-> <<>>, results |-> <<>>,
                     live |-> {}, reranked |-> FALSE, gate |-> "pass", trace |-> <<>>]
  BY DEF RetrievalInit
<1>2. pipeline \in Context
  BY <1>1 DEF Context
<1>3. /\ pipeline.results = <<>> /\ pipeline.batches = <<>> /\ pipeline.stages = <<>>
      /\ pipeline.trace = <<>> /\ pipeline.live = {} /\ pipeline.gate = "pass"
      /\ ~pipeline.reranked /\ pipeline.next = 1
  BY <1>1
<1>4. 1 .. pipeline.next - 1 = {}
  BY <1>3
<1>5. (\A id : ~PastOf(pipeline, id)) /\ \A a : ~Reached(pipeline, a)
  BY <1>4 DEF PastOf, Reached
<1>6. BestScored(pipeline) /\ Sorted(pipeline.results)
  BY <1>3 DEF BestScored, Sorted
<1>7. /\ pipeline.results \in RowsAmong(pipeline.allowed)
      /\ pipeline.batches \in Seq(RowsAmong(pipeline.allowed))
  BY <1>3 DEF RowsAmong
<1>8. RankInv(pipeline)
  BY <1>2, <1>3, <1>5, <1>6, <1>7 DEF RankInv
<1>9. TraceInv(pipeline)
  BY <1>3, <1>5 DEF TraceInv, Placed, Plain
<1>10. QED BY <1>3, <1>8, <1>9 DEF RetrievalInv, GateInv

----------------------------------------------------------------------------
(* What the invariant says of the answer and of the trace. *)

LEMMA FoundThere ==
    /\ \A c : Found(c) = FoundIn(pipeline.batches, c)
    /\ \A c : BestFound(c) = BestIn(pipeline.batches, c)
    /\ \A d : BestDoc(d) = BestDocIn(pipeline.batches, d)
    /\ \A id : Past(id) <=> PastOf(pipeline, id)
    /\ Shown = ChunksOf(pipeline.results)
<1>1. \A c : Found(c) = FoundIn(pipeline.batches, c)
  BY DEF Found, FoundIn
<1>2. \A c : BestFound(c) = BestIn(pipeline.batches, c)
  BY <1>1 DEF BestFound, BestIn
<1>3. \A d : BestDoc(d) = BestDocIn(pipeline.batches, d)
  BY <1>1, <1>2 DEF BestDoc, BestDocIn
<1>4. \A id : Past(id) <=> PastOf(pipeline, id)
  BY DEF Past, PastOf
<1>5. Shown = ChunksOf(pipeline.results)
  BY DEF Shown, ChunksOf
<1>6. QED BY <1>1, <1>2, <1>3, <1>4, <1>5

\* No chunk is in a sorted list twice.
LEMMA SortedDistinct ==
    ASSUME NEW rows \in Seq(Row), Sorted(rows)
    PROVE  Cardinality(ChunksOf(rows)) = Len(rows)
<1> DEFINE n == Len(rows)
           f == [i \in 1 .. n |-> rows[i].chunk]
<1>1. n \in Nat /\ DOMAIN rows = 1 .. n
  OBVIOUS
<1>2. \A i, j \in 1 .. n : i # j => rows[i].chunk # rows[j].chunk
  <2>1. \A i, j \in 1 .. n : i < j => rows[i].chunk # rows[j].chunk
    BY DEF Sorted
  <2>2. \A i, j \in 1 .. n : i # j => i < j \/ j < i
    BY <1>1
  <2>3. QED BY <2>1, <2>2
<1>3. ChunksOf(rows) = {rows[i].chunk : i \in 1 .. n}
  BY <1>1 DEF ChunksOf, ToSet
<1> HIDE DEF n
<1>4. f \in Injection(1 .. n, ChunksOf(rows)) /\ f \in Surjection(1 .. n, ChunksOf(rows))
  BY <1>2, <1>3 DEF Injection, Surjection, IsInjective
<1>5. f \in Bijection(1 .. n, ChunksOf(rows))
  BY <1>4 DEF Bijection
<1>6. ExistsBijection(1 .. n, ChunksOf(rows))
  BY <1>5 DEF ExistsBijection
<1>7. IsFiniteSet(1 .. n) /\ Cardinality(1 .. n) = n
  BY <1>1, FS_Interval
<1>8. QED BY <1>6, <1>7, FS_Bijection DEF n

LEMMA RankInvSound ==
    ASSUME RankInv(pipeline)
    PROVE  RankedSoundly
<1> SUFFICES ASSUME Past("merge_dedup") PROVE RankedSoundly
  BY DEF RankedSoundly
<1>1. /\ \A c : Found(c) = FoundIn(pipeline.batches, c)
      /\ \A c : BestFound(c) = BestIn(pipeline.batches, c)
      /\ \A d : BestDoc(d) = BestDocIn(pipeline.batches, d)
      /\ \A id : Past(id) <=> PastOf(pipeline, id)
      /\ Shown = ChunksOf(pipeline.results)
  BY FoundThere
<1>2. PICK rows \in Seq(Row) : rows = pipeline.results
  BY DEF RankInv, RowsAmong
<1>3. Sorted(rows) /\ DOMAIN rows = 1 .. Len(rows)
  BY <1>2 DEF RankInv
<1>4. Cardinality(Shown) = Len(pipeline.results)
  BY <1>1, <1>2, <1>3, SortedDistinct
<1>5. \A i, j \in DOMAIN pipeline.results :
         i < j => pipeline.results[i].score >= pipeline.results[j].score
  BY <1>2, <1>3 DEF Sorted
<1>6. DocsOf(pipeline.results) \subseteq pipeline.allowed
  <2>1. \A i \in 1 .. Len(rows) : DocumentOf[rows[i].chunk] \in pipeline.allowed
    BY <1>2 DEF RankInv, RowsAmong
  <2>2. QED BY <1>2, <1>3, <2>1 DEF DocsOf, ChunksOf, ToSet
<1>7. ~pipeline.reranked => \A r \in ToSet(pipeline.results) : r.score = BestFound(r.chunk)
  <2>1. ASSUME ~pipeline.reranked, NEW i \in 1 .. Len(rows) PROVE rows[i].score = BestFound(rows[i].chunk)
    BY <1>1, <1>2, <2>1 DEF RankInv, BestScored
  <2>2. QED BY <1>2, <1>3, <2>1 DEF ToSet
<1>8. \A c \in {d \in Chunks : Found(d) # {}} \ Shown :
         \/ Past("permission_livecheck") /\ DocumentOf[c] \notin pipeline.live
         \/ Past("document_scope") /\ DocumentOf[c] \notin DocsOf(pipeline.results)
         \/ pipeline.reranked /\ Len(pipeline.results) = RerankerTopK
  <2>1. Accounted(pipeline)
    BY <1>1 DEF RankInv
  <2>2. QED BY <1>1, <2>1 DEF Accounted, Missing
<1>9. Past("document_scope") =>
         \A d \in DocsOf(pipeline.results), c \in {e \in Chunks : Found(e) # {}} :
            DocumentOf[c] \in pipeline.live \ DocsOf(pipeline.results) /\ ~pipeline.reranked
               => BestDoc(d) >= BestDoc(DocumentOf[c])
  <2>1. Past("document_scope") /\ ~pipeline.reranked => Scoped(pipeline)
    BY <1>1 DEF RankInv
  <2>2. QED BY <1>1, <2>1 DEF Scoped
<1>10. QED BY <1>4, <1>5, <1>6, <1>7, <1>8, <1>9 DEF RankedSoundly

LEMMA MarkedOrder ==
    ASSUME NEW entry \in Entry, entry.stage = 0, entry.name \in {s.id : s \in ToSet(Definition)}
    PROVE  \E k \in 1 .. Len(Steps) :
              /\ entry = Mark(k)
              /\ (CHOOSE s \in ToSet(Definition) : s.id = entry.name).order = Steps[k].order
<1>1. PICK s \in ToSet(Definition) : s.id = entry.name
  OBVIOUS
<1>2. PICK d \in DOMAIN Definition : s = Definition[d]
  BY <1>1 DEF ToSet
<1>3. PICK k \in 1 .. Len(Steps) : Steps[k] = Definition[d]
  BY StepsOrdered
<1>4. entry = Mark(k)
  BY <1>1, <1>2, <1>3 DEF Mark, Entry
<1>5. \A t \in ToSet(Definition) : t.id = entry.name => t = s
  <2>1. ASSUME NEW e \in DOMAIN Definition, Definition[e].id = Definition[d].id PROVE e = d
    BY <2>1, RetrievalAssumption
  <2>2. QED BY <1>1, <1>2, <2>1 DEF ToSet
<1>6. (CHOOSE t \in ToSet(Definition) : t.id = entry.name) = s
  BY <1>1, <1>5
<1>7. QED BY <1>2, <1>3, <1>4, <1>6

LEMMA InvariantTruthful ==
    ASSUME RetrievalInv(pipeline)
    PROVE  TraceTruthful
<1>1. PICK trace \in Seq(Entry) : trace = pipeline.trace
  BY DEF RetrievalInv, RankInv, Context
<1>2. DOMAIN trace = 1 .. Len(trace) /\ Len(trace) \in Nat /\ \A i \in 1 .. Len(trace) : trace[i] \in Entry
  OBVIOUS
<1>3. TraceInv(pipeline) /\ GateInv(pipeline) /\ pipeline \in Context
  BY DEF RetrievalInv, RankInv
<1>4. ASSUME NEW i \in DOMAIN trace, NEW j \in DOMAIN trace,
             i < j, trace[i].stage = 0, trace[j].stage = 0,
             {trace[i].name, trace[j].name} \subseteq {s.id : s \in ToSet(Definition)}
      PROVE  (CHOOSE s \in ToSet(Definition) : s.id = trace[i].name).order
                < (CHOOSE s \in ToSet(Definition) : s.id = trace[j].name).order
  <2>1. PICK k \in 1 .. Len(Steps) :
           /\ trace[i] = Mark(k)
           /\ (CHOOSE s \in ToSet(Definition) : s.id = trace[i].name).order = Steps[k].order
    BY <1>2, <1>4, MarkedOrder
  <2>2. PICK l \in 1 .. Len(Steps) :
           /\ trace[j] = Mark(l)
           /\ (CHOOSE s \in ToSet(Definition) : s.id = trace[j].name).order = Steps[l].order
    BY <1>2, <1>4, MarkedOrder
  <2>3. k < l
    BY <1>1, <1>2, <1>3, <1>4, <2>1, <2>2 DEF TraceInv, Placed
  <2>4. Steps[k].order < Steps[l].order
    BY <2>3, StepsOrdered
  <2>5. QED BY <2>1, <2>2, <2>4
<1>5. pipeline.stages # <<>> =>
         {t.stage : t \in ToSet(pipeline.trace)} \ {0} = ToSet(pipeline.stages)
  <2>1. ASSUME pipeline.stages # <<>> PROVE HasStages(trace, pipeline.stages)
    BY <1>1, <1>3, <2>1 DEF TraceInv
  <2>2. \A s : s \in {t.stage : t \in ToSet(trace)} <=> \E i \in 1 .. Len(trace) : trace[i].stage = s
    BY <1>2 DEF ToSet
  <2>3. ASSUME pipeline.stages # <<>>
        PROVE  \A s : s \in ToSet(pipeline.stages) <=> s \in {t.stage : t \in ToSet(trace)} \ {0}
    BY <2>1, <2>2, <2>3 DEF HasStages
  <2>4. QED BY <1>1, <2>3
<1>6. pipeline.batches # <<>> =>
         Cardinality({i \in DOMAIN pipeline.trace : pipeline.trace[i] = Variant})
            = Len(pipeline.batches) - 1
  <2> SUFFICES ASSUME pipeline.batches # <<>>
               PROVE  Cardinality({i \in DOMAIN trace : trace[i] = Variant}) = Len(pipeline.batches) - 1
    BY <1>1
  <2>1. PICK v \in Nat : v = Len(pipeline.batches) - 1
    <3>1. PICK b \in Seq(Seq(Row)) : b = pipeline.batches
      BY <1>3 DEF Context
    <3>2. Len(b) \in Nat /\ Len(b) # 0
      BY <3>1
    <3>3. Len(b) - 1 \in Nat
      BY <3>2
    <3>4. QED BY <3>1, <3>3
  <2>2. HasVariants(trace, v)
    BY <1>1, <1>3, <2>1 DEF TraceInv
  <2>3. PICK m \in Nat : /\ m + v <= Len(trace)
                         /\ \A i \in 1 .. Len(trace) : trace[i] = Variant <=> i \in m + 1 .. m + v
    BY <2>2 DEF HasVariants
  <2>4. m + 1 .. m + v \subseteq 1 .. Len(trace)
    BY <1>2, <2>3
  <2>5. {i \in DOMAIN trace : trace[i] = Variant} = m + 1 .. m + v
    BY <1>2, <2>3, <2>4
  <2>6. Cardinality(m + 1 .. m + v) = v
    <3>1. m + 1 \in Int /\ m + v \in Int
      OBVIOUS
    <3>2. Cardinality(m + 1 .. m + v) = IF m + 1 > m + v THEN 0 ELSE (m + v) - (m + 1) + 1
      BY <3>1, FS_Interval
    <3>3. QED BY <3>2
  <2>7. QED BY <2>1, <2>5, <2>6
<1>7. pipeline.gate = "hard_fail" => pipeline.results = <<>> \/ ~pipeline.settings.soft_mode
  BY <1>3 DEF GateInv
<1>8. QED BY <1>1, <1>4, <1>5, <1>6, <1>7 DEF TraceTruthful

\* Of every pipeline with the ranking steps in their order, and every run of it: once the
\* batches are merged the answer holds no chunk twice, is in the order of its scores, has of
\* each chunk the best score that was found, and lacks nothing but for a reason; and the
\* trace says which steps, stages and variants ran.
\* search/core.py:168-260, steps/merge_dedup.py, document_scope.py, reranking.py,
\* retrieval_gate.py.
THEOREM RetrievalAlwaysSound ==
    RankingOrder /\ TracesDeclared => (RetrievalSpec => []RetrievalSound)
<1> SUFFICES ASSUME RankingOrder, TracesDeclared PROVE RetrievalSpec => []RetrievalSound
  OBVIOUS
<1>1. RetrievalInit => RetrievalInv(pipeline)
  BY InitInvariant
<1>2. RetrievalInv(pipeline) /\ [RetrievalNext]_retrievalVars => RetrievalInv(pipeline)'
  <2>1. RetrievalInv(pipeline) /\ RetrievalNext => RetrievalInv(pipeline')
    BY RunStepInvariant
  <2>2. RetrievalInv(pipeline) /\ UNCHANGED retrievalVars => RetrievalInv(pipeline')
    BY DEF retrievalVars
  <2>3. QED BY <2>1, <2>2
<1>3. RetrievalInv(pipeline) => RetrievalSound
  BY RankInvSound, InvariantTruthful DEF RetrievalInv, RetrievalSound
<1>4. QED BY <1>1, <1>2, <1>3, PTL DEF RetrievalSpec

============================================================================
