----------------------------- MODULE Embedding -----------------------------
(***************************************************************************)
(* The embedding client: src/src/embedding/core.py, the circuit breaker    *)
(* that the query embedder and the batch embedder share, the batches, the  *)
(* retries and the check of a response, and the transport and the slot of  *)
(* src/src/infra/ai/adapters.py.  The recovery time of the breaker is the  *)
(* flag cooled, and a permit knows its generation only as the current one  *)
(* or an old one, which is all the code asks.  A vector is the position of *)
(* the text it was computed from.                                          *)
(***************************************************************************)
EXTENDS Integers, Sequences, SequencesExt

CONSTANTS Embedders,     \* threads that embed
          Searching,     \* those that search: the others index
          Attempts,      \* tries of one batch, 4 in the code
          Threshold,     \* failure_threshold
          MaxItems, CharBudget, TokenBudget,
          Sizes,         \* [chars, tokens] of a text
          MaxTexts

ASSUME EmbeddingAssumption ==
    /\ Searching \subseteq Embedders
    /\ Attempts \in Nat \ {0} /\ Threshold \in Nat \ {0}
    /\ MaxItems \in Nat \ {0} /\ CharBudget \in Nat \ {0} /\ TokenBudget \in Nat \ {0}
    /\ Sizes \subseteq [chars : Nat, tokens : Nat] /\ MaxTexts \in Nat

VARIABLES breaker,   \* state, failures, and whether recovery_seconds have passed
          embed,     \* what each thread is doing
          aiSlot     \* the slot of the AI client is taken

embeddingVars == <<breaker, embed, aiSlot>>

NoPermit == [probe |-> FALSE, current |-> FALSE]
IdleEmbed == [at |-> "idle", texts |-> <<>>, batches |-> <<>>, vectors |-> <<>>,
              attempt |-> 0, permit |-> NoPermit]

EmbeddingInit ==
    /\ breaker = [state |-> "CLOSED", failures |-> 0, cooled |-> FALSE]
    /\ embed = [c \in Embedders |-> IdleEmbed]
    /\ aiSlot = FALSE

----------------------------------------------------------------------------
(* batch_chunks: the batches of a list of sizes, as positions *)

Total(texts, batch, field) ==
    FoldLeft(LAMBDA sum, i : sum + texts[i][field], 0, batch)

Flushed(texts, batch, i) ==
    /\ batch # <<>>
    /\ \/ Len(batch) >= MaxItems
       \/ Total(texts, batch, "chars") + texts[i].chars > CharBudget
       \/ Total(texts, batch, "tokens") + texts[i].tokens > TokenBudget

BatchChunks(texts) ==
    LET Step(acc, i) == IF Flushed(texts, acc.batch, i)
                        THEN [done |-> Append(acc.done, acc.batch), batch |-> <<i>>]
                        ELSE [acc EXCEPT !.batch = Append(@, i)]
        end == FoldLeft(Step, [done |-> <<>>, batch |-> <<>>],
                        [i \in 1 .. Len(texts) |-> i])
    IN  IF end.batch = <<>> THEN end.done ELSE Append(end.done, end.batch)

\* _vectors: what the service answers is a sequence of indices into the batch.
Responses(n) == {[i \in 1 .. n |-> i], [i \in 1 .. n |-> n + 1 - i],
                 [i \in 1 .. n - 1 |-> i], [i \in 1 .. n + 1 |-> i]}
\* Mutant of Complete: the indices of the response are not looked at.
CompleteByLength(response, n) == Len(response) = n

Complete(response, n) ==
    Len(response) = n /\ \A i \in 1 .. n : response[i] = i

----------------------------------------------------------------------------
(* CircuitBreaker *)

\* record_success and record_failure do nothing for an old permit.
Recorded(c) == embed[c].permit.current

\* A new generation: every permit that is out is an old one.
Outdated(e) == [c \in Embedders |-> [e[c] EXCEPT !.permit.current = FALSE]]

SuccessRecorded(c) ==
    IF ~Recorded(c) THEN breaker
    ELSE [breaker EXCEPT !.failures = 0,
                         !.state = IF embed[c].permit.probe THEN "CLOSED" ELSE @]

\* Mutant of Trips: a probe that fails is counted like any other call.
TripsByCount(c) == breaker.failures + 1 = Threshold

Trips(c) == embed[c].permit.probe \/ breaker.failures + 1 >= Threshold

FailureRecorded(c) ==
    IF ~Recorded(c) THEN breaker
    ELSE IF Trips(c)
    THEN [state |-> "OPEN", failures |-> Threshold, cooled |-> FALSE]
    ELSE [breaker EXCEPT !.failures = @ + 1]

CoolDown ==
    /\ breaker.state = "OPEN" /\ ~breaker.cooled
    /\ breaker' = [breaker EXCEPT !.cooled = TRUE]
    /\ UNCHANGED <<embed, aiSlot>>

----------------------------------------------------------------------------
(* The embedders *)

Started(texts) == [IdleEmbed EXCEPT !.at = "permit", !.texts = texts,
                                    !.batches = BatchChunks(texts)]

EmbedQuery(c) ==
    /\ c \in Searching
    /\ embed[c].at \in {"idle", "returned"}
    /\ \E size \in Sizes : embed' = [embed EXCEPT ![c] = Started(<<size>>)]
    /\ UNCHANGED <<breaker, aiSlot>>

Embed(c) ==
    /\ c \notin Searching
    /\ embed[c].at \in {"idle", "returned"}
    /\ \E n \in 0 .. MaxTexts : \E texts \in [1 .. n -> Sizes] :
          embed' = [embed EXCEPT ![c] = Started(texts)]
    /\ UNCHANGED <<breaker, aiSlot>>

Return(c) ==
    /\ embed[c].at = "permit" /\ embed[c].batches = <<>>
    /\ embed' = [embed EXCEPT ![c].at = "returned"]
    /\ UNCHANGED <<breaker, aiSlot>>

\* before_call: outside of the try, so that a refusal is not recorded.
BeforeCall(c) ==
    /\ embed[c].at = "permit" /\ embed[c].batches # <<>>
    /\ \/ /\ breaker.state = "CLOSED"
          /\ embed' = [embed EXCEPT ![c].at = "call", ![c].attempt = 0,
                                    ![c].permit = [probe |-> FALSE, current |-> TRUE]]
          /\ UNCHANGED breaker
       \/ /\ breaker.state = "OPEN" /\ breaker.cooled
          /\ breaker' = [breaker EXCEPT !.state = "HALF_OPEN", !.cooled = FALSE]
          /\ embed' = [embed EXCEPT ![c].at = "call", ![c].attempt = 0,
                                    ![c].permit = [probe |-> TRUE, current |-> TRUE]]
       \/ /\ breaker.state # "CLOSED" /\ ~breaker.cooled
          /\ embed' = [embed EXCEPT ![c] = IdleEmbed]
          /\ UNCHANGED breaker
    /\ UNCHANGED aiSlot

Succeeded(c) ==
    LET e == IF Recorded(c) /\ embed[c].permit.probe THEN Outdated(embed) ELSE embed
    IN  [e EXCEPT ![c].at = "permit", ![c].permit = NoPermit,
                  ![c].batches = Tail(@)]

Failed(c) ==
    LET e == IF Recorded(c) /\ Trips(c) THEN Outdated(embed) ELSE embed
    IN  [e EXCEPT ![c] = IdleEmbed]

\* Mutant of AttemptFailed: tries are not counted.
AttemptFailedUncounted(c, retryable) ==
    IF retryable
    THEN /\ embed' = [embed EXCEPT ![c].at = "sleep"]
         /\ UNCHANGED breaker
    ELSE /\ embed' = Failed(c)
         /\ breaker' = FailureRecorded(c)

\* _embed_with_retries, after a failure that may be tried again or not.
AttemptFailed(c, retryable) ==
    IF retryable /\ embed[c].attempt + 1 < Attempts
    THEN /\ embed' = [embed EXCEPT ![c].at = "sleep", ![c].attempt = @ + 1]
         /\ UNCHANGED breaker
    ELSE /\ embed' = Failed(c)
         /\ breaker' = FailureRecorded(c)

\* OpenAIEmbeddingTransport waits for the slot no longer than the timeouts.
TakeAiSlot(c) ==
    /\ embed[c].at = "call" /\ ~aiSlot
    /\ aiSlot' = TRUE
    /\ embed' = [embed EXCEPT ![c].at = "answer"]
    /\ UNCHANGED breaker

SlotTimeout(c) ==
    /\ embed[c].at = "call" /\ aiSlot
    /\ AttemptFailed(c, TRUE)
    /\ UNCHANGED aiSlot

Answer(c) ==
    /\ embed[c].at = "answer"
    /\ aiSlot' = FALSE
    /\ \/ \E r \in Responses(Len(Head(embed[c].batches))) :
             IF Complete(r, Len(Head(embed[c].batches)))
             THEN /\ breaker' = SuccessRecorded(c)
                  /\ embed' = [Succeeded(c) EXCEPT ![c].vectors =
                                 @ \o [i \in 1 .. Len(r) |-> Head(embed[c].batches)[r[i]]]]
             ELSE AttemptFailed(c, TRUE)
       \/ \E retryable \in BOOLEAN : AttemptFailed(c, retryable)

\* The back-off, or the Retry-After of the service when that is longer.
WakeUp(c) ==
    /\ embed[c].at = "sleep"
    /\ embed' = [embed EXCEPT ![c].at = "call"]
    /\ UNCHANGED <<breaker, aiSlot>>

\* The language model uses the same slot.
LanguageModelCall ==
    /\ ~aiSlot /\ aiSlot' = TRUE
    /\ UNCHANGED <<breaker, embed>>

LanguageModelEnd ==
    /\ aiSlot /\ \A c \in Embedders : embed[c].at # "answer"
    /\ aiSlot' = FALSE
    /\ UNCHANGED <<breaker, embed>>

EmbedStep(c) == \/ Return(c) \/ BeforeCall(c) \/ TakeAiSlot(c) \/ SlotTimeout(c)
                \/ Answer(c) \/ WakeUp(c)

EmbeddingNext ==
    \/ \E c \in Embedders : EmbedQuery(c) \/ Embed(c) \/ EmbedStep(c)
    \/ CoolDown \/ LanguageModelCall \/ LanguageModelEnd

EmbeddingSpec == EmbeddingInit /\ [][EmbeddingNext]_embeddingVars

----------------------------------------------------------------------------
(* Properties *)

\* The breaker is half open just while exactly one call is its probe: no call of
\* an earlier generation opens it, closes it or takes the probe from another,
\* and none that ends leaves the probe behind.  embedding/core.py:122-157.
HalfOpenIsProbed ==
    breaker.state = "HALF_OPEN" <=>
        \E c \in Embedders : /\ embed[c].permit = [probe |-> TRUE, current |-> TRUE]
                             /\ \A d \in Embedders \ {c} :
                                   ~(embed[d].permit.probe /\ embed[d].permit.current)

\* The probe of a half-open breaker settles its state: no way out of a call,
\* however often it is tried again, leaves the breaker half open, where it
\* would refuse every later call for good.  embedding/core.py:122-157, 340-354.
ProbeSettles == (breaker.state = "HALF_OPEN") ~> (breaker.state # "HALF_OPEN")

\* What embed returns has one vector for each text, in the order of the texts,
\* however they were batched and retried; no batch exceeds a limit unless it
\* is a single text.  embedding/core.py:191-243, 387-418.
VectorsComplete ==
    \A c \in Embedders :
       /\ embed[c].at = "returned" =>
             embed[c].vectors = [i \in 1 .. Len(embed[c].texts) |-> i]
       /\ \A b \in 1 .. Len(embed[c].batches) :
             LET batch == embed[c].batches[b] IN
             Len(batch) > 1 => /\ Len(batch) <= MaxItems
                               /\ Total(embed[c].texts, batch, "chars") <= CharBudget
                               /\ Total(embed[c].texts, batch, "tokens") <= TokenBudget

\* See HalfOpenIsProbed and VectorsComplete.
EmbeddingSound == HalfOpenIsProbed /\ VectorsComplete
=============================================================================
