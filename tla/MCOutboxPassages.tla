--------------------------- MODULE MCOutboxPassages ---------------------------
(***************************************************************************)
(* Small instances of the outbox, of the threads of a worker and of the    *)
(* passages a search answers from, how they are cut, masked and ranked.    *)
(* They share no variable, so that their interleaving would add nothing: a *)
(* behaviour is one of the component it has picked.                        *)
(***************************************************************************)
EXTENDS SyncOutbox, WorkerRuntime, Masking, Retrieval, TLC

\* A pipeline of the steps there are; the deployed definition is configuration and
\* not in the repository.
MCStep(id, order, by, pre, quiet) ==
    [id |-> id, order |-> order, enabled_by |-> by, precondition |-> pre, quiet |-> quiet]
MCDefinition == <<
    MCStep("multi_query", 1, "multi_query", {}, {}),
    MCStep("permission_prefilter", 2, "", {}, {}),
    MCStep("mode_search", 3, "", {}, {}),
    MCStep("merge_dedup", 4, "", {}, {}),
    MCStep("permission_livecheck", 5, "", {}, {}),
    MCStep("document_scope", 6, "document_scope", {},
           {[name |-> "distinct_document_count", least |-> 2]}),
    MCStep("reranking", 7, "reranking", {[name |-> "results", least |-> 1]}, {}),
    MCStep("retrieval_gate", 8, "gate", {}, {})>>

MCName(at, name) == [stage |-> at, name |-> name]
MCDeclared ==
    [vector |-> [names |-> <<MCName(0, "vector")>>, stages |-> <<>>],
     keyword |-> [names |-> <<MCName(0, "keyword")>>, stages |-> <<>>],
     hybrid |-> [names |-> <<MCName(0, "both")>>, stages |-> <<>>],
     cascading |-> [names |-> <<MCName(1, "bm25"), MCName(1, "eval"), MCName(2, "expand"),
                                MCName(2, "eval"), MCName(3, "both")>>,
                    stages |-> <<1, 2, 3>>]]

MCAll == {"multi_query", "document_scope", "reranking", "gate"}
MCSettings ==
    [search_mode : {"vector", "hybrid"}, query_expansion : {FALSE}, soft_mode : {TRUE},
     on : {MCAll, MCAll \ {"reranking"}}]
    \union [search_mode : {"cascading"}, query_expansion : BOOLEAN, soft_mode : {FALSE},
            on : {MCAll, MCAll \ {"multi_query"}}]
    \union [search_mode : {"keyword"}, query_expansion : {FALSE}, soft_mode : {FALSE},
            on : {MCAll \ {"reranking", "document_scope"}}]

ASSUME ConfigurationAssumption == RankingOrder /\ TracesDeclared

\* What the queries of a search find: a score for each of three chunks of two documents.
MCScores == {<<2, 0, 1>>, <<1, 2, 2>>, <<0, 0, 1>>}
MCDocumentOf == <<1, 1, 2>>

\* Matches that overlap, that look like a date, and masks that are longer or shorter.
MCMatch(kind, from, upto, mask) == [kind |-> kind, from |-> from, upto |-> upto, mask |-> mask]
MCMatches == <<MCMatch("resident", 0, 2, 2), MCMatch("email", 1, 3, 3), MCMatch("email", 4, 6, 1),
               MCMatch("account", 3, 4, 1), MCMatch("account", 5, 7, 2)>>
MCTexts ==
    [length : {7}, dates : {{}, {[from |-> 5, upto |-> 6]}},
     found : {SelectSeq(MCMatches, LAMBDA m : m \in found) :
                found \in SUBSET ToSet(MCMatches) \ {{}}}]

VARIABLE part

AllInit ==
    /\ part \in {"outbox", "worker", "chunks", "masking", "retrieval"}
    /\ Init /\ RuntimeInit
    /\ ChunkingInit /\ (part # "chunks" => input = <<<<1>>, 1, 0>>)
    /\ MaskingInit /\ (part # "masking" => passage.text = CHOOSE t \in Texts : TRUE)
    /\ RetrievalInit /\ (part # "retrieval" => pipeline.settings = CHOOSE s \in Settings : TRUE)

\* Only the outbox goes on for ever: a worker that has stopped, a text that is cut or
\* masked and a ranking are an end.
AllNext ==
    \/ /\ part = "outbox" /\ Next
       /\ UNCHANGED <<part, runtimeVars, chunkingVars, retrievalVars, passage>>
    \/ /\ part = "worker" /\ RuntimeNext
       /\ UNCHANGED <<part, vars, chunkingVars, retrievalVars, passage>>
    \/ /\ part = "chunks" /\ ChunkingNext
       /\ UNCHANGED <<part, vars, runtimeVars, retrievalVars, passage>>
    \/ /\ part = "masking" /\ MaskingNext
       /\ UNCHANGED <<part, vars, runtimeVars, chunkingVars, retrievalVars>>
    \/ /\ part = "retrieval" /\ RetrievalNext
       /\ UNCHANGED <<part, vars, runtimeVars, chunkingVars, passage>>
    \/ /\ part # "outbox"
       /\ UNCHANGED <<part, vars, runtimeVars, chunkingVars, retrievalVars, passage>>

\* The fairness of SyncOutbox, for the behaviours that are its own.
OutboxFairness ==
    /\ WF_vars(part = "outbox" /\ Tick)
    /\ \A p \in Dispatchers : WF_vars(part = "outbox" /\ DispatchStep(p))
    /\ \A e \in Events :
          /\ WF_vars(part = "outbox" /\ RecoverExpired(e))
          /\ SF_vars(part = "outbox" /\ \E p \in Dispatchers : Claim(p, e))

\* The thread that stops waits for a claim no longer than the grace period, and for a
\* renewal as long as its call takes: that each call ends, by an answer or by an error, is
\* assumed.
RuntimeFairness ==
    /\ WF_runtimeVars(part = "worker" /\ ShutdownStep)
    /\ \A c \in Claims : WF_runtimeVars(part = "worker" /\ RenewalEnds(c))

AllSpec == /\ AllInit
           /\ [][AllNext]_<<part, vars, runtimeVars, chunkingVars, retrievalVars, passage>>
           /\ OutboxFairness
           /\ RuntimeFairness
===============================================================================
