----------------------------- MODULE Retrieval -----------------------------
(***************************************************************************)
(* What the search finds and in which order: the interpreter of the        *)
(* pipeline, src/src/search/core.py, over the steps of a definition, and   *)
(* the steps that retrieve, merge, filter and rank, src/src/search/steps/. *)
(* Search has the requests around them, their permissions and deadlines.   *)
(* A row is a chunk and its score; scores are multiples of 1 / Scale.      *)
(* Whatever is sorted is put in its place by what is ahead of it: by       *)
(* Ranked.                                                                 *)
(***************************************************************************)
EXTENDS Integers, SequencesExt

CONSTANTS Chunks,          \* 1 .. n
          DocumentOf,           \* the document of a chunk
          Scores,          \* what an index may say of a query: 0 is no hit
          Definition,      \* the steps of the pipeline definition
          Declared,        \* the traces and the stages of a mode
          Settings,        \* the settings of a request
          MaxQueries,      \* multi_query_count
          RetrieverTopK, DocumentScopeTopN, RerankerTopK,
          RrfConstant, Scale,
          Bm25Threshold, MinDocScore, MinQualifyingDocs, \* of cascading
          MinTopScore, MinGateScore, MinDocCount         \* of the gate

ASSUME RetrievalAssumption ==
    /\ DocumentOf \in [Chunks -> Nat] /\ Chunks \subseteq Nat /\ IsFiniteSet(Chunks)
    /\ Scores \subseteq [Chunks -> Nat] /\ Scale \in Nat /\ RrfConstant \in Nat
    /\ DOMAIN Definition = 1 .. Len(Definition) /\ Len(Definition) \in Nat
    /\ \A i \in DOMAIN Definition : Definition[i].order \in Nat
    /\ \A s \in Settings : s.search_mode \in DOMAIN Declared
    /\ MaxQueries \in Nat \ {0} /\ RetrieverTopK \in Nat \ {0}
    /\ DocumentScopeTopN \in Nat \ {0} /\ RerankerTopK \in Nat \ {0}
    /\ \A i, j \in DOMAIN Definition :
          i # j => /\ Definition[i].id # Definition[j].id
                   /\ Definition[i].order # Definition[j].order
    /\ \A rank \in 1 .. RetrieverTopK : Scale % (RrfConstant + rank) = 0

VARIABLE pipeline   \* the context of the run, its trace, and the order of its last step

retrievalVars == pipeline

----------------------------------------------------------------------------
(* Sorted lists *)

\* The elements of a set, each after those that are ahead of it.
Ranked(ahead) ==
    [k \in 1 .. Cardinality(DOMAIN ahead) |->
        CHOOSE x \in DOMAIN ahead : Cardinality(ahead[x]) = k - 1]

\* What is at some places of a list, in its order.
At(list, places) ==
    LET order == Ranked([i \in places |-> {j \in places : j < i}])
    IN  [k \in DOMAIN order |-> list[order[k]]]

\* Rows of chunks by their score; the order of equals is that of their places.
ByScore(score, place) ==
    LET chunks == DOMAIN score
        order == Ranked([c \in chunks |-> {d \in chunks :
                            \/ score[d] > score[c]
                            \/ score[d] = score[c] /\ place[d] < place[c]}])
    IN  [k \in DOMAIN order |-> [chunk |-> order[k], score |-> score[order[k]]]]

Top(rows, n) == SubSeq(rows, 1, Min({n, Len(rows)}))

\* PipelineInterpreter._validated_steps: ids and orders are unique, and the
\* order is the order.
Steps ==
    LET order == Ranked([i \in DOMAIN Definition |->
                           {j \in DOMAIN Definition : Definition[j].order < Definition[i].order}])
    IN  [k \in DOMAIN order |-> Definition[order[k]]]

RetrievalInit ==
    \E s \in Settings :
       pipeline = [settings |-> s, next |-> 1, status |-> "running", allowed |-> {},
                   queries |-> 1, batches |-> <<>>, stages |-> <<>>, results |-> <<>>,
                   live |-> {}, reranked |-> FALSE, gate |-> "pass", trace |-> <<>>]

----------------------------------------------------------------------------
(* Rows *)

ChunksOf(rows) == {r.chunk : r \in ToSet(rows)}
DocsOf(rows) == {DocumentOf[c] : c \in ChunksOf(rows)}
ScoreIn(rows, c) == Max({r.score : r \in {q \in ToSet(rows) : q.chunk = c}})
BestOf(rows, d) == Max({r.score : r \in {q \in ToSet(rows) : DocumentOf[q.chunk] = d}})

\* The place of the first row of each chunk: a dictionary keeps the order in which
\* its keys came.
FirstPlace(rows) ==
    [c \in ChunksOf(rows) |-> Min({i \in DOMAIN rows : rows[i].chunk = c})]

\* The rows of an index for the allowed documents, best first.
Hits(context, score) ==
    LET found == {c \in Chunks : score[c] > 0 /\ DocumentOf[c] \in context.allowed}
    IN  Top(ByScore([c \in found |-> score[c] * Scale], [c \in found |-> c]), RetrieverTopK)

VectorHits(context, near) == Hits(context, near)
KeywordHits(context, term) == Hits(context, term)

\* rrf: a weighted share of each group for the rank in it.
ShareOf(g, c) ==
    IF c \notin ChunksOf(g.rows) THEN 0
    ELSE g.weight * (Scale \div (RrfConstant + FirstPlace(g.rows)[c]))

Rrf(g, h) ==
    LET rows == g.rows \o h.rows
    IN  ByScore([c \in ChunksOf(rows) |-> ShareOf(g, c) + ShareOf(h, c)], FirstPlace(rows))

Group(rows, weight) == [rows |-> rows, weight |-> weight]

Sufficient(rows) ==
    /\ rows # <<>>
    /\ BestOf(rows, DocumentOf[rows[1].chunk]) >= Bm25Threshold * Scale
    /\ Cardinality({d \in DocsOf(rows) : BestOf(rows, d) >= MinDocScore * Scale})
          >= MinQualifyingDocs

----------------------------------------------------------------------------
(* mode_search *)

Hybrid(context, near, term) ==
    Rrf(Group(VectorHits(context, near), 5), Group(KeywordHits(context, term), 5))

\* The first stage, the expanded query, and both indices: as far as needed.
Cascading(context, near, term, expanded) ==
    LET first == KeywordHits(context, term)
        more == IF context.settings.query_expansion THEN KeywordHits(context, expanded) ELSE first
        fallback == Rrf(Group(VectorHits(context, near), 3),
                        Group(IF more = <<>> THEN first ELSE more, 7))
        second == IF context.settings.query_expansion THEN <<2>> ELSE <<>>
    IN  IF Sufficient(first) THEN [rows |-> first, stages |-> <<1>>]
        ELSE IF second # <<>> /\ Sufficient(more)
        THEN [rows |-> more, stages |-> <<1, 2>>]
        ELSE [rows |-> fallback, stages |-> <<1>> \o second \o <<3>>]

Original(context, near, term, expanded) ==
    CASE context.settings.search_mode = "vector" ->
            [rows |-> VectorHits(context, near), stages |-> <<>>]
      [] context.settings.search_mode = "keyword" ->
            [rows |-> KeywordHits(context, term), stages |-> <<>>]
      [] context.settings.search_mode = "cascading" -> Cascading(context, near, term, expanded)
      [] OTHER -> [rows |-> Hybrid(context, near, term), stages |-> <<>>]

----------------------------------------------------------------------------
(* The other steps, as the contexts they may leave *)

Kept(context, rows) == [context EXCEPT !.results = rows]

Prefilter(context) ==
    {[context EXCEPT !.allowed = a, !.status = IF a = {} THEN "ended" ELSE @]
        : a \in SUBSET {DocumentOf[c] : c \in Chunks}}

\* Variants are distinct from the query and from each other; a model that fails
\* leaves the query alone.
MultiQuery(context) == {[context EXCEPT !.queries = n] : n \in 1 .. MaxQueries}

\* What the first query finds, and what the others may.
Firsts(context) ==
    {Original(context, near, term, expanded) : near, term, expanded \in Scores}
Variants(context) == {Hybrid(context, near, term) : near, term \in Scores}

\* The threads of the queries: their batches are in the order of the queries.
Completed(context, first) ==
    {[context EXCEPT !.stages = first.stages, !.batches = <<first.rows>> \o others]
        : others \in [1 .. context.queries - 1 -> Variants(context)]}

\* A search that fails is the error of the request.
ModeSearch(context) ==
    {[context EXCEPT !.status = "failed"]}
       \union UNION {Completed(context, first) : first \in Firsts(context)}

\* Mutant of MergeDedup: the first batch that has a chunk decides.
MergeDedupFirst(context) ==
    LET rows == FlattenSeq(context.batches)
    IN  {Kept(context, ByScore([c \in ChunksOf(rows) |-> rows[FirstPlace(rows)[c]].score],
                               FirstPlace(rows)))}

MergeDedup(context) ==
    LET rows == FlattenSeq(context.batches)
    IN  {Kept(context, ByScore([c \in ChunksOf(rows) |-> ScoreIn(rows, c)], FirstPlace(rows)))}

\* The rows of some documents.
RowsOf(rows, documents) == At(rows, {i \in DOMAIN rows : DocumentOf[rows[i].chunk] \in documents})

PermissionLivecheck(context) ==
    {[Kept(context, RowsOf(context.results, live)) EXCEPT !.live = live]
        : live \in SUBSET DocsOf(context.results)}

\* The documents in the order of their best score, then of their first row.
DocumentScope(context) ==
    LET rows == context.results
        First(d) == Min({i \in DOMAIN rows : DocumentOf[rows[i].chunk] = d})
        Ahead(d) == {e \in DocsOf(rows) :
                        \/ BestOf(rows, e) > BestOf(rows, d)
                        \/ BestOf(rows, e) = BestOf(rows, d) /\ First(e) < First(d)}
        selected == {d \in DocsOf(rows) : Cardinality(Ahead(d)) < DocumentScopeTopN}
    IN  {Kept(context, RowsOf(rows, selected))}

\* A reranker that fails, or answers with another number of scores, changes
\* nothing.
Reranking(context) ==
    LET window == Top(context.results, RerankerTopK * 4)
        Scored(score) == [c \in ChunksOf(window) |-> score[c] * Scale]
    IN  {context} \union {[Kept(context, Top(ByScore(Scored(s), FirstPlace(window)), RerankerTopK))
                              EXCEPT !.reranked = TRUE] : s \in Scores}

Passes(rows) ==
    /\ \E r \in ToSet(rows) : r.score >= MinTopScore
    /\ Cardinality({d \in DocsOf(rows) : BestOf(rows, d) >= MinGateScore}) >= MinDocCount

RetrievalGate(context) ==
    {IF context.results # <<>> /\ Passes(context.results) THEN context
     ELSE IF context.results # <<>> /\ context.settings.soft_mode
     THEN [context EXCEPT !.gate = "soft_fail"]
     ELSE [context EXCEPT !.gate = "hard_fail", !.status = "ended"]}

Handle(id, context) ==
    CASE id = "permission_prefilter" -> Prefilter(context)
      [] id = "multi_query" -> MultiQuery(context)
      [] id = "mode_search" -> ModeSearch(context)
      [] id = "merge_dedup" -> MergeDedup(context)
      [] id = "permission_livecheck" -> PermissionLivecheck(context)
      [] id = "document_scope" -> DocumentScope(context)
      [] id = "reranking" -> Reranking(context)
      [] id = "retrieval_gate" -> RetrievalGate(context)

----------------------------------------------------------------------------
(* PipelineInterpreter *)

\* The conditions of a definition are made of comparisons of such values: here
\* the fragment that asks for at least so many.
Value(name, context) ==
    CASE name = "results" -> Len(context.results)
      [] name = "distinct_document_count" -> Cardinality(DocsOf(context.results))

Condition(bounds, context) == \A b \in bounds : Value(b.name, context) >= b.least

Enabled(step, context) ==
    /\ step.enabled_by = "" \/ step.enabled_by \in context.settings.on
    /\ Condition(step.precondition, context)

TraceIsNoop(step, context) == step.quiet # {} /\ ~Condition(step.quiet, context)

\* Mutant of StageEnd: a stage ends before its marker.
StageEndShort(names, start, stage) ==
    LET marks == {i \in start + 1 .. Len(names) : names[i] = [stage |-> stage, name |-> "eval"]}
    IN  IF marks = {} THEN start ELSE Min(marks) - 1

\* The traces of a stage end with its marker; without one it has none.
StageEnd(names, start, stage) ==
    LET marks == {i \in start + 1 .. Len(names) : names[i] = [stage |-> stage, name |-> "eval"]}
    IN  IF marks = {} THEN start ELSE Min(marks)

\* The declared traces of a mode are cut into its stages; the last has the rest.
StageEnds(mode) ==
    LET names == Declared[mode].names
        stages == Declared[mode].stages
        end[k \in 0 .. Len(stages)] ==
            IF k = 0 THEN 0
            ELSE IF k = Len(stages) THEN Len(names)
            ELSE StageEnd(names, end[k - 1], stages[k])
    IN  end

NamesForStages(mode, executed) ==
    LET stages == Declared[mode].stages
        end == StageEnds(mode)
        Taken(i) == \E k \in DOMAIN stages :
                       stages[k] \in ToSet(executed) /\ end[k - 1] < i /\ i <= end[k]
    IN  At(Declared[mode].names, {i \in DOMAIN Declared[mode].names : Taken(i)})

Variant == [stage |-> 0, name |-> "variant"]

TraceNames(step, context) ==
    LET mode == context.settings.search_mode
        ofMode == IF context.stages = <<>> THEN Declared[mode].names
                  ELSE NamesForStages(mode, context.stages)
    IN  (IF step.id # "mode_search" THEN <<>>
         ELSE ofMode \o [i \in 1 .. context.queries - 1 |-> Variant])
        \o <<[stage |-> 0, name |-> step.id]>>

\* One step of the definition, in its order: its handler, then its trace.
RunStep ==
    /\ pipeline.status = "running" /\ pipeline.next <= Len(Steps)
    /\ LET step == Steps[pipeline.next]
           context == [pipeline EXCEPT !.next = @ + 1]
       IN  IF ~Enabled(step, pipeline) THEN pipeline' = context
           ELSE \E after \in Handle(step.id, context) :
                   pipeline' = IF after.status = "failed" \/ TraceIsNoop(step, pipeline) THEN after
                               ELSE [after EXCEPT !.trace = @ \o TraceNames(step, after)]

RetrievalNext == RunStep

RetrievalSpec == RetrievalInit /\ [][RetrievalNext]_retrievalVars

----------------------------------------------------------------------------
(* Properties *)

Found(c) == {b \in ToSet(pipeline.batches) : \E r \in ToSet(b) : r.chunk = c}
BestFound(c) == Max({ScoreIn(b, c) : b \in Found(c)})
BestDoc(d) == Max({BestFound(c) : c \in {e \in Chunks : DocumentOf[e] = d /\ Found(e) # {}}})
Past(id) == \E i \in 1 .. pipeline.next - 1 : Steps[i].id = id /\ Enabled(Steps[i], pipeline)
Shown == {r.chunk : r \in ToSet(pipeline.results)}

\* Whatever mode, variants, stages and fallbacks were used: no chunk is answered
\* twice, the best is first, and each has the best score any batch gave it,
\* unless the reranker answered; nothing leaves the results but for a document
\* the user may not read any more, for a document that all kept ones are at
\* least as good as, or for the reranker's limit.
\* search/steps/merge_dedup.py, document_scope.py, reranking.py, retrieval.py:49.
RankedSoundly ==
    Past("merge_dedup") =>
    /\ Cardinality(Shown) = Len(pipeline.results)
    /\ \A i, j \in DOMAIN pipeline.results :
          i < j => pipeline.results[i].score >= pipeline.results[j].score
    /\ DocsOf(pipeline.results) \subseteq pipeline.allowed
    /\ ~pipeline.reranked => \A r \in ToSet(pipeline.results) : r.score = BestFound(r.chunk)
    /\ \A c \in {d \in Chunks : Found(d) # {}} \ Shown :
          \/ Past("permission_livecheck") /\ DocumentOf[c] \notin pipeline.live
          \/ Past("document_scope") /\ DocumentOf[c] \notin DocsOf(pipeline.results)
          \/ pipeline.reranked /\ Len(pipeline.results) = RerankerTopK
    /\ Past("document_scope") =>
          \A d \in DocsOf(pipeline.results), c \in {e \in Chunks : Found(e) # {}} :
             DocumentOf[c] \in pipeline.live \ DocsOf(pipeline.results) /\ ~pipeline.reranked
                => BestDoc(d) >= BestDoc(DocumentOf[c])

\* The trace of a run says what ran: the steps in the order of the definition,
\* the stages of a cascade that were gone through and no other, one variant for
\* each further query; a hard failure of the gate is one of an empty result, or
\* of a service that is told to fail hard.
\* search/core.py:168-260, steps/retrieval_gate.py.
TraceTruthful ==
    /\ \A i, j \in DOMAIN pipeline.trace :
          /\ i < j /\ pipeline.trace[i].stage = 0 /\ pipeline.trace[j].stage = 0
          /\ {pipeline.trace[i].name, pipeline.trace[j].name}
                \subseteq {s.id : s \in ToSet(Definition)}
          => LET Order(k) == (CHOOSE s \in ToSet(Definition) : s.id = pipeline.trace[k].name).order
             IN  Order(i) < Order(j)
    /\ pipeline.stages # <<>> =>
          {t.stage : t \in ToSet(pipeline.trace)} \ {0} = ToSet(pipeline.stages)
    /\ pipeline.batches # <<>> =>
          Cardinality({i \in DOMAIN pipeline.trace : pipeline.trace[i] = Variant})
             = Len(pipeline.batches) - 1
    /\ pipeline.gate = "hard_fail" => pipeline.results = <<>> \/ ~pipeline.settings.soft_mode

\* What the two ask of the configuration.  The steps are those of this module, the ranking
\* ones in this order, and enabled or not for the whole of a run.
Ranking == <<"permission_prefilter", "mode_search", "merge_dedup", "permission_livecheck",
             "document_scope", "reranking">>
StepIds == ToSet(Ranking) \union {"multi_query", "retrieval_gate"}

RankingOrder ==
    /\ \A i \in DOMAIN Definition :
          /\ Definition[i].id \in StepIds
          /\ Definition[i].id \in {"merge_dedup", "permission_livecheck", "document_scope"}
                => Definition[i].precondition = {}
    /\ \A i, j \in DOMAIN Definition, a, b \in DOMAIN Ranking :
          Definition[i].id = Ranking[a] /\ Definition[j].id = Ranking[b] /\ a < b
             => Definition[i].order < Definition[j].order

\* Traces have names of their own; those of a cascade are declared stage by stage, and the
\* first two stages end with their markers.
TracesDeclared ==
    /\ \A i \in DOMAIN Definition : Definition[i].id = "mode_search" => Definition[i].quiet = {}
    /\ \A mode \in DOMAIN Declared :
          /\ Declared[mode].names \in Seq([stage : Nat, name : STRING])
          /\ \A n \in ToSet(Declared[mode].names) :
                n.stage = 0 => n.name \notin StepIds \union {"variant"}
    /\ "cascading" \in DOMAIN Declared =>
          LET names == Declared["cascading"].names
          IN  /\ Declared["cascading"].stages = <<1, 2, 3>>
              /\ {n.stage : n \in ToSet(names)} = 1 .. 3
              /\ \A i, j \in DOMAIN names : i < j => names[i].stage <= names[j].stage
              /\ \A k \in 1 .. 2 : \E i \in DOMAIN names : \A j \in DOMAIN names :
                    /\ names[j] = [stage |-> k, name |-> "eval"] <=> j = i
                    /\ names[j].stage = k => j <= i

\* See RankedSoundly and TraceTruthful.
RetrievalSound == RankedSoundly /\ TraceTruthful
=============================================================================
