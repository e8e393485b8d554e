------------------------------ MODULE AgentSearch ------------------------------
(***************************************************************************)
(* Searches by agents (integrations/mcp/src): a tool call becomes one      *)
(* request per collection to the public query API, the answers are         *)
(* projected and reordered (search.rs), fused across collections           *)
(* (fusion.rs) and packed into a bounded context (context.rs).             *)
(*                                                                         *)
(* A record is [id, seq, score, stamp, kept, text, doc, reserved,          *)
(* relevance]: score is what the collection's metric gives it, stamp the   *)
(* time its source was observed or NoTime, kept the value of the caller's  *)
(* own filter, text its content, doc the document it belongs to (NoDoc if  *)
(* it names none), reserved the server's own keys that it carries besides  *)
(* its source, relevance what a reranker makes of it.  A collection is     *)
(* [metric, records, fails], fails naming the step of the public API that  *)
(* refuses or cannot be reached: "embed", "query" or "rerank".             *)
(***************************************************************************)
EXTENDS Scoring

\* No timestamp orders before every timestamp, as None does.
NoTime == -1
NoDoc == "none"

\* The keys the server keeps for itself in a record's metadata (provenance.rs, chunking.rs,
\* embedding.rs), and those among them that the tools take away.
Reserved == {"_ketebe_source", "_ketebe_content", "_ketebe_chunk", "_ketebe_embedding"}
Internal == {"_ketebe_source", "_ketebe_content"}
MetadataKeys(r) ==
    {"content"} \cup r.reserved
                \cup (IF r.doc = NoDoc THEN {} ELSE {"document_id"})
                \cup (IF r.stamp = NoTime THEN {} ELSE {"_ketebe_source"})
HasText(r) == ToSet(r.text) \ {" "} # {}

\* ServerRerankParams, when the fused search is called with them.
NoRerank == [asked |-> FALSE, topN |-> 0, query |-> FALSE, policy |-> "fail"]

\* The first check that fails, of a sequence of <<fails, code>>.
FirstFailure(checks) ==
    LET failed == SelectSeq(checks, LAMBDA c : c[1])
    IN  IF failed = <<>> THEN "none" ELSE failed[1][2]

-----------------------------------------------------------------------------
(* One collection.  A field is a name of the hit ("id"), all metadata        *)
(* ("metadata"), one key of it ("key:..."), or unknown.                       *)

HitFields == {"id", "score"}
KeyOf == [f \in {"key:content", "key:document_id", "key:source", "key:chunk"} |->
             CASE f = "key:content" -> "content"
               [] f = "key:document_id" -> "document_id"
               [] f = "key:source" -> "_ketebe_source"
               [] f = "key:chunk" -> "_ketebe_chunk"]
FieldsValid(fields) == fields \subseteq HitFields \cup {"metadata"} \cup DOMAIN KeyOf
MetadataRequested(fields) ==
    fields = {} \/ "metadata" \in fields \/ fields \cap DOMAIN KeyOf # {}

RangeValid(p) == p.after = NoTime \/ p.before = NoTime \/ p.after < p.before

\* SearchParams::into_request: why a call is refused before it is sent.
RequestError(p) ==
    FirstFailure(<<
        <<p.limit = 0, "invalid_limit">>,
        <<~RangeValid(p), "invalid_time_range">>,
        <<p.mode = "dense" /\ ~p.vector /\ ~p.text, "dense_requires_vector_or_text">>,
        <<p.mode = "dense" /\ p.vector /\ p.text, "dense_accepts_one_query_input">>,
        <<p.mode = "sparse" /\ (~p.text \/ p.vector), "sparse_requires_text_only">>,
        <<p.mode = "hybrid" /\ ~p.text, "hybrid_requires_text">>,
        <<~FieldsValid(p.fields), "invalid_field">>>>)

FreshnessRequested(p) == p.after # NoTime \/ p.before # NoTime \/ p.prefer

\* compose_temporal_filter: the caller's filter, then the bounds, joined by and.
\* Mutant: the caller's filter replaces the bounds.
FilterAlone(p) ==
    IF p.filter THEN <<"filter">>
    ELSE SelectSeq(<<"after", "before">>, LAMBDA c : IF c = "after" THEN p.after # NoTime ELSE p.before # NoTime)
ComposeTemporalFilter(p) ==
    SelectSeq(<<"filter", "after", "before">>,
        LAMBDA c : CASE c = "filter" -> p.filter
                     [] c = "after"  -> p.after # NoTime
                     [] c = "before" -> p.before # NoTime)

\* SearchParams::into_request
IntoRequest(p) ==
    [mode |-> p.mode, vector |-> p.vector, text |-> p.text, topK |-> p.limit,
     predicate |-> ComposeTemporalFilter(p), after |-> p.after, before |-> p.before,
     metadata |-> MetadataRequested(p.fields) \/ FreshnessRequested(p),
     provenance |-> FreshnessRequested(p)]

\* The query API on one record: a comparison with a missing field is false.
Holds(request, r) ==
    LET Value(c) == CASE c = "filter" -> Bool(r.kept)
                      [] c = "after"  -> Bool(r.stamp # NoTime /\ r.stamp > request.after)
                      [] c = "before" -> Bool(r.stamp # NoTime /\ r.stamp < request.before)
    IN  EvaluateAnd([n \in DOMAIN request.predicate |-> Value(request.predicate[n])]) = "true"

\* apply_projection: without provenance no reserved key is left.
ApplyProjection(request, r, score) ==
    [record |-> r, id |-> r.id, seq |-> r.seq, score |-> score,
     stamp |-> IF request.metadata /\ request.provenance THEN r.stamp ELSE NoTime,
     keys |-> IF ~request.metadata THEN {}
              ELSE MetadataKeys(r) \ (IF request.provenance THEN {} ELSE Reserved)]

\* Lower distances rank first in a dense search by l2, higher scores everywhere else.
RankedBy(mode, metric) == IF mode = "dense" THEN metric ELSE "dot"

\* QueryV1Request::validate: what the public API asks of reranking.
RerankAccepted(request, rerank) ==
    rerank.asked => rerank.topN >= request.topK /\ (rerank.query \/ request.text)

\* The answer for what a reranker made of the best hits: in its order and with its scores, or,
\* when it failed, as they were.
Reordered(best, request, failed, result) ==
    LET Hit(h) == ApplyProjection(request, best[h.rank],
                                  IF failed THEN best[h.rank].score ELSE h.score)
    IN  IF result.error # "none" THEN result
        ELSE Ok([n \in DOMAIN result.hits |-> Hit(result.hits[n])])

\* apply_reranking
ApplyReranking(best, request, rerank, failed) ==
    LET candidates == [n \in DOMAIN best |-> [id |-> best[n].id, text |-> HasText(best[n])]]
        scores == [n \in DOMAIN best |-> [index |-> n - 1, score |-> best[n].relevance]]
    IN  Reordered(best, request, failed,
                  RerankResult(candidates, [failed |-> failed, scores |-> scores],
                               rerank.policy, request.topK))

\* search_with_rerank: the public API answers with its best hits, or not at all.
SearchWithRerank(request, rerank, coll) ==
    LET matching == SelectSeq(coll.records, LAMBDA r : Holds(request, r))
        ranked == SortSeq(matching, LAMBDA a, b : Precedes(RankedBy(request.mode, coll.metric), a, b))
        best == Take(ranked, IF rerank.asked THEN rerank.topN ELSE request.topK)
    IN  IF coll.fails = "query" THEN Err("unavailable")
        ELSE IF ~RerankAccepted(request, rerank) THEN Err("invalid_request")
        ELSE IF rerank.asked THEN ApplyReranking(best, request, rerank, coll.fails = "rerank")
        ELSE Ok([n \in DOMAIN best |-> ApplyProjection(request, best[n], best[n].score)])

\* compare_freshness
CompareFreshness(a, b) ==
    \/ a.score > b.score
    \/ a.score = b.score /\ a.stamp > b.stamp
    \/ a.score = b.score /\ a.stamp = b.stamp /\ a.seq < b.seq

\* project_metadata: the keys an agent is shown.
ProjectMetadata(keys, fields) ==
    LET rest == keys \ Internal
    IN  IF fields = {} \/ "metadata" \in fields THEN rest
        ELSE rest \cap {KeyOf[f] : f \in fields \cap DOMAIN KeyOf}

\* SearchResponse::project
Project(hits, p) ==
    LET ordered == IF p.prefer THEN SortSeq(hits, CompareFreshness) ELSE hits
    IN  [n \in DOMAIN ordered |->
            [ordered[n] EXCEPT !.keys = ProjectMetadata(ordered[n].keys, p.fields)]]
Projected(p, answer) ==
    IF answer.error # "none" THEN answer ELSE Ok(Project(answer.hits, p))

\* search_params_with_rerank: text is embedded first where a vector is needed, and a dense
\* search is then sent without it.
SearchParams(p, rerank, coll) ==
    LET embeds == p.mode \in {"dense", "hybrid"} /\ ~p.vector
        request == [IntoRequest(p) EXCEPT !.text = @ /\ p.mode # "dense"]
    IN  IF RequestError(p) # "none" THEN Err(RequestError(p))
        ELSE IF embeds /\ coll.fails = "embed" THEN Err("unavailable")
        ELSE Projected(p, SearchWithRerank(request, rerank, coll))

-----------------------------------------------------------------------------
(* Several collections.  A call names the parameters of one search, called   *)
(* search, for every collection.                                             *)

\* SearchManyParams::validate, search_many_params: a failing collection has no hits, the
\* others keep theirs, in the order asked for.
SearchMany(p, rerank, colls) ==
    [n \in DOMAIN colls |-> SearchParams(p, rerank, colls[n])]
MergeInput(results) ==
    FlattenSeq([n \in DOMAIN results |->
        [m \in DOMAIN results[n].hits |-> [source |-> n, rank |-> m, hit |-> results[n].hits[m]]]])

\* FusedSearchParams::validate
FusedError(f, colls) ==
    FirstFailure(<<
        <<colls = <<>>, "collections_required">>,
        <<~RangeValid(f.search), "invalid_time_range">>,
        <<f.search.limit = 0, "invalid_candidate_limit">>,
        <<f.finalLimit = 0, "invalid_final_limit">>,
        <<f.rrfK = 0, "invalid_rrf_k">>,
        <<f.rerank.asked /\ f.rerank.topN \notin 1..f.search.limit, "invalid_rerank_top_n">>>>)

RecordKey(f, c) == IF f.dedup = "record_id" THEN <<0, c.hit.id>> ELSE <<c.source, c.hit.id>>

\* What one hit adds to its record: 1 / (rrf_k + rank) over a common denominator, or its score,
\* which reranking has replaced by rerank_score.
Contribution(f, c, depth) ==
    IF f.fusion = "rrf" THEN Reciprocal(c.rank, f.rrfK, depth) ELSE c.hit.score

OrderBefore(a, b) == a[1] < b[1] \/ (a[1] = b[1] /\ a[2] < b[2])

\* A further hit of a record that is already there.
Merge(f, acc, c, share) ==
    LET newer == f.search.prefer /\ c.hit.stamp > acc.hit.stamp
        earlier == ~f.search.prefer /\ OrderBefore(<<c.source, c.rank>>, acc.order)
        merged == [acc EXCEPT !.score = @ + share, !.provenance = Append(@, c)]
    IN  IF newer \/ earlier
        THEN [merged EXCEPT !.hit = c.hit, !.order = <<c.source, c.rank>>] ELSE merged

\* The accumulators, one per key, after one more hit.
Accumulate(f, accs, c, depth) ==
    LET key == RecordKey(f, c)
        share == Contribution(f, c, depth)
        known == {n \in DOMAIN accs : accs[n].key = key}
    IN  IF known # {}
        THEN [n \in DOMAIN accs |-> IF n \in known THEN Merge(f, accs[n], c, share) ELSE accs[n]]
        ELSE Append(accs, [key |-> key, hit |-> c.hit, order |-> <<c.source, c.rank>>,
                           score |-> share, provenance |-> <<c>>])

\* Accumulators are ordered by score, then recency where asked for, then first source, which no
\* two of them share.
FusedBefore(f, a, b) ==
    \/ a.score > b.score
    \/ /\ a.score = b.score
       /\ \/ f.search.prefer /\ a.hit.stamp > b.hit.stamp
          \/ /\ f.search.prefer => a.hit.stamp = b.hit.stamp
             /\ OrderBefore(a.order, b.order)

\* fuse_results; a collection that failed has no hits.
FuseResults(f, results) ==
    LET input == MergeInput(results)
        depth == Len(input)
        accs == FoldLeft(LAMBDA sofar, c : Accumulate(f, sofar, c, depth), <<>>, input)
    IN  Take(SortSeq(accs, LAMBDA a, b : FusedBefore(f, a, b)), f.finalLimit)

\* search_fused_params
SearchFused(f, colls) ==
    IF FusedError(f, colls) # "none" THEN Err(FusedError(f, colls))
    ELSE Ok(FuseResults(f, SearchMany(f.search, f.rerank, colls)))

-----------------------------------------------------------------------------
(* Context.  A text is a sequence of characters: white space, "x" of one     *)
(* byte and "y" of two.                                                      *)

Space == " "
Bytes(text) == FoldLeft(LAMBDA sum, ch : sum + (IF ch = "y" THEN 2 ELSE 1), 0, text)
TrimEnd(text) ==
    LET solid == {n \in DOMAIN text : text[n] # Space}
    IN  IF solid = {} THEN <<>>
        ELSE SubSeq(text, 1, CHOOSE n \in solid : \A m \in solid : m <= n)

\* truncate_text, one character: where the cut stands, the tokens begun so far.
TruncateStep(text, s, n, maxTokens, maxBytes) ==
    LET begins == text[n] # Space /\ ~s.inToken
    IN  IF s.stopped \/ Bytes(SubSeq(text, 1, n)) > maxBytes \/ (begins /\ s.tokens >= maxTokens)
        THEN [s EXCEPT !.stopped = TRUE]
        ELSE [s EXCEPT !.end = n, !.inToken = text[n] # Space,
                       !.tokens = IF begins THEN @ + 1 ELSE @]

\* truncate_text
TruncateText(text, maxTokens, maxBytes) ==
    LET s == FoldLeft(LAMBDA sofar, n : TruncateStep(text, sofar, n, maxTokens, maxBytes),
                      [end |-> 0, tokens |-> 0, inToken |-> FALSE, stopped |-> FALSE],
                      [n \in DOMAIN text |-> n])
    IN  [text |-> TrimEnd(SubSeq(text, 1, s.end)), tokens |-> s.tokens,
         truncated |-> s.end < Len(text)]

\* The text and the document of a fused hit, as far as its metadata shows them.
Content(acc) == IF "content" \in acc.hit.keys THEN acc.hit.record.text ELSE <<>>
DocumentKey(acc) ==
    IF "document_id" \in acc.hit.keys THEN <<acc.hit.record.doc, 0, 0>>
    ELSE <<NoDoc, acc.provenance[1].source, acc.hit.id>>

\* assemble_context, one fused hit.
AddHit(budget, ctx, acc) ==
    LET document == DocumentKey(acc)
        full == document \notin ctx.documents /\ Cardinality(ctx.documents) >= budget.documents
        cut == TruncateText(Content(acc), budget.tokens - ctx.tokens, budget.bytes - ctx.bytes)
    IN  IF Content(acc) = <<>> \/ full \/ budget.tokens = ctx.tokens \/ budget.bytes = ctx.bytes
           \/ cut.text = <<>>
        THEN [ctx EXCEPT !.omitted = Append(@, acc)]
        ELSE [ctx EXCEPT !.documents = @ \cup {document},
                         !.tokens = @ + cut.tokens, !.bytes = @ + Bytes(cut.text),
                         !.blocks = Append(@, [hit |-> acc, text |-> cut.text,
                                               tokens |-> cut.tokens, truncated |-> cut.truncated])]

\* assemble_context
AssembleContext(budget, hits) ==
    FoldLeft(LAMBDA ctx, acc : AddHit(budget, ctx, acc),
             [blocks |-> <<>>, omitted |-> <<>>, documents |-> {}, tokens |-> 0, bytes |-> 0], hits)

\* RetrieveContextParams::prepare_search: a projection is widened by what the context needs.
PrepareSearch(f) ==
    IF f.search.fields = {} THEN f
    ELSE [f EXCEPT !.search.fields = @ \cup {"key:content", "key:document_id"}]

\* retrieve_context: RetrieveContextParams::validate, the fused search, the context.
RetrieveContext(f, budget, colls) ==
    LET refused == FusedError(f, colls) # "none" \/ 0 \in {budget.tokens, budget.bytes, budget.documents}
        Packed(found) ==
            IF refused \/ found.error # "none"
            THEN [error |-> "refused", context |-> AssembleContext(budget, <<>>)]
            ELSE [error |-> "none", context |-> AssembleContext(budget, found.hits)]
    IN  Packed(SearchFused(PrepareSearch(f), colls))

-----------------------------------------------------------------------------
(* Reference definitions *)

InRange(p, r) ==
    /\ p.after # NoTime => r.stamp # NoTime /\ r.stamp > p.after
    /\ p.before # NoTime => r.stamp # NoTime /\ r.stamp < p.before

\* The parts of SearchAnswersRequest, of one answer.
AnswersRequest(p, coll, out) ==
    LET wanted == {r \in ToSet(coll.records) : (p.filter => r.kept) /\ InRange(p, r)}
        returned == {out.hits[n].record : n \in DOMAIN out.hits}
    IN  out.error = "none" =>
            /\ returned \subseteq wanted
            /\ Len(out.hits) = Cardinality(returned)
            /\ Len(out.hits) < p.limit => returned = wanted
            /\ \A r \in returned, q \in wanted \ returned :
                   Precedes(RankedBy(p.mode, coll.metric), r, q)
            /\ \A n \in DOMAIN out.hits :
                   /\ out.hits[n].keys \cap Internal = {}
                   /\ ~FreshnessRequested(p) => out.hits[n].keys \cap Reserved = {}
                   /\ FreshnessRequested(p) => out.hits[n].stamp = out.hits[n].record.stamp

\* A search that answers returns the best records that pass the caller's filter and both time
\* bounds (into_request, compose_temporal_filter) and tells the time of every hit when freshness
\* was asked for, whatever fields were selected (project).  It never shows what is kept on a
\* record's source and content (project_metadata), and the server's other keys only when freshness
\* was asked for, where into_request has them sent along (apply_projection).
SearchAnswersRequest(p, coll) == AnswersRequest(p, coll, SearchParams(p, NoRerank, coll))

Hits(results, f, key) ==
    SelectSeq(MergeInput(results), LAMBDA c : RecordKey(f, c) = key)
TotalShare(results, f, key) ==
    FoldLeft(LAMBDA sum, c : sum + Contribution(f, c, Len(MergeInput(results))), 0, Hits(results, f, key))

\* The parts of FusedIsSumOfShares, of one answer: the collections answered results, and would
\* have answered plain without reranking.
SumOfShares(f, results, plain, out) ==
    LET RecordsOf(result) == {result.hits[m].record : m \in DOMAIN result.hits}
        keys == {RecordKey(f, c) : c \in ToSet(MergeInput(results))}
        shown == {out.hits[n].key : n \in DOMAIN out.hits}
    IN  out.error = "none" =>
            /\ \A n \in DOMAIN plain :
                   results[n].error = "none" => RecordsOf(results[n]) = RecordsOf(plain[n])
            /\ Cardinality(shown) = Len(out.hits)
            /\ Len(out.hits) < f.finalLimit => shown = keys
            /\ \A k \in shown, other \in keys \ shown :
                   TotalShare(results, f, k) >= TotalShare(results, f, other)
            /\ \A n \in DOMAIN out.hits :
                   LET acc == out.hits[n]
                   IN  /\ acc.provenance = Hits(results, f, acc.key)
                       /\ acc.score = TotalShare(results, f, acc.key)
                       /\ n > 1 => out.hits[n - 1].score >= acc.score
                       /\ f.search.prefer =>
                            \A c \in ToSet(acc.provenance) : acc.hit.record.stamp >= c.hit.record.stamp

\* Fusion (fuse_results): every record appears once with all of its hits and the sum of their
\* shares, no record left out has a higher sum, and with prefer_recent the representative is the
\* newest of the record's hits by the time the collection stores, though each search was
\* projected before.  Reranking changes the order and the scores of what a collection answers,
\* never which records these are.
FusedIsSumOfShares(f, colls) ==
    SumOfShares(f, SearchMany(f.search, f.rerank, colls), SearchMany(f.search, NoRerank, colls),
                SearchFused(f, colls))

Tokens(text) ==
    Cardinality({n \in DOMAIN text : text[n] # Space /\ (n = 1 \/ text[n - 1] = Space)})

ContextWithin(budget, ctx, found) ==
    LET Sum(Op(_)) == FoldLeft(LAMBDA sum, b : sum + Op(b), 0, ctx.blocks) IN
    /\ Len(ctx.blocks) + Len(ctx.omitted) = found
    /\ ctx.tokens = Sum(LAMBDA b : Tokens(b.text)) /\ ctx.tokens <= budget.tokens
    /\ ctx.bytes = Sum(LAMBDA b : Bytes(b.text)) /\ ctx.bytes <= budget.bytes
    /\ ctx.documents = {DocumentKey(b.hit) : b \in ToSet(ctx.blocks)}
    /\ Cardinality(ctx.documents) <= budget.documents
    /\ \A b \in ToSet(ctx.blocks) :
           LET text == b.hit.hit.record.text
           IN  /\ b.text = SubSeq(text, 1, Len(b.text))
               /\ ~b.truncated => b.text = TrimEnd(text)
    /\ \A acc \in ToSet(ctx.omitted) :
           \/ TrimEnd(acc.hit.record.text) = <<>>
           \/ Cardinality(ctx.documents) = budget.documents
           \/ Bytes(acc.hit.record.text) > budget.bytes - ctx.bytes
           \/ Tokens(acc.hit.record.text) > budget.tokens - ctx.tokens

\* A context (assemble_context, truncate_text) keeps its three budgets as its blocks really use
\* them, every fused hit is a block or omitted, a block is a prefix of its record's text and is
\* all of it unless it says it was truncated, and nothing that would fit whole is cut or left
\* out: a hit is omitted only when it has no text, or for want of documents or of room.
ContextKeepsBudgets(f, budget, colls) ==
    LET Kept(out) == out.error = "none" =>
            ContextWithin(budget, out.context, Len(SearchFused(f, colls).hits))
    IN  Kept(RetrieveContext(f, budget, colls))
================================================================================
