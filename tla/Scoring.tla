-------------------------------- MODULE Scoring --------------------------------
(***************************************************************************)
(* Rankings a query combines: the inverted index of a collection, its      *)
(* snapshot and BM25 search (lexical_index.rs), reciprocal rank fusion     *)
(* (hybrid.rs) and the reordering by a reranker (reranking.rs).            *)
(*                                                                         *)
(* Text is a sequence of terms (what analyze makes of it).  Scores are     *)
(* integers: Idf is a positive weight that falls with the document         *)
(* frequency, as ln(1 + (n - df + 1/2) / (df + 1/2)) does, and saturation  *)
(* in the term frequency is computed in fixed point.                       *)
(***************************************************************************)
EXTENDS Retrieval

CONSTANTS Terms

FixedPoint == 1000

\* frequencies.entry(token) += 1
Frequency(tokens, term) == Len(SelectSeq(tokens, LAMBDA t : t = term))

\* LexicalIndex::build over the visible records, each [id, seq, tokens, kept].
Build(visible) ==
    LET docs == [n \in DOMAIN visible |->
                    [record |-> visible[n], length |-> Len(visible[n].tokens)]]
        Containing(term) == SelectSeq([n \in DOMAIN visible |-> n],
                                LAMBDA n : Frequency(visible[n].tokens, term) > 0)
    IN  [docs |-> docs,
         postings |-> [t \in Terms |-> [m \in DOMAIN Containing(t) |->
             [doc |-> Containing(t)[m],
              tf |-> Frequency(visible[Containing(t)[m]].tokens, t)]]],
         total |-> FoldLeft(LAMBDA sum, d : sum + d.length, 0, docs)]

Idf(n, df) == n - df + 1

\* One term's share of a document's score: idf * tf (k1 + 1) / (tf + k1 (1 - b + b norm)),
\* with k1 = 1.2, b = 0.75 and norm = length / average length.
TermScore(index, posting, df) ==
    LET n == Len(index.docs)
        length == index.docs[posting.doc].length
        norm == IF index.total > 0 THEN (FixedPoint * length * n) \div index.total ELSE 0
        denominator == FixedPoint * posting.tf + (3 * FixedPoint + 9 * norm) \div 10
    IN  (Idf(n, df) * posting.tf * FixedPoint * FixedPoint) \div denominator

\* A posting may only name a document the index has.
Corrupt(index, terms) ==
    \E t \in terms : \E m \in DOMAIN index.postings[t] :
        index.postings[t][m].doc \notin DOMAIN index.docs

\* The score of document d: the sum over the query's terms.
DocumentScore(index, terms, d) ==
    LET Share(t) == LET own == SelectSeq(index.postings[t], LAMBDA p : p.doc = d)
                    IN  IF own = <<>> THEN 0
                        ELSE TermScore(index, own[1], Len(index.postings[t]))
    IN  FoldLeft(LAMBDA sum, t : sum + Share(t), 0, SetToSeq(terms))

Before(a, b) == a.score > b.score \/ (a.score = b.score /\ a.id < b.id)

\* LexicalIndex::search_with_control
Search(index, terms, topK, filtered) ==
    LET scored == {d \in DOMAIN index.docs :
                      /\ DocumentScore(index, terms, d) > 0
                      /\ filtered => index.docs[d].record.kept}
        hits == {[id |-> index.docs[d].record.id, score |-> DocumentScore(index, terms, d)] :
                    d \in scored}
    IN  IF topK = 0 THEN Err("invalid_top_k")
        ELSE IF terms = {} THEN Err("empty_query")
        ELSE IF Corrupt(index, terms) THEN Err("corrupt")
        ELSE Ok(Take(SetToSortSeq(hits, Before), topK))

\* Snapshot::from_index keeps ids, sequence numbers and lengths, not the records.
FromIndex(index) ==
    [docs |-> [d \in DOMAIN index.docs |->
        [id |-> index.docs[d].record.id, seq |-> index.docs[d].record.seq,
         length |-> index.docs[d].length]],
     postings |-> index.postings, total |-> index.total]

\* decode_snapshot: what a file with a correct checksum must satisfy.
Decodes(snapshot) ==
    \A t \in Terms : LET list == snapshot.postings[t] IN
        /\ \A m \in DOMAIN list : list[m].tf > 0 /\ list[m].doc <= Len(snapshot.docs)
        /\ \A m \in 2..Len(list) : list[m - 1].doc < list[m].doc

\* hydrate: the snapshot is of use only if it covers exactly the visible versions.
Hydrates(snapshot, visible) ==
    /\ \A d \in DOMAIN snapshot.docs : \E n \in DOMAIN visible :
         visible[n].id = snapshot.docs[d].id /\ visible[n].seq = snapshot.docs[d].seq
    /\ Len(snapshot.docs) = Len(visible)

Hydrate(snapshot, visible) ==
    [docs |-> [d \in DOMAIN snapshot.docs |->
        [record |-> visible[CHOOSE n \in DOMAIN visible : visible[n].id = snapshot.docs[d].id],
         length |-> snapshot.docs[d].length]],
     postings |-> snapshot.postings, total |-> snapshot.total]

-----------------------------------------------------------------------------
(* Fusion *)

\* MAX_HYBRID_CANDIDATES
MaxHybridCandidates == 10000

\* HybridOptions::new
OptionsValid(topK, denseK, lexicalK, rrfK, maxCandidates) ==
    /\ topK > 0 /\ denseK > 0 /\ lexicalK > 0 /\ rrfK > 0
    /\ denseK >= topK /\ lexicalK >= topK
    /\ denseK + lexicalK <= maxCandidates

RankIn(list, id) ==
    LET places == {n \in DOMAIN list : list[n] = id}
    IN  IF places = {} THEN 0 ELSE CHOOSE n \in places : TRUE

\* 1 / (rrf_k + rank) over a common denominator
Reciprocal(rank, rrfK, depth) ==
    IF rank = 0 THEN 0
    ELSE FoldLeft(LAMBDA product, n : IF n = rank THEN product ELSE product * (rrfK + n), 1,
                  [n \in 1..depth |-> n])

\* execute_hybrid_query_with_index_and_options_and_control, from the two lists of ids
Fuse(dense, lexical, rrfK, topK) ==
    LET depth == Len(dense) + Len(lexical)
        ids == ToSet(dense) \cup ToSet(lexical)
        hits == {[id |-> i, score |-> Reciprocal(RankIn(dense, i), rrfK, depth)
                                     + Reciprocal(RankIn(lexical, i), rrfK, depth)] : i \in ids}
    IN  Take(SetToSortSeq(hits, Before), topK)

-----------------------------------------------------------------------------
(* Reranking *)

\* validate_scores: one score for every candidate.
ScoresValid(scores, count) ==
    /\ Len(scores) = count
    /\ \A n \in DOMAIN scores : scores[n].index < count
    /\ \A m, n \in DOMAIN scores : m # n => scores[m].index # scores[n].index

\* CandidateProjection::project fails on a candidate without text.
Projects(candidates) == \A n \in DOMAIN candidates : candidates[n].text

\* RerankingService::rerank; scores of a provider that failed are "failed".
RerankResult(candidates, reply, policy, topK) ==
    LET Scored(n) == [id |-> candidates[reply.scores[n].index + 1].id,
                      score |-> reply.scores[n].score, rank |-> reply.scores[n].index + 1]
        Better(a, b) == a.score > b.score \/ (a.score = b.score /\ a.rank < b.rank)
        kept == [n \in DOMAIN candidates |-> [id |-> candidates[n].id, score |-> 0, rank |-> n]]
    IN  IF topK = 0 \/ ~Projects(candidates) THEN Err("invalid_request")
        ELSE IF candidates = <<>> THEN Ok(<<>>)
        ELSE IF reply.failed
        THEN IF policy = "fail" THEN Err("provider") ELSE Ok(Take(kept, topK))
        ELSE IF ~ScoresValid(reply.scores, Len(candidates)) THEN Err("provider")
        ELSE Ok(Take(SortSeq([n \in DOMAIN reply.scores |-> Scored(n)], Better), topK))

-----------------------------------------------------------------------------
(* Properties, over one input *)

\* A search finds exactly the visible records that hold one of the terms and pass the
\* predicate: none is lost to a zero or negative weight, whatever the collection.
SearchFindsMatches(visible, terms, filtered) ==
    LET matching == {visible[n].id : n \in {m \in DOMAIN visible :
                        /\ ToSet(visible[m].tokens) \cap terms # {}
                        /\ filtered => visible[m].kept}}
        result == Search(Build(visible), terms, Len(visible) + 1, filtered)
    IN  {result.hits[n].id : n \in DOMAIN result.hits} = matching

\* A snapshot that hydrate accepts answers like an index built from the visible records now,
\* though it was written when others were visible (same id and sequence, same record).
HydratedIsCurrent(old, visible, terms) ==
    LET snapshot == FromIndex(Build(old))
    IN  Hydrates(snapshot, visible) =>
            Search(Hydrate(snapshot, visible), terms, 2, FALSE)
            = Search(Build(visible), terms, 2, FALSE)

\* A damaged snapshot that still decodes and hydrates cannot make a search fail later.
DecodedIsSearchable(snapshot, visible, terms) ==
    Decodes(snapshot) /\ Hydrates(snapshot, visible) =>
        Search(Hydrate(snapshot, visible), terms, 2, FALSE).error # "corrupt"

\* Fusion never puts a record behind one that both rankings place worse, and returns the
\* best top_k of the union, each once.
FusionKeepsDominance(dense, lexical, rrfK, topK) ==
    LET fused == Fuse(dense, lexical, rrfK, topK)
        Better(list, i, j) == RankIn(list, i) # 0
                              /\ (RankIn(list, j) = 0 \/ RankIn(list, i) < RankIn(list, j))
        union == ToSet(dense) \cup ToSet(lexical)
    IN  /\ Len(fused) = IF topK < Cardinality(union) THEN topK ELSE Cardinality(union)
        /\ \A m, n \in DOMAIN fused : m # n => fused[m].id # fused[n].id
        /\ \A m \in DOMAIN fused : \A i \in union :
             Better(dense, i, fused[m].id) /\ Better(lexical, i, fused[m].id) =>
                 \E n \in DOMAIN fused : n < m /\ fused[n].id = i

\* Whatever a provider returns, a reranked answer holds candidates only, none twice and
\* top_k of them if there are so many (query_v1.rs expects "only supplied candidates").
RerankKeepsCandidates(candidates, reply, policy, topK) ==
    LET result == RerankResult(candidates, reply, policy, topK)
        ids == {candidates[n].id : n \in DOMAIN candidates}
    IN  result.error = "none" =>
            /\ {result.hits[n].id : n \in DOMAIN result.hits} \subseteq ids
            /\ \A m, n \in DOMAIN result.hits : m # n => result.hits[m].id # result.hits[n].id
            /\ Len(result.hits) = IF topK < Len(candidates) THEN topK ELSE Len(candidates)
================================================================================
