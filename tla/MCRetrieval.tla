------------------------------ MODULE MCRetrieval ------------------------------
(***************************************************************************)
(* One state per input of the retrieval algorithms; every input of the     *)
(* bounded sets below is checked against its reference definition.         *)
(***************************************************************************)
EXTENDS Scoring

VARIABLE input   \* the input of an algorithm that is being checked

Waiting == [kind |-> "waiting"]

\* Up to four versions of two records in any order, cut into two segments.
VersionLists ==
    UNION {{[n \in 1..count |-> [id |-> who[order[n]][1], seq |-> order[n], live |-> who[order[n]][2],
                                 score |-> 0, field |-> MissingField]] :
               who \in [1..count -> {1, 2} \X BOOLEAN],
               order \in {o \in [1..count -> 1..count] : ToSet(o) = 1..count}} : count \in 0..4}
SegmentInputs ==
    {[kind |-> "segments", segments |-> <<SubSeq(v, 1, Len(v) \div 2), SubSeq(v, Len(v) \div 2 + 1, Len(v))>>] :
        v \in VersionLists}

Leaf(op, value) == [op |-> op, value |-> value]
Predicates ==
    {NoPredicate,
     [op |-> "and", args |-> <<Leaf("gte", <<"n", 2>>)>>],
     [op |-> "or", args |-> <<Leaf("exists", <<"n", 0>>), Leaf("lt", <<"n", 2>>)>>],
     [op |-> "not", args |-> <<Leaf("eq", <<"n", 1>>)>>]}
Fields == {MissingField, <<"n", 1>>, <<"n", 2>>, <<"s", 1>>}
SearchInputs ==
    {[kind |-> "search", metric |-> m, topK |-> k, predicate |-> p,
      visible |-> [i \in 1..3 |-> [id |-> i, seq |-> i, live |-> TRUE, score |-> s[i], field |-> f[i]]]] :
        m \in {"cosine", "l2"}, k \in 1..3, p \in Predicates,
        s \in [1..3 -> {ZeroNorm, 1, 2}], f \in [1..3 -> Fields]}

LogicInputs == {[kind |-> "logic", values |-> v] : v \in UNION {[1..n -> Truth] : n \in 0..3}}

LexicalTexts == <<<<>>, <<"a">>, <<"b">>, <<"a", "a">>, <<"b", "a">>>>
\* Text 0 is a record that is not there; a record's sequence number determines its text.
Visible3(text) ==
    LET present == SelectSeq(<<1, 2, 3>>, LAMBDA i : i \in DOMAIN text /\ text[i] # 0)
    IN  [n \in DOMAIN present |-> [id |-> present[n], seq |-> text[present[n]],
                                   tokens |-> LexicalTexts[text[present[n]]], kept |-> present[n] # 2]]
Queries == {{"a"}, {"b"}, {"a", "b"}}
LexicalInputs ==
    {[kind |-> "lexical", text |-> t, terms |-> q, filtered |-> f] :
        t \in [1..3 -> 0..5], q \in Queries, f \in BOOLEAN}
HydrateInputs ==
    {[kind |-> "hydrate", old |-> o, text |-> t, terms |-> q] :
        o \in [1..2 -> 0..5], t \in [1..2 -> 0..5], q \in Queries}
PostingLists == UNION {[1..n -> [doc : 1..3, tf : 0..1]] : n \in 0..2}
DamagedInputs ==
    {[kind |-> "damaged", text |-> t, a |-> a, b |-> b] :
        t \in [1..2 -> {0, 2, 5}], a \in PostingLists, b \in PostingLists}
Damaged(i) ==
    [FromIndex(Build(Visible3(i.text))) EXCEPT !.postings = [t \in Terms |-> IF t = "a" THEN i.a ELSE i.b]]

Lists == UNION {{l \in [1..n -> 1..3] : Cardinality(ToSet(l)) = n} : n \in 0..3}
FusionInputs ==
    {[kind |-> "fusion", dense |-> d, lexical |-> l, rrfK |-> r, topK |-> k] :
        d \in Lists, l \in Lists, r \in {1, 60}, k \in 1..3}

Replies ==
    {[failed |-> TRUE, scores |-> <<>>]} \cup
    {[failed |-> FALSE, scores |-> s] : s \in UNION {[1..n -> [index : 0..2, score : 0..1]] : n \in 0..3}}
RerankInputs ==
    {[kind |-> "rerank", reply |-> r, policy |-> p, topK |-> k, candidates |-> c] :
        r \in Replies, p \in {"fail", "preserve"}, k \in 1..2,
        c \in {[i \in 1..n |-> [id |-> i, text |-> i # n \/ full]] : n \in 0..2, full \in BOOLEAN}}

PickRetrieval ==
    \/ input' \in SegmentInputs
    \/ input' \in SearchInputs
    \/ input' \in LogicInputs
    \/ input' \in LexicalInputs
    \/ input' \in HydrateInputs
    \/ input' \in DamagedInputs
    \/ input' \in FusionInputs
    \/ input' \in RerankInputs

\* fold_visible_records and the planner's count on every input.
FoldsAgree == input.kind = "segments" => VisibleIsLatest(input.segments, {1, 2})
\* exact_search_segments_after_with_control returns the reference ranking.
ExactSearchIsTopK ==
    input.kind = "search" =>
        SearchIsTopK(input.visible, input.metric, input.topK, input.predicate)
\* The paged and the unpaged filtered search agree when both answer.
PagedIsUnpaged ==
    input.kind = "search" =>
        PagedAgreesWithUnpaged(input.visible, input.metric, input.topK, input.predicate)
\* And, Or and Not of predicates that may fail.
PredicatesObeyDeMorgan == input.kind = "logic" => DeMorgan(input.values)
\* BM25 search over a freshly built index finds the matching records.
LexicalFindsMatches ==
    input.kind = "lexical" => SearchFindsMatches(Visible3(input.text), input.terms, input.filtered)
\* A snapshot of older records is refused or equivalent.
SnapshotIsCurrent ==
    input.kind = "hydrate" =>
        HydratedIsCurrent(Visible3(input.old), Visible3(input.text), input.terms)
\* Decoding checks enough for every later search.
SnapshotIsSearchable ==
    input.kind = "damaged" =>
        \A q \in Queries : DecodedIsSearchable(Damaged(input), Visible3(input.text), q)
\* Reciprocal rank fusion respects records ranked better in both lists.
FusionIsMonotone ==
    input.kind = "fusion" =>
        FusionKeepsDominance(input.dense, input.lexical, input.rrfK, input.topK)
\* Every reply of a reranking provider.
RerankIsSafe ==
    input.kind = "rerank" =>
        RerankKeepsCandidates(input.candidates, input.reply, input.policy, input.topK)
================================================================================
