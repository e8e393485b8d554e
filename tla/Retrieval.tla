------------------------------- MODULE Retrieval -------------------------------
(***************************************************************************)
(* What a query computes on one collection, read lock held: which versions *)
(* are visible (fold_visible_records), the value of a metadata predicate   *)
(* (predicate.rs), exact search and its continuation after a cursor        *)
(* (search.rs), the filtered searches (filter.rs) and the choice between   *)
(* them (cost_planner.rs).                                                 *)
(*                                                                         *)
(* A record is a vector seen through the query, so it carries the score    *)
(* the metric gives it, or ZeroNorm when cosine is undefined for it.       *)
(* Metadata is one field: missing, a number or a string.                   *)
(***************************************************************************)
EXTENDS Integers, Sequences, FiniteSets, SequencesExt

ZeroNorm == -1
MissingField == <<"missing", 0>>
Metrics == {"dot", "cosine", "l2"}
Truth == {"true", "false", "error"}

Take(hits, n) == SubSeq(hits, 1, IF n < Len(hits) THEN n ELSE Len(hits))
Ok(hits) == [error |-> "none", hits |-> hits]
Err(error) == [error |-> error, hits |-> <<>>]

-----------------------------------------------------------------------------
(* Visibility.  A version is [id, seq, live, score, field]; segments are     *)
(* lists of versions, records before tombstones.                             *)

\* apply_version: the newest sequence number of an id wins, whatever the order.
ApplyVersion(latest, version) ==
    IF latest[version.id].seq >= version.seq THEN latest
    ELSE [latest EXCEPT ![version.id] = version]

NoVersion == [id |-> 0, seq |-> 0, live |-> FALSE, score |-> 0, field |-> MissingField]

\* fold_visible_records: latest versions, tombstones dropped, in the order of ids.
FoldVisibleRecords(segments, ids) ==
    LET latest == FoldLeft(ApplyVersion, [i \in ids |-> NoVersion], FlattenSeq(segments))
    IN  SelectSeq(SetToSortSeq(ids, <), LAMBDA i : latest[i].live)
Visible(segments, ids) ==
    LET latest == FoldLeft(ApplyVersion, [i \in ids |-> NoVersion], FlattenSeq(segments))
    IN  [n \in DOMAIN FoldVisibleRecords(segments, ids) |->
            latest[FoldVisibleRecords(segments, ids)[n]]]

\* visible_record_count keeps its own fold.
VisibleRecordCount(segments, ids) ==
    LET Keep(latest, v) ==
            IF latest[v.id].seq = 0 \/ v.seq > latest[v.id].seq
            THEN [latest EXCEPT ![v.id] = v] ELSE latest
        latest == FoldLeft(Keep, [i \in ids |-> NoVersion], FlattenSeq(segments))
    IN  Cardinality({i \in ids : latest[i].live})

-----------------------------------------------------------------------------
(* Predicates: [op, args], a leaf [op, value] comparing the field with a      *)
(* value, which is a number <<"n", x>> or a string <<"s", x>>.                *)

Present(field) == field # MissingField

\* compare, comparable_order
Bool(b) == IF b THEN "true" ELSE "false"
Compare(field, value, below) ==
    IF ~Present(field) THEN "false"
    ELSE IF field[1] # value[1] THEN "error"
    ELSE Bool((field[2] < value[2]) = below)

\* Predicate::evaluate of a leaf
EvaluateLeaf(leaf, field) ==
    CASE leaf.op = "eq"     -> Bool(Present(field) /\ field = leaf.value)
      [] leaf.op = "ne"     -> Bool(Present(field) /\ field # leaf.value)
      [] leaf.op = "lt"     -> Compare(field, leaf.value, TRUE)
      [] leaf.op = "gte"    -> Compare(field, leaf.value, FALSE)
      [] leaf.op = "exists" -> Bool(Present(field))

\* Predicate::And and Predicate::Or stop at the first operand that decides or fails.
Decide(values, decisive) ==
    LET stops == {i \in DOMAIN values : values[i] \in {decisive, "error"}}
    IN  IF stops = {} THEN (IF decisive = "true" THEN "false" ELSE "true")
        ELSE values[CHOOSE i \in stops : \A j \in stops : i <= j]

EvaluateAnd(values) == Decide(values, "false")
EvaluateOr(values) == Decide(values, "true")
EvaluateNot(value) ==
    CASE value = "true" -> "false" [] value = "false" -> "true" [] OTHER -> "error"

\* Predicate::evaluate for the predicates a query may carry; "all" is no predicate.
Evaluate(predicate, field) ==
    LET values == [i \in DOMAIN predicate.args |-> EvaluateLeaf(predicate.args[i], field)]
    IN  CASE predicate.op = "all" -> "true"
          [] predicate.op = "and" -> EvaluateAnd(values)
          [] predicate.op = "or"  -> EvaluateOr(values)
          [] predicate.op = "not" -> EvaluateNot(EvaluateAnd(values))

NoPredicate == [op |-> "all", args |-> <<>>]

-----------------------------------------------------------------------------
(* Exact search *)

\* compare_score_and_id, compare_hits: a strictly before b.
Precedes(metric, a, b) ==
    \/ IF metric = "l2" THEN a.score < b.score ELSE a.score > b.score
    \/ a.score = b.score /\ a.id < b.id

\* sort_by of one more hit, then pop: the hits stay sorted and at most top_k.
PushAndPop(hits, hit, metric, topK) ==
    LET sorted == SortSeq(Append(hits, hit), LAMBDA a, b : Precedes(metric, a, b))
    IN  IF Len(sorted) > topK THEN Front(sorted) ELSE sorted

NoCursor == [score |-> 0, id |-> 0]

\* A record the cursor's page has passed: not strictly after the boundary.
Passed(metric, hit, after) ==
    after # NoCursor /\ ~Precedes(metric, after, hit)

\* validate_query and the checks on the query vector
ValidateQuery(query, metric, topK) ==
    CASE topK = 0        -> "invalid_top_k"
      [] query = "empty" -> "empty_query"
      [] OTHER           -> "none"

\* exact_search_segments_after_with_control: predicate, then score, then cursor.
ExactSearchAfter(visible, query, metric, topK, predicate, after) ==
    LET Step(result, record) ==
            LET kept == Evaluate(predicate, record.field)
            IN  CASE result.error # "none" -> result
                  [] kept = "error" -> Err("predicate")
                  [] kept = "false" -> result
                  [] metric = "cosine" /\ record.score = ZeroNorm -> Err("zero_norm")
                  [] Passed(metric, record, after) -> result
                  [] OTHER -> Ok(PushAndPop(result.hits, record, metric, topK))
        invalid == ValidateQuery(query, metric, topK)
    IN  CASE invalid # "none" -> Err(invalid)
          [] visible = <<>>   -> Ok(<<>>)
          [] query = "wrong_dimension" -> Err("dimension")
          [] metric = "cosine" /\ query = "zero" -> Err("zero_norm")
          [] OTHER -> FoldLeft(Step, Ok(<<>>), visible)

\* exact_search_segments_with_control
ExactSearch(visible, query, metric, topK) ==
    ExactSearchAfter(visible, query, metric, topK, NoPredicate, NoCursor)

\* The loop of the two filtered searches: in order, until top_k hits are kept.
FilterHits(hits, topK, predicate) ==
    LET Step(result, hit) ==
            LET kept == Evaluate(predicate, hit.field)
            IN  CASE result.error # "none" \/ Len(result.hits) = topK -> result
                  [] kept = "error" -> Err("predicate")
                  [] kept = "true"  -> Ok(Append(result.hits, hit))
                  [] OTHER          -> result
    IN  FoldLeft(Step, Ok(<<>>), hits)

\* exact_search_filtered_segments_with_control: everything is scored first.
ExactSearchFiltered(visible, query, metric, topK, predicate) ==
    LET all == ExactSearch(visible, query, metric, Len(visible) + 1)
    IN  IF topK = 0 THEN Err("invalid_top_k")
        ELSE IF all.error # "none" THEN all
        ELSE FilterHits(all.hits, topK, predicate)

\* hnsw_search_filtered_with_control over what the graph returns for ef_search.
HnswSearchFiltered(graphHits, topK, predicate) ==
    IF topK = 0 THEN Err("invalid_top_k") ELSE FilterHits(graphHits, topK, predicate)

\* plan_query
PlanQuery(preference, hasIndex, filtered, corpus, annMin) ==
    CASE preference = "exact" -> "exact"
      [] preference = "hnsw" /\ ~hasIndex -> "missing_index"
      [] preference = "hnsw" -> IF filtered THEN "hnsw_post_filter" ELSE "hnsw"
      [] ~hasIndex \/ filtered \/ corpus < annMin -> "exact"
      [] OTHER -> "hnsw"

\* execute_query_with_config_and_control
ExecuteQuery(visible, query, metric, topK, predicate, preference, hasIndex, graphHits, annMin) ==
    LET filtered == predicate # NoPredicate
        plan == PlanQuery(preference, hasIndex, filtered, Len(visible), annMin)
    IN  CASE plan = "missing_index" -> Err("missing_index")
          [] plan = "hnsw" -> Ok(Take(graphHits, topK))
          [] plan = "hnsw_post_filter" -> HnswSearchFiltered(graphHits, topK, predicate)
          [] filtered -> ExactSearchFiltered(visible, query, metric, topK, predicate)
          [] OTHER -> ExactSearch(visible, query, metric, topK)

-----------------------------------------------------------------------------
(* References and properties, over one input                                 *)

\* The records of an id with the highest sequence number, unless a tombstone.
LatestLive(segments, ids) ==
    LET versions == {FlattenSeq(segments)[n] : n \in DOMAIN FlattenSeq(segments)}
    IN  {v \in versions : v.live /\ \A w \in versions : w.id = v.id => w.seq <= v.seq}

\* Every order of segments gives the same visible records, the newest version of each
\* id, and the planner's own count agrees with them (apply_version and the two folds).
VisibleIsLatest(segments, ids) ==
    /\ ToSet(Visible(segments, ids)) = LatestLive(segments, ids)
    /\ VisibleRecordCount(segments, ids) = Len(Visible(segments, ids))

\* The ranking a client expects: every eligible record, best first, ids breaking ties.
Ranking(records, metric) == SetToSortSeq(records, LAMBDA a, b : Precedes(metric, a, b))

\* Exact search keeps the top_k best of the eligible records although it only ever holds
\* top_k of them, and fails exactly when an eligible record cannot be scored.
SearchIsTopK(visible, metric, topK, predicate) ==
    LET result == ExactSearchAfter(visible, "vector", metric, topK, predicate, NoCursor)
        values == {Evaluate(predicate, visible[n].field) : n \in DOMAIN visible}
        kept == {visible[n] : n \in {m \in DOMAIN visible :
                    Evaluate(predicate, visible[m].field) = "true"}}
        unscored == metric = "cosine" /\ \E r \in kept : r.score = ZeroNorm
    IN  /\ (result.error # "none") <=> ("error" \in values \/ unscored)
        /\ result.error = "none" =>
             result.hits = Take(Ranking(kept, metric), topK)

\* When a query is answered both with and without pages, the answers are the same.  (Each
\* may fail alone: only the unpaged search scores records the predicate excludes, and only
\* the paged one evaluates the predicate on records behind the first top_k.)
PagedAgreesWithUnpaged(visible, metric, topK, predicate) ==
    LET paged == ExactSearchAfter(visible, "vector", metric, topK, predicate, NoCursor)
        unpaged == ExecuteQuery(visible, "vector", metric, topK, predicate, "auto",
                                FALSE, <<>>, 0)
    IN  paged.error = "none" /\ unpaged.error = "none" => paged.hits = unpaged.hits

\* Boolean operators obey De Morgan's law also when an operand fails.
DeMorgan(values) ==
    EvaluateNot(EvaluateAnd(values)) = EvaluateOr([i \in DOMAIN values |-> EvaluateNot(values[i])])
================================================================================
