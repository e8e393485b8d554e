--------------------------------- MODULE Query ---------------------------------
(***************************************************************************)
(* Queries against one collection while it is written to: admission        *)
(* (query_runtime.rs), search profiles filled into a request, retrieval    *)
(* under the catalog's read lock, cursor pages (cursor.rs) and reranking,  *)
(* which waits for a provider after the lock is gone (query_v1.rs).        *)
(*                                                                         *)
(* A record's text matches the query text when its field is 2.             *)
(*                                                                         *)
(* A client keeps the cursor of its last page and may continue from it at  *)
(* any later time, also after a restart: cursors are state of the client.  *)
(***************************************************************************)
EXTENDS Scoring

CONSTANTS
    Ids,             \* 1..n
    Scores,
    Clients,
    Requests,        \* [mode, topK, dense, lexical, rrfK, topN, query, execution, timeout,
                     \*  predicate, paged]; topN is 0 without reranking, query says whether it
                     \* has a text of its own, counts and timeouts may be NotGiven
    Profiles,        \* [id, topK, dense, lexical, rrfK, topN, execution, timeout]: the search
                     \* profiles a request may name
    DefaultTopK, DefaultRrfK,   \* DEFAULT_QUERY_TOP_K, DEFAULT_RRF_K
    MaxConcurrency, MaxTopK, MaxCandidates, MaxTimeout, DefaultTimeout,   \* QueryLimits
    CursorMaxAge,    \* CURSOR_MAX_AGE_MS
    Metric,
    MaxWrites, MaxTime, MaxCalls   \* bounds: writes, clock, queries

QueryConstants ==
    /\ Ids = 1..Cardinality(Ids) /\ Metric \in Metrics
    /\ {MaxConcurrency, MaxTopK, MaxCandidates, DefaultTopK, DefaultRrfK} \subseteq Nat \ {0}

VARIABLES
    records,   \* id -> visible version, or NoVersion
    nextSeq,   \* CollectionRuntime.next_sequence
    now,       \* the clock
    permits,   \* permits of the query semaphore that are taken
    call,      \* the query each client has under way
    token,     \* the cursor each client holds
    pages,     \* history: [ranking, got]: the ranking a client pages through, what it has
    answer,    \* history: the answer without pages that the last step gave, NoAnswer if none
    calls      \* queries submitted so far

queryVars == <<records, nextSeq, now, permits, call, token, pages, answer, calls>>

NotGiven == -1
NoRequest == [mode |-> "dense", topK |-> 1, topN |-> 0, paged |-> FALSE]
NoToken == [boundary |-> NoCursor, query |-> <<>>, snapshot |-> 0, issued |-> 0]
NoPages == [ranking |-> <<>>, got |-> <<>>, open |-> FALSE]
NoAnswer == [gathered |-> 0, candidates |-> <<>>, hits |-> <<>>, topK |-> 1]
IdleCall == [pc |-> "idle", request |-> NoRequest, deadline |-> 0, after |-> NoToken,
             gathered |-> 0, candidates |-> <<>>]

-----------------------------------------------------------------------------
(* The request *)

\* resolve_search_profile: a profile replaces what is unset or looks like a default, and its
\* reranking has no query text of its own.
Resolve(request, profile) ==
    LET Filled(value, absent, other) == IF value = absent THEN other ELSE value
    IN  [request EXCEPT !.topK = Filled(@, DefaultTopK, profile.topK),
                        !.execution = Filled(@, "auto", profile.execution),
                        !.dense = Filled(@, NotGiven, profile.dense),
                        !.lexical = Filled(@, NotGiven, profile.lexical),
                        !.rrfK = Filled(@, DefaultRrfK, profile.rrfK),
                        !.timeout = Filled(@, NotGiven, profile.timeout),
                        !.topN = Filled(@, 0, profile.topN)]
        @@ [profile |-> profile.id]

\* QueryV1Request::validate and the limits of pagination
Valid(request) ==
    /\ 0 \notin {request.topK, request.timeout, request.dense, request.lexical, request.rrfK}
    /\ request.topN # 0 => /\ request.topN >= request.topK
                           /\ request.query \/ request.mode # "dense"
    /\ request.paged => request.mode = "dense" /\ request.topN = 0 /\ request.execution # "hnsw"

RetrievalTopK(request) == Max({request.topN, request.topK})

\* dense_candidate_k, lexical_candidate_k: a mode asks one or both rankings, each for the
\* explicit count of candidates but for no fewer than the answer needs.
DenseK(request) ==
    IF request.mode = "lexical" THEN 0 ELSE Max({request.dense, RetrievalTopK(request)})
LexicalK(request) ==
    IF request.mode = "dense" THEN 0 ELSE Max({request.lexical, RetrievalTopK(request)})

\* candidate_budget
CandidateBudget(request) == DenseK(request) + LexicalK(request)

\* The timeout QueryRuntime::admit gives.
Timeout(request) == IF request.timeout = NotGiven THEN DefaultTimeout ELSE request.timeout

\* QueryRuntime::admit, before it asks for a permit.
WithinLimits(request) ==
    /\ request.topK <= MaxTopK
    /\ CandidateBudget(request) <= MaxCandidates
    /\ Timeout(request) <= MaxTimeout

\* What clients ask for, and what of it is not refused for what it says.
Resolved == {Resolve(r, p) : r \in Requests, p \in Profiles}
Acceptable == {q \in Resolved : Valid(q) /\ WithinLimits(q)}

\* CursorQueryBinding: what a cursor is bound to; the vector, the collection and its metric are
\* the same in all queries.
CursorQuery(request) == <<request.predicate, request.execution, request.profile>>

\* decode_cursor, validate_cursor
\* Mutant: a cursor outlives the snapshot it was made for.
CursorOfAnySnapshot(c) ==
    /\ now - call[c].after.issued <= CursorMaxAge
    /\ call[c].after.query = CursorQuery(call[c].request)
CursorAccepted(c) ==
    /\ now - call[c].after.issued <= CursorMaxAge
    /\ call[c].after.query = CursorQuery(call[c].request)
    /\ call[c].after.snapshot = nextSeq - 1

\* QueryControl::check
InTime(c) == now < call[c].deadline

-----------------------------------------------------------------------------
(* Actions *)

VisibleNow == SelectSeq([i \in 1..Cardinality(Ids) |-> records[i]], LAMBDA v : v.live)

QueryInit ==
    /\ \E scores \in [Ids -> Scores], fields \in [Ids -> {1, 2}] :
         records = [i \in Ids |-> [id |-> i, seq |-> i, live |-> TRUE, score |-> scores[i],
                                   field |-> <<"n", fields[i]>>]]
    /\ nextSeq = Cardinality(Ids) + 1
    /\ now = 1 /\ permits = 0 /\ calls = 0
    /\ call = [c \in Clients |-> IdleCall]
    /\ token = [c \in Clients |-> NoToken]
    /\ pages = [c \in Clients |-> NoPages]
    /\ answer = NoAnswer

Silent == answer' = NoAnswer

Write(i, version) ==
    /\ nextSeq <= Cardinality(Ids) + MaxWrites
    /\ records' = [records EXCEPT ![i] = version]
    /\ nextSeq' = nextSeq + 1
    /\ Silent /\ UNCHANGED <<now, permits, call, token, pages, calls>>

PutRecord(i, s, f) ==
    Write(i, [id |-> i, seq |-> nextSeq, live |-> TRUE, score |-> s, field |-> f])
DeleteRecord(i) == records[i].live /\ Write(i, NoVersion)

Tick ==
    /\ now < MaxTime
    /\ now' = now + 1
    /\ Silent /\ UNCHANGED <<records, nextSeq, permits, call, token, pages, calls>>

\* execute_query_v1_page up to admission; a client goes on with its cursor or starts anew.
Submit(c) ==
    /\ call[c].pc = "idle" /\ calls < MaxCalls
    /\ calls' = calls + 1
    /\ \/ /\ permits < MaxConcurrency /\ permits' = permits + 1
          /\ \E q \in Acceptable, continue \in BOOLEAN :
               /\ continue => q.paged /\ token[c] # NoToken
               /\ call' = [call EXCEPT ![c] = [IdleCall EXCEPT
                     !.pc = "search", !.request = q, !.deadline = now + Timeout(q),
                     !.after = IF continue THEN token[c] ELSE NoToken]]
       \/ /\ permits = MaxConcurrency \/ Acceptable # Resolved
          /\ UNCHANGED <<permits, call>>
    /\ Silent
    /\ UNCHANGED <<records, nextSeq, now, token, pages>>

\* Dropping QueryAdmission returns the permit, whatever the outcome.
Finish(c) ==
    /\ permits' = permits - 1
    /\ call' = [call EXCEPT ![c] = IdleCall]

\* One more hit than asked for tells whether there is a next page.
PageHits(c) ==
    LET q == call[c].request
    IN  ExactSearchAfter(VisibleNow, "vector", Metric, q.topK + 1, q.predicate,
                         call[c].after.boundary).hits

Eligible(predicate) ==
    {VisibleNow[n] : n \in {m \in DOMAIN VisibleNow :
        Evaluate(predicate, VisibleNow[m].field) = "true"}}

\* encode_cursor at the last hit of a full page
NextToken(q, hits) ==
    IF Len(hits) > q.topK
    THEN [boundary |-> [score |-> hits[q.topK].score, id |-> hits[q.topK].id],
          query |-> CursorQuery(q), snapshot |-> nextSeq - 1, issued |-> now]
    ELSE NoToken

\* A page under the read lock; with a cursor that is refused, nothing.
SearchPage(c) ==
    LET q == call[c].request
        hits == PageHits(c)
        first == call[c].after = NoToken
        session == IF first THEN [NoPages EXCEPT !.ranking = Ranking(Eligible(q.predicate), Metric)]
                   ELSE pages[c]
    IN  /\ call[c].pc = "search" /\ q.paged
        /\ IF InTime(c) /\ (first \/ CursorAccepted(c))
           THEN /\ token' = [token EXCEPT ![c] = NextToken(q, hits)]
                /\ pages' = [pages EXCEPT ![c] =
                      [session EXCEPT !.got = @ \o Take(hits, q.topK), !.open = Len(hits) > q.topK]]
           ELSE UNCHANGED <<token, pages>>
        /\ Finish(c) /\ Silent
        /\ UNCHANGED <<records, nextSeq, now, calls>>

\* The dense ranking of an unpaged query, by a collection without an HNSW index.
DenseSearch(q) ==
    IF q.mode = "lexical" THEN Ok(<<>>)
    ELSE ExecuteQuery(VisibleNow, "vector", Metric, DenseK(q), q.predicate, q.execution,
                      FALSE, <<>>, 0)

\* The lexical ranking, over the persistent index or one built for the query.
LexicalHits(q) ==
    LET visible == VisibleNow
        documents == [n \in DOMAIN visible |->
            [id |-> visible[n].id, seq |-> visible[n].seq,
             tokens |-> IF visible[n].field[2] = 2 THEN <<"a">> ELSE <<>>,
             kept |-> Evaluate(q.predicate, visible[n].field) = "true"]]
    IN  IF q.mode = "dense" THEN <<>>
        ELSE Search(Build(documents), {"a"}, LexicalK(q), TRUE).hits

IdsOf(hits) == [n \in DOMAIN hits |-> hits[n].id]

\* The ids of the hits, best first, as many as reranking or the answer needs.
Retrieved(q, dense, lexical) ==
    CASE q.mode = "dense"   -> Take(dense, RetrievalTopK(q))
      [] q.mode = "lexical" -> Take(lexical, RetrievalTopK(q))
      [] q.mode = "hybrid"  -> IdsOf(Fuse(dense, lexical, q.rrfK, RetrievalTopK(q)))

\* HybridOptions::new refuses what the fusion cannot use.
FusionRefused(q) ==
    /\ q.mode = "hybrid"
    /\ ~OptionsValid(RetrievalTopK(q), DenseK(q), LexicalK(q), q.rrfK, MaxHybridCandidates)

\* Retrieval without pages; with reranking the hits are candidates for the provider.
SearchAll(c) ==
    LET q == call[c].request
        dense == DenseSearch(q)
        lexical == IdsOf(LexicalHits(q))
        hits == Retrieved(q, IdsOf(dense.hits), lexical)
        gathered == Len(dense.hits) + Len(lexical)
    IN  /\ call[c].pc = "search" /\ ~q.paged
        /\ IF ~InTime(c) \/ FusionRefused(q) \/ dense.error # "none"
           THEN Finish(c) /\ Silent
           ELSE IF q.topN # 0
           THEN /\ call' = [call EXCEPT ![c].pc = "rerank", ![c].candidates = hits,
                                        ![c].gathered = gathered]
                /\ Silent /\ UNCHANGED permits
           ELSE /\ Finish(c)
                /\ answer' = [gathered |-> gathered, candidates |-> hits, topK |-> q.topK,
                              hits |-> Take(hits, q.topK)]
        /\ UNCHANGED <<records, nextSeq, now, token, pages, calls>>

\* RerankingService::rerank answers with scores for all candidates, or fails and the
\* policy keeps their order or fails the query.
Reranked(c, fails) ==
    LET found == call[c].candidates  topK == call[c].request.topK
    IN  IF fails THEN {Take(found, topK)}
        ELSE {Take(o, topK) : o \in {p \in [DOMAIN found -> ToSet(found)] : ToSet(p) = ToSet(found)}}

\* apply_reranking: timeout while waiting, and a check after the answer.
Rerank(c) ==
    /\ call[c].pc = "rerank"
    /\ \/ Silent
       \/ /\ InTime(c)
          /\ \E fails \in BOOLEAN : \E hits \in Reranked(c, fails) :
               answer' = [gathered |-> call[c].gathered, candidates |-> call[c].candidates,
                          topK |-> call[c].request.topK, hits |-> hits]
    /\ Finish(c)
    /\ UNCHANGED <<records, nextSeq, now, token, pages, calls>>

\* The caller goes away: the handler's future and its permit are dropped.
Abandon(c) ==
    /\ call[c].pc # "idle"
    /\ Finish(c) /\ Silent
    /\ UNCHANGED <<records, nextSeq, now, token, pages, calls>>

QueryNext ==
    \/ \E i \in Ids, s \in Scores, f \in {<<"n", 1>>, <<"n", 2>>} : PutRecord(i, s, f)
    \/ \E i \in Ids : DeleteRecord(i)
    \/ Tick
    \/ \E c \in Clients :
         \/ Submit(c) \/ SearchPage(c) \/ SearchAll(c) \/ Rerank(c) \/ Abandon(c)

-----------------------------------------------------------------------------
(* Properties *)

\* Every variable has its shape.
QueryTypeOK ==
    /\ \A i \in Ids : records[i] = NoVersion \/ records[i].id = i
    /\ permits \in 0..MaxConcurrency /\ now \in 1..MaxTime /\ calls \in 0..MaxCalls
    /\ \A c \in Clients : call[c].pc \in {"idle", "search", "rerank"}

\* However writes, other page sizes, other predicates and refused cursors come between, the
\* pages a client got are a prefix of the ranking at its first page, without a gap or a
\* repetition, and once no cursor is left they are all of it.
PagesAreSnapshot ==
    \A c \in Clients :
        /\ IsPrefix(pages[c].got, pages[c].ranking)
        /\ ~pages[c].open => pages[c].got = pages[c].ranking

\* No query without pages gathers more candidates, from both rankings together, than the limits
\* allow, whatever candidate counts it or its profile asks for, and its answer is top_k of its
\* candidates, none twice, also when the provider fails.
AnswersWithinLimits ==
    /\ answer.gathered <= MaxCandidates
    /\ Len(answer.hits) <= answer.topK
    /\ ToSet(answer.hits) \subseteq ToSet(answer.candidates)
    /\ Cardinality(ToSet(answer.hits)) = Len(answer.hits)

\* A permit is taken exactly while a query runs, on every path to its end.
PermitsMatchQueries ==
    permits = Cardinality({c \in Clients : call[c].pc # "idle"})

\* The query service: pages with one cursor chain are those of one snapshot (PagesAreSnapshot), an
\* answer stays within what it was admitted for (AnswersWithinLimits), and permits are held by
\* the queries under way and by nobody else (PermitsMatchQueries).
QueryInv == QueryTypeOK /\ PagesAreSnapshot /\ AnswersWithinLimits /\ PermitsMatchQueries
================================================================================
