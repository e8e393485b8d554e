-------------------------------- MODULE MCQuery --------------------------------
(***************************************************************************)
(* What retrieval answers: a behaviour checks one input of an algorithm,   *)
(* or runs the query service, or the document service.                     *)
(***************************************************************************)
EXTENDS MCAlgorithms, Query, Documents

CONSTANTS q1, q2, d1, d2

VARIABLE part

vars == <<part, input, queryVars, documentVars>>
Symmetric == Permutations(Clients) \cup Permutations(Putters)

Request(mode, topK, predicate, paged) ==
    [mode |-> mode, topK |-> topK, dense |-> NotGiven, lexical |-> NotGiven, rrfK |-> DefaultRrfK,
     topN |-> 0, query |-> FALSE, execution |-> "auto", timeout |-> NotGiven,
     predicate |-> predicate, paged |-> paged]
AtLeastTwo == [op |-> "and", args |-> <<Leaf("gte", <<"n", 2>>)>>]
\* The hybrid request takes all of the candidate budget, and more than it when it asks for a
\* dense count of its own; a reranked dense request brings its own query text or is refused.
MCRequests ==
    {Request("dense", 1, NoPredicate, TRUE), Request("dense", 1, AtLeastTwo, TRUE),
     [Request("dense", DefaultTopK, NoPredicate, TRUE) EXCEPT !.timeout = 2],
     [Request("dense", 1, NoPredicate, FALSE) EXCEPT !.topN = 2, !.query = TRUE, !.dense = 3],
     [Request("dense", 1, NoPredicate, FALSE) EXCEPT !.execution = "hnsw"],
     Request("lexical", 1, NoPredicate, FALSE),
     [Request("hybrid", 1, NoPredicate, FALSE) EXCEPT !.topN = 2],
     [Request("hybrid", 1, NoPredicate, FALSE) EXCEPT !.topN = 2, !.dense = 3]}
Profile(id, topK, topN, dense, lexical, execution, timeout) ==
    [id |-> id, topK |-> topK, topN |-> topN, dense |-> dense, lexical |-> lexical,
     rrfK |-> DefaultRrfK, execution |-> execution, timeout |-> timeout]
\* The exact profile asks for more time than a query may have; the reranked one has no query
\* text for a dense search, and too many lexical candidates for a hybrid one.
MCProfiles ==
    {Profile("plain@1", 2, 0, NotGiven, NotGiven, "auto", NotGiven),
     Profile("exact@1", 2, 0, NotGiven, NotGiven, "exact", MaxTimeout + 1),
     Profile("reranked@1", 1, 2, NotGiven, 3, "auto", 1)}

Characters == [mode |-> "chars", max |-> 2, overlap |-> 1]
Schema(policy) == [ingestion |-> TRUE, policy |-> policy]
MCTexts == {<<"word">>, <<"word", "space", "word", "stop">>, <<"space">>}
MCSchemas ==
    {Schema(Characters), Schema(TokenPolicy("sentences", 2, 0)),
     Schema([mode |-> "semantic", max |-> 2, overlap |-> 1, min |-> 1]),
     [ingestion |-> FALSE, policy |-> NoPolicy]}
MCRequested == {NoPolicy, Characters}

Init ==
    /\ part \in {"algorithms", "query", "documents"}
    /\ input = Waiting /\ QueryInit /\ DocumentsInit
    \* One of the initial states of a part that does not run is enough.
    /\ part = "query" \/ records[2].score = 1
    \* A tie and a record that beats it; one of the two tied does not match the query text.
    /\ \A i \in Ids : records[i].field[2] = IF i = 1 THEN 1 ELSE 2
    /\ \E best \in 2..3 : \A i \in Ids : records[i].score = IF i = best THEN 2 ELSE 1
    /\ part = "documents" \/ collection.schema = Schema(Characters)
Next ==
    /\ UNCHANGED part
    /\ \/ /\ part = "algorithms" /\ input = Waiting
          /\ PickRetrieval \/ PickAlgorithm
          /\ UNCHANGED <<queryVars, documentVars>>
       \/ part = "query" /\ QueryNext /\ UNCHANGED <<input, documentVars>>
       \/ part = "documents" /\ DocumentsNext /\ UNCHANGED <<input, queryVars>>
Spec == Init /\ [][Next]_vars
================================================================================
