----------------------------- MODULE Embedding -----------------------------
(***************************************************************************)
(* Calls of the external model providers: embed_texts_cached with its      *)
(* shared cache (embedding_cache.rs), the parallel batches of              *)
(* embed_texts_batched, the OpenAI-compatible provider with its permits,   *)
(* retries and answer checks (embedding.rs), and the HTTP reranker         *)
(* (reranking.rs), whose retry loop differs.                               *)
(*                                                                         *)
(* A vector is the text it was computed from, the model that computed it   *)
(* and its dimension.  Texts whose Canonical forms agree have the same     *)
(* content hash: the cache may answer one with the other's vector.  The    *)
(* resource scheduler is ResourceScheduler.tla; here its admission         *)
(* succeeds or is refused.                                                 *)
(***************************************************************************)
EXTENDS Integers, Sequences, FiniteSets, TLC, SequencesExt

CONSTANTS
    Embedders,        \* concurrent requests that embed or rerank
    Canonical,      \* text -> its text with normalised line endings
    Configured,     \* the providers of the environment, in order of registration
    Requests,       \* [profile, texts, dimension] a caller may ask for
    Reranker,       \* the profile name of the HTTP reranker
    MaxBatchInputs, \* OPENAI_COMPATIBLE_MAX_BATCH_INPUTS
    MaxConcurrency, \* max_concurrency of every provider
    MaxRetries,     \* max_retries of every provider
    Capacity,       \* entries of the cache
    MaxEmbeddings        \* bound on the calls of a behaviour

VARIABLES
    embeddingCache,          \* [entries, order]: the vectors by key, keys from oldest to newest use
    work,             \* what each caller is doing
    providerPermits,        \* free permits of each provider's semaphore
    embeddings           \* calls made so far

embeddingVars == <<embeddingCache, work, providerPermits, embeddings>>

NoWork == [phase |-> "idle"]
Ok(v) == [ok |-> TRUE, value |-> v]
Err(why) == [ok |-> FALSE, why |-> why]

-----------------------------------------------------------------------------
(* The registry the process starts with.                                   *)

RegisterProviders(registry, p) ==
    IF p.profile \in DOMAIN registry THEN registry ELSE (p.profile :> p) @@ registry

\* resolve: the provider of a profile; Registry is filled once, from the environment.
Registry == FoldLeft(RegisterProviders, << >>, Configured)
Resolve(profile) == Registry[profile]

-----------------------------------------------------------------------------
(* The cache: a map and the order of use, under one mutex per call.        *)

WithoutKey(s, k) == SelectSeq(s, LAMBDA x : x # k)

CacheKey(r, text) ==
    [profile |-> r.profile, model |-> Resolve(r.profile).model,
     dimension |-> r.dimension, content |-> Canonical[text]]

Touch(c, key) == [c EXCEPT !.order = Append(WithoutKey(@, key), key)]

Evict(c) ==
    LET excess == Cardinality(DOMAIN c.entries) + 1 - Capacity
        gone == { c.order[i] : i \in 1 .. excess }
    IN [entries |-> [k \in DOMAIN c.entries \ gone |-> c.entries[k]],
        order |-> IF excess > 0 THEN SubSeq(c.order, excess + 1, Len(c.order)) ELSE c.order]

InsertEntry(c, key, vector) ==
    IF Capacity = 0 THEN c
    ELSE LET room == IF key \in DOMAIN c.entries THEN c ELSE Evict(c)
         IN Touch([room EXCEPT !.entries = (key :> vector) @@ @], key)

-----------------------------------------------------------------------------
(* The provider's answer to one HTTP request.                              *)

VectorOf(p, text, dimension) == [text |-> text, model |-> p.model, dimension |-> dimension]

\* What the service may send back for a batch (external): no success ("transient" is a
\* transport error, 429 or 5xx; "refused" any other status), too few items, an index
\* twice, a wrong dimension, or the right items in any order.
Answers(p, texts) ==
    LET n == Len(texts)
        item(i, d) == [index |-> i, embedding |-> VectorOf(p, texts[i], d)]
    IN { [kind |-> k, items |-> << >>] : k \in {"transient", "refused"} }
       \cup { [kind |-> "items", items |-> SubSeq([i \in 1 .. n |-> item(i, p.dimension)], 1, n - 1)],
              [kind |-> "items", items |-> [i \in 1 .. n |-> item(1, p.dimension)]],
              [kind |-> "items", items |-> [i \in 1 .. n |-> item(i, p.dimension + 1)]],
              [kind |-> "items", items |-> [i \in 1 .. n |-> item(n + 1 - i, p.dimension)]] }

RequestBatchOnce(texts, answer) ==
    LET data == SortSeq(answer.items, LAMBDA x, y : x.index < y.index)
    IN IF answer.kind # "items" THEN Err(answer.kind)
       ELSE IF Len(data) # Len(texts) THEN Err("malformed")
       ELSE IF \E i \in 1 .. Len(data) : data[i].index # i THEN Err("malformed")
       ELSE Ok([i \in 1 .. Len(data) |-> data[i].embedding])

ValidVectors(p, vectors) ==
    \A i \in 1 .. Len(vectors) : vectors[i].dimension = p.dimension

-----------------------------------------------------------------------------
(* embed_texts_cached: look every text up, then embed the distinct misses.  *)

Begin(c, r) ==
    /\ work[c] = NoWork
    /\ embeddings < MaxEmbeddings
    /\ work' = [work EXCEPT ![c] = [phase |-> "lookup", request |-> r, output |-> << >>, misses |-> << >>]]
    /\ embeddings' = embeddings + 1
    /\ UNCHANGED <<embeddingCache, providerPermits>>

\* An output is the vector of a hit, or the position of the text among the misses.
Hit(v) == [hit |-> TRUE, vector |-> v]
Miss(i) == [hit |-> FALSE, miss |-> i]

MissIndex(o, key) ==
    SelectInSeq(o.misses, LAMBDA t : CacheKey(o.request, t) = key)

Lookup(c) ==
    LET o == work[c]
        text == o.request.texts[Len(o.output) + 1]
        key == CacheKey(o.request, text)
        pending == MissIndex(o, key)
    IN /\ o.phase = "lookup"
       /\ Len(o.output) < Len(o.request.texts)
       /\ IF key \in DOMAIN embeddingCache.entries
          THEN /\ embeddingCache' = Touch(embeddingCache, key)
               /\ work' = [work EXCEPT ![c].output = Append(@, Hit(embeddingCache.entries[key]))]
          ELSE /\ work' = [work EXCEPT
                         ![c].output = Append(@, Miss(IF pending # 0 THEN pending ELSE Len(o.misses) + 1)),
                         ![c].misses = IF pending # 0 THEN @ ELSE Append(@, text)]
               /\ UNCHANGED embeddingCache
       /\ UNCHANGED <<providerPermits, embeddings>>

\* texts.chunks(batch_size)
Chunks(texts) ==
    [b \in 1 .. (Len(texts) + MaxBatchInputs - 1) \div MaxBatchInputs |->
        SubSeq(texts, (b - 1) * MaxBatchInputs + 1,
               IF b * MaxBatchInputs < Len(texts) THEN b * MaxBatchInputs ELSE Len(texts))]

Spawned(texts) == [texts |-> texts, state |-> "waiting", answers |-> << >>, result |-> << >>]

\* A call that ends: its result stays until Return.
Ended(o, result) == [phase |-> "ended", request |-> o.request, result |-> result]

Outputs(o, vectors) ==
    [i \in 1 .. Len(o.output) |->
        IF o.output[i].hit THEN o.output[i].vector ELSE vectors[o.output[i].miss]]

AdmitCall(c) ==
    LET o == work[c]
    IN /\ o.phase = "lookup"
       /\ Len(o.output) = Len(o.request.texts)
       /\ IF o.misses = << >>
          THEN work' = [work EXCEPT ![c] = Ended(o, Ok(Outputs(o, << >>)))]
          ELSE work' = [work EXCEPT ![c] =
                      [phase |-> "batches", request |-> o.request, output |-> o.output, misses |-> o.misses,
                       batches |-> [b \in 1 .. Len(Chunks(o.misses)) |-> Spawned(Chunks(o.misses)[b])]]]
       /\ UNCHANGED <<embeddingCache, providerPermits, embeddings>>

\* The scheduler's queue is full, its deadline passes or it shuts down.
Refuse(c) ==
    LET o == work[c]
    IN /\ o.phase = "lookup"
       /\ Len(o.output) = Len(o.request.texts)
       /\ o.misses # << >>
       /\ work' = [work EXCEPT ![c] = Ended(o, Err("admission"))]
       /\ UNCHANGED <<embeddingCache, providerPermits, embeddings>>

-----------------------------------------------------------------------------
(* The tasks of embed_texts_batched and HttpReranker::request.  A task     *)
(* takes a permit of its call's limiter and one of the provider, and holds *)
(* both over its retries.                                                  *)

Running(o) == { b \in DOMAIN o.batches : o.batches[b].state \in {"sent", "backoff"} }

\* embed_batch refuses a foreign dimension before it takes the provider's permit.
Send(c, b) ==
    LET o == work[c]
        p == Resolve(o.request.profile)
        refused == o.phase = "batches" /\ o.request.dimension # p.dimension
    IN /\ o.phase \in {"batches", "rerank"}
       /\ o.batches[b].state = "waiting"
       /\ Cardinality(Running(o)) < MaxConcurrency
       /\ refused \/ providerPermits[o.request.profile] > 0
       /\ work' = [work EXCEPT ![c].batches[b].state = IF refused THEN "failed" ELSE "sent"]
       /\ providerPermits' = [providerPermits EXCEPT ![o.request.profile] = IF refused THEN @ ELSE @ - 1]
       /\ UNCHANGED <<embeddingCache, embeddings>>

\* The task ends and drops its permits.
Settle(c, b, batch) ==
    /\ work' = [work EXCEPT ![c].batches[b] = batch]
    /\ providerPermits' = [providerPermits EXCEPT ![work[c].request.profile] = @ + 1]

Await(c, b, batch) ==
    /\ work' = [work EXCEPT ![c].batches[b] = batch]
    /\ UNCHANGED providerPermits

\* request_batch: every error is slept over while attempts remain, and only then is a
\* non-retryable one returned.
Respond(c, b, answer) ==
    LET batch == work[c].batches[b]
        p == Resolve(work[c].request.profile)
        result == RequestBatchOnce(batch.texts, answer)
        seen == Append(batch.answers, IF result.ok THEN "ok" ELSE result.why)
    IN /\ work[c].phase = "batches"
       /\ batch.state = "sent"
       /\ IF result.ok
          THEN Settle(c, b, [batch EXCEPT !.state = IF ValidVectors(p, result.value) THEN "done" ELSE "failed",
                                          !.answers = seen, !.result = result.value])
          ELSE IF Len(batch.answers) < MaxRetries
               THEN Await(c, b, [batch EXCEPT !.state = "backoff", !.answers = seen])
               ELSE Settle(c, b, [batch EXCEPT !.state = "failed", !.answers = seen])
       /\ UNCHANGED <<embeddingCache, embeddings>>

Wake(c, b) ==
    LET batch == work[c].batches[b]
    IN /\ work[c].phase \in {"batches", "rerank"}
       /\ batch.state = "backoff"
       /\ IF Last(batch.answers) = "refused"
          THEN Settle(c, b, [batch EXCEPT !.state = "failed"])
          ELSE Await(c, b, [batch EXCEPT !.state = "sent"])
       /\ UNCHANGED <<embeddingCache, embeddings>>

\* The first failed task ends the call; dropping the JoinSet aborts the others where
\* they stand, which drops their permits.
HeldBy(o) == Cardinality(Running(o))

\* The tasks left running are forgotten with their permits.
FailLeaking(c) ==
    LET o == work[c]
    IN /\ o.phase \in {"batches", "rerank"}
       /\ \E b \in DOMAIN o.batches : o.batches[b].state = "failed"
       /\ work' = [work EXCEPT ![c] = Ended(o, Err("provider"))]
       /\ UNCHANGED <<embeddingCache, providerPermits, embeddings>>

Fail(c) ==
    LET o == work[c]
    IN /\ o.phase \in {"batches", "rerank"}
       /\ \E b \in DOMAIN o.batches : o.batches[b].state = "failed"
       /\ work' = [work EXCEPT ![c] = Ended(o, Err("provider"))]
       /\ providerPermits' = [providerPermits EXCEPT ![o.request.profile] = @ + HeldBy(o)]
       /\ UNCHANGED <<embeddingCache, embeddings>>

\* batches[batch_index] whatever the order in which the tasks ended, then concatenated.
Collected(o) == FlattenSeq([b \in DOMAIN o.batches |-> o.batches[b].result])

\* The last task has been joined: the vectors of the misses are ready to be cached.
Collect(c) ==
    LET o == work[c]
    IN /\ o.phase = "batches"
       /\ \A b \in DOMAIN o.batches : o.batches[b].state = "done"
       /\ work' = [work EXCEPT ![c] =
                 [phase |-> "insert", request |-> o.request, output |-> o.output, misses |-> o.misses,
                  vectors |-> Collected(o), inserted |-> 0]]
       /\ UNCHANGED <<embeddingCache, providerPermits, embeddings>>

InsertMiss(c) ==
    LET o == work[c]
        i == o.inserted + 1
    IN /\ o.phase = "insert"
       /\ embeddingCache' = InsertEntry(embeddingCache, CacheKey(o.request, o.misses[i]), o.vectors[i])
       /\ work' = [work EXCEPT ![c] = IF i < Len(o.misses) THEN [o EXCEPT !.inserted = i]
                                  ELSE Ended(o, Ok(Outputs(o, o.vectors)))]
       /\ UNCHANGED <<providerPermits, embeddings>>

\* The caller takes the result.  One that goes away earlier drops the future, and with
\* it the tasks and the permits they hold.
Deliver(c) ==
    /\ work[c].phase = "ended"
    /\ work' = [work EXCEPT ![c] = NoWork]
    /\ UNCHANGED <<embeddingCache, providerPermits, embeddings>>

Drop(c) ==
    LET o == work[c]
    IN /\ o.phase \in {"batches", "rerank"}
       /\ work' = [work EXCEPT ![c] = NoWork]
       /\ providerPermits' = [providerPermits EXCEPT ![o.request.profile] = @ + HeldBy(o)]
       /\ UNCHANGED <<embeddingCache, embeddings>>

-----------------------------------------------------------------------------
(* HttpReranker: one request for all candidates, its own semaphore.        *)

BeginRerank(c) ==
    /\ work[c] = NoWork
    /\ embeddings < MaxEmbeddings
    /\ work' = [work EXCEPT ![c] = [phase |-> "rerank", request |-> [profile |-> Reranker],
                                batches |-> <<Spawned(<<"candidates">>)>>]]
    /\ embeddings' = embeddings + 1
    /\ UNCHANGED <<embeddingCache, providerPermits>>

\* request: an error is retried only if it says so; JSON that does not parse never is.
Retryable(kind) == kind = "transient"

RespondRerank(c, kind) ==
    LET batch == work[c].batches[1]
        seen == Append(batch.answers, kind)
    IN /\ work[c].phase = "rerank"
       /\ batch.state = "sent"
       /\ IF kind = "ok"
          THEN Settle(c, 1, [batch EXCEPT !.state = "done", !.answers = seen])
          ELSE IF Retryable(kind) /\ Len(batch.answers) < MaxRetries
               THEN Await(c, 1, [batch EXCEPT !.state = "backoff", !.answers = seen])
               ELSE Settle(c, 1, [batch EXCEPT !.state = "failed", !.answers = seen])
       /\ UNCHANGED <<embeddingCache, embeddings>>

CollectRerank(c) ==
    /\ work[c].phase = "rerank"
    /\ work[c].batches[1].state = "done"
    /\ work' = [work EXCEPT ![c] = NoWork]
    /\ UNCHANGED <<embeddingCache, providerPermits, embeddings>>

-----------------------------------------------------------------------------
EmbeddingInit ==
    /\ embeddingCache = [entries |-> << >>, order |-> << >>]
    /\ work = [c \in Embedders |-> NoWork]
    /\ providerPermits = [p \in DOMAIN Registry \cup {Reranker} |-> MaxConcurrency]
    /\ embeddings = 0

\* What the runtime and the provider's timeout bring about without the caller.
Progress(c) ==
    \/ Lookup(c) \/ AdmitCall(c)
    \/ Fail(c) \/ Collect(c) \/ InsertMiss(c)
    \/ CollectRerank(c)
    \/ \E b \in 1 .. (IF work[c].phase \in {"batches", "rerank"} THEN Len(work[c].batches) ELSE 0) :
          \/ Send(c, b) \/ Wake(c, b)
          \/ work[c].phase = "batches"
             /\ \E a \in Answers(Resolve(work[c].request.profile), work[c].batches[b].texts) : Respond(c, b, a)
    \/ \E kind \in {"ok", "transient", "refused", "malformed"} : RespondRerank(c, kind)

EmbeddingNext ==
    \E c \in Embedders :
        \/ \E r \in Requests : Begin(c, r)
        \/ BeginRerank(c)
        \/ Progress(c)
        \/ Refuse(c)
        \/ Deliver(c)
        \/ Drop(c)

EmbeddingSpec == EmbeddingInit /\ [][EmbeddingNext]_embeddingVars

-----------------------------------------------------------------------------
(* Properties                                                              *)

\* The cache and the permits have their shape, and the cache's map and order of use
\* always hold the same keys, each once, within the capacity: eviction removes from both.
EmbeddingTypeOK ==
    /\ Range(embeddingCache.order) = DOMAIN embeddingCache.entries
    /\ Len(embeddingCache.order) = Cardinality(DOMAIN embeddingCache.entries)
    /\ Len(embeddingCache.order) <= Capacity
    /\ \A p \in DOMAIN providerPermits : providerPermits[p] \in 0 .. MaxConcurrency
    /\ \A c \in Embedders : work[c].phase \in {"idle", "lookup", "batches", "insert", "rerank", "ended"}

Answered(r, i, vector) ==
    /\ Canonical[vector.text] = Canonical[r.texts[i]]
    /\ vector.model = Resolve(r.profile).model
    /\ vector.dimension = r.dimension

\* A call that succeeds returns, for every text and in the caller's order, a vector of
\* that text (up to line endings) by the model and of the dimension the caller asked for:
\* whatever was cached, deduplicated, evicted meanwhile, answered out of order by the
\* service or finished out of order by the batches of embed_texts_batched.
OutputsMatchInputs ==
    \A c \in Embedders :
        (work[c].phase = "ended" /\ work[c].result.ok) =>
            /\ Len(work[c].result.value) = Len(work[c].request.texts)
            /\ \A i \in 1 .. Len(work[c].result.value) : Answered(work[c].request, i, work[c].result.value[i])

\* Every permit of a provider is free or held by a task of a call under way: failures,
\* aborted batches and callers that go away return what they took.
ProviderPermitsConserved ==
    \A p \in DOMAIN providerPermits :
        providerPermits[p] + Cardinality({ <<c, b>> \in Embedders \X (1 .. 3) :
                         /\ work[c].phase \in {"batches", "rerank"}
                         /\ work[c].request.profile = p
                         /\ b \in Running(work[c]) }) = MaxConcurrency

\* A request the service refused for good is never sent again, by either client, and no
\* request is sent more than max_retries times after the first.
RefusalIsFinal ==
    \A c \in Embedders :
        work[c].phase \in {"batches", "rerank"} =>
            \A b \in DOMAIN work[c].batches :
                LET batch == work[c].batches[b]
                IN batch.state = "sent" =>
                        /\ \A i \in 1 .. Len(batch.answers) : batch.answers[i] # "refused"
                        /\ Len(batch.answers) <= MaxRetries

\* While calls are under way, one of them can go on: however batches wait for the limiter of
\* their call and for the permits of their provider, they never all wait on each other.
CallsCanGoOn ==
    (\E c \in Embedders : work[c].phase \notin {"idle", "ended"}) =>
        \E c \in Embedders : ENABLED Progress(c)

\* Calls of embedding providers and rerankers: cache and permits have their shape
\* (EmbeddingTypeOK), every output is the vector of its own input (OutputsMatchInputs), permits
\* come back whichever batch fails (ProviderPermitsConserved), a refusal is not sent again
\* (RefusalIsFinal), and no call gets stuck (CallsCanGoOn).
EmbeddingInv ==
    /\ EmbeddingTypeOK /\ OutputsMatchInputs /\ ProviderPermitsConserved
    /\ RefusalIsFinal /\ CallsCanGoOn
=============================================================================
