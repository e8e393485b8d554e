----------------------------- MODULE MCAlgorithms -----------------------------
(***************************************************************************)
(* Bounded inputs of the other pure algorithms: the HNSW graph, chunking,  *)
(* the agents' search, the encodings and the integrity report.             *)
(***************************************************************************)
EXTENDS MCRetrieval, HnswFile, Chunking, AgentSearch, Integrity

DirectoryInputs == {[kind |-> "directory", dir |-> d] : d \in {x \in Directories : Possible(x)}}

-----------------------------------------------------------------------------
(* HNSW: up to three records and every configuration, some of four. *)

Config(m, c, e) == [m |-> m, efConstruction |-> c, efSearch |-> e]
Configs == {Config(1, 1, 1), Config(2, 2, 2), Config(2, 3, 4), Config(3, 3, 4), Config(1, 2, 4)}
Graphs(n, levels) ==
    [records : [1..n -> [vector : {-1, 0, 2}, level : levels]], metric : Metrics,
     config : Configs, query : {-1, 0, 1}, topK : 1..2]
GraphsOfFour ==
    [records : [1..4 -> [vector : {-1, 1, 2}, level : 0..1]], metric : {"l2"},
     config : {Config(1, 1, 2), Config(2, 2, 4), Config(3, 3, 4)}, query : {0, 1}, topK : {2}]
HnswInputs ==
    {[kind |-> "hnsw", graph |-> g] :
        g \in UNION {Graphs(n, 0..2) : n \in 0..2} \cup Graphs(3, 0..1) \cup GraphsOfFour}

\* Snapshot files of up to two records, loaded for what they were made for and for all that
\* differs from it in one respect.
Made(coll, seq, segments, metric, cfg) ==
    [checkpoint |-> [collection |-> coll, seq |-> seq, segments |-> segments],
     metric |-> metric, config |-> cfg]
Expectations(metric, cfg) ==
    {Made(<<3>>, 4, <<1, 2>>, metric, cfg), Made(<<4>>, 4, <<1, 2>>, metric, cfg),
     Made(<<3>>, 5, <<1, 2>>, metric, cfg), Made(<<3>>, 4, <<1>>, metric, cfg),
     Made(<<3>>, 4, <<1, 2>>, IF metric = "l2" THEN "dot" ELSE "l2", cfg),
     Made(<<3>>, 4, <<1, 2>>, metric, Config(1, 2, 1))}
HnswFileInputs ==
    UNION {{[kind |-> "hnsw file", records |-> records, made |-> Made(<<3>>, 4, <<1, 2>>, m, c), now |-> now] :
                now \in Expectations(m, c),
                records \in UNION {[1..n -> [vector : {0, 2}, level : 0..1]] : n \in 0..2}} :
              m \in Metrics, c \in {Config(1, 1, 1), Config(2, 2, 2)}}

-----------------------------------------------------------------------------
(* Chunking: every short text of character classes, sentences of every length, plain words. *)

ShortTexts == UNION {[1..k -> Classes] : k \in 0..4}
Words(n) == [i \in 1 .. 2 * n |-> IF i % 2 = 1 THEN "word" ELSE "space"]
Sentence(length) == Words(length - 1) \o <<"stop", "space">>
Sentences == {FlattenSeq([i \in 1..4 |-> Sentence(l[i])]) : l \in [1..4 -> 1..4]}
NoScoring == [ok |-> FALSE, low |-> {}]
TokenPolicy(structure, max, overlap) ==
    [mode |-> "tokens", structure |-> structure, max |-> max, overlap |-> overlap]
Structures == {"tokens", "sentences", "paragraphs", "markdown", "html"}
ByTokens ==
    [policy : {TokenPolicy(s, m, o) : s \in Structures, m \in 1..3, o \in 0..2},
     text : ShortTexts, scoring : {NoScoring}]
BySentences ==
    [policy : {TokenPolicy("sentences", m, o) : m \in 2..4, o \in 0..3},
     text : Sentences, scoring : {NoScoring}]
ByCharacters ==
    [policy : [mode : {"chars"}, max : 0..4, overlap : 0..4],
     text : {Words(n) : n \in 0..5}, scoring : {NoScoring}]
SemanticPolicies == [mode : {"semantic"}, max : 1..4, overlap : 0..3, min : 0..4]
ByMeaning ==
    UNION {[policy : {p}, text : {Words(n)},
            scoring : IF SemanticPolicyValid(p) THEN Scorings(p, n) ELSE {NoScoring}] :
                p \in SemanticPolicies, n \in 0..7}
ChunkingInputs ==
    {[kind |-> "chunking", document |-> d] : d \in ByTokens \cup BySentences \cup ByCharacters \cup ByMeaning}

-----------------------------------------------------------------------------
(* The agents' search: three records of one collection, two collections, small budgets. *)

Call(mode, limit, after, before, prefer, filter, fields) ==
    [mode |-> mode, text |-> mode # "dense", vector |-> mode = "dense", limit |-> limit,
     after |-> after, before |-> before, prefer |-> prefer, filter |-> filter, fields |-> fields]
Stored(i, score, stamp, kept, text, doc) ==
    [id |-> i, seq |-> i, score |-> score, stamp |-> stamp, kept |-> kept, text |-> text, doc |-> doc,
     reserved |-> CASE i = 1 -> {"_ketebe_chunk", "_ketebe_content"} [] i = 2 -> {"_ketebe_embedding"}
                    [] OTHER -> {},
     relevance |-> i]
AgentInputs ==
    {[kind |-> "agent", call |-> Call("dense", k, a, b, prefer, f, fields),
      coll |-> [metric |-> "dot", fails |-> "none",
                records |-> [i \in 1..3 |-> Stored(i, score[i], stamp[i], i # 2, <<"x">>, NoDoc)]]] :
        k \in {1, 2}, a \in {NoTime, 1}, b \in {NoTime, 2}, prefer \in BOOLEAN, f \in BOOLEAN,
        fields \in {{}, {"id"}, {"metadata"}, {"key:source", "key:chunk"}},
        score \in [1..3 -> {1, 2}], stamp \in [1..3 -> {NoTime, 1, 2}]}
\* Calls of every shape, also the ones that are refused.
ShapeInputs ==
    {[kind |-> "agent",
      call |-> [Call(mode, k, a, 1, FALSE, FALSE, fields) EXCEPT !.text = text, !.vector = vector],
      coll |-> [metric |-> "l2", fails |-> failing,
                records |-> <<Stored(1, 2, NoTime, TRUE, <<"x">>, NoDoc),
                              Stored(2, 1, 0, TRUE, <<"x">>, NoDoc)>>]] :
        mode \in {"dense", "sparse", "hybrid"}, k \in 0..1, a \in {NoTime, 0, 1},
        fields \in {{}, {"unknown"}}, text \in BOOLEAN, vector \in BOOLEAN,
        failing \in {"none", "embed", "query"}}
Pairs ==
    {[metric |-> "dot", fails |-> failing,
      records |-> [i \in 1..2 |-> Stored(ids[i], score[i], stamp[i], TRUE, <<"x">>, NoDoc)]] :
        ids \in {<<1, 2>>, <<2, 1>>}, score \in [1..2 -> {1, 2}], stamp \in [1..2 -> {NoTime, 1}],
        failing \in {"none", "query"}}
FusedInputs ==
    {[kind |-> "fused", colls |-> <<c, d>>,
      call |-> [search |-> Call("sparse", 2, NoTime, NoTime, prefer, FALSE, {"id"}),
                fusion |-> fusion, dedup |-> dedup, rrfK |-> 1, finalLimit |-> limit,
                rerank |-> NoRerank]] :
        c \in Pairs, d \in {p \in Pairs : p.records[1].id = 1 /\ p.fails = "none"}, prefer \in BOOLEAN,
        fusion \in {"rrf", "score_sum"}, dedup \in {"record_id", "none"}, limit \in {1, 3}}
\* A provider that answers or fails for one of the collections, one of them with a record
\* without text.
RerankedInputs ==
    {[kind |-> "fused",
      colls |-> <<[c EXCEPT !.fails = failing, !.records[2].text = text],
                  [c EXCEPT !.records = <<Stored(2, 2, 1, TRUE, <<"x">>, NoDoc),
                                          Stored(1, 1, 1, TRUE, <<"x">>, NoDoc)>>]>>,
      call |-> [search |-> Call(mode, limit, NoTime, NoTime, prefer, FALSE, {}),
                fusion |-> fusion, dedup |-> "record_id", rrfK |-> 1, finalLimit |-> 3,
                rerank |-> [asked |-> TRUE, topN |-> n, query |-> query, policy |-> policy]]] :
        c \in {p \in Pairs : p.fails = "none"},
        failing \in {"none", "rerank"}, text \in {<<"x">>, <<" ">>}, prefer \in BOOLEAN,
        mode \in {"sparse", "dense"}, limit \in 1..2, fusion \in {"rrf", "score_sum"},
        n \in 0..2, query \in BOOLEAN, policy \in {"fail", "preserve"}}
\* "y" is a character of two bytes.
Snippets == {<<>>, <<"x">>, <<"y", "x">>, <<"x", " ", "x">>, <<" ", "y", " ", "x", " ">>, <<" ">>}
ContextInputs ==
    {[kind |-> "context", budget |-> [tokens |-> t, bytes |-> b, documents |-> d],
      call |-> [search |-> Call("sparse", 3, NoTime, NoTime, FALSE, FALSE, fields),
                fusion |-> "rrf", dedup |-> "record_id", rrfK |-> 1, finalLimit |-> 3,
                rerank |-> NoRerank],
      colls |-> <<[metric |-> "dot", fails |-> "none",
                   records |-> [i \in 1..3 |-> Stored(i, 3 - i, NoTime, TRUE, text[i], doc[i])]]>>] :
        t \in 1..3, b \in {0, 2, 3, 5}, d \in 1..2, fields \in {{}, {"id"}}, text \in [1..3 -> Snippets],
        doc \in {<<NoDoc, NoDoc, NoDoc>>, <<"d", "d", NoDoc>>, <<"d", NoDoc, "d">>}}

-----------------------------------------------------------------------------
(* Encodings: every kind of metadata value, batches of up to three mutations, every cut. *)

TextId(s) == [NoRecord EXCEPT !.text = s]
NumberId(n) == [NoRecord EXCEPT !.tag = 1, !.num = n]
CodecIds == {TextId(<<1>>), TextId(<<2, 1>>), NumberId(1)}
Leaves ==
    {Value(0, 0, <<>>, <<>>), Value(1, 1, <<>>, <<>>), Value(2, 5, <<>>, <<>>),
     Value(3, 0, <<>>, <<>>), Value(3, 0, <<4, 2>>, <<>>)}
Item(key, value) == [key |-> key, value |-> value]
Nested ==
    Leaves \cup {Value(4, 0, <<>>, <<>>), Value(5, 0, <<>>, <<>>)}
    \cup {Value(4, 0, <<>>, <<Item(<<>>, a), Item(<<>>, b)>>) : a \in Leaves, b \in Leaves}
    \cup {Value(5, 0, <<>>, <<Item(<<1>>, Value(4, 0, <<>>, <<Item(<<>>, a)>>))>>) : a \in Leaves}
Metadata ==
    {<<Item(<<1>>, v)>> : v \in Nested}
    \cup {<<Item(<<>>, a), Item(<<2>>, b)>> : a \in Leaves, b \in Leaves}
Upsert(id, vector, metadata) == Mutation(OpUpsert, 0, <<3>>, id, vector, metadata)
Removal(id) == Mutation(OpDelete, 0, <<3>>, id, <<>>, <<>>)
Plain == {Upsert(id, <<1>>, <<>>) : id \in CodecIds} \cup {Removal(id) : id \in CodecIds}
Mutations ==
    Plain \cup {Upsert(id, v, d) : id \in CodecIds, v \in {<<1>>, <<0, 2>>},
                                   d \in {<<>>, <<Item(<<1>>, Value(2, 5, <<>>, <<>>))>>}}
Numbered(s) == [n \in DOMAIN s |-> [s[n] EXCEPT !.seq = 2 * n]]
Batches ==
    {Numbered(s) : s \in {<<Upsert(id, <<1>>, d)>> : id \in CodecIds, d \in Metadata}
                         \cup [1..2 -> Mutations] \cup [1..3 -> Plain]}
\* No mutations, repeated or falling sequence numbers, two collections.
Improper ==
    {<<>>} \cup {<<[Removal(NumberId(1)) EXCEPT !.seq = i],
                   [Removal(NumberId(2)) EXCEPT !.seq = j, !.collection = c]>> :
                      i \in 2..3, j \in 2..3, c \in {<<3>>, <<4>>}}
SegmentFileInputs == {[kind |-> "segment file", batch |-> b] : b \in Batches \cup Improper}
LogInputs ==
    UNION {{[kind |-> "log", batch |-> b, cut |-> cut] : cut \in 0 .. Len(EncodeLog(b))} : b \in Batches}

-----------------------------------------------------------------------------
PickAlgorithm ==
    \/ input' \in DirectoryInputs
    \/ input' \in HnswInputs
    \/ input' \in HnswFileInputs
    \/ input' \in ChunkingInputs
    \/ input' \in AgentInputs
    \/ input' \in ShapeInputs
    \/ input' \in FusedInputs
    \/ input' \in RerankedInputs
    \/ input' \in ContextInputs
    \/ input' \in SegmentFileInputs
    \/ input' \in LogInputs

\* verify_collection and recover_with_threshold agree on every directory.
VerifiedDirectoryRecovers == input.kind = "directory" => SoundRecovers(input.dir)
\* A directory reported "ok" by verify_collection needs no repair.
OkReportNeedsNoRepair == input.kind = "directory" => OkNeedsNoRepair(input.dir)
\* A graph that HnswIndex::build made is accepted when its snapshot is loaded.
HnswGraphAccepted == input.kind = "hnsw" => BuiltGraphIsAccepted(input.graph)
\* An HNSW search wide enough returns the exact ranking of what it can reach.
HnswWideSearchExact == input.kind = "hnsw" => WideSearchIsExact(input.graph)
\* Whatever its width, an HNSW search stops only where no neighbour is better.
HnswSearchLocallyBest == input.kind = "hnsw" => SearchIsLocallyBest(input.graph)
\* Every character of a document is in a chunk, and chunks keep to their limit.
ChunkingCovers == input.kind = "chunking" => ChunksCoverDocument(input.document)
\* Structural units that fit into a chunk are not cut.
ChunkingKeepsUnits == input.kind = "chunking" => UnitsStayWhole(input.document)
\* The agent search tool returns what was asked for, and reserved keys as it should.
AgentSearchAnswers == input.kind = "agent" => SearchAnswersRequest(input.call, input.coll)
\* The fused search of several collections ranks by the sum of the shares.
AgentFusionSums == input.kind = "fused" => FusedIsSumOfShares(input.call, input.colls)
\* retrieve_context keeps the budgets it was given.
AgentContextBudgets ==
    input.kind = "context" => ContextKeepsBudgets(input.call, input.budget, input.colls)
\* Replay of a log that was torn anywhere.
LogReplays == input.kind = "log" => TornLogReplays(input.batch, input.cut)
\* HNSW snapshot files serve the checkpoint they were made for.
HnswFilesServe == input.kind = "hnsw file" => SnapshotServesItsCheckpoint(input)
\* Segment files hold what they were made of.
SegmentsRoundTrip == input.kind = "segment file" => SegmentRoundTrips(input.batch)

\* Retrieval gives its reference answers on every bounded input: visibility, exact, filtered and
\* paged search, predicates (search.rs, filter.rs, predicate.rs), BM25, its snapshots, fusion and
\* reranking (lexical_index.rs, hybrid.rs, reranking.rs), the HNSW graph (hnsw.rs).
RetrievalCorrect ==
    /\ FoldsAgree /\ ExactSearchIsTopK /\ PagedIsUnpaged /\ PredicatesObeyDeMorgan
    /\ LexicalFindsMatches /\ SnapshotIsCurrent /\ SnapshotIsSearchable
    /\ FusionIsMonotone /\ RerankIsSafe
    /\ HnswGraphAccepted /\ HnswWideSearchExact /\ HnswSearchLocallyBest

\* Files mean what was written: logs cut anywhere, segments and HNSW snapshots (wal.rs, segment.rs,
\* hnsw_snapshot.rs), and the report on a directory against what start-up makes of it
\* (integrity.rs, runtime.rs).
FilesCorrect ==
    LogReplays /\ SegmentsRoundTrip /\ HnswFilesServe /\ VerifiedDirectoryRecovers /\ OkReportNeedsNoRepair

\* Every chunking policy on every bounded text (chunking.rs, token_chunking.rs,
\* semantic_chunking.rs).
ChunkingCorrect == ChunkingCovers /\ ChunkingKeepsUnits

\* The retrieval tools of the MCP server (search.rs, fusion.rs, context.rs).
AgentSearchCorrect == AgentSearchAnswers /\ AgentFusionSums /\ AgentContextBudgets
================================================================================
