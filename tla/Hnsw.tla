-------------------------------- MODULE Hnsw --------------------------------
(***************************************************************************)
(* The in-memory HNSW index of ketebe-storage/src/hnsw.rs: build from the  *)
(* visible records, layered search, and the check a persisted graph must   *)
(* pass before it is used again.                                           *)
(*                                                                         *)
(* A vector has one component, an integer: enough for the three metrics to *)
(* order records differently.  A record's level, which the code derives    *)
(* from a hash of its id, is an input.  Nodes are numbered from 1 in the   *)
(* order of insertion, which is the order of ids; a node's layer l is      *)
(* neighbors[l + 1].  Query control (deadlines) is in Query.tla.           *)
(***************************************************************************)
EXTENDS Integers, Sequences, FiniteSets, TLC, SequencesExt

\* HnswConfig::validate.
ConfigValid(cfg) == cfg.m > 0 /\ cfg.efConstruction >= cfg.m /\ cfg.efSearch > 0

Abs(x) == IF x < 0 THEN -x ELSE x
Sign(x) == IF x < 0 THEN -1 ELSE 1

\* distance: smaller is nearer.  One component makes a cosine the sign of the product;
\* it is undefined at zero, which build and validate_query exclude.
Distance(metric, query, vector) ==
    CASE metric = "l2"     -> Abs(query - vector)
      [] metric = "dot"    -> -(query * vector)
      [] metric = "cosine" -> -(Sign(query) * Sign(vector))

HasZeroNorm(metric, vector) == metric = "cosine" /\ vector = 0

\* compare_node_distance: by distance, then by id.
Nearer(g, query, i, j) ==
    LET di == Distance(g.metric, query, g.nodes[i].vector)
        dj == Distance(g.metric, query, g.nodes[j].vector)
    IN di < dj \/ (di = dj /\ i < j)

ByDistance(g, query, s) == SortSeq(s, LAMBDA i, j : Nearer(g, query, i, j))

NearestOf(g, query, s) == CHOOSE i \in Range(s) : \A j \in Range(s) : j = i \/ Nearer(g, query, i, j)

Truncate(s, n) == SubSeq(s, 1, IF Len(s) < n THEN Len(s) ELSE n)

-----------------------------------------------------------------------------
(* Search within one layer.                                                *)

\* greedy_search_level: follow the nearest neighbour while it is nearer.
RECURSIVE GreedySearchLevel(_, _, _, _)
GreedySearchLevel(g, query, current, layer) ==
    LET near == g.nodes[current].neighbors[layer + 1]
        next == NearestOf(g, query, near)
    IN IF near # << >> /\ Nearer(g, query, next, current)
       THEN GreedySearchLevel(g, query, next, layer)
       ELSE current

\* Only a neighbour nearer than the nearest so far is followed.
VisitImproving(g, query, ef, st, neighbor) ==
    IF neighbor \in st.visited \/ ~Nearer(g, query, neighbor, st.best[1]) THEN st
    ELSE [visited |-> st.visited \cup {neighbor},
          frontier |-> Append(st.frontier, neighbor),
          best |-> Truncate(ByDistance(g, query, Append(st.best, neighbor)), ef)]

\* Neighbours not yet visited join the frontier and the ef best, one at a time.
Visit(g, query, ef, st, neighbor) ==
    IF neighbor \in st.visited THEN st
    ELSE [visited |-> st.visited \cup {neighbor},
          frontier |-> Append(st.frontier, neighbor),
          best |-> Truncate(ByDistance(g, query, Append(st.best, neighbor)), ef)]

\* The frontier forgets what does not fit among the ef best.
Expand(g, query, ef, st, layer) ==
    LET current == NearestOf(g, query, st.frontier)
        popped == [st EXCEPT !.frontier = SelectSeq(@, LAMBDA x : x # current)]
    IN FoldLeft(LAMBDA acc, nb : Visit(g, query, ef, acc, nb), popped,
                g.nodes[current].neighbors[layer + 1])

\* A frontier node farther than the worst of a full best list ends the search.
Exhausted(g, query, ef, st) ==
    \/ st.frontier = << >>
    \/ /\ Len(st.best) >= ef
       /\ Distance(g.metric, query, g.nodes[NearestOf(g, query, st.frontier)].vector)
            > Distance(g.metric, query, g.nodes[Last(st.best)].vector)

RECURSIVE SearchFrom(_, _, _, _, _)
SearchFrom(g, query, ef, st, layer) ==
    IF Exhausted(g, query, ef, st) THEN st.best
    ELSE SearchFrom(g, query, ef, Expand(g, query, ef, st, layer), layer)

SearchLayer(g, query, entry, ef, layer) ==
    SearchFrom(g, query, ef, [visited |-> {entry}, frontier |-> <<entry>>, best |-> <<entry>>], layer)

RECURSIVE Descend(_, _, _, _, _)
Descend(g, query, current, from, to) ==
    IF from < to THEN current
    ELSE Descend(g, query, GreedySearchLevel(g, query, current, from), from - 1, to)

-----------------------------------------------------------------------------
(* Build.                                                                  *)

\* select_neighbors: duplicates are adjacent after the sort.
SelectNeighbors(g, query, candidates) ==
    Truncate(ByDistance(g, query, SetToSeq(Range(candidates))), g.config.m)

\* connect: the back edge, kept only if it is among the m nearest of the older node.
Connect(g, existing, new, layer) ==
    IF g.nodes[existing].level < layer THEN g
    ELSE LET near == g.nodes[existing].neighbors[layer + 1]
             candidates == IF new \in Range(near) THEN near ELSE Append(near, new)
         IN [g EXCEPT !.nodes[existing].neighbors[layer + 1] =
                 SelectNeighbors(g, g.nodes[existing].vector, candidates)]

\* One layer of insert, from the top layer both have down to 0.
RECURSIVE LinkLayers(_, _, _, _)
LinkLayers(g, new, current, layer) ==
    IF layer < 0 THEN g
    ELSE LET query == g.nodes[new].vector
             selected == SelectNeighbors(g, query,
                             SearchLayer(g, query, current, g.config.efConstruction, layer))
             linked == [g EXCEPT !.nodes[new].neighbors[layer + 1] = selected]
             joined == FoldLeft(LAMBDA acc, nb : Connect(acc, nb, new, layer), linked, selected)
         IN LinkLayers(joined, new, IF selected = << >> THEN current ELSE selected[1], layer - 1)

Insert(g, record) ==
    LET new == Len(g.nodes) + 1
        pushed == [g EXCEPT !.nodes = Append(@, [vector |-> record.vector, level |-> record.level,
                                                 neighbors |-> [l \in 1 .. record.level + 1 |-> << >>]])]
        start == Descend(pushed, record.vector, g.entry, g.maxLevel, record.level + 1)
        top == IF record.level < g.maxLevel THEN record.level ELSE g.maxLevel
        linked == LinkLayers(pushed, new, start, top)
    IN IF g.entry = 0 THEN [pushed EXCEPT !.entry = new, !.maxLevel = record.level]
       ELSE IF record.level > g.maxLevel
            THEN [linked EXCEPT !.entry = new, !.maxLevel = record.level]
            ELSE linked

EmptyGraph(metric, cfg) == [metric |-> metric, config |-> cfg, nodes |-> << >>, entry |-> 0, maxLevel |-> 0]

\* build over the visible records in the order of their ids; a zero vector under cosine
\* is an error.
Buildable(records, metric, cfg) ==
    ConfigValid(cfg) /\ \A i \in 1 .. Len(records) : ~HasZeroNorm(metric, records[i].vector)

BuildGraph(records, metric, cfg) == FoldLeft(Insert, EmptyGraph(metric, cfg), records)

-----------------------------------------------------------------------------
(* Search.                                                                 *)

\* validate_query: ef_search bounds top_k.
QueryValid(g, query, topK) ==
    topK > 0 /\ g.config.efSearch >= topK /\ ~HasZeroNorm(g.metric, query)

EntryAtBottom(g, query) == Descend(g, query, g.entry, g.maxLevel, 1)

SearchGraph(g, query, topK) ==
    IF g.entry = 0 THEN << >>
    ELSE Truncate(ByDistance(g, query, SearchLayer(g, query, EntryAtBottom(g, query), g.config.efSearch, 0)), topK)

-----------------------------------------------------------------------------
(* from_native_graph: what a graph read from disk must satisfy.            *)

NodeAccepted(g, i) ==
    LET node == g.nodes[i]
    IN /\ ~HasZeroNorm(g.metric, node.vector)
       /\ Len(node.neighbors) = node.level + 1
       /\ \A l \in DOMAIN node.neighbors :
             LET near == node.neighbors[l]
             IN /\ Cardinality(Range(near)) = Len(near)
                /\ \A n \in Range(near) : n \in DOMAIN g.nodes /\ n # i /\ g.nodes[n].level >= l - 1

FromNativeGraph(g) ==
    /\ ConfigValid(g.config)
    /\ IF g.nodes = << >> THEN g.entry = 0 /\ g.maxLevel = 0
       ELSE /\ g.entry \in DOMAIN g.nodes
            /\ g.nodes[g.entry].level = g.maxLevel
            /\ \A i \in DOMAIN g.nodes : g.nodes[i].level <= g.maxLevel
            /\ \A i \in DOMAIN g.nodes : NodeAccepted(g, i)

-----------------------------------------------------------------------------
(* Properties of one input: records, metric, configuration, query, top_k.  *)

\* What a node reaches in the bottom layer.
RECURSIVE Closure(_, _)
Closure(g, found) ==
    LET more == found \cup UNION { Range(g.nodes[i].neighbors[1]) : i \in found }
    IN IF more = found THEN found ELSE Closure(g, more)

\* A graph that build produced is accepted when it is read back from its snapshot, so a
\* restart never rebuilds an index that was complete; every edge list stays within m,
\* names nodes of its layer and never the node itself, or search would index out of bounds.
BuiltGraphIsAccepted(in) ==
    LET g == BuildGraph(in.records, in.metric, in.config)
    IN Buildable(in.records, in.metric, in.config) =>
            /\ FromNativeGraph(g)
            /\ \A i \in DOMAIN g.nodes : \A l \in DOMAIN g.nodes[i].neighbors :
                    Len(g.nodes[i].neighbors[l]) <= g.config.m

\* The nearest topK nodes of a set, nearest first: what the exact search answers.
NearestK(g, query, set, topK) == Truncate(ByDistance(g, query, SetToSeq(set)), topK)

WideAnswer(g, in, hits, reached) ==
    /\ hits = NearestK(g, in.query, reached, in.topK)
    /\ g.config.m >= Len(g.nodes) - 1 => hits = NearestK(g, in.query, DOMAIN g.nodes, in.topK)

\* With ef_search no smaller than the index, the beam loses nothing: the answer is exactly
\* the nearest records among those the bottom layer's edges reach; and with m no smaller
\* than the other records, when no edge is pruned, those are all records.
WideSearchIsExact(in) ==
    LET Wide(g) == g.entry # 0 /\ QueryValid(g, in.query, in.topK) /\ g.config.efSearch >= Len(g.nodes)
        Exact(g) == Wide(g) => WideAnswer(g, in, SearchGraph(g, in.query, in.topK),
                                          Closure(g, {EntryAtBottom(g, in.query)}))
    IN Buildable(in.records, in.metric, in.config) => Exact(BuildGraph(in.records, in.metric, in.config))

LocallyBest(g, in, hits) ==
    /\ Cardinality(Range(hits)) = Len(hits)
    /\ hits = << >> <=> g.nodes = << >>
    /\ \A i \in 1 .. Len(hits) - 1 : Nearer(g, in.query, hits[i], hits[i + 1])
    /\ \A i \in 1 .. Len(hits) : \A n \in Range(g.nodes[hits[i]].neighbors[1]) :
            n = hits[1] \/ Nearer(g, in.query, hits[1], n)

\* Whatever ef_search is, no hit is invented or returned twice, the hits come nearest
\* first, and the answer is empty only for an empty index; the nearest hit is at least as
\* near as every neighbour of every node the answer holds (no neighbour is skipped).
SearchIsLocallyBest(in) ==
    LET Best(g) == QueryValid(g, in.query, in.topK) =>
                       LocallyBest(g, in, SearchGraph(g, in.query, in.topK))
    IN Buildable(in.records, in.metric, in.config) => Best(BuildGraph(in.records, in.metric, in.config))
=============================================================================
