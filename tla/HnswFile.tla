------------------------------- MODULE HnswFile -------------------------------
(***************************************************************************)
(* The HNSW snapshot file (hnsw_snapshot.rs): the native format, which     *)
(* holds the graph, the older format, which holds the records only, and    *)
(* load, which accepts a file for the checkpoint, metric and configuration *)
(* it was made for.  Cells and readers are those of Codec, graphs those of *)
(* Hnsw; that a publish is atomic (rename) is in CollectionStore.          *)
(***************************************************************************)
EXTENDS Codec, Hnsw

LegacyVersion == 1
NativeVersion == 2
Unset == 999      \* u64::MAX: no dimension, no entry point
NoFile == <<>>

MetricTag == [cosine |-> 0, dot |-> 1, l2 |-> 2]
MetricOf(tag) == CHOOSE m \in DOMAIN MetricTag : MetricTag[m] = tag

\* fingerprint: collection, sequence number, segments, metric and configuration, hashed in
\* this order.
Fingerprint(checkpoint, metric, cfg) ==
    FoldLeft(LAMBDA h, c : (37 * h + c + 1) % 50000017, 7,
             checkpoint.collection \o <<checkpoint.seq>> \o checkpoint.segments
             \o <<MetricTag[metric], cfg.m, cfg.efConstruction, cfg.efSearch>>)

-----------------------------------------------------------------------------
(* Writing.  A node is its record, its level and its neighbours by layer; nodes are *)
(* numbered from 0 in the file.                                                     *)

FileOf(version, payload) == <<Magic, version, Len(payload), Crc32(payload)>> \o payload

WriteHead(s) ==
    <<s.fingerprint>> \o WriteString(s.collection)
    \o <<MetricTag[s.metric], s.config.m, s.config.efConstruction, s.config.efSearch>>

WriteLayer(layer) == <<Len(layer)>> \o [n \in DOMAIN layer |-> layer[n] - 1]
WriteNode(record, node) ==
    WriteRecord(record) \o <<node.level, Len(node.neighbors)>>
    \o FlattenSeq([l \in DOMAIN node.neighbors |-> WriteLayer(node.neighbors[l])])

\* encode_native_snapshot
EncodeNative(s, records, g) ==
    FileOf(NativeVersion,
        WriteHead(s)
        \o (IF records = <<>> THEN <<Unset, Unset>> ELSE <<Len(records[1].vector), g.entry - 1>>)
        \o <<g.maxLevel, Len(g.nodes)>>
        \o FlattenSeq([n \in DOMAIN g.nodes |-> WriteNode(records[n], g.nodes[n])]))

\* encode_legacy_snapshot
EncodeLegacy(s, records) ==
    FileOf(LegacyVersion, WriteHead(s) \o <<Len(records)>>
        \o FlattenSeq([n \in DOMAIN records |-> WriteRecord(records[n])]))

-----------------------------------------------------------------------------
(* Reading *)

\* Header, length and checksum, as both decoders check them.
FileSound(file, version) ==
    /\ Len(file) >= 4
    /\ file[1] = Magic /\ file[2] = version
    /\ Len(file) = 4 + file[3]
    /\ Crc32(SubSeq(file, 5, Len(file))) = file[4]

\* A collection without a name, an unknown metric and an invalid configuration are refused.
ReadHead(cells) ==
    Then(ReadNumber(cells), LAMBDA fp, a : Then(ReadString(a), LAMBDA coll, b :
        Then(TakeCells(b, 4), LAMBDA h, rest :
            LET cfg == [m |-> h[2], efConstruction |-> h[3], efSearch |-> h[4]]
            IN  IF coll = <<>> \/ h[1] > 2 \/ ~ConfigValid(cfg) THEN Malformed
                ELSE Read([fingerprint |-> fp, collection |-> coll, metric |-> MetricOf(h[1]),
                           config |-> cfg], rest))))

RECURSIVE ReadLayers(_, _, _), ReadNodes(_, _, _, _)
ReadLayers(cells, count, layers) ==
    IF count = 0 THEN Read(layers, cells)
    ELSE Then(ReadString(cells), LAMBDA near, rest :
            ReadLayers(rest, count - 1, Append(layers, near)))
ReadNodes(collection, cells, count, nodes) ==
    IF count = 0 THEN Read(nodes, cells)
    ELSE Then(ReadRecord(collection, cells), LAMBDA r, a : Then(TakeCells(a, 2), LAMBDA h, b :
            Then(ReadLayers(b, h[2], <<>>), LAMBDA layers, rest :
                ReadNodes(collection, rest, count - 1,
                    Append(nodes, [record |-> r, level |-> h[1], neighbors |-> layers])))))

\* The part of from_native_graph that is about the dimension.
DimensionAgrees(dimension, nodes) ==
    IF nodes = <<>> THEN dimension = Unset
    ELSE /\ dimension \notin {0, Unset}
         /\ \A n \in DOMAIN nodes : Len(nodes[n].record.vector) = dimension

NodeOf(node) ==
    [vector |-> node.record.vector[1], level |-> node.level,
     neighbors |-> [l \in DOMAIN node.neighbors |->
                       [n \in DOMAIN node.neighbors[l] |-> node.neighbors[l][n] + 1]]]

GraphOf(head, entry, maxLevel, nodes) ==
    [EmptyGraph(head.metric, head.config) EXCEPT
        !.maxLevel = maxLevel, !.entry = IF entry = Unset THEN 0 ELSE entry + 1,
        !.nodes = [n \in DOMAIN nodes |-> NodeOf(nodes[n])]]

\* decode_native_snapshot
DecodeNative(file) ==
    IF ~FileSound(file, NativeVersion) THEN Malformed
    ELSE Then(ReadHead(SubSeq(file, 5, Len(file))), LAMBDA head, a :
            Then(TakeCells(a, 4), LAMBDA h, b :
                Then(ReadNodes(head.collection, b, h[4], <<>>), LAMBDA nodes, rest :
                    LET g == GraphOf(head, h[2], h[3], nodes)
                    IN  IF rest = <<>> /\ DimensionAgrees(h[1], nodes) /\ FromNativeGraph(g)
                        THEN Read([head |-> head, graph |-> g], <<>>) ELSE Malformed)))

\* decode_legacy_snapshot
DecodeLegacy(file) ==
    IF ~FileSound(file, LegacyVersion) THEN Malformed
    ELSE Then(ReadHead(SubSeq(file, 5, Len(file))), LAMBDA head, a :
            Then(ReadNumber(a), LAMBDA count, b :
                Then(ReadRecords(head.collection, b, count, <<>>), LAMBDA records, rest :
                    IF rest = <<>> THEN Read([head |-> head, records |-> records], <<>>)
                    ELSE Malformed)))

\* restore_index: the records as one segment, in the order of their sequence numbers, from
\* which the graph is built again.  The level of a record is a function of its id:
\* levels, by number.
RestoreIndex(head, records, levels) ==
    LET segment == FromMutations(0, SortSeq(records, LAMBDA r, s : r.seq < s.seq))
        visible == [n \in DOMAIN segment.value.records |->
                       [vector |-> segment.value.records[n].vector[1],
                        level |-> levels[segment.value.records[n].id.num]]]
    IN  IF records = <<>> THEN Read(EmptyGraph(head.metric, head.config), <<>>)
        ELSE IF ~segment.ok \/ ~Buildable(visible, head.metric, head.config) THEN Malformed
        ELSE Read(BuildGraph(visible, head.metric, head.config), <<>>)

LoadResult(result, graph) == [result |-> result, graph |-> graph]
Failure == LoadResult("error", <<>>)

\* Made for another checkpoint, metric or configuration.
Stale(head, checkpoint, metric, cfg) ==
    \/ head.fingerprint # Fingerprint(checkpoint, metric, cfg)
    \/ head.collection # checkpoint.collection \/ head.metric # metric \/ head.config # cfg

\* HnswIndexStore::load, read_snapshot
LoadSnapshot(file, checkpoint, metric, cfg, levels) ==
    LET native == DecodeNative(file)
        legacy == DecodeLegacy(file)
        restored == RestoreIndex(legacy.value.head, legacy.value.records, levels)
    IN  CASE file = NoFile -> LoadResult("missing", <<>>)
          [] Len(file) = 1 -> Failure
          [] Len(file) > 1 /\ file[2] = LegacyVersion ->
                IF ~legacy.ok THEN Failure
                ELSE IF Stale(legacy.value.head, checkpoint, metric, cfg) THEN LoadResult("stale", <<>>)
                ELSE IF restored.ok THEN LoadResult("loaded", restored.value) ELSE Failure
          [] Len(file) > 1 /\ file[2] = NativeVersion ->
                IF ~native.ok THEN Failure
                ELSE IF Stale(native.value.head, checkpoint, metric, cfg) THEN LoadResult("stale", <<>>)
                ELSE LoadResult("loaded", native.value.graph)
          [] OTHER -> Failure

-----------------------------------------------------------------------------
(* Reference *)

\* The index a start-up takes from the file is the one that was built for this very
\* checkpoint: a published graph is read back edge by edge, in either format, for the
\* checkpoint, metric and configuration it was made for and no other; a file that was cut
\* or that goes on after its end is an error and never an index (hnsw_snapshot.rs load).
SnapshotServesItsCheckpoint(in) ==
    LET n == Len(in.records)
        records == [i \in 1..n |-> Mutation(OpUpsert, n + 1 - i, in.made.checkpoint.collection,
                                       [NoRecord EXCEPT !.tag = 1, !.num = i],
                                       <<in.records[i].vector>>, <<>>)]
        levels == [i \in 1..n |-> in.records[i].level]
        built == BuildGraph(in.records, in.made.metric, in.made.config)
        head == [fingerprint |-> Fingerprint(in.made.checkpoint, in.made.metric, in.made.config),
                 collection |-> in.made.checkpoint.collection, metric |-> in.made.metric,
                 config |-> in.made.config]
        expected == IF in.now = in.made THEN LoadResult("loaded", built) ELSE LoadResult("stale", <<>>)
        Damaged(file) == {SubSeq(file, 1, k) : k \in 1 .. Len(file) - 1} \cup {Append(file, 0)}
    IN  Buildable(in.records, in.made.metric, in.made.config) =>
            \A file \in {EncodeNative(head, records, built), EncodeLegacy(head, records)} :
                \A found \in {file} \cup (IF in.now = in.made THEN Damaged(file) ELSE {}) :
                    LoadSnapshot(found, in.now.checkpoint, in.now.metric, in.now.config, levels)
                        = IF found = file THEN expected ELSE Failure
===============================================================================
