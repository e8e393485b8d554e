--------------------------------- MODULE Codec ---------------------------------
(***************************************************************************)
(* The bytes of the write-ahead log (wal.rs) and of segment files          *)
(* (segment.rs): frames, payloads and the readers that must accept exactly *)
(* what was written and tell a torn tail from a damaged file.              *)
(*                                                                         *)
(* A cell stands for one number, tag, length or character, whatever its    *)
(* width, and the checksum is a small hash of the payload.  A metadata     *)
(* value is [tag, num, text, items], items a sequence of [key, value] that *)
(* are ordered by key in an object and have no key in an array.            *)
(***************************************************************************)
EXTENDS Integers, Sequences, FiniteSets, SequencesExt

Magic == 9
Version == 1
OpUpsert == 1
OpDelete == 2

\* crc32: any change of a few cells changes it.
Crc32(payload) == FoldLeft(LAMBDA h, c : (31 * h + c + 7) % 9973, 1, payload)

-----------------------------------------------------------------------------
(* Writers *)

WriteString(s) == <<Len(s)>> \o s
WriteRecordId(id) == IF id.tag = 0 THEN <<0>> \o WriteString(id.text) ELSE <<1, id.num>>
WriteVector(v) == <<Len(v)>> \o v

RECURSIVE WriteMetadataValue(_)
WriteMetadata(items) ==
    <<Len(items)>> \o FlattenSeq([n \in DOMAIN items |->
        WriteString(items[n].key) \o WriteMetadataValue(items[n].value)])
WriteMetadataValue(v) ==
    <<v.tag>> \o
    (CASE v.tag = 0 -> <<>>
       [] v.tag \in {1, 2} -> <<v.num>>
       [] v.tag = 3 -> WriteString(v.text)
       [] v.tag = 4 -> <<Len(v.items)>> \o FlattenSeq([n \in DOMAIN v.items |->
                           WriteMetadataValue(v.items[n].value)])
       [] v.tag = 5 -> WriteMetadata(v.items))

\* encode_payload
EncodePayload(m) ==
    WriteString(m.collection) \o WriteRecordId(m.id) \o
    (IF m.op = OpUpsert THEN WriteVector(m.vector) \o WriteMetadata(m.metadata) ELSE <<>>)

HeaderLen == 6

\* encode_frame: magic, version, operation, payload length, sequence number, checksum
EncodeFrame(m) ==
    LET payload == EncodePayload(m)
    IN  <<Magic, Version, m.op, Len(payload), m.seq, Crc32(payload)>> \o payload

EncodeLog(mutations) == FlattenSeq([n \in DOMAIN mutations |-> EncodeFrame(mutations[n])])

-----------------------------------------------------------------------------
(* The cursor: a reader takes the cells that are left and returns [ok, value, rest]. *)

Read(value, rest) == [ok |-> TRUE, value |-> value, rest |-> rest]
Malformed == [ok |-> FALSE, value |-> <<>>, rest |-> <<>>]

\* Cursor::take
TakeCells(cells, n) ==
    IF n > Len(cells) THEN Malformed ELSE Read(SubSeq(cells, 1, n), SubSeq(cells, n + 1, Len(cells)))
ReadNumber(cells) == IF cells = <<>> THEN Malformed ELSE Read(cells[1], Tail(cells))

\* Read once and go on with the value and the rest, or stop.
Then(r, next(_, _)) == IF r.ok THEN next(r.value, r.rest) ELSE Malformed

ReadString(cells) == Then(ReadNumber(cells), LAMBDA n, rest : TakeCells(rest, n))
ReadVector(cells) == ReadString(cells)

NoRecord == [tag |-> 0, text |-> <<>>, num |-> 0]
\* An empty string is no record id (RecordId::string).
ReadRecordId(cells) ==
    Then(ReadNumber(cells), LAMBDA tag, rest :
        CASE tag = 0 -> Then(ReadString(rest), LAMBDA s, left :
                            IF s = <<>> THEN Malformed ELSE Read([NoRecord EXCEPT !.text = s], left))
          [] tag = 1 -> Then(ReadNumber(rest), LAMBDA n, left :
                            Read([NoRecord EXCEPT !.tag = 1, !.num = n], left))
          [] OTHER -> Malformed)

\* BTreeMap::insert into items ordered by key.
KeyBefore(a, b) ==
    Len(a) < Len(b) \/ (Len(a) = Len(b) /\ a # <<>> /\ a[1] < b[1])
InsertItem(items, item) ==
    SortSeq(Append(SelectSeq(items, LAMBDA i : i.key # item.key), item),
            LAMBDA i, j : KeyBefore(i.key, j.key))

Value(tag, num, text, items) == [tag |-> tag, num |-> num, text |-> text, items |-> items]

RECURSIVE ReadMetadataValue(_), ReadItems(_, _, _, _)
\* count items of an array, or of an object, after those in items
ReadItems(cells, count, keyed, items) ==
    IF count = 0 THEN Read(items, cells)
    ELSE IF keyed
    THEN Then(ReadString(cells), LAMBDA k, rest :
            Then(ReadMetadataValue(rest), LAMBDA v, left :
                ReadItems(left, count - 1, keyed, InsertItem(items, [key |-> k, value |-> v]))))
    ELSE Then(ReadMetadataValue(cells), LAMBDA v, left :
            ReadItems(left, count - 1, keyed, Append(items, [key |-> <<>>, value |-> v])))
ReadMetadata(cells) ==
    Then(ReadNumber(cells), LAMBDA n, rest : ReadItems(rest, n, TRUE, <<>>))
ReadMetadataValue(cells) ==
    Then(ReadNumber(cells), LAMBDA tag, rest :
        CASE tag = 0 -> Read(Value(0, 0, <<>>, <<>>), rest)
          [] tag = 1 -> Then(ReadNumber(rest), LAMBDA b, left :
                            IF b > 1 THEN Malformed ELSE Read(Value(1, b, <<>>, <<>>), left))
          [] tag = 2 -> Then(ReadNumber(rest), LAMBDA n, left : Read(Value(2, n, <<>>, <<>>), left))
          [] tag = 3 -> Then(ReadString(rest), LAMBDA s, left : Read(Value(3, 0, s, <<>>), left))
          [] tag = 4 -> Then(ReadNumber(rest), LAMBDA n, left :
                            Then(ReadItems(left, n, FALSE, <<>>), LAMBDA i, end :
                                Read(Value(4, 0, <<>>, i), end)))
          [] tag = 5 -> Then(ReadMetadata(rest), LAMBDA i, left : Read(Value(5, 0, <<>>, i), left))
          [] OTHER -> Malformed)

Mutation(op, seq, collection, id, vector, metadata) ==
    [op |-> op, seq |-> seq, collection |-> collection, id |-> id,
     vector |-> vector, metadata |-> metadata]

\* decode_payload
DecodePayload(op, seq, payload) ==
    LET head == Then(ReadString(payload), LAMBDA c, rest :
                    Then(ReadRecordId(rest), LAMBDA id, left :
                        Read(Mutation(op, seq, c, id, <<>>, <<>>), left)))
        whole == IF op = OpDelete THEN head
                 ELSE Then(head, LAMBDA m, rest :
                        Then(ReadVector(rest), LAMBDA v, left :
                            Then(ReadMetadata(left), LAMBDA d, end :
                                Read([m EXCEPT !.vector = v, !.metadata = d], end))))
    IN  IF op \notin {OpUpsert, OpDelete} \/ ~whole.ok \/ whole.rest # <<>> \/ whole.value.collection = <<>>
        THEN Malformed ELSE whole

-----------------------------------------------------------------------------
(* The log *)

\* Fewer cells are left than the frame that begins here needs.
\* Mutant: a frame that ends with the log is taken for a torn one.
TornAtEnd(cells) ==
    Len(cells) < HeaderLen \/ Len(cells) <= HeaderLen + cells[4]
Torn(cells) ==
    Len(cells) < HeaderLen \/ Len(cells) < HeaderLen + cells[4]

\* decode_log: one frame after the other; a torn last frame is ignored, damage is an error.
RECURSIVE DecodeLog(_, _)
DecodeLog(cells, entries) ==
    LET payload == SubSeq(cells, HeaderLen + 1, HeaderLen + cells[4])
        entry == DecodePayload(cells[3], cells[5], payload)
    IN  IF cells = <<>> THEN [error |-> "none", entries |-> entries, tail |-> 0]
        ELSE IF Len(cells) >= HeaderLen /\ (cells[1] # Magic \/ cells[2] # Version)
        THEN [error |-> "invalid_header", entries |-> <<>>, tail |-> 0]
        ELSE IF Torn(cells) THEN [error |-> "none", entries |-> entries, tail |-> Len(cells)]
        ELSE IF entries # <<>> /\ cells[5] <= Last(entries).seq
        THEN [error |-> "sequence_regression", entries |-> <<>>, tail |-> 0]
        ELSE IF Crc32(payload) # cells[6] THEN [error |-> "checksum", entries |-> <<>>, tail |-> 0]
        ELSE IF ~entry.ok THEN [error |-> "corrupt", entries |-> <<>>, tail |-> 0]
        ELSE DecodeLog(SubSeq(cells, HeaderLen + cells[4] + 1, Len(cells)), Append(entries, entry.value))

-----------------------------------------------------------------------------
(* Segments *)

IdBefore(a, b) ==
    \/ a.tag < b.tag
    \/ a.tag = b.tag /\ (IF a.tag = 1 THEN a.num < b.num ELSE KeyBefore(a.text, b.text))
Without(entries, id) == SelectSeq(entries, LAMBDA e : e.id # id)
InsertEntry(entries, e) ==
    SortSeq(Append(Without(entries, e.id), e), LAMBDA a, b : IdBefore(a.id, b.id))

\* Segment::from_mutations: the last mutation of every record, in the order of ids.
ApplyMutation(seg, m) ==
    IF m.op = OpUpsert
    THEN [seg EXCEPT !.records = InsertEntry(@, m), !.tombstones = Without(@, m.id)]
    ELSE [seg EXCEPT !.tombstones = InsertEntry(@, [id |-> m.id, seq |-> m.seq]),
                     !.records = Without(@, m.id)]
FromMutations(id, mutations) ==
    IF \/ mutations = <<>>
       \/ \E n \in 2 .. Len(mutations) : \/ mutations[n].collection # mutations[1].collection
                                        \/ mutations[n].seq <= mutations[n - 1].seq
    THEN Malformed
    ELSE Read(FoldLeft(ApplyMutation,
                  [id |-> id, collection |-> mutations[1].collection, min |-> mutations[1].seq,
                   max |-> Last(mutations).seq, records |-> <<>>, tombstones |-> <<>>], mutations), <<>>)

WriteRecord(r) == WriteRecordId(r.id) \o <<r.seq>> \o WriteVector(r.vector) \o WriteMetadata(r.metadata)

\* encode_segment: magic, version, payload length, checksum, payload
EncodeSegment(seg) ==
    LET payload ==
            WriteString(seg.collection) \o <<seg.id, seg.min, seg.max>> \o
            <<Len(seg.records)>> \o FlattenSeq([n \in DOMAIN seg.records |-> WriteRecord(seg.records[n])]) \o
            <<Len(seg.tombstones)>> \o FlattenSeq([n \in DOMAIN seg.tombstones |->
                WriteRecordId(seg.tombstones[n].id) \o <<seg.tombstones[n].seq>>])
    IN  <<Magic, Version, Len(payload), Crc32(payload)>> \o payload

\* Cursor::read_record
ReadRecord(collection, cells) ==
    Then(ReadRecordId(cells), LAMBDA id, a : Then(ReadNumber(a), LAMBDA seq, b :
        Then(ReadVector(b), LAMBDA v, c : Then(ReadMetadata(c), LAMBDA d, rest :
            Read(Mutation(OpUpsert, seq, collection, id, v, d), rest)))))
ReadTombstone(cells) ==
    Then(ReadRecordId(cells), LAMBDA id, a : Then(ReadNumber(a), LAMBDA seq, rest :
        Read([id |-> id, seq |-> seq], rest)))

\* count records of a collection, or count tombstones, after those in entries
RECURSIVE ReadRecords(_, _, _, _), ReadTombstones(_, _, _)
ReadRecords(collection, cells, count, entries) ==
    IF count = 0 THEN Read(entries, cells)
    ELSE Then(ReadRecord(collection, cells), LAMBDA e, rest :
            ReadRecords(collection, rest, count - 1, Append(entries, e)))
ReadTombstones(cells, count, entries) ==
    IF count = 0 THEN Read(entries, cells)
    ELSE Then(ReadTombstone(cells), LAMBDA e, rest :
            ReadTombstones(rest, count - 1, Append(entries, e)))

EntryIds(entries) == {entries[n].id : n \in DOMAIN entries}

\* decode_segment
DecodeSegment(cells) ==
    LET payload == SubSeq(cells, 5, Len(cells))
        parsed == Then(ReadString(payload), LAMBDA coll, a : Then(TakeCells(a, 3), LAMBDA h, b :
            Then(ReadNumber(b), LAMBDA n, c :
                Then(ReadRecords(coll, c, n, <<>>), LAMBDA rs, d :
                    Then(ReadNumber(d), LAMBDA m, e :
                        Then(ReadTombstones(e, m, <<>>), LAMBDA ts, rest :
                            Read([id |-> h[1], collection |-> coll, min |-> h[2], max |-> h[3],
                                  records |-> rs, tombstones |-> ts], rest)))))))
        seg == parsed.value
    IN  CASE Len(cells) < 4 -> Malformed
          [] cells[1] # Magic \/ cells[2] # Version -> Malformed
          [] Len(cells) # 4 + cells[3] -> Malformed
          [] Crc32(payload) # cells[4] -> Malformed
          [] ~parsed.ok \/ parsed.rest # <<>> -> Malformed
          [] seg.collection = <<>> \/ seg.min > seg.max -> Malformed
          [] Cardinality(EntryIds(seg.records)) # Len(seg.records) -> Malformed
          [] EntryIds(seg.records) \cap EntryIds(seg.tombstones) # {} -> Malformed
          [] OTHER -> parsed

-----------------------------------------------------------------------------
(* Reference definitions *)

\* How many whole frames the first cut cells of the log hold.
WholeFrames(mutations, cut) ==
    Cardinality({n \in DOMAIN mutations : Len(EncodeLog(SubSeq(mutations, 1, n))) <= cut})

\* However an append is torn, replay (decode_log) returns exactly the mutations whose frames are
\* complete, as they were written, and reports the rest as an ignored tail, never as damage.
TornLogReplays(mutations, cut) ==
    LET cells == SubSeq(EncodeLog(mutations), 1, cut)
        whole == SubSeq(mutations, 1, WholeFrames(mutations, cut))
        out == DecodeLog(cells, <<>>)
    IN  /\ out.error = "none"
        /\ out.entries = whole
        /\ out.tail = cut - Len(EncodeLog(whole))

\* A batch of mutations of one collection with increasing sequence numbers, and no other, becomes
\* a segment (from_mutations); its file is accepted when it is opened (encode_segment,
\* decode_segment) and holds the last mutation of each record and nothing else; a shorter or
\* longer file is refused.
SegmentRoundTrips(mutations) ==
    LET built == FromMutations(1, mutations)
        seg == built.value
        cells == EncodeSegment(seg)
        opened == DecodeSegment(cells)
        LastOf(id) == Last(SelectSeq(mutations, LAMBDA m : m.id = id))
        proper == /\ mutations # <<>>
                  /\ \A i, j \in DOMAIN mutations :
                        /\ mutations[i].collection = mutations[j].collection
                        /\ i < j => mutations[i].seq < mutations[j].seq
    IN  /\ built.ok = proper
        /\ proper => /\ opened.ok /\ opened.value = seg
                     /\ EntryIds(seg.records) \cup EntryIds(seg.tombstones) = EntryIds(mutations)
                     /\ \A r \in ToSet(seg.records) : r = LastOf(r.id)
                     /\ \A t \in ToSet(seg.tombstones) :
                            LastOf(t.id).op = OpDelete /\ t.seq = LastOf(t.id).seq
                     /\ \A n \in 0 .. Len(cells) - 1 : ~DecodeSegment(SubSeq(cells, 1, n)).ok
                     /\ ~DecodeSegment(Append(cells, 0)).ok
================================================================================
