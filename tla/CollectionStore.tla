--------------------------- MODULE CollectionStore ---------------------------
(***************************************************************************)
(* One collection of ketebe: the write-ahead log, the mutable overlay, the *)
(* immutable segments, the checkpoint and the derived HNSW index, with the *)
(* handlers that change them (WriteService and ChunkingService), the       *)
(* crash of the process at any point of a handler, and recovery.           *)
(*                                                                         *)
(* Every handler runs under the write half of the catalog's RwLock, so no  *)
(* other task sees the middle of one; the file operations of sealing and   *)
(* compaction are separate steps because a crash or an I/O error may come  *)
(* between any two of them.                                                *)
(***************************************************************************)
EXTENDS Integers, Sequences, FiniteSets

CONSTANTS
    Records,        \* record ids
    Chunks,         \* the record ids that are chunks of one parent document
    Values,         \* record contents
    Deleted,        \* the "value" of a tombstone
    Writers,        \* tasks that serve writes
    Compactors,     \* tasks that serve compaction requests
    SealThreshold,  \* ServerState.seal_threshold
    MaxBatch,       \* bound: records in one batch
    MaxSequence,    \* bound: sequence numbers handed out
    SegmentIds,     \* bound: segment ids handed out
    MaxFaults,      \* bound: crashes, I/O errors and dropped requests
    TornAppends,    \* may a crash leave a frame half written?
    FailedAppends,  \* may an append fail after it has written something?
    Torn,           \* the bytes of a half-written frame
    NoCheckpoint,   \* no checkpoint file, or Option::None in memory
    NoIndex         \* no HNSW index

ASSUME StoreAssumption ==
    /\ Chunks \subseteq Records
    /\ Deleted \notin Values
    /\ Writers \cap Compactors = {}
    /\ SealThreshold \in Nat \ {0}
    /\ MaxBatch \in Nat \ {0}
    /\ MaxSequence \in Nat
    /\ SegmentIds \subseteq Nat \ {0}
    /\ MaxFaults \in Nat
    /\ TornAppends \in BOOLEAN
    /\ FailedAppends \in BOOLEAN
    /\ Torn \notin [seq : Nat, rec : Records, val : Values \cup {Deleted}]
    /\ NoCheckpoint \notin [ids : SUBSET Nat, seq : Nat]

VARIABLES
    wal,        \* wal.log: the frames in file order
    segFiles,   \* segments/: segment id -> the mutations the file holds
    ckptFile,   \* the published checkpoint
    hnswFile,   \* the published HNSW snapshot, with the checkpoint it is for
    mode,       \* the process: "up", "down", or "refused" to start
    segments,   \* CollectionRuntime.segments
    mutable,    \* CollectionRuntime.mutable
    checkpoint, \* CollectionRuntime.checkpoint
    nextSeq,    \* CollectionRuntime.next_sequence
    writer,     \* CollectionRuntime.wal / scoped_wal is Some
    walLast,    \* Wal.last_sequence, 0 for None
    hnsw,       \* CollectionRuntime.hnsw: the versions it indexes
    pc,         \* where each task is
    staged,     \* next_segment_id of the handler that holds the lock
    faults,     \* crashes, I/O errors and dropped requests so far
    committed,  \* history: every mutation the runtime has accepted
    damaged     \* history: bytes were appended after an unclean log tail

disk   == <<wal, segFiles, ckptFile, hnswFile>>
memory == <<segments, mutable, checkpoint, nextSeq, writer, walLast, hnsw>>
ghost  == <<committed, damaged>>
vars   == <<disk, mode, memory, pc, staged, faults, ghost>>

Tasks    == Writers \cup Compactors
Sequence == 0 .. MaxSequence
Mutation == [seq : Sequence \ {0}, rec : Records, val : Values \cup {Deleted}]
Change   == [rec : Records, val : Values \cup {Deleted}]
Batches  == UNION {[1 .. n -> Change] : n \in 1 .. MaxBatch}
Checkpoint == [ids : SUBSET SegmentIds, seq : Sequence]

Unlocked == {"idle", "sealDue", "compactCheck", "compactDue"}
Locked   == {"sealing", "sealed", "sealIndexing",
             "compacting", "compacted", "collecting", "compactIndexing"}

-----------------------------------------------------------------------------
(* Versions and segments *)

\* BTreeMap keyed by record id, latest sequence wins: the merge of
\* Segment::from_mutations, compact_segments and the query overlay.
Newest(M) == {m \in M : \A n \in M : n.rec = m.rec => n.seq <= m.seq}

\* What a query can return: the newest version of a record, unless deleted.
Visible(M) == {m \in Newest(M) : m.val # Deleted}

Contents(segs) == UNION {segs[i] : i \in DOMAIN segs}
SequencesOf(M) == {m.seq : m \in M}
View == Contents(segments) \cup mutable

IsMaximum(n, S) == n \in S /\ \A s \in S : s <= n
IsSuccessor(n, S) == (\A s \in S : s < n) /\ (n = 1 \/ n - 1 \in S)

\* Mutant: the next id is taken from the open segments.
NextIdOfOpenSegments(id) == IsSuccessor(id, DOMAIN segments)

\* discover() lists every segment file on disk, published or orphaned.
IsNextSegmentId(id) == IsSuccessor(id, DOMAIN segFiles)

WithSegment(segs, id, muts) ==
    [i \in DOMAIN segs \cup {id} |-> IF i = id THEN muts ELSE segs[i]]
OnlySegments(segs, ids) == [i \in DOMAIN segs \cap ids |-> segs[i]]

CheckpointSequence(c) == IF c = NoCheckpoint THEN 0 ELSE c.seq

-----------------------------------------------------------------------------
(* The log file *)

\* Mutant: the first frame gets the number after next_sequence.
FramesOffByOne(b) ==
    [i \in 1 .. Len(b) |-> [seq |-> nextSeq + i, rec |-> b[i].rec, val |-> b[i].val]]

Frames(b) == [i \in 1 .. Len(b) |->
                [seq |-> nextSeq + i - 1, rec |-> b[i].rec, val |-> b[i].val]]
FrameSet(w) == {w[i] : i \in 1 .. Len(w)}

\* decode_log reads up to the first half-written frame ...
Readable(w) == {i \in 1 .. Len(w) : \A j \in 1 .. i : w[j] # Torn}
Replayed(w) == {w[i] : i \in Readable(w)}
\* ... rejects a sequence number that does not increase ...
Regresses(w) == \E i, j \in Readable(w) : i < j /\ w[j].seq <= w[i].seq
\* ... and takes bytes that follow a half-written frame for the rest of that
\* frame: a checksum or header error, or a tail too short to be a frame.
HasBytesAfterTear(w) == \E i \in 1 .. Len(w) : w[i] = Torn /\ i < Len(w)

\* The last bytes of the file are a frame the writer knows about.
TailClean == \/ wal = <<>>
             \/ /\ wal[Len(wal)] # Torn
                /\ wal[Len(wal)].seq < nextSeq

Tear(torn) == IF torn THEN <<Torn>> ELSE <<>>

-----------------------------------------------------------------------------
(* Shared pieces of the handlers *)

\* Nobody holds the write half of the catalog lock.
LockFree == \A t \in Tasks : pc[t] \in Unlocked

CanFail == faults < MaxFaults

Goto(t, where) == pc' = [pc EXCEPT ![t] = where]

\* A handler that returns releases the lock and forgets its locals.
Return(t, where) == Goto(t, where) /\ staged' = 0

\* Mutant: the missing writer is not noticed.
AppendWithoutWriter(t, b) ==
    /\ mode = "up"
    /\ t \in Writers
    /\ pc[t] = "idle"
    /\ LockFree
    /\ nextSeq > walLast
    /\ nextSeq + Len(b) - 1 <= MaxSequence

\* The write half of upsert_batch, delete, replace_parent_chunks and
\* delete_parent_document up to the WAL append.
AppendEnabled(t, b) ==
    /\ mode = "up"
    /\ t \in Writers
    /\ pc[t] = "idle"
    /\ LockFree
    /\ writer
    /\ nextSeq > walLast
    /\ nextSeq + Len(b) - 1 <= MaxSequence

\* Mutant: the overlay may exceed the threshold by one.
SealWhenOver == IF Cardinality(mutable') > SealThreshold THEN "sealDue" ELSE "idle"

\* A full overlay is sealed by a later, separate lock acquisition.
AfterAppend == IF Cardinality(mutable') >= SealThreshold THEN "sealDue" ELSE "idle"

\* append_batch wrote the frames and synced the file: the batch joins the
\* overlay.
AppendBatch(t, b) ==
    /\ AppendEnabled(t, b)
    /\ wal' = wal \o Frames(b)
    /\ mutable' = mutable \cup FrameSet(Frames(b))
    /\ nextSeq' = nextSeq + Len(b)
    /\ walLast' = nextSeq + Len(b) - 1
    /\ Goto(t, AfterAppend)
    /\ committed' = committed \cup FrameSet(Frames(b))
    /\ damaged' = (damaged \/ ~TailClean)
    /\ UNCHANGED <<segFiles, ckptFile, hnswFile, mode, segments, checkpoint,
                   writer, hnsw, staged, faults>>

\* What an append that did not finish leaves in the file: k whole frames and
\* possibly part of the next one.
PartialAppend(b, k, torn) ==
    /\ k \in 0 .. Len(b)
    /\ torn => k < Len(b)
    /\ k > 0 \/ torn
    /\ wal' = wal \o (SubSeq(Frames(b), 1, k) \o Tear(torn))
    /\ damaged' = (damaged \/ ~TailClean)

-----------------------------------------------------------------------------
(* Writes *)

Upserts == {b \in Batches : \A i \in DOMAIN b : b[i].val # Deleted}
Deletes == {b \in Batches : Len(b) = 1 /\ b[1].val = Deleted}

UpsertBatch(t) == \E b \in Upserts : AppendBatch(t, b)
Delete(t)      == \E b \in Deletes : AppendBatch(t, b)

VisibleChunks == {m.rec : m \in {v \in Visible(View) : v.rec \in Chunks}}

\* The new chunks are upserted, then the visible chunks of the parent that
\* are not among them are deleted, in one batch.
IsReplacement(b, new) ==
    \E n \in 1 .. Len(b) :
        /\ n = Cardinality(new)
        /\ {b[i].rec : i \in 1 .. n} = new
        /\ \A i \in 1 .. n : b[i].val # Deleted
        /\ Len(b) = n + Cardinality(VisibleChunks \ new)
        /\ {b[i].rec : i \in n + 1 .. Len(b)} = VisibleChunks \ new
        /\ \A i \in n + 1 .. Len(b) : b[i].val = Deleted

ReplaceParentChunks(t) ==
    \E new \in SUBSET Chunks \ {{}} : \E b \in Batches :
        IsReplacement(b, new) /\ AppendBatch(t, b)

\* No visible chunk: the handler returns before it touches the log.
DeleteParentDocument(t) ==
    /\ VisibleChunks # {}
    /\ \E b \in Batches :
          /\ Len(b) = Cardinality(VisibleChunks)
          /\ {b[i].rec : i \in DOMAIN b} = VisibleChunks
          /\ \A i \in DOMAIN b : b[i].val = Deleted
          /\ AppendBatch(t, b)

\* write_all or sync_data returned an error after some bytes reached the file;
\* neither next_sequence nor last_sequence moves.
AppendFails(t) ==
    /\ FailedAppends
    /\ CanFail
    /\ \E b \in Batches : \E k \in 0 .. Len(b), torn \in BOOLEAN :
          AppendEnabled(t, b) /\ PartialAppend(b, k, torn)
    /\ faults' = faults + 1
    /\ UNCHANGED <<segFiles, ckptFile, hnswFile, mode, memory, pc, staged, committed>>

-----------------------------------------------------------------------------
(* seal_collection *)

\* A compaction request goes on after it has sealed; a write is done.
AfterSeal(t) == IF t \in Compactors THEN "compactCheck" ELSE "idle"

MaySeal(t) ==
    /\ mode = "up"
    /\ pc[t] = "sealDue"
    /\ LockFree

SealNothing(t) ==
    /\ MaySeal(t)
    /\ mutable = {}
    /\ Goto(t, AfterSeal(t))
    /\ UNCHANGED <<disk, mode, memory, staged, faults, ghost>>

SealPublishSegment(t) ==
    /\ MaySeal(t)
    /\ mutable # {}
    /\ \E id \in SegmentIds :
          /\ IsNextSegmentId(id)
          /\ segFiles' = WithSegment(segFiles, id, Newest(mutable))
          /\ staged' = id
    /\ Goto(t, "sealing")
    /\ UNCHANGED <<wal, ckptFile, hnswFile, mode, memory, faults, ghost>>

\* publish_atomic fails before or after its rename.
SealSegmentFails(t) ==
    /\ MaySeal(t)
    /\ mutable # {}
    /\ CanFail
    /\ \E id \in SegmentIds :
          /\ IsNextSegmentId(id)
          /\ segFiles' \in {segFiles, WithSegment(segFiles, id, Newest(mutable))}
    /\ Goto(t, "idle")
    /\ faults' = faults + 1
    /\ UNCHANGED <<wal, ckptFile, hnswFile, mode, memory, staged, ghost>>

SealedIds ==
    {staged} \cup IF checkpoint = NoCheckpoint THEN DOMAIN segments ELSE checkpoint.ids

\* Mutant: the checkpoint represents the oldest mutation of the overlay.
SealCheckpointOldest(c) ==
    \E low \in SequencesOf(mutable) :
        /\ \A s \in SequencesOf(mutable) : low <= s
        /\ c = [ids |-> SealedIds, seq |-> low]

SealCheckpoint(c) ==
    \E top \in SequencesOf(mutable) :
        IsMaximum(top, SequencesOf(mutable)) /\ c = [ids |-> SealedIds, seq |-> top]

SealPublishCheckpoint(t) ==
    /\ pc[t] = "sealing"
    /\ \E c \in Checkpoint : SealCheckpoint(c) /\ ckptFile' = c
    /\ Goto(t, "sealed")
    /\ UNCHANGED <<wal, segFiles, hnswFile, mode, memory, staged, faults, ghost>>

SealCheckpointFails(t) ==
    /\ pc[t] = "sealing"
    /\ CanFail
    /\ \E c \in Checkpoint : SealCheckpoint(c) /\ ckptFile' \in {ckptFile, c}
    /\ Return(t, "idle")
    /\ faults' = faults + 1
    /\ UNCHANGED <<wal, segFiles, hnswFile, mode, memory, ghost>>

\* Mutant: the new segment is not opened.
InstallWithoutSegment ==
    /\ mutable' = {}
    /\ hnsw' = NoIndex
    /\ checkpoint' = ckptFile
    /\ UNCHANGED segments

\* The in-memory switch to the new checkpoint.
InstallSealed ==
    /\ segments' = WithSegment(segments, staged, segFiles[staged])
    /\ mutable' = {}
    /\ hnsw' = NoIndex
    /\ checkpoint' = ckptFile

\* The log is replaced by an empty one and the writer reopened on it.
SealReclaim(t) ==
    /\ pc[t] = "sealed"
    /\ InstallSealed
    /\ wal' = <<>>
    /\ writer' = TRUE
    /\ walLast' = 0
    /\ Goto(t, "sealIndexing")
    /\ UNCHANGED <<segFiles, ckptFile, hnswFile, mode, nextSeq, staged, faults, ghost>>

\* reclaim_wal fails before or after its rename, or the log cannot be
\* reopened. The old writer is gone; the new one is None if the open fails.
SealReclaimFails(t) ==
    /\ pc[t] = "sealed"
    /\ CanFail
    /\ InstallSealed
    /\ wal' \in {wal, <<>>}
    /\ \/ /\ writer' = FALSE
          /\ walLast' = 0
       \/ /\ ~Regresses(wal')
          /\ writer' = TRUE
          /\ walLast' \in Sequence
          /\ IF Replayed(wal') = {} THEN walLast' = 0
             ELSE IsMaximum(walLast', SequencesOf(Replayed(wal')))
    /\ Return(t, "idle")
    /\ faults' = faults + 1
    /\ UNCHANGED <<segFiles, ckptFile, hnswFile, mode, nextSeq, ghost>>

-----------------------------------------------------------------------------
(* rebuild_hnsw, the last step of sealing and of compaction *)

BuiltIndex == Visible(Contents(segments))

AfterIndex(t) == IF pc[t] = "sealIndexing" THEN AfterSeal(t) ELSE "idle"

RebuildIndex(t) ==
    /\ pc[t] \in {"sealIndexing", "compactIndexing"}
    /\ hnsw' = BuiltIndex
    /\ hnswFile' = [ckpt |-> checkpoint, versions |-> BuiltIndex]
    /\ Return(t, AfterIndex(t))
    /\ UNCHANGED <<wal, segFiles, ckptFile, mode, segments, mutable, checkpoint,
                   nextSeq, writer, walLast, faults, ghost>>

\* The snapshot is not published, or the index not even built: the handler
\* still succeeds.
RebuildIndexFails(t) ==
    /\ pc[t] \in {"sealIndexing", "compactIndexing"}
    /\ CanFail
    /\ hnsw' \in {BuiltIndex, NoIndex}
    /\ Return(t, AfterIndex(t))
    /\ faults' = faults + 1
    /\ UNCHANGED <<wal, segFiles, ckptFile, hnswFile, mode, segments, mutable,
                   checkpoint, nextSeq, writer, walLast, ghost>>

-----------------------------------------------------------------------------
(* compact_collection *)

CompactStart(t) ==
    /\ mode = "up"
    /\ t \in Compactors
    /\ pc[t] = "idle"
    /\ LockFree
    /\ Goto(t, IF mutable # {} THEN "sealDue" ELSE "compactCheck")
    /\ UNCHANGED <<disk, mode, memory, staged, faults, ghost>>

\* Between the check and the work the task waits for a resource permit
\* without the lock.
CompactCheck(t) ==
    /\ pc[t] = "compactCheck"
    /\ LockFree
    /\ Goto(t, IF Cardinality(DOMAIN segments) >= 2 THEN "compactDue" ELSE "idle")
    /\ UNCHANGED <<disk, mode, memory, staged, faults, ghost>>

CompactRevalidateFails(t) ==
    /\ pc[t] = "compactDue"
    /\ LockFree
    /\ Cardinality(DOMAIN segments) < 2
    /\ Goto(t, "idle")
    /\ UNCHANGED <<disk, mode, memory, staged, faults, ghost>>

MayCompact(t) ==
    /\ pc[t] = "compactDue"
    /\ LockFree
    /\ Cardinality(DOMAIN segments) >= 2

\* compact_segments keeps the newest version of every record, tombstones too.
Compacted == Newest(Contents(segments))

CompactPublishSegment(t) ==
    /\ MayCompact(t)
    /\ \E id \in SegmentIds :
          /\ IsNextSegmentId(id)
          /\ segFiles' = WithSegment(segFiles, id, Compacted)
          /\ staged' = id
    /\ Goto(t, "compacting")
    /\ UNCHANGED <<wal, ckptFile, hnswFile, mode, memory, faults, ghost>>

CompactSegmentFails(t) ==
    /\ MayCompact(t)
    /\ CanFail
    /\ \E id \in SegmentIds :
          /\ IsNextSegmentId(id)
          /\ segFiles' \in {segFiles, WithSegment(segFiles, id, Compacted)}
    /\ Goto(t, "idle")
    /\ faults' = faults + 1
    /\ UNCHANGED <<wal, ckptFile, hnswFile, mode, memory, staged, ghost>>

\* Mutant: the checkpoint claims everything accepted so far.
CompactCheckpointLatest(c) == c.ids = {staged} /\ c.seq = nextSeq - 1

\* represented_sequence: the old checkpoint's, else the segments' maximum.
CompactCheckpoint(c) ==
    /\ c.ids = {staged}
    /\ IF checkpoint # NoCheckpoint THEN c.seq = checkpoint.seq
       ELSE IsMaximum(c.seq, SequencesOf(Contents(segments)))

CompactPublishCheckpoint(t) ==
    /\ pc[t] = "compacting"
    /\ \E c \in Checkpoint : CompactCheckpoint(c) /\ ckptFile' = c
    /\ Goto(t, "compacted")
    /\ UNCHANGED <<wal, segFiles, hnswFile, mode, memory, staged, faults, ghost>>

CompactCheckpointFails(t) ==
    /\ pc[t] = "compacting"
    /\ CanFail
    /\ \E c \in Checkpoint : CompactCheckpoint(c) /\ ckptFile' \in {ckptFile, c}
    /\ Return(t, "idle")
    /\ faults' = faults + 1
    /\ UNCHANGED <<wal, segFiles, hnswFile, mode, memory, ghost>>

CompactInstall(t) ==
    /\ pc[t] = "compacted"
    /\ segments' = OnlySegments(segFiles, {staged})
    /\ hnsw' = NoIndex
    /\ checkpoint' = ckptFile
    /\ Goto(t, "collecting")
    /\ UNCHANGED <<disk, mode, mutable, nextSeq, writer, walLast, staged, faults, ghost>>

\* Every segment file the new checkpoint does not name.
Garbage == DOMAIN segFiles \ checkpoint.ids

CollectSegment(t) ==
    /\ pc[t] = "collecting"
    /\ \E id \in Garbage : segFiles' = OnlySegments(segFiles, DOMAIN segFiles \ {id})
    /\ UNCHANGED <<wal, ckptFile, hnswFile, mode, memory, pc, staged, faults, ghost>>

CollectDone(t) ==
    /\ pc[t] = "collecting"
    /\ Garbage = {}
    /\ Goto(t, "compactIndexing")
    /\ UNCHANGED <<disk, mode, memory, staged, faults, ghost>>

CollectFails(t) ==
    /\ pc[t] = "collecting"
    /\ CanFail
    /\ Return(t, "idle")
    /\ faults' = faults + 1
    /\ UNCHANGED <<disk, mode, memory, ghost>>

-----------------------------------------------------------------------------
(* Dropped requests, crash and recovery *)

\* The caller hangs up: the handler's future is dropped at the await where it
\* is waiting for the lock or a permit. What it has done so far stays.
HandlerDropped(t) ==
    /\ pc[t] \in Unlocked \ {"idle"}
    /\ CanFail
    /\ Goto(t, "idle")
    /\ faults' = faults + 1
    /\ UNCHANGED <<disk, mode, memory, staged, ghost>>

LoseMemory ==
    /\ mode' = "down"
    /\ segments' = <<>>
    /\ mutable' = {}
    /\ checkpoint' = NoCheckpoint
    /\ nextSeq' = 1
    /\ writer' = FALSE
    /\ walLast' = 0
    /\ hnsw' = NoIndex
    /\ pc' = [t \in Tasks |-> "idle"]
    /\ staged' = 0

Crash ==
    /\ mode = "up"
    /\ CanFail
    /\ LoseMemory
    /\ faults' = faults + 1
    /\ UNCHANGED <<disk, ghost>>

\* The process dies inside append_batch, before the write is acknowledged.
CrashInAppend ==
    /\ CanFail
    /\ \E t \in Writers, b \in Batches : \E k \in 0 .. Len(b), torn \in BOOLEAN :
          /\ AppendEnabled(t, b)
          /\ torn => TornAppends
          /\ PartialAppend(b, k, torn)
    /\ LoseMemory
    /\ faults' = faults + 1
    /\ UNCHANGED <<segFiles, ckptFile, hnswFile, committed>>

\* recover_with_threshold opens the segments the checkpoint names, and checks
\* that none of them is newer than the checkpoint.
CheckpointLoads ==
    ckptFile # NoCheckpoint =>
        \A id \in ckptFile.ids :
            /\ id \in DOMAIN segFiles
            /\ \A m \in segFiles[id] : m.seq <= ckptFile.seq

\* With a checkpoint only its segments are opened, without one every segment
\* file found is; the log entries the checkpoint covers are skipped.
RecoveredSegments ==
    IF ckptFile = NoCheckpoint THEN segFiles ELSE OnlySegments(segFiles, ckptFile.ids)
\* Mutant: the first entry after the checkpoint is skipped too.
RecoveredMutableLate ==
    {m \in Replayed(wal) : m.seq > CheckpointSequence(ckptFile) + 1}
RecoveredMutable ==
    {m \in Replayed(wal) : m.seq > CheckpointSequence(ckptFile)}
\* Mutant: only the log is asked for the last sequence number.
RecoveredLogSequences == SequencesOf(RecoveredMutable)
RecoveredSequences ==
    SequencesOf(Contents(RecoveredSegments) \cup RecoveredMutable)
        \cup {CheckpointSequence(ckptFile)}

\* Mutant: whatever snapshot is found is taken.
RestoreAnyIndex ==
    IF RecoveredMutable # {} \/ ckptFile = NoCheckpoint
    THEN hnsw' = NoIndex /\ UNCHANGED hnswFile
    ELSE IF hnswFile # NoIndex
    THEN hnsw' = hnswFile.versions /\ UNCHANGED hnswFile
    ELSE hnsw' = Visible(Contents(RecoveredSegments)) /\ UNCHANGED hnswFile

\* The index snapshot is loaded if its fingerprint is the checkpoint's, else
\* rebuilt from the segments and published (as far as publishing succeeds).
RestoreIndex ==
    IF RecoveredMutable # {} \/ ckptFile = NoCheckpoint
    THEN hnsw' = NoIndex /\ UNCHANGED hnswFile
    ELSE IF hnswFile # NoIndex /\ hnswFile.ckpt = ckptFile
    THEN hnsw' = hnswFile.versions /\ UNCHANGED hnswFile
    ELSE LET built == Visible(Contents(RecoveredSegments)) IN
         /\ hnsw' = built
         /\ hnswFile' \in {hnswFile, [ckpt |-> ckptFile, versions |-> built]}

\* A frame that was written but never acknowledged joins the collection here.
Recover ==
    /\ mode = "down"
    /\ CheckpointLoads
    /\ ~Regresses(wal)
    /\ mode' = "up"
    /\ segments' = RecoveredSegments
    /\ mutable' = RecoveredMutable
    /\ checkpoint' = ckptFile
    /\ nextSeq' \in 1 .. MaxSequence + 1
    /\ IsSuccessor(nextSeq', RecoveredSequences)
    /\ writer' = TRUE
    /\ walLast' \in Sequence
    /\ IF Replayed(wal) = {} THEN walLast' = 0
       ELSE IsMaximum(walLast', SequencesOf(Replayed(wal)))
    /\ RestoreIndex
    /\ committed' = committed \cup RecoveredMutable
    /\ UNCHANGED <<wal, segFiles, ckptFile, pc, staged, faults, damaged>>

RecoverRefused ==
    /\ mode = "down"
    /\ ~CheckpointLoads \/ Regresses(wal) \/ HasBytesAfterTear(wal)
    /\ mode' = "refused"
    /\ UNCHANGED <<disk, memory, pc, staged, faults, ghost>>

-----------------------------------------------------------------------------
Init ==
    /\ wal = <<>>
    /\ segFiles = <<>>
    /\ ckptFile = NoCheckpoint
    /\ hnswFile = NoIndex
    /\ mode = "up"
    /\ segments = <<>>
    /\ mutable = {}
    /\ checkpoint = NoCheckpoint
    /\ nextSeq = 1
    /\ writer = TRUE
    /\ walLast = 0
    /\ hnsw = NoIndex
    /\ pc = [t \in Tasks |-> "idle"]
    /\ staged = 0
    /\ faults = 0
    /\ committed = {}
    /\ damaged = FALSE

WriteStep(t) ==
    \/ UpsertBatch(t) \/ Delete(t) \/ ReplaceParentChunks(t)
    \/ DeleteParentDocument(t) \/ AppendFails(t)

SealStep(t) ==
    \/ SealNothing(t) \/ SealPublishSegment(t) \/ SealSegmentFails(t)
    \/ SealPublishCheckpoint(t) \/ SealCheckpointFails(t)
    \/ SealReclaim(t) \/ SealReclaimFails(t)

IndexStep(t) == RebuildIndex(t) \/ RebuildIndexFails(t)

CompactStep(t) ==
    \/ CompactCheck(t) \/ CompactRevalidateFails(t)
    \/ CompactPublishSegment(t) \/ CompactSegmentFails(t)
    \/ CompactPublishCheckpoint(t) \/ CompactCheckpointFails(t)
    \/ CompactInstall(t) \/ CollectSegment(t) \/ CollectDone(t) \/ CollectFails(t)

Next ==
    \/ \E t \in Tasks :
         \/ WriteStep(t) \/ SealStep(t) \/ IndexStep(t)
         \/ CompactStart(t) \/ CompactStep(t) \/ HandlerDropped(t)
    \/ Crash \/ CrashInAppend \/ Recover \/ RecoverRefused

Spec == Init /\ [][Next]_vars

\* A handler that has started goes on: tokio polls it, and its RwLock serves
\* waiting tasks in order. Nothing forces a client to call, or a restart.
FairSpec ==
    Spec /\ \A t \in Tasks : WF_vars(SealStep(t) \/ IndexStep(t) \/ CompactStep(t))

-----------------------------------------------------------------------------
(* Properties *)

\* The state variables hold values of the types the code gives them.
TypeOK ==
    /\ wal \in Seq(Mutation \cup {Torn})
    /\ DOMAIN segFiles \subseteq SegmentIds
    /\ \A id \in DOMAIN segFiles : segFiles[id] \subseteq Mutation
    /\ ckptFile \in Checkpoint \cup {NoCheckpoint}
    /\ mode \in {"up", "down", "refused"}
    /\ DOMAIN segments \subseteq SegmentIds
    /\ \A id \in DOMAIN segments : segments[id] \subseteq Mutation
    /\ mutable \subseteq Mutation
    /\ checkpoint \in Checkpoint \cup {NoCheckpoint}
    /\ nextSeq \in 1 .. MaxSequence + 1
    /\ writer \in BOOLEAN
    /\ walLast \in Sequence
    /\ pc \in [Tasks -> Unlocked \cup Locked]
    /\ staged \in SegmentIds \cup {0}
    /\ faults \in 0 .. MaxFaults
    /\ committed \subseteq Mutation
    /\ damaged \in BOOLEAN

\* Queries see exactly the newest accepted version of every record, through
\* writes, seals, compactions, I/O errors in them, crashes and recoveries:
\* nothing accepted is lost, no older version and no deleted record returns.
\* It holds as long as no append landed after an unclean log tail.
AcceptedWritesVisible ==
    mode = "up" /\ ~damaged => Visible(View) = Visible(committed)

\* What recovery would rebuild from the files as they are now.
DurableView == Contents(RecoveredSegments) \cup RecoveredMutable

\* At every step of every handler the files alone determine every accepted
\* write: were the process to die now, recovery would bring back a version at
\* least as new of every accepted record. A seal must not let the checkpoint
\* overtake its segment, nor reclaim the log before the checkpoint.
DurableAtEveryStep ==
    ~damaged =>
        \A m \in committed : \E n \in DurableView : n.rec = m.rec /\ n.seq >= m.seq

\* Recovery never refuses the files the program itself wrote: every segment
\* the checkpoint names exists and is no newer, the log's sequence numbers
\* increase.
RestartNotRefused == ~damaged => mode # "refused"

\* An HNSW index that queries may use (the overlay is empty) indexes the
\* current records, also when it was loaded from a snapshot file published
\* for another checkpoint.
IndexAgreesWithRecords ==
    mode = "up" /\ ~damaged /\ mutable = {} /\ hnsw # NoIndex
        => hnsw = Visible(committed)

\* A collection that holds unsealed mutations still has its log writer: the
\* only way to lose the writer is a seal, which empties the overlay.
UnsealedImpliesWriter == mode = "up" /\ mutable # {} => writer

\* Two accepted mutations never share a sequence number.
SequencesUnique ==
    ~damaged => \A m, n \in committed : m.seq = n.seq => m = n

\* A segment file is immutable: no step gives an existing id other contents.
SegmentsImmutable ==
    [][\A id \in DOMAIN segFiles \cap DOMAIN segFiles' :
          segFiles'[id] = segFiles[id]]_vars

\* Every handler that is waiting for the lock or between two file operations
\* ends: a seal or a compaction never loops and never waits for another one
\* that waits for it.
HandlersReturn == \A t \in Tasks : pc[t] # "idle" ~> pc[t] = "idle"

\* Without faults an overlay that reached the threshold is sealed: the write
\* that filled it does not return before some task has emptied it.
FullOverlayIsSealed ==
    (faults = 0 /\ Cardinality(mutable) >= SealThreshold) ~> (mutable = {} \/ faults > 0)

\* docs/concepts/storage-and-consistency.md:7, of any crash and any failed
\* append: a restart reconstructs acknowledged data. (Refuted, see README.)
RestartReconstructs == committed # {} => mode # "refused"
=============================================================================
