----------------------- MODULE CollectionStoreInvariant -----------------------
(***************************************************************************)
(* The inductive invariant of CollectionStore: what relates the log, the   *)
(* segment files and the checkpoint to the runtime and to the history of   *)
(* accepted mutations, at every step of every handler.                     *)
(***************************************************************************)
EXTENDS CollectionStore

\* Some version in M is at least as new as m.
CoveredBy(m, M) == \E n \in M : n.rec = m.rec /\ n.seq >= m.seq

\* The lock has at most one holder, and only a running process has tasks.
LockInv ==
    /\ \A t, u \in Tasks : pc[t] \in Locked /\ pc[u] \in Locked => t = u
    /\ mode # "up" => \A t \in Tasks : pc[t] = "idle"
    /\ \A t \in Tasks :
         pc[t] \in {"compactCheck", "compactDue", "compacting", "compacted",
                    "collecting", "compactIndexing"} => t \in Compactors

\* The handler that is between publishing a segment and installing it finds
\* the file it published.
StagedInv ==
    \A t \in Tasks :
        pc[t] \in {"sealing", "sealed", "compacting", "compacted"} =>
            staged \in DOMAIN segFiles

WriterInv == mode = "up" /\ mutable # {} => writer

BaseInv == TypeOK /\ LockInv /\ StagedInv /\ WriterInv

\* The log is whole up to its last frame, and increasing.
LogInv ==
    \A i, j \in 1 .. Len(wal) : i < j =>
        /\ wal[i] # Torn
        /\ wal[j] # Torn => wal[i].seq < wal[j].seq

\* A frame in the log is an accepted mutation, or newer than all of them.
FrameInv ==
    \A i \in 1 .. Len(wal) :
        \/ wal[i] = Torn
        \/ wal[i] \in committed
        \/ /\ \A m \in committed : m.seq < wal[i].seq
           /\ mode = "up" => nextSeq <= wal[i].seq

HistoryInv ==
    /\ \A m, n \in committed : m.seq = n.seq => m = n
    /\ mode = "up" => \A m \in committed : m.seq < nextSeq

\* Segment files and the published checkpoint; together with the log they
\* cover every accepted mutation.
FilesInv ==
    /\ \A id \in DOMAIN segFiles : segFiles[id] \subseteq committed
    /\ ckptFile # NoCheckpoint =>
         /\ ckptFile.ids \subseteq DOMAIN segFiles
         /\ \A id \in ckptFile.ids : \A m \in segFiles[id] : m.seq <= ckptFile.seq
         /\ ckptFile.seq \in SequencesOf(committed)
    /\ \A m \in committed :
         IF m.seq > CheckpointSequence(ckptFile)
         THEN \E i \in 1 .. Len(wal) : wal[i] = m
         ELSE \E id \in ckptFile.ids : CoveredBy(m, segFiles[id])

\* The same for the runtime: what its checkpoint does not represent is in the
\* overlay, and the overlay is in the log.
RuntimeInv ==
    mode = "up" =>
        /\ mutable \subseteq committed
        /\ \A m \in mutable : m.seq > CheckpointSequence(checkpoint)
        /\ \A m \in mutable : \E i \in 1 .. Len(wal) : wal[i] = m
        /\ DOMAIN segments \subseteq DOMAIN segFiles
        /\ \A id \in DOMAIN segments : segments[id] = segFiles[id]
        /\ checkpoint # NoCheckpoint =>
             /\ checkpoint.ids = DOMAIN segments
             /\ \A m \in Contents(segments) : m.seq <= checkpoint.seq
             /\ checkpoint.seq \in SequencesOf(committed)
        /\ \A m \in committed :
             IF m.seq > CheckpointSequence(checkpoint)
             THEN m \in mutable
             ELSE CoveredBy(m, Contents(segments))

\* What the lock holder has established so far.
StageInv ==
    \A t \in Tasks :
        /\ pc[t] \in {"sealing", "sealed"} =>
             segFiles[staged] = Newest(mutable)
        /\ pc[t] = "sealed" => SealCheckpoint(ckptFile)
        /\ pc[t] \in {"compacting", "compacted"} =>
             segFiles[staged] = Newest(Contents(segments))
        /\ pc[t] = "compacted" => ckptFile \in Checkpoint /\ CompactCheckpoint(ckptFile)
        /\ pc[t] = "collecting" => checkpoint = ckptFile /\ checkpoint # NoCheckpoint
        /\ pc[t] \in {"sealIndexing", "compactCheck", "compactDue", "compacting", "compacted"}
             /\ checkpoint = NoCheckpoint => Contents(segments) = {}

SafeInv ==
    /\ HistoryInv
    /\ LogInv
    /\ FrameInv
    /\ FilesInv
    /\ RuntimeInv
    /\ StageInv

\* The inductive invariant: everything below the lock holds as long as nothing
\* was appended after an unclean tail.
IInv == BaseInv /\ (~damaged => mode # "refused" /\ SafeInv)

\* The accepted mutations a checkpoint with sequence n stands for.
Represented(n) == {m \in committed : m.seq <= n}

\* The index in memory shows the current records whenever the overlay does not hide it. The
\* snapshot on disk shows what its own checkpoint represents, however far the collection has
\* moved on since: that is what makes comparing checkpoints at recovery enough.
IndexInv ==
    /\ mode = "up" /\ mutable = {} /\ hnsw # NoIndex => hnsw = Visible(committed)
    /\ hnswFile # NoIndex /\ hnswFile.ckpt # NoCheckpoint =>
         /\ hnswFile.ckpt.seq \in SequencesOf(committed)
         /\ hnswFile.versions = Visible(Represented(hnswFile.ckpt.seq))

\* With the index: what recovery loads and what queries may use.
IndexedInv == IInv /\ (~damaged => IndexInv)
=============================================================================
