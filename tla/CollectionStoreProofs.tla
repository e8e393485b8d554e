------------------------ MODULE CollectionStoreProofs ------------------------
(***************************************************************************)
(* Proofs about CollectionStore for any number of records, tasks, sequence *)
(* numbers, segments and faults.  First the types, the catalog lock and    *)
(* the log writer (BaseInv); then that accepted writes survive: SafeInv is *)
(* inductive as long as nothing is appended after an unclean log tail, and *)
(* what follows from it about queries, crashes and recovery; then the HNSW *)
(* index (IndexedInv); last that every step is a step of RecordStore or    *)
(* changes nothing a client sees (RefinementInv).                          *)
(***************************************************************************)
EXTENDS CollectionStoreRefinement, SequenceTheorems, NaturalsInduction,
        WellFoundedInduction, TLAPS

-----------------------------------------------------------------------------
(* Facts about the operators *)

\* A nonempty set of sequence numbers has a largest element.
LEMMA LargestSequence ==
    ASSUME NEW S, S \subseteq Sequence, S # {}
    PROVE  \E n \in S : \A s \in S : s <= n
<1> DEFINE Below == {MaxSequence - s : s \in S}
<1>1. MaxSequence \in Nat
  BY StoreAssumption
<1>2. Below \subseteq Nat /\ Below # {}
  <2>1. \A s \in S : MaxSequence - s \in Nat
    BY <1>1 DEF Sequence
  <2> QED BY <2>1
<1> DEFINE Less == {ss \in Nat \X Nat : ss[1] < ss[2]}
<1>3. PICK x \in Below : \A y \in Below : ~ (<<y, x>> \in Less)
  <2>1. IsWellFoundedOn(Less, Nat)
    BY NatLessThanWellFounded DEF OpToRel
  <2> HIDE DEF Less
  <2> QED BY <1>2, <2>1, WFMin
<1>4. \A y \in Below : x <= y
  <2>1. SUFFICES ASSUME NEW y \in Below PROVE x <= y
    OBVIOUS
  <2>2. x \in Nat /\ y \in Nat
    BY <1>2
  <2>3. ~ (y < x)
    <3>1. ~ (<<y, x>> \in Less)
      BY <1>3
    <3> HIDE DEF Below
    <3> QED BY <3>1, <2>2
  <2> HIDE DEF Below
  <2> QED BY <2>2, <2>3
<1>5. PICK n \in S : x = MaxSequence - n
  OBVIOUS
<1>6. ASSUME NEW s \in S PROVE s <= n
  <2>1. x <= MaxSequence - s
    BY <1>4
  <2>2. s \in Nat /\ n \in Nat
    BY DEF Sequence
  <2> HIDE DEF Below
  <2> QED BY <2>1, <2>2, <1>1, <1>5
<1> QED BY <1>5, <1>6

\* Merging by newest version loses no record: this is why a seal and a
\* compaction may drop the older versions.
LEMMA NewestCovers ==
    ASSUME NEW M, M \subseteq Mutation, NEW m \in M
    PROVE  CoveredBy(m, Newest(M))
<1> DEFINE S == {n.seq : n \in {k \in M : k.rec = m.rec}}
<1>1. S \subseteq Sequence /\ S # {}
  BY DEF Mutation
<1>2. PICK top \in S : \A s \in S : s <= top
  BY <1>1, LargestSequence
<1>3. PICK n \in M : n.rec = m.rec /\ n.seq = top
  OBVIOUS
<1>4. \A k \in M : k.rec = n.rec => k.seq <= n.seq
  BY <1>2, <1>3
<1>5. n \in Newest(M)
  BY <1>3, <1>4 DEF Newest
<1>6. n.seq >= m.seq
  BY <1>3, <1>4, <1>5 DEF Mutation, Sequence
<1> QED BY <1>3, <1>5, <1>6 DEF CoveredBy

\* If V holds only versions of C and covers all of C, both show the same
\* records to a query.
LEMMA CoverShowsSame ==
    ASSUME NEW C, C \subseteq Mutation, NEW V, V \subseteq C,
           \A m, n \in C : m.seq = n.seq => m = n,
           \A m \in C : CoveredBy(m, V)
    PROVE  Visible(V) = Visible(C)
<1>1. Newest(V) \subseteq Newest(C)
  <2>1. SUFFICES ASSUME NEW m \in Newest(V), NEW n \in C, n.rec = m.rec
                 PROVE  n.seq <= m.seq
    BY <2>1 DEF Newest
  <2>2. PICK k \in V : k.rec = n.rec /\ k.seq >= n.seq
    BY DEF CoveredBy
  <2>3. k.seq <= m.seq
    BY <2>1, <2>2 DEF Newest
  <2> QED BY <2>2, <2>3 DEF Mutation, Sequence, Newest
<1>2. Newest(C) \subseteq Newest(V)
  <2>1. SUFFICES ASSUME NEW m \in Newest(C) PROVE m \in V
    BY <2>1 DEF Newest
  <2>2. PICK k \in V : k.rec = m.rec /\ k.seq >= m.seq
    BY DEF CoveredBy, Newest
  <2>3. k.seq <= m.seq
    BY <2>2 DEF Newest
  <2>4. k.seq = m.seq
    BY <2>2, <2>3 DEF Mutation, Sequence, Newest
  <2> QED BY <2>2, <2>4 DEF Newest
<1> QED BY <1>1, <1>2 DEF Visible

\* A batch that fits is turned into frames with the next sequence numbers.
LEMMA FramesFact ==
    ASSUME TypeOK, NEW b \in Batches, nextSeq + Len(b) - 1 <= MaxSequence
    PROVE  /\ Len(b) \in Nat \ {0}
           /\ Frames(b) \in Seq(Mutation)
           /\ Len(Frames(b)) = Len(b)
           /\ \A i \in 1 .. Len(b) : /\ Frames(b)[i] \in Mutation
                                    /\ Frames(b)[i].seq = nextSeq + i - 1
<1>1. PICK n \in 1 .. MaxBatch : b \in [1 .. n -> Change]
  BY DEF Batches
<1>2. n \in Nat \ {0} /\ Len(b) = n
  BY <1>1, StoreAssumption
<1>3. nextSeq \in Nat \ {0} /\ MaxSequence \in Nat
  BY StoreAssumption DEF TypeOK
<1>4. ASSUME NEW i \in 1 .. n
      PROVE  /\ Frames(b)[i] \in Mutation
             /\ Frames(b)[i].seq = nextSeq + i - 1
  <2>1. b[i].rec \in Records /\ b[i].val \in Values \cup {Deleted}
    BY <1>1 DEF Change
  <2>2. nextSeq + i - 1 \in Sequence \ {0}
    BY <1>2, <1>3 DEF Sequence
  <2>3. Frames(b)[i] = [seq |-> nextSeq + i - 1, rec |-> b[i].rec, val |-> b[i].val]
    BY <1>2 DEF Frames
  <2> QED BY <2>1, <2>2, <2>3 DEF Mutation
<1>5. Frames(b) \in [1 .. n -> Mutation]
  BY <1>2, <1>4 DEF Frames
<1> QED BY <1>2, <1>4, <1>5

\* What an unfinished append adds: frames with the next sequence numbers, of
\* which only the last may be half written.
IsTail(G) ==
    /\ G \in Seq(Mutation \cup {Torn})
    /\ \A i \in 1 .. Len(G) :
         \/ G[i] = Torn /\ i = Len(G)
         \/ G[i] \in Mutation /\ G[i].seq = nextSeq + i - 1

LEMMA TornIsNoMutation == Torn \notin Mutation
<1>1. Mutation \subseteq [seq : Nat, rec : Records, val : Values \cup {Deleted}]
  BY StoreAssumption DEF Mutation, Sequence
<1> QED BY <1>1, StoreAssumption

LEMMA PartialFact ==
    ASSUME TypeOK, NEW b \in Batches, nextSeq + Len(b) - 1 <= MaxSequence,
           NEW k \in 0 .. Len(b), NEW torn \in BOOLEAN
    PROVE  IsTail(SubSeq(Frames(b), 1, k) \o Tear(torn))
<1> DEFINE F == SubSeq(Frames(b), 1, k)
           T == Tear(torn)
<1>1. /\ Len(b) \in Nat \ {0}
      /\ \A i \in 1 .. Len(b) : /\ Frames(b)[i] \in Mutation
                               /\ Frames(b)[i].seq = nextSeq + i - 1
  BY FramesFact
<1>2. k \in Nat /\ k <= Len(b)
  BY <1>1
<1>3. /\ F \in Seq(Mutation \cup {Torn})
      /\ Len(F) = k
      /\ \A i \in 1 .. k : F[i] = Frames(b)[i]
  <2>1. \A i \in 1 .. k : Frames(b)[i] \in Mutation \cup {Torn}
    BY <1>1, <1>2
  <2>2. /\ F \in Seq(Mutation \cup {Torn})
        /\ Len(F) = IF 1 <= k THEN k - 1 + 1 ELSE 0
        /\ \A i \in 1 .. k - 1 + 1 : F[i] = Frames(b)[1 + i - 1]
    BY <1>2, <2>1, SubSeqProperties
  <2> QED BY <1>2, <2>2
<1>4. T \in Seq(Mutation \cup {Torn}) /\ Len(T) \in {0, 1} /\ (Len(T) = 1 => T[1] = Torn)
  <2>1. CASE torn
    <3>1. T = <<Torn>>
      BY <2>1 DEF Tear
    <3> HIDE DEF T
    <3> QED BY <3>1
  <2>2. CASE ~torn
    <3>1. T = <<>>
      BY <2>2 DEF Tear
    <3> HIDE DEF T
    <3> QED BY <3>1
  <2> QED BY <2>1, <2>2
<1> HIDE DEF F, T
<1>5. /\ F \o T \in Seq(Mutation \cup {Torn})
      /\ Len(F \o T) = k + Len(T)
      /\ \A i \in 1 .. k + Len(T) : (F \o T)[i] = IF i <= k THEN F[i] ELSE T[i - k]
  BY <1>3, <1>4, ConcatProperties
<1>6. ASSUME NEW i \in 1 .. Len(F \o T)
      PROVE  \/ (F \o T)[i] = Torn /\ i = Len(F \o T)
             \/ (F \o T)[i] \in Mutation /\ (F \o T)[i].seq = nextSeq + i - 1
  <2>1. CASE i <= k
    <3>1. i \in 1 .. k /\ i \in 1 .. Len(b) /\ i \in 1 .. k + Len(T)
      BY <1>1, <1>2, <1>5, <2>1
    <3>2. (F \o T)[i] = Frames(b)[i]
      BY <1>3, <1>5, <2>1, <3>1
    <3> QED BY <1>1, <3>1, <3>2
  <2>2. CASE i > k
    <3>1. Len(T) = 1 /\ i = k + 1
      BY <1>2, <1>4, <1>5, <2>2
    <3>2. (F \o T)[i] = T[1]
      BY <1>2, <1>5, <2>2, <3>1
    <3> QED BY <1>4, <1>5, <3>1, <3>2
  <2> QED BY <1>2, <1>5, <2>1, <2>2
<1> QED BY <1>5, <1>6 DEF IsTail, F, T

-----------------------------------------------------------------------------
(* Types, the lock and the log writer *)

LEMMA BaseInit == Init => BaseInv
<1> SUFFICES ASSUME Init PROVE BaseInv
  OBVIOUS
<1>1. 0 \in Sequence /\ 1 \in 1 .. MaxSequence + 1 /\ 0 \in 0 .. MaxFaults
  BY StoreAssumption DEF Sequence
<1>2. wal \in Seq(Mutation \cup {Torn})
  BY DEF Init
<1>3. DOMAIN segFiles = {} /\ DOMAIN segments = {}
  BY DEF Init
<1>4. TypeOK
  BY <1>1, <1>2, <1>3 DEF Init, TypeOK, Unlocked
<1>5. LockInv /\ StagedInv /\ WriterInv
  BY DEF Init, LockInv, StagedInv, WriterInv, Locked
<1> QED BY <1>4, <1>5 DEF BaseInv

LEMMA AppendKeepsBase ==
    ASSUME BaseInv, NEW t \in Tasks, NEW b \in Batches, AppendBatch(t, b)
    PROVE  BaseInv'
<1>1. nextSeq + Len(b) - 1 <= MaxSequence
  BY DEF AppendBatch, AppendEnabled
<1>2. /\ Len(b) \in Nat \ {0}
      /\ Frames(b) \in Seq(Mutation)
      /\ Len(Frames(b)) = Len(b)
      /\ \A i \in 1 .. Len(b) : Frames(b)[i] \in Mutation
  BY <1>1, FramesFact DEF BaseInv
<1>3. FrameSet(Frames(b)) \subseteq Mutation
  BY <1>2 DEF FrameSet
<1>4. wal' \in Seq(Mutation \cup {Torn})
  <2>1. Frames(b) \in Seq(Mutation \cup {Torn})
    BY <1>2, SeqMonotonic
  <2> QED BY <2>1, ConcatProperties DEF AppendBatch, BaseInv, TypeOK
<1>5. nextSeq' \in 1 .. MaxSequence + 1 /\ walLast' \in Sequence
  BY <1>1, <1>2, StoreAssumption DEF AppendBatch, BaseInv, TypeOK, Sequence
<1>6. TypeOK'
  BY <1>3, <1>4, <1>5 DEF AppendBatch, AfterAppend, Goto, BaseInv, TypeOK, Unlocked
<1>7. (LockInv /\ StagedInv /\ WriterInv)'
  BY DEF AppendBatch, AfterAppend, AppendEnabled, LockFree, Goto, BaseInv, TypeOK, LockInv,
         StagedInv, WriterInv, Locked, Unlocked
<1> QED BY <1>6, <1>7 DEF BaseInv

\* An append that did not finish: the log is still a sequence of frames.
LEMMA PartialKeepsLogType ==
    ASSUME BaseInv, NEW t \in Tasks, NEW b \in Batches, AppendEnabled(t, b),
           NEW k \in 0 .. Len(b), NEW torn \in BOOLEAN, PartialAppend(b, k, torn)
    PROVE  wal' \in Seq(Mutation \cup {Torn}) /\ damaged' \in BOOLEAN
<1> DEFINE G == SubSeq(Frames(b), 1, k) \o Tear(torn)
<1>1. G \in Seq(Mutation \cup {Torn})
  BY PartialFact DEF AppendEnabled, BaseInv, IsTail
<1>2. wal' = wal \o G
  BY DEF PartialAppend
<1> HIDE DEF G
<1>3. wal' \in Seq(Mutation \cup {Torn})
  BY <1>1, <1>2, ConcatProperties DEF BaseInv, TypeOK
<1> QED BY <1>3 DEF PartialAppend, BaseInv, TypeOK

LEMMA TaskKeepsBase ==
    ASSUME BaseInv, NEW t \in Tasks, SealStep(t) \/ IndexStep(t) \/ CompactStart(t) \/ CompactStep(t)
    PROVE  BaseInv'
<1>0. /\ 0 \in Sequence
      /\ MaxFaults \in Nat
      /\ <<>> \in Seq(Mutation \cup {Torn})
      /\ Tasks = Writers \cup Compactors
  BY StoreAssumption, EmptySeq DEF Sequence, Tasks
<1>1. CASE SealNothing(t)
  BY <1>0, <1>1 DEF SealNothing, MaySeal, LockFree, AfterSeal, disk, memory, ghost, Goto, Return, BaseInv, TypeOK, LockInv, StagedInv, WriterInv, Locked, Unlocked
<1>2. CASE SealPublishSegment(t)
  BY <1>0, <1>2 DEF SealPublishSegment, MaySeal, LockFree, WithSegment, Newest, disk, memory, ghost, Goto, Return, BaseInv, TypeOK, LockInv, StagedInv, WriterInv, Locked, Unlocked
<1>3. CASE SealSegmentFails(t)
  BY <1>0, <1>3 DEF SealSegmentFails, MaySeal, LockFree, WithSegment, Newest, CanFail, disk, memory, ghost, Goto, Return, BaseInv, TypeOK, LockInv, StagedInv, WriterInv, Locked, Unlocked
<1>4. CASE SealPublishCheckpoint(t)
  BY <1>0, <1>4 DEF SealPublishCheckpoint, disk, memory, ghost, Goto, Return, BaseInv, TypeOK, LockInv, StagedInv, WriterInv, Locked, Unlocked
<1>5. CASE SealCheckpointFails(t)
  BY <1>0, <1>5 DEF SealCheckpointFails, CanFail, disk, memory, ghost, Goto, Return, BaseInv, TypeOK, LockInv, StagedInv, WriterInv, Locked, Unlocked
<1>6. CASE SealReclaim(t)
  BY <1>0, <1>6 DEF SealReclaim, InstallSealed, WithSegment, disk, memory, ghost, Goto, Return, BaseInv, TypeOK, LockInv, StagedInv, WriterInv, Locked, Unlocked
<1>7. CASE SealReclaimFails(t)
  <2>1. pc[t] = "sealed" /\ staged \in DOMAIN segFiles
    BY <1>7 DEF SealReclaimFails, BaseInv, StagedInv
  <2>2. wal' \in Seq(Mutation \cup {Torn}) /\ walLast' \in Sequence /\ writer' \in BOOLEAN
    BY <1>0, <1>7 DEF SealReclaimFails, BaseInv, TypeOK
  <2>3. TypeOK'
    BY <1>0, <1>7, <2>1, <2>2
       DEF SealReclaimFails, CanFail, InstallSealed, WithSegment, Return, Goto, ghost,
           BaseInv, TypeOK, Unlocked
  <2>4. (LockInv /\ StagedInv /\ WriterInv)'
    BY <1>7, <2>1
       DEF SealReclaimFails, InstallSealed, Return, Goto, BaseInv, TypeOK, LockInv,
           StagedInv, WriterInv, Locked, Unlocked
  <2> QED BY <2>3, <2>4 DEF BaseInv
<1>8. CASE RebuildIndex(t)
  BY <1>0, <1>8 DEF RebuildIndex, AfterIndex, AfterSeal, disk, memory, ghost, Goto, Return, BaseInv, TypeOK, LockInv, StagedInv, WriterInv, Locked, Unlocked
<1>9. CASE RebuildIndexFails(t)
  BY <1>0, <1>9 DEF RebuildIndexFails, AfterIndex, AfterSeal, CanFail, disk, memory, ghost, Goto, Return, BaseInv, TypeOK, LockInv, StagedInv, WriterInv, Locked, Unlocked
<1>10. CASE CompactStart(t)
  BY <1>0, <1>10 DEF CompactStart, LockFree, disk, memory, ghost, Goto, Return, BaseInv, TypeOK, LockInv, StagedInv, WriterInv, Locked, Unlocked
<1>11. CASE CompactCheck(t)
  BY <1>0, <1>11 DEF CompactCheck, LockFree, disk, memory, ghost, Goto, Return, BaseInv, TypeOK, LockInv, StagedInv, WriterInv, Locked, Unlocked
<1>12. CASE CompactRevalidateFails(t)
  BY <1>0, <1>12 DEF CompactRevalidateFails, LockFree, disk, memory, ghost, Goto, Return, BaseInv, TypeOK, LockInv, StagedInv, WriterInv, Locked, Unlocked
<1>13. CASE CompactPublishSegment(t)
  BY <1>0, <1>13 DEF CompactPublishSegment, MayCompact, LockFree, WithSegment, Compacted, Newest, Contents, disk, memory, ghost, Goto, Return, BaseInv, TypeOK, LockInv, StagedInv, WriterInv, Locked, Unlocked
<1>14. CASE CompactSegmentFails(t)
  BY <1>0, <1>14 DEF CompactSegmentFails, MayCompact, LockFree, WithSegment, Compacted, Newest, Contents, CanFail, disk, memory, ghost, Goto, Return, BaseInv, TypeOK, LockInv, StagedInv, WriterInv, Locked, Unlocked
<1>15. CASE CompactPublishCheckpoint(t)
  BY <1>0, <1>15 DEF CompactPublishCheckpoint, disk, memory, ghost, Goto, Return, BaseInv, TypeOK, LockInv, StagedInv, WriterInv, Locked, Unlocked
<1>16. CASE CompactCheckpointFails(t)
  BY <1>0, <1>16 DEF CompactCheckpointFails, CanFail, disk, memory, ghost, Goto, Return, BaseInv, TypeOK, LockInv, StagedInv, WriterInv, Locked, Unlocked
<1>17. CASE CompactInstall(t)
  BY <1>0, <1>17 DEF CompactInstall, OnlySegments, disk, memory, ghost, Goto, Return, BaseInv, TypeOK, LockInv, StagedInv, WriterInv, Locked, Unlocked
<1>18. CASE CollectSegment(t)
  BY <1>0, <1>18 DEF CollectSegment, OnlySegments, Garbage, disk, memory, ghost, Goto, Return, BaseInv, TypeOK, LockInv, StagedInv, WriterInv, Locked, Unlocked
<1>19. CASE CollectDone(t)
  BY <1>0, <1>19 DEF CollectDone, disk, memory, ghost, Goto, Return, BaseInv, TypeOK, LockInv, StagedInv, WriterInv, Locked, Unlocked
<1>20. CASE CollectFails(t)
  BY <1>0, <1>20 DEF CollectFails, CanFail, disk, memory, ghost, Goto, Return, BaseInv, TypeOK, LockInv, StagedInv, WriterInv, Locked, Unlocked
<1> QED BY <1>1, <1>2, <1>3, <1>4, <1>5, <1>6, <1>7, <1>8, <1>9, <1>10, <1>11, <1>12, <1>13, <1>14, <1>15, <1>16, <1>17, <1>18, <1>19, <1>20 DEF SealStep, IndexStep, CompactStep

\* Recovery reads back mutations, never the half-written frame.
LEMMA ReplayedFact ==
    ASSUME TypeOK
    PROVE  Replayed(wal) \subseteq Mutation
BY DEF TypeOK, Replayed, Readable

\* A crash loses the runtime and leaves the files.
LEMMA CrashKeepsBase ==
    ASSUME BaseInv, LoseMemory, UNCHANGED <<segFiles, ckptFile, committed>>, CanFail,
           wal' \in Seq(Mutation \cup {Torn}), damaged' \in BOOLEAN, faults' = faults + 1
    PROVE  BaseInv'
<1>1. 0 \in Sequence /\ 1 \in 1 .. MaxSequence + 1 /\ MaxFaults \in Nat
  BY StoreAssumption DEF Sequence
<1>2. DOMAIN segments' = {}
  BY DEF LoseMemory
<1>3. faults' \in 0 .. MaxFaults
  BY <1>1 DEF CanFail, BaseInv, TypeOK
<1>4. TypeOK'
  BY <1>1, <1>2, <1>3 DEF LoseMemory, BaseInv, TypeOK, Unlocked
<1>5. (LockInv /\ StagedInv /\ WriterInv)'
  BY DEF LoseMemory, LockInv, StagedInv, WriterInv, Locked
<1> QED BY <1>4, <1>5 DEF BaseInv

LEMMA BaseNext == BaseInv /\ [Next]_vars => BaseInv'
<1> SUFFICES ASSUME BaseInv, [Next]_vars PROVE BaseInv'
  OBVIOUS
<1>0. MaxFaults \in Nat
  BY StoreAssumption
<1>1. CASE UNCHANGED vars
  BY <1>1 DEF vars, disk, memory, ghost, BaseInv, TypeOK, LockInv, StagedInv, WriterInv
<1>2. ASSUME NEW t \in Tasks,
             UpsertBatch(t) \/ Delete(t) \/ ReplaceParentChunks(t) \/ DeleteParentDocument(t)
      PROVE  BaseInv'
  <2>1. PICK b \in Batches : AppendBatch(t, b)
    BY <1>2 DEF UpsertBatch, Delete, ReplaceParentChunks, DeleteParentDocument, Upserts, Deletes
  <2> QED BY <2>1, AppendKeepsBase
<1>3. ASSUME NEW t \in Tasks, AppendFails(t) PROVE BaseInv'
  <2>1. wal' \in Seq(Mutation \cup {Torn}) /\ damaged' \in BOOLEAN
    BY <1>3, PartialKeepsLogType DEF AppendFails
  <2> QED BY <1>0, <1>3, <2>1 DEF AppendFails, CanFail, memory, BaseInv, TypeOK, LockInv,
                                  StagedInv, WriterInv
<1>4. CASE Crash
  BY <1>4, CrashKeepsBase DEF Crash, disk, ghost, BaseInv, TypeOK
<1>5. CASE CrashInAppend
  <2>1. wal' \in Seq(Mutation \cup {Torn}) /\ damaged' \in BOOLEAN
    BY <1>5, PartialKeepsLogType DEF CrashInAppend, Tasks
  <2> QED BY <1>5, <2>1, CrashKeepsBase DEF CrashInAppend
<1>6. CASE Recover
  <2>1. RecoveredMutable \subseteq Mutation
    BY ReplayedFact DEF RecoveredMutable, BaseInv
  <2>2. /\ DOMAIN RecoveredSegments \subseteq SegmentIds
        /\ \A id \in DOMAIN RecoveredSegments : RecoveredSegments[id] \subseteq Mutation
    BY DEF RecoveredSegments, OnlySegments, BaseInv, TypeOK
  <2> QED BY <1>6, <2>1, <2>2 DEF Recover, BaseInv, TypeOK, LockInv, StagedInv, WriterInv, Locked
<1>7. CASE RecoverRefused
  BY <1>7 DEF RecoverRefused, disk, memory, ghost, BaseInv, TypeOK, LockInv, StagedInv, WriterInv
<1>8. ASSUME NEW t \in Tasks, HandlerDropped(t) PROVE BaseInv'
  BY <1>0, <1>8 DEF HandlerDropped, CanFail, Goto, disk, memory, ghost, BaseInv, TypeOK, LockInv,
                    StagedInv, WriterInv, Locked, Unlocked
<1> QED BY <1>1, <1>2, <1>3, <1>4, <1>5, <1>6, <1>7, <1>8, TaskKeepsBase DEF Next, WriteStep

\* The runtime, the files and the history always hold values of their types,
\* at most one handler holds the catalog lock, and a handler that has
\* published a segment still finds its file when it installs it.
THEOREM TypeCorrect == Spec => []TypeOK
<1>1. Spec => []BaseInv
  BY BaseInit, BaseNext, PTL DEF Spec
<1>2. BaseInv => TypeOK
  BY DEF BaseInv
<1> QED BY <1>1, <1>2, PTL

\* The log writer is only ever missing while nothing is unsealed: a failed
\* reclaim in seal_collection can leave the collection read-only, but never
\* with an overlay that can no longer be sealed.
THEOREM WriterNeverMissing == Spec => []UnsealedImpliesWriter
<1>1. Spec => []BaseInv
  BY BaseInit, BaseNext, PTL DEF Spec
<1>2. BaseInv => UnsealedImpliesWriter
  BY DEF BaseInv, WriterInv, UnsealedImpliesWriter
<1> QED BY <1>1, <1>2, PTL

-----------------------------------------------------------------------------
(* The log *)

\* Appending the next frames to a log with a clean tail.
LEMMA LogAppend ==
    ASSUME TypeOK, LogInv, TailClean, NEW G, IsTail(G), wal' = wal \o G
    PROVE  /\ Len(wal) \in Nat /\ Len(G) \in Nat
           /\ Len(wal') = Len(wal) + Len(G)
           /\ \A i \in 1 .. Len(wal) :
                wal'[i] = wal[i] /\ wal[i] \in Mutation /\ wal[i].seq < nextSeq
           /\ \A i \in 1 .. Len(wal') :
                i > Len(wal) => i - Len(wal) \in 1 .. Len(G) /\ wal'[i] = G[i - Len(wal)]
           /\ \A j \in 1 .. Len(G) :
                j + Len(wal) \in 1 .. Len(wal') /\ wal'[j + Len(wal)] = G[j]
           /\ LogInv'
<1>1. /\ wal \in Seq(Mutation \cup {Torn})
      /\ G \in Seq(Mutation \cup {Torn})
      /\ Len(wal) \in Nat
      /\ Len(G) \in Nat
      /\ \A i \in 1 .. Len(wal) : wal[i] \in Mutation \cup {Torn}
      /\ nextSeq \in Nat
  BY LenProperties, ElementOfSeq, StoreAssumption DEF TypeOK, IsTail
<1>2. /\ Len(wal') = Len(wal) + Len(G)
      /\ \A i \in 1 .. Len(wal) + Len(G) :
            wal'[i] = IF i <= Len(wal) THEN wal[i] ELSE G[i - Len(wal)]
  BY <1>1, ConcatProperties
<1>3. ASSUME NEW i \in 1 .. Len(wal)
      PROVE  wal'[i] = wal[i] /\ wal[i] \in Mutation /\ wal[i].seq < nextSeq
  <2>1. Len(wal) \in 1 .. Len(wal) /\ wal # <<>>
    BY <1>1
  <2>2. wal[Len(wal)] \in Mutation /\ wal[Len(wal)].seq < nextSeq
    BY <1>1, <2>1 DEF TailClean
  <2>3. CASE i = Len(wal)
    BY <1>1, <1>2, <2>2, <2>3
  <2>4. CASE i < Len(wal)
    <3>1. wal[i] # Torn /\ wal[i].seq < wal[Len(wal)].seq
      BY <1>1, <2>1, <2>2, <2>4, TornIsNoMutation DEF LogInv
    <3> QED BY <1>1, <1>2, <2>2, <2>4, <3>1 DEF Mutation, Sequence
  <2> QED BY <1>1, <2>3, <2>4
<1>4. ASSUME NEW i \in 1 .. Len(wal'), i > Len(wal)
      PROVE  i - Len(wal) \in 1 .. Len(G) /\ wal'[i] = G[i - Len(wal)]
  BY <1>1, <1>2, <1>4
<1>5. ASSUME NEW j \in 1 .. Len(G)
      PROVE  j + Len(wal) \in 1 .. Len(wal') /\ wal'[j + Len(wal)] = G[j]
  <2>1. j + Len(wal) \in 1 .. Len(wal') /\ j + Len(wal) > Len(wal) /\ (j + Len(wal)) - Len(wal) = j
    BY <1>1, <1>2
  <2> QED BY <1>4, <2>1
<1>6. LogInv'
  <2>1. SUFFICES ASSUME NEW i \in 1 .. Len(wal'), NEW j \in 1 .. Len(wal'), i < j
                 PROVE  wal'[i] # Torn /\ (wal'[j] # Torn => wal'[i].seq < wal'[j].seq)
    BY DEF LogInv
  <2>2. CASE j <= Len(wal)
    <3>1. i \in 1 .. Len(wal) /\ j \in 1 .. Len(wal)
      BY <1>1, <1>2, <2>1, <2>2
    <3> QED BY <1>3, <2>1, <3>1 DEF LogInv
  <2>3. CASE i <= Len(wal) /\ j > Len(wal)
    <3>1. i \in 1 .. Len(wal) /\ wal'[i] \in Mutation /\ wal'[i].seq < nextSeq
      BY <1>1, <1>2, <1>3, <2>3
    <3>2. j - Len(wal) \in 1 .. Len(G) /\ wal'[j] = G[j - Len(wal)]
      BY <1>4, <2>3
    <3>3. wal'[j] # Torn => wal'[j].seq = nextSeq + (j - Len(wal)) - 1
      BY <3>2 DEF IsTail
    <3> QED BY <1>1, <3>1, <3>2, <3>3, TornIsNoMutation DEF Mutation, Sequence
  <2>4. CASE i > Len(wal)
    <3>1. j > Len(wal)
      BY <1>1, <1>2, <2>1, <2>4
    <3> DEFINE x == i - Len(wal)
               y == j - Len(wal)
    <3>2. x \in 1 .. Len(G) /\ wal'[i] = G[x] /\ y \in 1 .. Len(G) /\ wal'[j] = G[y] /\ x < y
      BY <1>1, <1>2, <1>4, <2>1, <2>4, <3>1
    <3> HIDE DEF x, y
    <3>3. G[x] \in Mutation /\ G[x].seq = nextSeq + x - 1
      BY <1>1, <3>2 DEF IsTail
    <3>4. G[y] # Torn => G[y].seq = nextSeq + y - 1
      BY <3>2 DEF IsTail
    <3> QED BY <1>1, <3>2, <3>3, <3>4, TornIsNoMutation
  <2> QED BY <1>1, <1>2, <2>2, <2>3, <2>4
<1> QED BY <1>1, <1>2, <1>3, <1>4, <1>5, <1>6

\* Frames are mutations of increasing sequence number, so IsTail holds of them.
LEMMA FramesAreTail ==
    ASSUME TypeOK, NEW b \in Batches, nextSeq + Len(b) - 1 <= MaxSequence
    PROVE  IsTail(Frames(b)) /\ \A i \in 1 .. Len(Frames(b)) : Frames(b)[i] \in Mutation
<1>1. /\ Len(b) \in Nat \ {0}
      /\ Frames(b) \in Seq(Mutation)
      /\ Len(Frames(b)) = Len(b)
      /\ \A i \in 1 .. Len(b) : /\ Frames(b)[i] \in Mutation
                               /\ Frames(b)[i].seq = nextSeq + i - 1
  BY FramesFact
<1>2. Frames(b) \in Seq(Mutation \cup {Torn})
  BY <1>1, SeqMonotonic
<1> QED BY <1>1, <1>2 DEF IsTail

-----------------------------------------------------------------------------
(* Writes *)

\* The published checkpoint and the runtime's represent accepted sequence
\* numbers only, so a fresh number is above both.
LEMMA FreshAboveCheckpoints ==
    ASSUME TypeOK, HistoryInv, FilesInv, RuntimeInv, mode = "up"
    PROVE  /\ CheckpointSequence(ckptFile) < nextSeq
           /\ CheckpointSequence(checkpoint) < nextSeq
<1>1. nextSeq \in Nat \ {0}
  BY StoreAssumption DEF TypeOK
<1>2. CheckpointSequence(ckptFile) < nextSeq
  BY <1>1 DEF HistoryInv, FilesInv, CheckpointSequence, SequencesOf
<1>3. CheckpointSequence(checkpoint) < nextSeq
  BY <1>1 DEF HistoryInv, RuntimeInv, CheckpointSequence, SequencesOf
<1> QED BY <1>2, <1>3

LEMMA AppendKeepsSafe ==
    ASSUME BaseInv, SafeInv, TailClean, NEW t \in Tasks, NEW b \in Batches, AppendBatch(t, b)
    PROVE  SafeInv'
<1> DEFINE F == Frames(b)
           New == FrameSet(Frames(b))
<1>1. /\ TypeOK /\ HistoryInv /\ LogInv /\ FrameInv /\ FilesInv /\ RuntimeInv /\ StageInv
      /\ mode = "up" /\ mode' = "up"
      /\ nextSeq + Len(b) - 1 <= MaxSequence
      /\ wal' = wal \o F
      /\ committed' = committed \cup New
      /\ mutable' = mutable \cup New
      /\ nextSeq' = nextSeq + Len(b)
  BY DEF BaseInv, SafeInv, AppendBatch, AppendEnabled
<1>2. IsTail(F) /\ \A i \in 1 .. Len(F) : F[i] \in Mutation
  BY <1>1, FramesAreTail
<1>3. nextSeq \in Nat \ {0} /\ Len(F) = Len(b) /\ Len(b) \in Nat \ {0}
  BY <1>1, FramesFact, StoreAssumption DEF TypeOK
<1> HIDE DEF F
<1>4. /\ Len(wal) \in Nat /\ Len(F) \in Nat
      /\ Len(wal') = Len(wal) + Len(F)
      /\ \A i \in 1 .. Len(wal) :
           wal'[i] = wal[i] /\ wal[i] \in Mutation /\ wal[i].seq < nextSeq
      /\ \A i \in 1 .. Len(wal') :
           i > Len(wal) => i - Len(wal) \in 1 .. Len(F) /\ wal'[i] = F[i - Len(wal)]
      /\ \A j \in 1 .. Len(F) :
           j + Len(wal) \in 1 .. Len(wal') /\ wal'[j + Len(wal)] = F[j]
      /\ LogInv'
  BY <1>1, <1>2, LogAppend
<1>5. \A m \in New : \E i \in 1 .. Len(F) : m = F[i]
  BY <1>3 DEF FrameSet, F
<1>6. \A i \in 1 .. Len(F) : F[i] \in New
  BY <1>3 DEF FrameSet, F
<1> HIDE DEF New
<1>7. \A m \in New : m \in Mutation /\ m.seq >= nextSeq /\ m.seq < nextSeq'
  <2>1. SUFFICES ASSUME NEW m \in New
                 PROVE  m \in Mutation /\ m.seq >= nextSeq /\ m.seq < nextSeq'
    OBVIOUS
  <2>2. PICK i \in 1 .. Len(F) : m = F[i]
    BY <1>5
  <2>3. m \in Mutation /\ m.seq = nextSeq + i - 1
    BY <1>2, <2>2, TornIsNoMutation DEF IsTail
  <2> QED BY <1>1, <1>3, <2>3
<1>8. \A m \in New : \E i \in 1 .. Len(wal') : wal'[i] = m
  BY <1>4, <1>5
<1>9. \A m : (\E i \in 1 .. Len(wal) : wal[i] = m) => \E i \in 1 .. Len(wal') : wal'[i] = m
  <2>1. \A i \in 1 .. Len(wal) : i \in 1 .. Len(wal') /\ wal'[i] = wal[i]
    BY <1>4
  <2> QED BY <2>1
<1>10. committed \subseteq Mutation /\ \A m \in committed : m.seq < nextSeq
  BY <1>1 DEF TypeOK, HistoryInv
<1>11. HistoryInv'
  <2>1. ASSUME NEW m \in New, NEW n \in New, m.seq = n.seq PROVE m = n
    <3>1. PICK i \in 1 .. Len(F) : m = F[i]
      BY <1>5
    <3>2. PICK j \in 1 .. Len(F) : n = F[j]
      BY <1>5
    <3>3. m.seq = nextSeq + i - 1 /\ n.seq = nextSeq + j - 1
      BY <1>2, <3>1, <3>2, TornIsNoMutation DEF IsTail
    <3>4. i \in Int /\ j \in Int /\ nextSeq \in Int
      BY <1>3
    <3>5. i = j
      <4>1. nextSeq + i - 1 = nextSeq + j - 1
        BY <2>1, <3>3
      <4> QED BY <3>4, <4>1
    <3> QED BY <3>1, <3>2, <3>5
  <2>2. ASSUME NEW m \in committed, NEW n \in New PROVE m.seq # n.seq
    BY <1>3, <1>7, <1>10 DEF Mutation, Sequence
  <2>3. \A m, n \in committed' : m.seq = n.seq => m = n
    BY <1>1, <2>1, <2>2 DEF HistoryInv
  <2>4. \A m \in committed' : m.seq < nextSeq'
    BY <1>1, <1>3, <1>7, <1>10 DEF Mutation, Sequence
  <2> QED BY <2>3, <2>4 DEF HistoryInv
<1>12. FrameInv'
  <2>1. SUFFICES ASSUME NEW i \in 1 .. Len(wal') PROVE wal'[i] \in committed'
    BY DEF FrameInv
  <2>2. CASE i <= Len(wal)
    <3>1. i \in 1 .. Len(wal) /\ wal'[i] = wal[i] /\ wal[i] \in Mutation /\ wal[i].seq < nextSeq
      BY <1>4, <2>2
    <3>2. wal[i] \in committed
      BY <1>1, <1>3, <3>1, TornIsNoMutation DEF FrameInv, Mutation, Sequence
    <3> QED BY <1>1, <3>1, <3>2
  <2>3. CASE i > Len(wal)
    BY <1>1, <1>4, <1>6, <2>3
  <2> QED BY <1>4, <2>2, <2>3
<1>13. CheckpointSequence(ckptFile) < nextSeq /\ CheckpointSequence(checkpoint) < nextSeq
  BY <1>1, FreshAboveCheckpoints
<1>14. CheckpointSequence(ckptFile) \in Nat /\ CheckpointSequence(checkpoint) \in Nat
  BY <1>1 DEF TypeOK, CheckpointSequence, Checkpoint, Sequence
<1>15. \A m \in New : m.seq > CheckpointSequence(ckptFile) /\ m.seq > CheckpointSequence(checkpoint)
  BY <1>3, <1>7, <1>13, <1>14 DEF Mutation, Sequence
<1>16. FilesInv'
  <2>1. segFiles' = segFiles /\ ckptFile' = ckptFile
    BY DEF AppendBatch
  <2>2. \A m \in committed' :
         IF m.seq > CheckpointSequence(ckptFile)
         THEN \E i \in 1 .. Len(wal') : wal'[i] = m
         ELSE \E id \in ckptFile.ids : CoveredBy(m, segFiles[id])
    BY <1>1, <1>8, <1>9, <1>15 DEF FilesInv
  <2> QED BY <1>1, <2>1, <2>2 DEF FilesInv, SequencesOf, CoveredBy, CheckpointSequence
<1>17. RuntimeInv'
  <2>1. segFiles' = segFiles /\ segments' = segments /\ checkpoint' = checkpoint
    BY DEF AppendBatch
  <2>2. \A m \in mutable' : \E i \in 1 .. Len(wal') : wal'[i] = m
    BY <1>1, <1>8, <1>9 DEF RuntimeInv
  <2>3. \A m \in mutable' : m.seq > CheckpointSequence(checkpoint)
    BY <1>1, <1>15 DEF RuntimeInv
  <2>4. \A m \in committed' :
         IF m.seq > CheckpointSequence(checkpoint)
         THEN m \in mutable'
         ELSE CoveredBy(m, Contents(segments))
    BY <1>1, <1>15 DEF RuntimeInv
  <2> QED BY <1>1, <2>1, <2>2, <2>3, <2>4
          DEF RuntimeInv, SequencesOf, CoveredBy, CheckpointSequence, Contents
<1>18. StageInv'
  BY <1>1 DEF AppendBatch, AfterAppend, AppendEnabled, LockFree, Unlocked, Goto, StageInv, TypeOK, Contents
<1> QED BY <1>4, <1>11, <1>12, <1>16, <1>17, <1>18 DEF SafeInv

\* An append that leaves bytes behind without being accepted: the log grows by
\* frames newer than every accepted mutation.
LEMMA PartialKeepsLog ==
    ASSUME BaseInv, SafeInv, TailClean, mode = "up", NEW b \in Batches,
           nextSeq + Len(b) - 1 <= MaxSequence,
           NEW k \in 0 .. Len(b), NEW torn \in BOOLEAN, PartialAppend(b, k, torn)
    PROVE  /\ LogInv'
           /\ \A i \in 1 .. Len(wal) : i \in 1 .. Len(wal') /\ wal'[i] = wal[i]
           /\ \A i \in 1 .. Len(wal') :
                wal'[i] = Torn \/ wal'[i] \in committed \/ nextSeq <= wal'[i].seq
<1> DEFINE G == SubSeq(Frames(b), 1, k) \o Tear(torn)
<1>1. TypeOK /\ LogInv /\ FrameInv /\ wal' = wal \o G /\ nextSeq \in Nat
  BY StoreAssumption DEF BaseInv, SafeInv, PartialAppend, TypeOK
<1>2. IsTail(G)
  BY <1>1, PartialFact
<1> HIDE DEF G
<1>3. /\ Len(wal) \in Nat /\ Len(G) \in Nat
      /\ Len(wal') = Len(wal) + Len(G)
      /\ \A i \in 1 .. Len(wal) :
           wal'[i] = wal[i] /\ wal[i] \in Mutation /\ wal[i].seq < nextSeq
      /\ \A i \in 1 .. Len(wal') :
           i > Len(wal) => i - Len(wal) \in 1 .. Len(G) /\ wal'[i] = G[i - Len(wal)]
      /\ LogInv'
  BY <1>1, <1>2, LogAppend
<1>4. \A i \in 1 .. Len(wal) : i \in 1 .. Len(wal') /\ wal'[i] = wal[i]
  BY <1>3
<1>5. ASSUME NEW i \in 1 .. Len(wal')
      PROVE  wal'[i] = Torn \/ wal'[i] \in committed \/ nextSeq <= wal'[i].seq
  <2>1. CASE i <= Len(wal)
    <3>1. i \in 1 .. Len(wal)
      BY <1>3, <2>1
    <3> QED BY <1>1, <1>4, <3>1 DEF FrameInv
  <2>2. CASE i > Len(wal)
    <3>1. PICK j \in 1 .. Len(G) : wal'[i] = G[j]
      BY <1>3, <2>2
    <3>2. G[j] = Torn \/ G[j].seq = nextSeq + j - 1
      BY <1>2 DEF IsTail
    <3> QED BY <1>1, <3>1, <3>2
  <2> QED BY <1>3, <2>1, <2>2
<1> QED BY <1>3, <1>4, <1>5

LEMMA AppendFailsKeepsSafe ==
    ASSUME BaseInv, SafeInv, TailClean, NEW t \in Tasks, AppendFails(t)
    PROVE  SafeInv'
<1>1. PICK b \in Batches : \E k \in 0 .. Len(b), torn \in BOOLEAN :
          AppendEnabled(t, b) /\ PartialAppend(b, k, torn)
  BY DEF AppendFails
<1>2. mode = "up" /\ LockFree /\ nextSeq + Len(b) - 1 <= MaxSequence
  BY <1>1 DEF AppendEnabled
<1>3. /\ LogInv'
      /\ \A i \in 1 .. Len(wal) : i \in 1 .. Len(wal') /\ wal'[i] = wal[i]
      /\ \A i \in 1 .. Len(wal') :
           wal'[i] = Torn \/ wal'[i] \in committed \/ nextSeq <= wal'[i].seq
  BY <1>1, <1>2, PartialKeepsLog
<1>4. /\ UNCHANGED <<segFiles, ckptFile, mode, segments, mutable, checkpoint, nextSeq, pc,
                    staged, committed>>
  BY DEF AppendFails, memory
<1>5. HistoryInv'
  BY <1>4 DEF SafeInv, HistoryInv
<1>6. FrameInv'
  <2>1. /\ nextSeq \in Nat
        /\ committed \subseteq Mutation
        /\ \A m \in committed : m.seq < nextSeq
        /\ \A i \in 1 .. Len(wal') : wal'[i] \in Mutation \cup {Torn}
    BY <1>2, StoreAssumption, BaseNext, ElementOfSeq DEF SafeInv, HistoryInv, BaseInv, TypeOK, Next, WriteStep
  <2>2. \A i \in 1 .. Len(wal') : wal'[i] \in Mutation /\ nextSeq <= wal'[i].seq
            => \A m \in committed : m.seq < wal'[i].seq
    BY <2>1 DEF Mutation, Sequence
  <2> QED BY <1>3, <1>4, <2>1, <2>2 DEF FrameInv
<1>7. FilesInv'
  <2>1. \A m : (\E i \in 1 .. Len(wal) : wal[i] = m) => \E i \in 1 .. Len(wal') : wal'[i] = m
    BY <1>3
  <2> QED BY <1>4, <2>1 DEF SafeInv, FilesInv, CoveredBy, SequencesOf, CheckpointSequence
<1>8. RuntimeInv'
  <2>1. \A m : (\E i \in 1 .. Len(wal) : wal[i] = m) => \E i \in 1 .. Len(wal') : wal'[i] = m
    BY <1>3
  <2> QED BY <1>4, <2>1 DEF SafeInv, RuntimeInv, CoveredBy, SequencesOf, CheckpointSequence, Contents
<1>9. StageInv'
  BY <1>2, <1>4 DEF SafeInv, StageInv, LockFree, Unlocked, Contents
<1> QED BY <1>3, <1>5, <1>6, <1>7, <1>8, <1>9 DEF SafeInv

-----------------------------------------------------------------------------
(* Crash and recovery *)

LEMMA CrashKeepsSafe ==
    ASSUME BaseInv, SafeInv, Crash
    PROVE  SafeInv' /\ mode' # "refused"
<1>1. /\ UNCHANGED <<wal, segFiles, ckptFile, committed>>
      /\ mode' = "down"
      /\ \A t \in Tasks : pc'[t] = "idle"
  BY DEF Crash, LoseMemory, disk, ghost
<1>2. (HistoryInv /\ LogInv /\ FrameInv /\ RuntimeInv /\ StageInv)'
  BY <1>1 DEF SafeInv, HistoryInv, LogInv, FrameInv, RuntimeInv, StageInv
<1>3. FilesInv'
  BY <1>1 DEF SafeInv, FilesInv, CoveredBy, SequencesOf, CheckpointSequence
<1> QED BY <1>1, <1>2, <1>3 DEF SafeInv

LEMMA CrashInAppendKeepsSafe ==
    ASSUME BaseInv, SafeInv, TailClean, CrashInAppend
    PROVE  SafeInv' /\ mode' # "refused"
<1>1. PICK t \in Writers, b \in Batches : \E k \in 0 .. Len(b), torn \in BOOLEAN :
          AppendEnabled(t, b) /\ PartialAppend(b, k, torn)
  BY DEF CrashInAppend
<1>2. mode = "up" /\ nextSeq + Len(b) - 1 <= MaxSequence
  BY <1>1 DEF AppendEnabled
<1>3. /\ LogInv'
      /\ \A i \in 1 .. Len(wal) : i \in 1 .. Len(wal') /\ wal'[i] = wal[i]
      /\ \A i \in 1 .. Len(wal') :
           wal'[i] = Torn \/ wal'[i] \in committed \/ nextSeq <= wal'[i].seq
  BY <1>1, <1>2, PartialKeepsLog
<1>4. /\ UNCHANGED <<segFiles, ckptFile, committed>>
      /\ mode' = "down"
      /\ \A u \in Tasks : pc'[u] = "idle"
  BY DEF CrashInAppend, LoseMemory
<1>5. (HistoryInv /\ RuntimeInv /\ StageInv)'
  BY <1>4 DEF SafeInv, HistoryInv, RuntimeInv, StageInv
<1>6. FrameInv'
  <2>1. /\ nextSeq \in Nat
        /\ committed \subseteq Mutation
        /\ \A m \in committed : m.seq < nextSeq
        /\ \A i \in 1 .. Len(wal') : wal'[i] \in Mutation \cup {Torn}
    BY <1>2, StoreAssumption, BaseNext, ElementOfSeq DEF SafeInv, HistoryInv, BaseInv, TypeOK, Next
  <2>2. \A i \in 1 .. Len(wal') : wal'[i] \in Mutation /\ nextSeq <= wal'[i].seq
            => \A m \in committed : m.seq < wal'[i].seq
    BY <2>1 DEF Mutation, Sequence
  <2> QED BY <1>3, <1>4, <2>1, <2>2 DEF FrameInv
<1>7. FilesInv'
  <2>1. \A m : (\E i \in 1 .. Len(wal) : wal[i] = m) => \E i \in 1 .. Len(wal') : wal'[i] = m
    BY <1>3
  <2> QED BY <1>4, <2>1 DEF SafeInv, FilesInv, CoveredBy, SequencesOf, CheckpointSequence
<1> QED BY <1>3, <1>4, <1>5, <1>6, <1>7 DEF SafeInv

\* An ordered log replays completely: everything but a half-written last frame.
LEMMA OrderedLogReplays ==
    ASSUME TypeOK, LogInv
    PROVE  /\ ~Regresses(wal)
           /\ ~HasBytesAfterTear(wal)
           /\ \A i \in 1 .. Len(wal) : wal[i] # Torn => wal[i] \in Replayed(wal)
           /\ \A m \in Replayed(wal) : m \in Mutation /\ \E i \in 1 .. Len(wal) : wal[i] = m
           /\ \A m, n \in Replayed(wal) : m.seq = n.seq => m = n
<1>1. /\ Len(wal) \in Nat
      /\ \A i \in 1 .. Len(wal) : wal[i] \in Mutation \cup {Torn}
  BY LenProperties, ElementOfSeq DEF TypeOK
<1>2. \A i \in Readable(wal) : i \in 1 .. Len(wal) /\ wal[i] # Torn /\ wal[i] \in Mutation
  BY <1>1 DEF Readable
<1>3. \A i, j \in Readable(wal) : i < j => wal[i].seq < wal[j].seq
  BY <1>2 DEF LogInv
<1>4. ~Regresses(wal)
  BY <1>2, <1>3 DEF Regresses, Mutation, Sequence
<1>5. ~HasBytesAfterTear(wal)
  <2>1. SUFFICES ASSUME NEW i \in 1 .. Len(wal), wal[i] = Torn, i < Len(wal) PROVE FALSE
    BY DEF HasBytesAfterTear
  <2>2. Len(wal) \in 1 .. Len(wal)
    BY <1>1, <2>1
  <2> QED BY <2>1, <2>2 DEF LogInv
<1>6. ASSUME NEW i \in 1 .. Len(wal), wal[i] # Torn PROVE wal[i] \in Replayed(wal)
  <2>1. \A j \in 1 .. i : j \in 1 .. Len(wal) /\ (j = i \/ j < i)
    BY <1>1
  <2>2. \A j \in 1 .. i : wal[j] # Torn
    BY <1>6, <2>1 DEF LogInv
  <2> QED BY <2>2 DEF Replayed, Readable
<1>7. \A m \in Replayed(wal) : m \in Mutation /\ \E i \in 1 .. Len(wal) : wal[i] = m
  BY <1>2 DEF Replayed
<1>8. ASSUME NEW m \in Replayed(wal), NEW n \in Replayed(wal), m.seq = n.seq PROVE m = n
  <2>1. PICK i \in Readable(wal) : m = wal[i]
    BY DEF Replayed
  <2>2. PICK j \in Readable(wal) : n = wal[j]
    BY DEF Replayed
  <2>3. i \in Nat /\ j \in Nat
    BY <1>1, <1>2
  <2>4. ~ (i < j) /\ ~ (j < i)
    BY <1>2, <1>3, <1>8, <2>1, <2>2 DEF Mutation, Sequence
  <2>5. i = j
    BY <2>3, <2>4
  <2> QED BY <2>1, <2>2, <2>5
<1> QED BY <1>4, <1>5, <1>6, <1>7, <1>8

\* Recovery starts from files it accepts.
LEMMA RecoveryAccepts ==
    ASSUME BaseInv, SafeInv
    PROVE  ~RecoverRefused
<1>1. CheckpointLoads
  BY DEF SafeInv, FilesInv, CheckpointLoads
<1> QED BY <1>1, OrderedLogReplays DEF RecoverRefused, BaseInv, SafeInv

LEMMA RecoverKeepsSafe ==
    ASSUME BaseInv, SafeInv, Recover
    PROVE  SafeInv' /\ mode' # "refused"
<1> DEFINE Top == CheckpointSequence(ckptFile)
           New == RecoveredMutable
<1>1. /\ mode = "down" /\ mode' = "up"
      /\ UNCHANGED <<wal, segFiles, ckptFile, pc>>
      /\ segments' = RecoveredSegments
      /\ mutable' = New
      /\ checkpoint' = ckptFile
      /\ nextSeq' \in Nat
      /\ IsSuccessor(nextSeq', RecoveredSequences)
      /\ committed' = committed \cup New
      /\ \A t \in Tasks : pc[t] = "idle"
  BY StoreAssumption DEF Recover, BaseInv, LockInv
<1>2. /\ TypeOK /\ HistoryInv /\ LogInv /\ FrameInv /\ FilesInv
      /\ committed \subseteq Mutation
      /\ \A i \in 1 .. Len(wal) : wal[i] \in Mutation \cup {Torn}
  BY ElementOfSeq DEF BaseInv, SafeInv, TypeOK
<1>3. Top \in Nat
  BY <1>2 DEF TypeOK, CheckpointSequence, Checkpoint, Sequence
<1>4. /\ \A i \in 1 .. Len(wal) : wal[i] # Torn => wal[i] \in Replayed(wal)
      /\ \A m \in Replayed(wal) : m \in Mutation /\ \E i \in 1 .. Len(wal) : wal[i] = m
      /\ \A m, n \in Replayed(wal) : m.seq = n.seq => m = n
  BY <1>2, OrderedLogReplays
<1>5. \A m \in New : m \in Replayed(wal) /\ m \in Mutation /\ m.seq > Top
  BY <1>4 DEF RecoveredMutable
<1>6. \A m \in Replayed(wal) : m.seq > Top => m \in New
  BY DEF RecoveredMutable
<1>7. \A m \in Replayed(wal) : m \in committed \/ \A n \in committed : n.seq < m.seq
  BY <1>2, <1>4, TornIsNoMutation DEF FrameInv
<1> HIDE DEF New
<1>8. \A m \in Replayed(wal) : m \in committed'
  <2>1. SUFFICES ASSUME NEW m \in Replayed(wal), m \notin committed PROVE m \in New
    BY <1>1
  <2>2. \A n \in committed : n.seq < m.seq
    BY <1>7, <2>1
  <2>3. m.seq > Top
    BY <1>2, <1>4, <2>2 DEF FilesInv, CheckpointSequence, SequencesOf, Mutation, Sequence
  <2> QED BY <1>6, <2>3
<1>9. \A m \in committed' : m.seq > Top => m \in New
  <2>1. SUFFICES ASSUME NEW m \in committed, m.seq > Top PROVE m \in New
    BY <1>1
  <2>2. PICK i \in 1 .. Len(wal) : wal[i] = m
    BY <1>2, <2>1 DEF FilesInv
  <2>3. m \in Replayed(wal)
    BY <1>2, <1>4, <2>2, TornIsNoMutation
  <2> QED BY <1>6, <2>1, <2>3
<1>10. committed' \subseteq Mutation
  BY <1>1, <1>2, <1>5
<1>11. \A m \in committed' : m.seq < nextSeq'
  <2>1. SUFFICES ASSUME NEW m \in committed' PROVE m.seq < nextSeq'
    OBVIOUS
  <2>2. Top < nextSeq' /\ \A n \in New : n.seq < nextSeq'
    BY <1>1 DEF IsSuccessor, RecoveredSequences, SequencesOf, New
  <2>3. CASE m.seq > Top
    BY <1>9, <2>2, <2>3
  <2>4. CASE ~(m.seq > Top)
    BY <1>1, <1>3, <1>10, <2>2, <2>4 DEF Mutation, Sequence
  <2> QED BY <2>3, <2>4
<1>12. HistoryInv'
  <2>1. SUFFICES ASSUME NEW m \in committed', NEW n \in committed', m.seq = n.seq PROVE m = n
    BY <1>11 DEF HistoryInv
  <2>2. CASE m \in committed /\ n \in committed
    BY <1>2, <2>1, <2>2 DEF HistoryInv
  <2>3. CASE m \in New /\ n \in New
    BY <1>4, <1>5, <2>1, <2>3
  <2>4. ASSUME NEW x \in committed, NEW y \in New, x.seq = y.seq PROVE x = y
    <3>1. y \in committed
      BY <1>2, <1>5, <1>7, <2>4 DEF Mutation, Sequence
    <3> QED BY <1>2, <2>4, <3>1 DEF HistoryInv
  <2> QED BY <1>1, <2>1, <2>2, <2>3, <2>4
<1>13. LogInv'
  BY <1>1, <1>2 DEF LogInv
<1>14. FrameInv'
  BY <1>1, <1>4, <1>8 DEF FrameInv
<1>15. FilesInv'
  <2>1. \A m \in committed' :
          IF m.seq > Top
          THEN \E i \in 1 .. Len(wal) : wal[i] = m
          ELSE \E id \in ckptFile.ids : CoveredBy(m, segFiles[id])
    BY <1>1, <1>2, <1>4, <1>5, <1>9 DEF FilesInv
  <2> QED BY <1>1, <1>2, <2>1 DEF FilesInv, CheckpointSequence, SequencesOf, CoveredBy
<1>16. RuntimeInv'
  <2>1. /\ DOMAIN segments' \subseteq DOMAIN segFiles
        /\ \A id \in DOMAIN segments' : segments'[id] = segFiles[id]
        /\ ckptFile # NoCheckpoint => DOMAIN segments' = ckptFile.ids
    BY <1>1, <1>2 DEF RecoveredSegments, OnlySegments, FilesInv
  <2>2. \A m \in mutable' : m.seq > Top /\ \E i \in 1 .. Len(wal) : wal[i] = m
    BY <1>1, <1>4, <1>5
  <2>3. ckptFile # NoCheckpoint =>
          /\ \A m \in Contents(segments') : m.seq <= ckptFile.seq
          /\ ckptFile.seq \in SequencesOf(committed')
    BY <1>1, <1>2, <2>1 DEF FilesInv, Contents, SequencesOf
  <2>4. ASSUME NEW m \in committed'
        PROVE  IF m.seq > Top THEN m \in mutable' ELSE CoveredBy(m, Contents(segments'))
    <3>1. CASE m.seq > Top
      BY <1>1, <1>9, <3>1
    <3>2. CASE ~(m.seq > Top)
      <4>1. ckptFile # NoCheckpoint
        BY <1>10, <3>2 DEF CheckpointSequence, Mutation, Sequence
      <4>2. m \in committed
        BY <1>1, <1>5, <3>2
      <4>3. PICK id \in ckptFile.ids : CoveredBy(m, segFiles[id])
        BY <1>2, <3>2, <4>2 DEF FilesInv
      <4>4. segFiles[id] \subseteq Contents(segments')
        BY <2>1, <4>1 DEF Contents
      <4> QED BY <3>2, <4>3, <4>4 DEF CoveredBy
    <3> QED BY <3>1, <3>2
  <2> QED BY <1>1, <2>1, <2>2, <2>3, <2>4 DEF RuntimeInv, CheckpointSequence
<1>17. StageInv'
  BY <1>1 DEF StageInv
<1> QED BY <1>1, <1>12, <1>13, <1>14, <1>15, <1>16, <1>17 DEF SafeInv

-----------------------------------------------------------------------------
(* Sealing and compaction *)

\* While a task holds the catalog lock, or nobody does, the other tasks are
\* between lock acquisitions.
LEMMA OthersUnlocked ==
    ASSUME BaseInv, NEW t \in Tasks, pc[t] \in Locked \/ LockFree
    PROVE  \A u \in Tasks : u # t => pc[u] \in Unlocked
BY DEF BaseInv, TypeOK, LockInv, LockFree

\* A step that leaves the files and the records alone.
LEMMA NothingMoves ==
    ASSUME SafeInv,
           UNCHANGED <<wal, segFiles, ckptFile, mode, segments, mutable, checkpoint,
                       nextSeq, committed>>
    PROVE  (HistoryInv /\ LogInv /\ FrameInv /\ FilesInv /\ RuntimeInv)'
<1>1. (HistoryInv /\ LogInv /\ FrameInv)'
  BY DEF SafeInv, HistoryInv, LogInv, FrameInv
<1>2. FilesInv'
  BY DEF SafeInv, FilesInv, CoveredBy, SequencesOf, CheckpointSequence
<1>3. RuntimeInv'
  BY DEF SafeInv, RuntimeInv, CoveredBy, SequencesOf, CheckpointSequence, Contents
<1> QED BY <1>1, <1>2, <1>3

\* With no checkpoint every accepted mutation is still in the overlay.
LEMMA EmptyOverlay ==
    ASSUME TypeOK, FilesInv, RuntimeInv, mode = "up", checkpoint = NoCheckpoint, mutable = {}
    PROVE  Contents(segments) = {}
<1>1. \A m \in committed : m.seq > CheckpointSequence(checkpoint)
  BY DEF TypeOK, Mutation, Sequence, CheckpointSequence
<1>2. committed = {}
  BY <1>1 DEF RuntimeInv
<1> QED BY <1>2 DEF FilesInv, RuntimeInv, Contents

LEMMA QuietStepKeepsSafe ==
    ASSUME BaseInv, SafeInv, NEW t \in Tasks,
           \/ SealNothing(t) \/ IndexStep(t) \/ CompactStart(t) \/ CompactCheck(t)
           \/ CompactRevalidateFails(t) \/ CollectDone(t) \/ CollectFails(t)
    PROVE  SafeInv'
<1>1. UNCHANGED <<wal, segFiles, ckptFile, mode, segments, mutable, checkpoint,
                  nextSeq, committed>>
  BY DEF SealNothing, IndexStep, RebuildIndex, RebuildIndexFails, CompactStart, CompactCheck,
         CompactRevalidateFails, CollectDone, CollectFails, disk, memory, ghost
<1>2. (HistoryInv /\ LogInv /\ FrameInv /\ FilesInv /\ RuntimeInv)'
  BY <1>1, NothingMoves
<1>3. StageInv'
  <2>1. /\ mode = "up"
        /\ \A u \in Tasks : u # t => pc[u] \in Unlocked /\ pc'[u] = pc[u]
        /\ pc'[t] \in {"idle", "sealDue", "compactCheck", "compactDue", "compactIndexing"}
    <3>1. mode = "up"
      BY DEF BaseInv, LockInv, SealNothing, MaySeal, IndexStep, RebuildIndex, RebuildIndexFails,
             CompactStart, CompactCheck, CompactRevalidateFails, CollectDone, CollectFails
    <3>2. pc[t] \in Locked \/ LockFree
      BY DEF SealNothing, MaySeal, IndexStep, RebuildIndex, RebuildIndexFails, CompactStart,
             CompactCheck, CompactRevalidateFails, CollectDone, CollectFails, Locked
    <3>3. \E where \in {"idle", "sealDue", "compactCheck", "compactDue", "compactIndexing"} :
             pc' = [pc EXCEPT ![t] = where]
      BY DEF SealNothing, IndexStep, RebuildIndex, RebuildIndexFails, CompactStart, CompactCheck,
             CompactRevalidateFails, CollectDone, CollectFails, Goto, Return, AfterIndex, AfterSeal
    <3> QED BY <3>1, <3>2, <3>3, OthersUnlocked DEF BaseInv, TypeOK
  <2>2. pc'[t] \in {"compactCheck", "compactDue"} /\ checkpoint = NoCheckpoint
          => Contents(segments) = {}
    <3>1. CASE SealNothing(t)
      BY <2>1, <3>1, EmptyOverlay DEF SealNothing, BaseInv, SafeInv
    <3>2. CASE CompactStart(t)
      BY <2>1, <3>2, EmptyOverlay DEF CompactStart, Goto, BaseInv, TypeOK, SafeInv
    <3>3. CASE IndexStep(t)
      BY <3>3 DEF IndexStep, RebuildIndex, RebuildIndexFails, Return, Goto, AfterIndex, SafeInv,
                  StageInv, BaseInv, TypeOK
    <3>4. CASE CompactCheck(t)
      BY <3>4 DEF CompactCheck, SafeInv, StageInv
    <3>5. CASE CompactRevalidateFails(t) \/ CollectDone(t) \/ CollectFails(t)
      BY <3>5 DEF CompactRevalidateFails, CollectDone, CollectFails, Return, Goto, BaseInv, TypeOK
    <3> QED BY <3>1, <3>2, <3>3, <3>4, <3>5
  <2>3. \A u \in Tasks : u # t /\ pc'[u] \in {"compactCheck", "compactDue"}
          /\ checkpoint = NoCheckpoint => Contents(segments) = {}
    BY <2>1 DEF SafeInv, StageInv
  <2> QED BY <1>1, <2>1, <2>2, <2>3 DEF StageInv, Unlocked, Contents
<1> QED BY <1>2, <1>3 DEF SafeInv

\* A handler dropped while it waits leaves everything to the others.
LEMMA DropKeepsSafe ==
    ASSUME BaseInv, SafeInv, NEW t \in Tasks, HandlerDropped(t)
    PROVE  SafeInv' /\ mode' = mode /\ damaged' = damaged
<1>1. UNCHANGED <<wal, segFiles, ckptFile, mode, segments, mutable, checkpoint,
                  nextSeq, committed, staged, damaged>>
  BY DEF HandlerDropped, disk, memory, ghost
<1>2. (HistoryInv /\ LogInv /\ FrameInv /\ FilesInv /\ RuntimeInv)'
  BY <1>1, NothingMoves
<1>3. /\ pc'[t] = "idle"
      /\ \A u \in Tasks : u # t => pc'[u] = pc[u]
  BY DEF HandlerDropped, Goto, BaseInv, TypeOK
<1>4. StageInv'
  BY <1>1, <1>3 DEF SafeInv, StageInv, Contents, Newest, SealCheckpoint, SealedIds, SequencesOf,
                    CompactCheckpoint, IsMaximum
<1> QED BY <1>1, <1>2, <1>4 DEF SafeInv

\* A published segment has a fresh id, so nothing that exists changes.
LEMMA NewSegment ==
    ASSUME BaseInv, SafeInv, mode = "up",
           NEW id \in SegmentIds, IsNextSegmentId(id), NEW M, M \subseteq committed,
           segFiles' \in {segFiles, WithSegment(segFiles, id, M)},
           UNCHANGED <<wal, ckptFile, mode, segments, mutable, checkpoint, nextSeq, committed>>
    PROVE  /\ (HistoryInv /\ LogInv /\ FrameInv /\ FilesInv /\ RuntimeInv)'
           /\ segFiles' = WithSegment(segFiles, id, M) => segFiles'[id] = M
<1>1. id \notin DOMAIN segFiles
  BY StoreAssumption DEF BaseInv, TypeOK, IsNextSegmentId, IsSuccessor
<1>2. /\ DOMAIN segFiles \subseteq DOMAIN segFiles'
      /\ \A i \in DOMAIN segFiles : segFiles'[i] = segFiles[i]
      /\ \A i \in DOMAIN segFiles' : i \in DOMAIN segFiles \/ segFiles'[i] = M
      /\ segFiles' = WithSegment(segFiles, id, M) => segFiles'[id] = M
  BY <1>1 DEF WithSegment
<1>3. (HistoryInv /\ LogInv /\ FrameInv)'
  BY DEF SafeInv, HistoryInv, LogInv, FrameInv
<1>4. FilesInv'
  <2>1. \A i \in DOMAIN segFiles' : segFiles'[i] \subseteq committed
    BY <1>2 DEF SafeInv, FilesInv
  <2>2. ckptFile # NoCheckpoint =>
         /\ ckptFile.ids \subseteq DOMAIN segFiles'
         /\ \A i \in ckptFile.ids : segFiles'[i] = segFiles[i]
    BY <1>2 DEF SafeInv, FilesInv
  <2>3. \A m \in committed : m.seq > CheckpointSequence(ckptFile) \/ ckptFile # NoCheckpoint
    BY DEF BaseInv, TypeOK, Mutation, Sequence, CheckpointSequence
  <2> QED BY <2>1, <2>2, <2>3 DEF SafeInv, FilesInv, CoveredBy, SequencesOf, CheckpointSequence
<1>5. RuntimeInv'
  BY <1>2 DEF SafeInv, RuntimeInv, CoveredBy, SequencesOf, CheckpointSequence, Contents
<1> QED BY <1>2, <1>3, <1>4, <1>5

\* Publishing a segment while sealing.
LEMMA SealSegmentKeepsSafe ==
    ASSUME BaseInv, SafeInv, NEW t \in Tasks, SealPublishSegment(t) \/ SealSegmentFails(t)
    PROVE  SafeInv'
<1>1. /\ mode = "up" /\ LockFree /\ pc[t] = "sealDue"
      /\ UNCHANGED <<wal, ckptFile, mode, segments, mutable, checkpoint, nextSeq, committed>>
  BY DEF SealPublishSegment, SealSegmentFails, MaySeal, memory, ghost
<1>2. PICK id \in SegmentIds :
          /\ IsNextSegmentId(id)
          /\ segFiles' \in {segFiles, WithSegment(segFiles, id, Newest(mutable))}
          /\ SealPublishSegment(t) =>
               segFiles' = WithSegment(segFiles, id, Newest(mutable)) /\ staged' = id
  <2>1. CASE SealPublishSegment(t)
    BY <2>1 DEF SealPublishSegment
  <2>2. CASE SealSegmentFails(t) /\ ~SealPublishSegment(t)
    BY <2>2 DEF SealSegmentFails
  <2> QED BY <2>1, <2>2
<1>3. Newest(mutable) \subseteq committed
  BY <1>1 DEF SafeInv, RuntimeInv, Newest
<1>4. /\ (HistoryInv /\ LogInv /\ FrameInv /\ FilesInv /\ RuntimeInv)'
      /\ SealPublishSegment(t) => segFiles'[staged'] = Newest(mutable)
  BY <1>1, <1>2, <1>3, NewSegment
<1>5. /\ \A u \in Tasks : u # t => pc[u] \in Unlocked /\ pc'[u] = pc[u]
      /\ (pc'[t] = "sealing" /\ SealPublishSegment(t)) \/ pc'[t] = "idle"
  BY <1>1, OthersUnlocked DEF SealPublishSegment, SealSegmentFails, Goto, BaseInv, TypeOK
<1>6. StageInv'
  BY <1>1, <1>4, <1>5 DEF SafeInv, StageInv, Unlocked, Contents, Newest
<1> QED BY <1>4, <1>6 DEF SafeInv

LEMMA CompactSegmentKeepsSafe ==
    ASSUME BaseInv, SafeInv, NEW t \in Tasks, CompactPublishSegment(t) \/ CompactSegmentFails(t)
    PROVE  SafeInv'
<1>1. /\ mode = "up" /\ LockFree /\ pc[t] = "compactDue"
      /\ UNCHANGED <<wal, ckptFile, mode, segments, mutable, checkpoint, nextSeq, committed>>
  BY DEF CompactPublishSegment, CompactSegmentFails, MayCompact, memory, ghost, BaseInv, LockInv
<1>2. PICK id \in SegmentIds :
          /\ IsNextSegmentId(id)
          /\ segFiles' \in {segFiles, WithSegment(segFiles, id, Compacted)}
          /\ CompactPublishSegment(t) =>
               segFiles' = WithSegment(segFiles, id, Compacted) /\ staged' = id
  <2>1. CASE CompactPublishSegment(t)
    BY <2>1 DEF CompactPublishSegment
  <2>2. CASE CompactSegmentFails(t) /\ ~CompactPublishSegment(t)
    BY <2>2 DEF CompactSegmentFails
  <2> QED BY <2>1, <2>2
<1>3. Compacted \subseteq committed
  BY <1>1 DEF SafeInv, RuntimeInv, FilesInv, Compacted, Contents, Newest
<1>4. /\ (HistoryInv /\ LogInv /\ FrameInv /\ FilesInv /\ RuntimeInv)'
      /\ CompactPublishSegment(t) => segFiles'[staged'] = Compacted
  BY <1>1, <1>2, <1>3, NewSegment
<1>5. /\ \A u \in Tasks : u # t => pc[u] \in Unlocked /\ pc'[u] = pc[u]
      /\ (pc'[t] = "compacting" /\ CompactPublishSegment(t)) \/ pc'[t] = "idle"
  BY <1>1, OthersUnlocked DEF CompactPublishSegment, CompactSegmentFails, Goto, BaseInv, TypeOK
<1>6. StageInv'
  BY <1>1, <1>4, <1>5 DEF SafeInv, StageInv, Unlocked, Contents, Newest, Compacted
<1> QED BY <1>4, <1>6 DEF SafeInv

\* A checkpoint that represents the collection: its segments exist, are no
\* newer than it, and cover every accepted mutation that is not in the overlay.
CheckpointFits(c) ==
    /\ c.ids \subseteq DOMAIN segFiles
    /\ \A id \in c.ids : \A m \in segFiles[id] : m.seq <= c.seq
    /\ c.seq \in SequencesOf(committed)
    /\ \A m \in committed :
         IF m.seq > c.seq THEN m \in mutable
         ELSE \E id \in c.ids : CoveredBy(m, segFiles[id])

\* The checkpoint a seal publishes represents everything accepted so far.
LEMMA SealCheckpointFits ==
    ASSUME BaseInv, SafeInv, mode = "up", staged \in DOMAIN segFiles,
           segFiles[staged] = Newest(mutable), NEW c, SealCheckpoint(c)
    PROVE  /\ c \in [ids : SUBSET Nat, seq : Nat] /\ c # NoCheckpoint
           /\ c.ids = DOMAIN segments \cup {staged}
           /\ CheckpointFits(c)
           /\ \A m \in committed : m.seq <= c.seq
<1>1. /\ TypeOK /\ FilesInv /\ RuntimeInv
      /\ committed \subseteq Mutation /\ mutable \subseteq committed
      /\ DOMAIN segments \subseteq DOMAIN segFiles
      /\ \A id \in DOMAIN segments : segments[id] = segFiles[id]
  BY DEF BaseInv, SafeInv, RuntimeInv, TypeOK
<1>2. PICK top \in SequencesOf(mutable) :
        /\ \A s \in SequencesOf(mutable) : s <= top
        /\ c = [ids |-> SealedIds, seq |-> top]
  BY DEF SealCheckpoint, IsMaximum
<1>3. top \in Nat /\ c.seq = top /\ c.ids = DOMAIN segments \cup {staged}
  BY <1>1, <1>2 DEF SequencesOf, Mutation, Sequence, SealedIds, RuntimeInv
<1>4. c \in [ids : SUBSET Nat, seq : Nat] /\ c # NoCheckpoint
  <2>1. SealedIds \in SUBSET Nat
    <3>1. SegmentIds \subseteq Nat /\ DOMAIN segFiles \subseteq SegmentIds
      BY <1>1, StoreAssumption DEF TypeOK
    <3> QED BY <1>1, <1>2, <1>3, <3>1
  <2>2. c \in [ids : SUBSET Nat, seq : Nat]
    BY <1>2, <1>3, <2>1
  <2> QED BY <2>2, StoreAssumption
<1>5. CheckpointSequence(checkpoint) \in Nat
  BY <1>1 DEF TypeOK, CheckpointSequence, Checkpoint, Sequence
<1>6. top > CheckpointSequence(checkpoint)
  BY <1>1, <1>2 DEF SequencesOf, RuntimeInv
<1>7. ASSUME NEW m \in committed PROVE m.seq <= top
  <2>1. CASE m \in mutable
    BY <1>2, <2>1 DEF SequencesOf
  <2>2. CASE m \notin mutable
    BY <1>1, <1>3, <1>5, <1>6, <2>2 DEF RuntimeInv, Mutation, Sequence
  <2> QED BY <2>1, <2>2
<1>8. c.seq \in SequencesOf(committed)
  BY <1>1, <1>2, <1>3 DEF SequencesOf
<1>9. \A id \in c.ids : \A m \in segFiles[id] : m.seq <= c.seq
  BY <1>1, <1>3, <1>7 DEF FilesInv
<1>10. ASSUME NEW m \in committed PROVE \E id \in c.ids : CoveredBy(m, segFiles[id])
  <2>1. CASE m \in mutable
    <3>1. CoveredBy(m, Newest(mutable))
      BY <1>1, <2>1, NewestCovers
    <3> QED BY <1>3, <3>1
  <2>2. CASE m \notin mutable
    <3>1. CoveredBy(m, Contents(segments))
      BY <1>1, <2>2 DEF RuntimeInv
    <3> QED BY <1>1, <1>3, <3>1 DEF CoveredBy, Contents
  <2> QED BY <2>1, <2>2
<1>11. CheckpointFits(c)
  <2>1. c.ids \subseteq DOMAIN segFiles
    BY <1>1, <1>3
  <2>2. \A m \in committed : ~(m.seq > c.seq)
    BY <1>1, <1>3, <1>7 DEF Mutation, Sequence
  <2> QED BY <1>8, <1>9, <1>10, <2>1, <2>2 DEF CheckpointFits
<1> QED BY <1>3, <1>4, <1>7, <1>11

\* The checkpoint a compaction publishes represents what the old one did.
LEMMA CompactCheckpointFits ==
    ASSUME BaseInv, SafeInv, mode = "up", staged \in DOMAIN segFiles,
           segFiles[staged] = Newest(Contents(segments)),
           checkpoint = NoCheckpoint => Contents(segments) = {},
           NEW c \in Checkpoint, CompactCheckpoint(c)
    PROVE  c # NoCheckpoint /\ c.ids = {staged} /\ CheckpointFits(c)
           /\ checkpoint # NoCheckpoint /\ c.seq = checkpoint.seq
<1>1. /\ TypeOK /\ FilesInv /\ RuntimeInv
      /\ committed \subseteq Mutation
      /\ Contents(segments) \subseteq Mutation
  BY DEF BaseInv, SafeInv, TypeOK, Contents
<1>2. checkpoint # NoCheckpoint /\ c.seq = checkpoint.seq /\ c.ids = {staged}
  BY DEF CompactCheckpoint, IsMaximum, SequencesOf
<1>3. c # NoCheckpoint
  <2>1. SegmentIds \subseteq Nat
    BY StoreAssumption
  <2>2. SUBSET SegmentIds \subseteq SUBSET Nat /\ Sequence \subseteq Nat
    BY <2>1 DEF Sequence
  <2>3. c.ids \in SUBSET SegmentIds /\ c.seq \in Sequence /\ c = [ids |-> c.ids, seq |-> c.seq]
    BY DEF Checkpoint
  <2>4. c.ids \in SUBSET Nat /\ c.seq \in Nat
    BY <2>2, <2>3
  <2>5. c \in [ids : SUBSET Nat, seq : Nat]
    BY <2>3, <2>4
  <2> QED BY <2>5, StoreAssumption
<1>4. \A m \in segFiles[staged] : m.seq <= c.seq
  BY <1>1, <1>2 DEF RuntimeInv, Newest
<1>5. ASSUME NEW m \in committed
      PROVE  IF m.seq > c.seq THEN m \in mutable ELSE CoveredBy(m, segFiles[staged])
  <2>1. CASE m.seq > c.seq
    BY <1>1, <1>2, <2>1 DEF RuntimeInv, CheckpointSequence
  <2>2. CASE ~(m.seq > c.seq)
    <3>1. PICK n \in Contents(segments) : n.rec = m.rec /\ n.seq >= m.seq
      BY <1>1, <1>2, <2>2 DEF RuntimeInv, CheckpointSequence, CoveredBy
    <3>2. PICK k \in segFiles[staged] : k.rec = n.rec /\ k.seq >= n.seq
      BY <1>1, NewestCovers DEF CoveredBy
    <3>3. k \in Mutation
      BY <1>1, <3>2 DEF Newest
    <3>4. k.seq >= m.seq
      BY <1>1, <3>1, <3>2, <3>3 DEF Mutation, Sequence
    <3> QED BY <2>2, <3>1, <3>2, <3>4 DEF CoveredBy
  <2> QED BY <2>1, <2>2
<1>6. CheckpointFits(c)
  BY <1>1, <1>2, <1>4, <1>5 DEF CheckpointFits, RuntimeInv
<1> QED BY <1>2, <1>3, <1>6

\* Publishing a checkpoint that fits.
LEMMA NewCheckpoint ==
    ASSUME BaseInv, SafeInv, mode = "up", NEW c, c # NoCheckpoint, CheckpointFits(c),
           ckptFile' \in {ckptFile, c},
           UNCHANGED <<wal, segFiles, mode, segments, mutable, checkpoint, nextSeq, committed>>
    PROVE  (HistoryInv /\ LogInv /\ FrameInv /\ FilesInv /\ RuntimeInv)'
<1>1. (HistoryInv /\ LogInv /\ FrameInv)'
  BY DEF SafeInv, HistoryInv, LogInv, FrameInv
<1>2. RuntimeInv'
  BY DEF SafeInv, RuntimeInv, CoveredBy, SequencesOf, CheckpointSequence, Contents
<1>3. CASE ckptFile' = ckptFile
  BY <1>1, <1>2, <1>3 DEF SafeInv, FilesInv, CoveredBy, SequencesOf, CheckpointSequence
<1>4. CASE ckptFile' = c
  <2>1. CheckpointSequence(ckptFile') = c.seq
    BY <1>4 DEF CheckpointSequence
  <2>2. \A m \in committed :
          IF m.seq > c.seq
          THEN \E i \in 1 .. Len(wal) : wal[i] = m
          ELSE \E id \in c.ids : CoveredBy(m, segFiles[id])
    BY DEF SafeInv, RuntimeInv, CheckpointFits
  <2>3. FilesInv'
    BY <1>4, <2>1, <2>2 DEF SafeInv, FilesInv, CheckpointFits, CoveredBy, SequencesOf
  <2> QED BY <1>1, <1>2, <2>3
<1> QED BY <1>3, <1>4

LEMMA SealCheckpointKeepsSafe ==
    ASSUME BaseInv, SafeInv, NEW t \in Tasks,
           SealPublishCheckpoint(t) \/ SealCheckpointFails(t)
    PROVE  SafeInv'
<1>1. /\ pc[t] = "sealing" /\ mode = "up" /\ staged \in DOMAIN segFiles
      /\ segFiles[staged] = Newest(mutable)
      /\ UNCHANGED <<wal, segFiles, mode, segments, mutable, checkpoint, nextSeq, committed>>
  BY DEF SealPublishCheckpoint, SealCheckpointFails, memory, ghost, BaseInv, LockInv, StagedInv,
         SafeInv, StageInv
<1>2. PICK c \in Checkpoint : SealCheckpoint(c) /\ ckptFile' \in {ckptFile, c}
                              /\ (SealPublishCheckpoint(t) => ckptFile' = c)
  <2>1. CASE SealPublishCheckpoint(t)
    BY <2>1 DEF SealPublishCheckpoint
  <2>2. CASE SealCheckpointFails(t) /\ ~SealPublishCheckpoint(t)
    BY <2>2 DEF SealCheckpointFails
  <2> QED BY <2>1, <2>2
<1>3. c # NoCheckpoint /\ CheckpointFits(c)
  BY <1>1, <1>2, SealCheckpointFits
<1>4. (HistoryInv /\ LogInv /\ FrameInv /\ FilesInv /\ RuntimeInv)'
  BY <1>1, <1>2, <1>3, NewCheckpoint
<1>5. /\ \A u \in Tasks : u # t => pc[u] \in Unlocked /\ pc'[u] = pc[u]
      /\ (pc'[t] = "sealed" /\ SealPublishCheckpoint(t)) \/ pc'[t] = "idle"
  BY <1>1, OthersUnlocked
     DEF SealPublishCheckpoint, SealCheckpointFails, Goto, Return, BaseInv, TypeOK, Locked
<1>6. SealPublishCheckpoint(t) => SealCheckpoint(ckptFile)' /\ segFiles'[staged'] = Newest(mutable')
  BY <1>1, <1>2 DEF SealPublishCheckpoint, SealCheckpoint, SealedIds, SequencesOf
<1>7. StageInv'
  BY <1>1, <1>5, <1>6 DEF SafeInv, StageInv, Unlocked, Contents
<1> QED BY <1>4, <1>7 DEF SafeInv

LEMMA CompactCheckpointKeepsSafe ==
    ASSUME BaseInv, SafeInv, NEW t \in Tasks,
           CompactPublishCheckpoint(t) \/ CompactCheckpointFails(t)
    PROVE  SafeInv'
<1>1. /\ pc[t] = "compacting" /\ mode = "up" /\ staged \in DOMAIN segFiles
      /\ segFiles[staged] = Newest(Contents(segments))
      /\ checkpoint = NoCheckpoint => Contents(segments) = {}
      /\ UNCHANGED <<wal, segFiles, mode, segments, mutable, checkpoint, nextSeq, committed>>
  BY DEF CompactPublishCheckpoint, CompactCheckpointFails, memory, ghost, BaseInv, LockInv,
         StagedInv, SafeInv, StageInv
<1>2. PICK c \in Checkpoint : CompactCheckpoint(c) /\ ckptFile' \in {ckptFile, c}
                              /\ (CompactPublishCheckpoint(t) => ckptFile' = c)
  <2>1. CASE CompactPublishCheckpoint(t)
    BY <2>1 DEF CompactPublishCheckpoint
  <2>2. CASE CompactCheckpointFails(t) /\ ~CompactPublishCheckpoint(t)
    BY <2>2 DEF CompactCheckpointFails
  <2> QED BY <2>1, <2>2
<1>3. c # NoCheckpoint /\ CheckpointFits(c)
  BY <1>1, <1>2, CompactCheckpointFits
<1>4. (HistoryInv /\ LogInv /\ FrameInv /\ FilesInv /\ RuntimeInv)'
  BY <1>1, <1>2, <1>3, NewCheckpoint
<1>5. /\ \A u \in Tasks : u # t => pc[u] \in Unlocked /\ pc'[u] = pc[u]
      /\ (pc'[t] = "compacted" /\ CompactPublishCheckpoint(t)) \/ pc'[t] = "idle"
  BY <1>1, OthersUnlocked
     DEF CompactPublishCheckpoint, CompactCheckpointFails, Goto, Return, BaseInv, TypeOK, Locked
<1>6. CompactPublishCheckpoint(t) =>
        /\ ckptFile' \in Checkpoint
        /\ CompactCheckpoint(ckptFile)'
        /\ segFiles'[staged'] = Newest(Contents(segments'))
  BY <1>1, <1>2 DEF CompactPublishCheckpoint, CompactCheckpoint, SequencesOf, IsMaximum, Contents
<1>7. checkpoint' = NoCheckpoint => Contents(segments') = {}
  BY <1>1 DEF Contents
<1>8. StageInv'
  BY <1>1, <1>5, <1>6, <1>7 DEF SafeInv, StageInv, Unlocked, Contents
<1> QED BY <1>4, <1>8 DEF SafeInv

\* The switch to the sealed segment, with or without reclaiming the log.
LEMMA SealInstallKeepsSafe ==
    ASSUME BaseInv, SafeInv, NEW t \in Tasks, SealReclaim(t) \/ SealReclaimFails(t)
    PROVE  SafeInv'
<1>1. /\ pc[t] = "sealed" /\ mode = "up" /\ staged \in DOMAIN segFiles
      /\ segFiles[staged] = Newest(mutable)
      /\ SealCheckpoint(ckptFile)
      /\ UNCHANGED <<segFiles, ckptFile, mode, nextSeq, committed>>
      /\ wal' \in {wal, <<>>}
      /\ segments' = WithSegment(segments, staged, segFiles[staged])
      /\ mutable' = {}
      /\ checkpoint' = ckptFile
  BY DEF SealReclaim, SealReclaimFails, InstallSealed, ghost, BaseInv, LockInv, StagedInv,
         SafeInv, StageInv
<1>2. /\ TypeOK /\ HistoryInv /\ LogInv /\ FrameInv /\ FilesInv /\ RuntimeInv
      /\ committed \subseteq Mutation
  BY DEF BaseInv, SafeInv, TypeOK
<1>3. /\ ckptFile # NoCheckpoint
      /\ ckptFile.ids = DOMAIN segments \cup {staged}
      /\ CheckpointFits(ckptFile)
      /\ \A m \in committed : m.seq <= ckptFile.seq
      /\ ckptFile.seq \in Nat
  BY <1>1, SealCheckpointFits
<1>4. \A m \in committed : ~(m.seq > ckptFile.seq)
  BY <1>2, <1>3 DEF Mutation, Sequence
<1>5. HistoryInv'
  BY <1>1, <1>2 DEF HistoryInv
<1>6. LogInv' /\ FrameInv'
  <2>1. CASE wal' = wal
    BY <1>1, <1>2, <2>1 DEF LogInv, FrameInv
  <2>2. CASE wal' = <<>>
    <3>1. 1 .. Len(wal') = {}
      BY <2>2
    <3> QED BY <3>1 DEF LogInv, FrameInv
  <2> QED BY <1>1, <2>1, <2>2
<1>7. FilesInv'
  BY <1>1, <1>2, <1>3, <1>4 DEF FilesInv, CheckpointFits, CheckpointSequence, CoveredBy, SequencesOf
<1>8. RuntimeInv'
  <2>1. /\ DOMAIN segments' = ckptFile.ids
        /\ \A id \in ckptFile.ids : segments'[id] = segFiles[id]
    BY <1>1, <1>2, <1>3 DEF WithSegment, RuntimeInv
  <2>2. \A m \in Contents(segments') : m.seq <= ckptFile.seq
    BY <1>3, <2>1 DEF Contents, CheckpointFits
  <2>3. ASSUME NEW m \in committed PROVE CoveredBy(m, Contents(segments'))
    <3>1. PICK id \in ckptFile.ids : CoveredBy(m, segFiles[id])
      BY <1>3, <1>4 DEF CheckpointFits
    <3> QED BY <2>1, <3>1 DEF CoveredBy, Contents
  <2> QED BY <1>1, <1>3, <1>4, <2>1, <2>2, <2>3
          DEF RuntimeInv, CheckpointSequence, CheckpointFits, SequencesOf
<1>9. /\ \A u \in Tasks : u # t => pc[u] \in Unlocked /\ pc'[u] = pc[u]
      /\ pc'[t] \in {"sealIndexing", "idle"}
  BY <1>1, OthersUnlocked DEF SealReclaim, SealReclaimFails, Goto, Return, BaseInv, TypeOK, Locked
<1>10. StageInv'
  BY <1>1, <1>3, <1>9 DEF StageInv, Unlocked
<1> QED BY <1>5, <1>6, <1>7, <1>8, <1>10 DEF SafeInv

\* The switch to the compacted segment.
LEMMA CompactInstallKeepsSafe ==
    ASSUME BaseInv, SafeInv, NEW t \in Tasks, CompactInstall(t)
    PROVE  SafeInv'
<1>1. /\ pc[t] = "compacted" /\ mode = "up" /\ staged \in DOMAIN segFiles
      /\ segFiles[staged] = Newest(Contents(segments))
      /\ checkpoint = NoCheckpoint => Contents(segments) = {}
      /\ ckptFile \in Checkpoint /\ CompactCheckpoint(ckptFile)
      /\ UNCHANGED <<wal, segFiles, ckptFile, mode, mutable, nextSeq, committed>>
      /\ segments' = OnlySegments(segFiles, {staged})
      /\ checkpoint' = ckptFile
  BY DEF CompactInstall, disk, ghost, BaseInv, LockInv, StagedInv, SafeInv, StageInv
<1>2. /\ ckptFile # NoCheckpoint /\ ckptFile.ids = {staged} /\ CheckpointFits(ckptFile)
      /\ checkpoint # NoCheckpoint /\ ckptFile.seq = checkpoint.seq
  BY <1>1, CompactCheckpointFits
<1>3. (HistoryInv /\ LogInv /\ FrameInv)'
  BY <1>1 DEF SafeInv, HistoryInv, LogInv, FrameInv
<1>4. FilesInv'
  BY <1>1 DEF SafeInv, FilesInv, CoveredBy, SequencesOf, CheckpointSequence
<1>5. RuntimeInv'
  <2>1. /\ DOMAIN segments' = ckptFile.ids
        /\ \A id \in ckptFile.ids : segments'[id] = segFiles[id]
    BY <1>1, <1>2 DEF OnlySegments
  <2>2. \A m \in Contents(segments') : m.seq <= ckptFile.seq
    BY <1>2, <2>1 DEF Contents, CheckpointFits
  <2>3. ASSUME NEW m \in committed
        PROVE  IF m.seq > ckptFile.seq THEN m \in mutable ELSE CoveredBy(m, Contents(segments'))
    BY <1>2, <2>1 DEF CheckpointFits, CoveredBy, Contents
  <2> QED BY <1>1, <1>2, <2>1, <2>2, <2>3
          DEF SafeInv, RuntimeInv, CheckpointSequence, CheckpointFits, SequencesOf
<1>6. /\ \A u \in Tasks : u # t => pc[u] \in Unlocked /\ pc'[u] = pc[u]
      /\ pc'[t] = "collecting"
  BY <1>1, OthersUnlocked DEF CompactInstall, Goto, BaseInv, TypeOK, Locked
<1>7. StageInv'
  BY <1>1, <1>2, <1>6 DEF StageInv, Unlocked
<1> QED BY <1>3, <1>4, <1>5, <1>7 DEF SafeInv

\* Garbage collection deletes only what neither checkpoint names.
LEMMA CollectKeepsSafe ==
    ASSUME BaseInv, SafeInv, NEW t \in Tasks, CollectSegment(t)
    PROVE  SafeInv'
<1>1. /\ pc[t] = "collecting" /\ mode = "up"
      /\ checkpoint = ckptFile /\ ckptFile # NoCheckpoint
      /\ UNCHANGED <<wal, ckptFile, mode, segments, mutable, checkpoint, nextSeq, committed, pc,
                     staged>>
  BY DEF CollectSegment, memory, ghost, BaseInv, LockInv, SafeInv, StageInv
<1>2. PICK id \in Garbage : segFiles' = OnlySegments(segFiles, DOMAIN segFiles \ {id})
  BY DEF CollectSegment
<1>3. /\ id \notin ckptFile.ids
      /\ DOMAIN segFiles' = DOMAIN segFiles \ {id}
      /\ \A i \in DOMAIN segFiles' : segFiles'[i] = segFiles[i]
  BY <1>1, <1>2 DEF Garbage, OnlySegments
<1>4. (HistoryInv /\ LogInv /\ FrameInv)'
  BY <1>1 DEF SafeInv, HistoryInv, LogInv, FrameInv
<1>5. FilesInv'
  <2>1. \A i \in ckptFile.ids : i \in DOMAIN segFiles' /\ segFiles'[i] = segFiles[i]
    BY <1>1, <1>3 DEF SafeInv, FilesInv
  <2> QED BY <1>1, <1>3, <2>1 DEF SafeInv, FilesInv, CoveredBy, SequencesOf, CheckpointSequence
<1>6. RuntimeInv'
  <2>1. \A i \in DOMAIN segments : i \in DOMAIN segFiles' /\ segFiles'[i] = segFiles[i]
    BY <1>1, <1>3 DEF SafeInv, RuntimeInv
  <2> QED BY <1>1, <2>1 DEF SafeInv, RuntimeInv, CoveredBy, SequencesOf, CheckpointSequence, Contents
<1>7. StageInv'
  <2>1. \A u \in Tasks : u # t => pc[u] \in Unlocked
    BY <1>1, OthersUnlocked DEF Locked
  <2> QED BY <1>1, <2>1 DEF SafeInv, StageInv, Unlocked, Contents
<1> QED BY <1>4, <1>5, <1>6, <1>7 DEF SafeInv

-----------------------------------------------------------------------------
(* The invariant *)

LEMMA SafeInit == Init => IInv
<1> SUFFICES ASSUME Init PROVE IInv
  OBVIOUS
<1>1. BaseInv
  BY BaseInit
<1>2. /\ 1 .. Len(wal) = {} /\ committed = {} /\ mutable = {}
      /\ DOMAIN segFiles = {} /\ DOMAIN segments = {}
      /\ \A t \in Tasks : pc[t] = "idle"
      /\ mode = "up" /\ ckptFile = NoCheckpoint /\ checkpoint = NoCheckpoint
  BY DEF Init
<1>3. HistoryInv /\ LogInv /\ FrameInv /\ FilesInv /\ StageInv
  BY <1>2 DEF HistoryInv, LogInv, FrameInv, FilesInv, StageInv
<1>4. RuntimeInv
  BY <1>2 DEF RuntimeInv
<1> QED BY <1>1, <1>2, <1>3, <1>4 DEF IInv, SafeInv

\* Nothing but an append damages the log, and an append that does not damage
\* it found a clean tail.
LEMMA DamageIsAnAppend ==
    ASSUME BaseInv, [Next]_vars, ~damaged'
    PROVE  /\ ~damaged
           /\ (\E t \in Tasks : WriteStep(t)) \/ CrashInAppend => TailClean
<1>1. ASSUME NEW t \in Tasks, WriteStep(t) PROVE ~damaged /\ TailClean
  BY <1>1 DEF WriteStep, UpsertBatch, Delete, ReplaceParentChunks, DeleteParentDocument,
              AppendFails, AppendBatch, PartialAppend
<1>2. CASE CrashInAppend
  BY <1>2 DEF CrashInAppend, PartialAppend
<1>3. ASSUME NEW t \in Tasks, SealStep(t) \/ IndexStep(t) \/ CompactStart(t) \/ CompactStep(t)
      PROVE  damaged' = damaged
  BY <1>3 DEF ghost, SealStep, SealNothing, SealPublishSegment, SealSegmentFails,
       SealPublishCheckpoint, SealCheckpointFails, SealReclaim, SealReclaimFails, IndexStep,
       RebuildIndex, RebuildIndexFails, CompactStart, CompactStep, CompactCheck,
       CompactRevalidateFails, CompactPublishSegment, CompactSegmentFails,
       CompactPublishCheckpoint, CompactCheckpointFails, CompactInstall, CollectSegment,
       CollectDone, CollectFails
<1>4. Crash \/ Recover \/ RecoverRefused \/ UNCHANGED vars => damaged' = damaged
  BY DEF Crash, Recover, RecoverRefused, ghost, vars
<1>5. ASSUME NEW t \in Tasks, HandlerDropped(t) PROVE damaged' = damaged
  BY <1>5 DEF HandlerDropped, ghost
<1> QED BY <1>1, <1>2, <1>3, <1>4, <1>5 DEF Next

LEMMA SafeNext == IInv /\ [Next]_vars => IInv'
<1> SUFFICES ASSUME IInv, [Next]_vars PROVE IInv'
  OBVIOUS
<1>1. BaseInv /\ BaseInv'
  BY BaseNext DEF IInv
<1>2. SUFFICES ASSUME ~damaged' PROVE mode' # "refused" /\ SafeInv'
  BY <1>1 DEF IInv
<1>3. /\ SafeInv /\ mode # "refused"
      /\ (\E t \in Tasks : WriteStep(t)) \/ CrashInAppend => TailClean
  BY <1>1, <1>2, DamageIsAnAppend DEF IInv
<1>4. CASE UNCHANGED vars
  <2>1. (HistoryInv /\ LogInv /\ FrameInv /\ FilesInv /\ RuntimeInv)' /\ mode' = mode
    BY <1>3, <1>4, NothingMoves DEF vars, disk, memory, ghost
  <2>2. StageInv'
    BY <1>3, <1>4 DEF SafeInv, StageInv, Contents, Newest, SealCheckpoint, SealedIds, SequencesOf,
                      CompactCheckpoint, IsMaximum, vars, disk, memory, ghost
  <2> QED BY <1>3, <2>1, <2>2 DEF SafeInv
<1>5. ASSUME NEW t \in Tasks, WriteStep(t) PROVE mode' # "refused" /\ SafeInv'
  <2>1. TailClean
    BY <1>3, <1>5
  <2>2. CASE AppendFails(t)
    BY <1>1, <1>3, <2>1, <2>2, AppendFailsKeepsSafe DEF AppendFails
  <2>3. CASE ~AppendFails(t)
    <3>1. PICK b \in Batches : AppendBatch(t, b)
      BY <1>5, <2>3 DEF WriteStep, UpsertBatch, Upserts, Delete, Deletes, ReplaceParentChunks,
                        DeleteParentDocument
    <3> QED BY <1>1, <1>3, <2>1, <3>1, AppendKeepsSafe DEF AppendBatch
  <2> QED BY <2>2, <2>3
<1>6. ASSUME NEW t \in Tasks, SealStep(t) \/ IndexStep(t) \/ CompactStart(t) \/ CompactStep(t)
      PROVE  mode' # "refused" /\ SafeInv'
  <2>1. mode' = mode
    BY <1>6 DEF SealStep, SealNothing, SealPublishSegment, SealSegmentFails,
       SealPublishCheckpoint, SealCheckpointFails, SealReclaim, SealReclaimFails, IndexStep,
       RebuildIndex, RebuildIndexFails, CompactStart, CompactStep, CompactCheck,
       CompactRevalidateFails, CompactPublishSegment, CompactSegmentFails,
       CompactPublishCheckpoint, CompactCheckpointFails, CompactInstall, CollectSegment,
       CollectDone, CollectFails
  <2>2. SafeInv'
    BY <1>1, <1>3, <1>6, QuietStepKeepsSafe, SealSegmentKeepsSafe, SealCheckpointKeepsSafe,
       SealInstallKeepsSafe, CompactSegmentKeepsSafe, CompactCheckpointKeepsSafe,
       CompactInstallKeepsSafe, CollectKeepsSafe DEF SealStep, CompactStep
  <2> QED BY <1>3, <2>1, <2>2
<1>7. CASE Crash
  BY <1>1, <1>3, <1>7, CrashKeepsSafe
<1>8. CASE CrashInAppend
  BY <1>1, <1>3, <1>8, CrashInAppendKeepsSafe
<1>9. CASE Recover
  BY <1>1, <1>3, <1>9, RecoverKeepsSafe
<1>10. CASE RecoverRefused
  BY <1>1, <1>3, <1>10, RecoveryAccepts
<1>11. ASSUME NEW t \in Tasks, HandlerDropped(t) PROVE mode' # "refused" /\ SafeInv'
  BY <1>1, <1>3, <1>11, DropKeepsSafe
<1> QED BY <1>4, <1>5, <1>6, <1>7, <1>8, <1>9, <1>10, <1>11 DEF Next

LEMMA InvariantHolds == Spec => []IInv
BY SafeInit, SafeNext, PTL DEF Spec

\* The open segments and the overlay show what was accepted.
LEMMA ViewShowsRecords ==
    ASSUME BaseInv, SafeInv, mode = "up"
    PROVE  Visible(View) = Visible(committed)
<1>1. committed \subseteq Mutation /\ \A m, n \in committed : m.seq = n.seq => m = n
  BY DEF BaseInv, TypeOK, SafeInv, HistoryInv
<1>2. View \subseteq committed
  BY DEF SafeInv, FilesInv, RuntimeInv, View, Contents
<1>3. ASSUME NEW m \in committed PROVE CoveredBy(m, View)
  <2>1. CASE m \in mutable
    BY <1>1, <2>1 DEF CoveredBy, View, Mutation, Sequence
  <2>2. CASE m \notin mutable
    BY <2>2 DEF SafeInv, RuntimeInv, CoveredBy, View
  <2> QED BY <2>1, <2>2
<1> QED BY <1>1, <1>2, <1>3, CoverShowsSame

\* What recovery would find in the files: every accepted mutation, or a newer version of its
\* record, and nothing that was not accepted but the frames left in the log.
LEMMA FilesShow ==
    BaseInv /\ SafeInv =>
        /\ RecoveredMutable \subseteq Replayed(wal) /\ Replayed(wal) \subseteq Mutation
        /\ \A m \in Replayed(wal) : \E i \in 1 .. Len(wal) : wal[i] = m
        /\ \A m, n \in Replayed(wal) : m.seq = n.seq => m = n
        /\ Contents(RecoveredSegments) \subseteq committed
        /\ \A m \in committed : CoveredBy(m, DurableView)
        /\ Visible(DurableView) = Visible(committed \cup RecoveredMutable)
<1> SUFFICES ASSUME BaseInv, SafeInv
             PROVE  /\ RecoveredMutable \subseteq Replayed(wal) /\ Replayed(wal) \subseteq Mutation
                    /\ \A m \in Replayed(wal) : \E i \in 1 .. Len(wal) : wal[i] = m
                    /\ \A m, n \in Replayed(wal) : m.seq = n.seq => m = n
                    /\ Contents(RecoveredSegments) \subseteq committed
                    /\ \A m \in committed : CoveredBy(m, DurableView)
                    /\ Visible(DurableView) = Visible(committed \cup RecoveredMutable)
  OBVIOUS
<1>1. TypeOK /\ HistoryInv /\ LogInv /\ FrameInv /\ FilesInv /\ committed \subseteq Mutation
  BY DEF BaseInv, SafeInv, TypeOK
<1>2. /\ \A i \in 1 .. Len(wal) : wal[i] # Torn => wal[i] \in Replayed(wal)
      /\ \A m \in Replayed(wal) : m \in Mutation /\ \E i \in 1 .. Len(wal) : wal[i] = m
      /\ \A m, n \in Replayed(wal) : m.seq = n.seq => m = n
  BY <1>1, OrderedLogReplays
<1>3. RecoveredMutable \subseteq Replayed(wal) /\ Replayed(wal) \subseteq Mutation
  BY <1>2 DEF RecoveredMutable
<1>4. Contents(RecoveredSegments) \subseteq committed
  BY <1>1 DEF FilesInv, Contents, RecoveredSegments, OnlySegments
<1>5. ASSUME NEW m \in committed PROVE CoveredBy(m, DurableView)
  <2>1. m \in Mutation /\ m # Torn
    BY <1>1, TornIsNoMutation
  <2>2. CASE m.seq > CheckpointSequence(ckptFile)
    <3>1. PICK i \in 1 .. Len(wal) : wal[i] = m
      BY <1>1, <2>2 DEF FilesInv
    <3>2. m \in DurableView
      BY <1>2, <2>1, <2>2, <3>1 DEF DurableView, RecoveredMutable
    <3> QED BY <2>1, <3>2 DEF CoveredBy, Mutation, Sequence
  <2>3. CASE ~(m.seq > CheckpointSequence(ckptFile))
    <3>1. ckptFile # NoCheckpoint
      BY <2>1, <2>3 DEF CheckpointSequence, Mutation, Sequence
    <3>2. PICK id \in ckptFile.ids : CoveredBy(m, segFiles[id])
      BY <1>1, <2>3 DEF FilesInv
    <3>3. segFiles[id] \subseteq DurableView
      BY <1>1, <3>1 DEF FilesInv, DurableView, RecoveredSegments, OnlySegments, Contents
    <3> QED BY <3>2, <3>3 DEF CoveredBy
  <2> QED BY <2>2, <2>3
<1>6. Visible(DurableView) = Visible(committed \cup RecoveredMutable)
  <2> DEFINE C == committed \cup RecoveredMutable
  <2>1. C \subseteq Mutation /\ DurableView \subseteq C
    BY <1>1, <1>3, <1>4 DEF DurableView
  <2>2. \A m \in Replayed(wal) : m \in committed \/ \A n \in committed : n.seq < m.seq
    BY <1>1, <1>2, TornIsNoMutation DEF FrameInv
  <2>3. ASSUME NEW m \in C, NEW n \in C, m.seq = n.seq PROVE m = n
    <3>1. CASE m \in committed /\ n \in committed
      BY <1>1, <2>3, <3>1 DEF HistoryInv
    <3>2. CASE m \in RecoveredMutable /\ n \in RecoveredMutable
      BY <1>2, <1>3, <2>3, <3>2
    <3>3. ASSUME NEW x \in committed, NEW y \in RecoveredMutable, x.seq = y.seq PROVE x = y
      <4>1. y \in committed
        BY <1>1, <1>3, <2>2, <3>3 DEF Mutation, Sequence
      <4> QED BY <1>1, <3>3, <4>1 DEF HistoryInv
    <3> QED BY <2>3, <3>1, <3>2, <3>3
  <2>4. ASSUME NEW m \in C PROVE CoveredBy(m, DurableView)
    <3>1. CASE m \in committed
      BY <1>5, <3>1
    <3>2. CASE m \in RecoveredMutable
      BY <2>1, <3>2 DEF CoveredBy, DurableView, Mutation, Sequence
    <3> QED BY <3>1, <3>2
  <2> HIDE DEF C
  <2>5. Visible(DurableView) = Visible(C)
    BY <2>1, <2>3, <2>4, CoverShowsSame
  <2> QED BY <2>5 DEF C
<1> QED BY <1>2, <1>3, <1>4, <1>5, <1>6

\* Queries see exactly the newest accepted version of every record, whatever
\* the writers, seals, compactions, I/O errors and crashes did before.
THEOREM AcceptedWritesSurvive == Spec => []AcceptedWritesVisible
<1>1. IInv => AcceptedWritesVisible
  BY ViewShowsRecords DEF IInv, AcceptedWritesVisible
<1> QED BY <1>1, InvariantHolds, PTL

\* At every step of every handler the files alone bring back every accepted
\* write: the order segment, checkpoint, log reclaim, garbage collection is
\* safe to interrupt anywhere.
THEOREM FilesDetermineRecords == Spec => []DurableAtEveryStep
<1>1. IInv => DurableAtEveryStep
  BY FilesShow DEF IInv, DurableAtEveryStep, CoveredBy
<1> QED BY <1>1, InvariantHolds, PTL

\* recover_with_threshold accepts every state of the files the handlers can
\* leave behind.
THEOREM RecoveryAlwaysAccepts == Spec => []RestartNotRefused
<1>1. IInv => RestartNotRefused
  BY DEF IInv, RestartNotRefused
<1> QED BY <1>1, InvariantHolds, PTL

\* A sequence number identifies one accepted mutation, across restarts too.
THEOREM SequencesNeverReused == Spec => []SequencesUnique
<1>1. IInv => SequencesUnique
  BY DEF IInv, SafeInv, HistoryInv, SequencesUnique
<1> QED BY <1>1, InvariantHolds, PTL

\* No step of any handler, crash or recovery rewrites an existing segment file:
\* discover() hands out an id above every file on disk, orphans included.
THEOREM SegmentFilesImmutable == Spec => SegmentsImmutable
<1> DEFINE Kept == \A id \in DOMAIN segFiles \cap DOMAIN segFiles' : segFiles'[id] = segFiles[id]
<1>1. ASSUME BaseInv, NEW id \in SegmentIds, IsNextSegmentId(id), NEW M,
             segFiles' \in {segFiles, WithSegment(segFiles, id, M)}
      PROVE  Kept
  <2>1. id \notin DOMAIN segFiles
    BY <1>1, StoreAssumption DEF BaseInv, TypeOK, IsNextSegmentId, IsSuccessor
  <2> QED BY <1>1, <2>1 DEF WithSegment
<1>2. ASSUME BaseInv, [Next]_vars PROVE [Kept]_vars
  <2>1. SUFFICES ASSUME Next PROVE Kept
    BY <1>2
  <2>2. ASSUME NEW t \in Tasks, WriteStep(t) PROVE Kept
    BY <2>2 DEF WriteStep, UpsertBatch, Delete, ReplaceParentChunks, DeleteParentDocument,
                AppendFails, AppendBatch
  <2>3. ASSUME NEW t \in Tasks, SealStep(t) PROVE Kept
    <3>1. CASE SealPublishSegment(t)
      BY <1>1, <1>2, <3>1 DEF SealPublishSegment
    <3>2. CASE SealSegmentFails(t)
      BY <1>1, <1>2, <3>2 DEF SealSegmentFails
    <3> QED BY <2>3, <3>1, <3>2 DEF SealStep, SealNothing, SealPublishCheckpoint,
               SealCheckpointFails, SealReclaim, SealReclaimFails, disk
  <2>4. ASSUME NEW t \in Tasks, IndexStep(t) \/ CompactStart(t) \/ HandlerDropped(t) PROVE Kept
    BY <2>4 DEF IndexStep, RebuildIndex, RebuildIndexFails, CompactStart, HandlerDropped, disk
  <2>5. ASSUME NEW t \in Tasks, CompactStep(t) PROVE Kept
    <3>1. CASE CompactPublishSegment(t)
      BY <1>1, <1>2, <3>1 DEF CompactPublishSegment
    <3>2. CASE CompactSegmentFails(t)
      BY <1>1, <1>2, <3>2 DEF CompactSegmentFails
    <3>3. CASE CollectSegment(t)
      BY <3>3 DEF CollectSegment, OnlySegments
    <3> QED BY <2>5, <3>1, <3>2, <3>3 DEF CompactStep, CompactCheck, CompactRevalidateFails,
               CompactPublishCheckpoint, CompactCheckpointFails, CompactInstall, CollectDone,
               CollectFails, disk
  <2>6. CASE Crash \/ CrashInAppend \/ Recover \/ RecoverRefused
    BY <2>6 DEF Crash, CrashInAppend, Recover, RecoverRefused, disk
  <2> QED BY <2>1, <2>2, <2>3, <2>4, <2>5, <2>6 DEF Next
<1>3. IInv => BaseInv
  BY DEF IInv
<1> QED BY <1>2, <1>3, InvariantHolds, PTL DEF SegmentsImmutable, Spec

-----------------------------------------------------------------------------
(* The HNSW index *)

\* The open segments show what the checkpoint represents, so does an index built from them.
LEMMA SegmentsShowRepresented ==
    ASSUME BaseInv, SafeInv, mode = "up", checkpoint # NoCheckpoint
    PROVE  /\ checkpoint.seq \in SequencesOf(committed)
           /\ Visible(Contents(segments)) = Visible(Represented(checkpoint.seq))
<1>1. /\ committed \subseteq Mutation /\ checkpoint.seq \in Sequence
      /\ \A m, n \in committed : m.seq = n.seq => m = n
  BY DEF BaseInv, TypeOK, SafeInv, HistoryInv, Checkpoint
<1>2. Represented(checkpoint.seq) \subseteq committed
  BY DEF Represented
<1>3. Contents(segments) \subseteq Represented(checkpoint.seq)
  BY DEF SafeInv, FilesInv, RuntimeInv, Contents, Represented
<1>4. ASSUME NEW m \in Represented(checkpoint.seq) PROVE CoveredBy(m, Contents(segments))
  <2>1. m \in committed /\ ~(m.seq > CheckpointSequence(checkpoint))
    BY <1>1, <1>4 DEF Represented, CheckpointSequence, Mutation, Sequence
  <2> QED BY <2>1 DEF SafeInv, RuntimeInv
<1>5. Visible(Contents(segments)) = Visible(Represented(checkpoint.seq))
  BY <1>1, <1>2, <1>3, <1>4, CoverShowsSame
<1> QED BY <1>5 DEF SafeInv, RuntimeInv

\* Mutations newer than all accepted ones leave a snapshot valid for its checkpoint.
LEMMA NewerKeepIndex ==
    ASSUME TypeOK, IndexInv, NEW C, C \subseteq Mutation, committed' = committed \cup C,
           \A m \in C : m \in committed \/ \A k \in committed : k.seq < m.seq,
           hnswFile' = hnswFile,
           mode' = "up" /\ mutable' = {} => hnsw' = NoIndex
    PROVE  IndexInv'
<1> SUFFICES ASSUME hnswFile # NoIndex, hnswFile.ckpt # NoCheckpoint
             PROVE  /\ hnswFile.ckpt.seq \in SequencesOf(committed')
                    /\ hnswFile.versions = Visible({m \in committed' : m.seq <= hnswFile.ckpt.seq})
  BY DEF IndexInv, Represented
<1>1. PICK k \in committed : hnswFile.ckpt.seq = k.seq
  BY DEF IndexInv, SequencesOf
<1>2. {m \in committed' : m.seq <= k.seq} = {m \in committed : m.seq <= k.seq}
  <2>1. ASSUME NEW m \in C, m.seq <= k.seq PROVE m \in committed
    BY <2>1 DEF TypeOK, Mutation, Sequence
  <2> QED BY <2>1
<1> QED BY <1>1, <1>2 DEF IndexInv, SequencesOf, Represented

\* A step that neither accepts mutations nor touches the snapshot, and keeps the index in
\* memory only together with the overlay.
LEMMA IndexStays ==
    ASSUME IndexInv, UNCHANGED <<committed, hnswFile>>,
           \/ hnsw' = NoIndex
           \/ mode' # "up"
           \/ UNCHANGED <<hnsw, mode, mutable>>
    PROVE  IndexInv'
BY DEF IndexInv, Represented, Visible, Newest, SequencesOf

LEMMA AppendKeepsIndex ==
    ASSUME BaseInv, SafeInv, IndexInv, NEW t \in Tasks, NEW b \in Batches, AppendBatch(t, b)
    PROVE  IndexInv'
<1> DEFINE F == FrameSet(Frames(b))
<1>1. /\ committed' = committed \cup F /\ mutable' = mutable \cup F /\ hnswFile' = hnswFile
      /\ mode = "up" /\ nextSeq + Len(b) - 1 <= MaxSequence
  BY DEF AppendBatch, AppendEnabled
<1>2. /\ Len(b) \in Nat \ {0} /\ nextSeq \in Nat /\ Len(Frames(b)) = Len(b)
      /\ \A i \in 1 .. Len(b) : Frames(b)[i].seq = nextSeq + i - 1
      /\ F \subseteq Mutation
  <2>1. /\ Len(b) \in Nat \ {0} /\ Frames(b) \in Seq(Mutation)
    BY <1>1, FramesFact DEF BaseInv
  <2>2. Len(Frames(b)) = Len(b)
    BY <2>1 DEF Frames
  <2>3. \A i \in 1 .. Len(b) : Frames(b)[i].seq = nextSeq + i - 1
    BY DEF Frames
  <2>4. F \subseteq Mutation
    BY <2>1, ElementOfSeq DEF FrameSet
  <2> QED BY <2>1, <2>2, <2>3, <2>4, StoreAssumption DEF BaseInv, TypeOK
<1>3. F # {}
  <2>1. 1 \in 1 .. Len(Frames(b))
    BY <1>2
  <2> QED BY <2>1 DEF FrameSet
<1>4. \A m \in F : \A k \in committed : k.seq < m.seq
  <2>1. SUFFICES ASSUME NEW i \in 1 .. Len(b), NEW k \in committed PROVE k.seq < Frames(b)[i].seq
    BY <1>2 DEF FrameSet
  <2>2. k.seq < nextSeq /\ k.seq \in Nat
    BY <1>1 DEF SafeInv, HistoryInv, BaseInv, TypeOK, Mutation, Sequence
  <2> QED BY <1>2, <2>2
<1> HIDE DEF F
<1>5. mutable' # {}
  BY <1>1, <1>3
<1> QED BY <1>1, <1>2, <1>4, <1>5, NewerKeepIndex DEF BaseInv

\* rebuild_hnsw indexes the segments: the snapshot is that of the runtime's checkpoint.
LEMMA RebuildKeepsIndex ==
    ASSUME BaseInv, SafeInv, IndexInv, NEW t \in Tasks, IndexStep(t)
    PROVE  IndexInv'
<1>1. /\ UNCHANGED <<committed, mode, mutable, segments>>
      /\ hnsw' \in {BuiltIndex, NoIndex}
      /\ \/ hnswFile' = hnswFile
         \/ hnswFile' = [ckpt |-> checkpoint, versions |-> BuiltIndex]
      /\ pc[t] # "idle"
  BY DEF IndexStep, RebuildIndex, RebuildIndexFails, ghost
<1>2. mode = "up"
  BY <1>1 DEF BaseInv, LockInv
<1>3. mutable = {} => BuiltIndex = Visible(committed)
  <2>1. mutable = {} => View = Contents(segments)
    BY DEF View
  <2> QED BY <1>2, <2>1, ViewShowsRecords DEF BuiltIndex
<1>4. checkpoint # NoCheckpoint =>
        /\ checkpoint.seq \in SequencesOf(committed)
        /\ BuiltIndex = Visible(Represented(checkpoint.seq))
  BY <1>2, SegmentsShowRepresented DEF BuiltIndex
<1>5. mode' = "up" /\ mutable' = {} /\ hnsw' # NoIndex => hnsw' = Visible(committed')
  BY <1>1, <1>3
<1>6. ASSUME hnswFile' # NoIndex, hnswFile'.ckpt # NoCheckpoint
      PROVE  /\ hnswFile'.ckpt.seq \in SequencesOf(committed')
             /\ hnswFile'.versions = Visible({m \in committed' : m.seq <= hnswFile'.ckpt.seq})
  <2>1. CASE hnswFile' = hnswFile
    BY <1>1, <1>6, <2>1 DEF IndexInv, Represented
  <2>2. CASE hnswFile' = [ckpt |-> checkpoint, versions |-> BuiltIndex]
    <3>1. hnswFile'.ckpt = checkpoint /\ hnswFile'.versions = BuiltIndex
      BY <2>2
    <3> QED BY <1>1, <1>4, <1>6, <3>1 DEF Represented
  <2> QED BY <1>1, <2>1, <2>2
<1> QED BY <1>5, <1>6 DEF IndexInv, Represented

\* Recovery takes the snapshot of the published checkpoint, which with an empty overlay
\* represents everything, or builds one from the segments.
LEMMA RecoverKeepsIndex ==
    ASSUME BaseInv, SafeInv, IndexInv, Recover
    PROVE  IndexInv'
<1>1. /\ mode' = "up" /\ mutable' = RecoveredMutable /\ segments' = RecoveredSegments
      /\ checkpoint' = ckptFile /\ committed' = committed \cup RecoveredMutable
      /\ UNCHANGED <<wal, ckptFile>> /\ RestoreIndex
  BY DEF Recover
<1>2. TypeOK /\ LogInv
  BY DEF BaseInv, SafeInv
<1>3. /\ \A i \in 1 .. Len(wal) : wal[i] # Torn => wal[i] \in Replayed(wal)
      /\ \A m \in Replayed(wal) : m \in Mutation /\ \E i \in 1 .. Len(wal) : wal[i] = m
  BY <1>2, OrderedLogReplays
<1>4. CASE RecoveredMutable # {} \/ ckptFile = NoCheckpoint
  <2>1. hnsw' = NoIndex /\ hnswFile' = hnswFile
    BY <1>1, <1>4 DEF RestoreIndex
  <2>2. RecoveredMutable \subseteq Mutation
    BY <1>3 DEF RecoveredMutable
  <2>3. \A m \in RecoveredMutable : m \in committed \/ \A k \in committed : k.seq < m.seq
    BY <1>3, TornIsNoMutation DEF SafeInv, FrameInv, RecoveredMutable
  <2> QED BY <1>1, <1>2, <2>1, <2>2, <2>3, NewerKeepIndex
<1>5. CASE RecoveredMutable = {} /\ ckptFile # NoCheckpoint
  <2>1. committed' = committed /\ mutable' = {}
    BY <1>1, <1>5
  <2>2. Represented(ckptFile.seq) = committed
    <3>1. ASSUME NEW m \in committed PROVE m.seq <= ckptFile.seq
      <4>1. m.seq \in Nat /\ ckptFile.seq \in Nat /\ m # Torn
        BY <1>2, <1>5, TornIsNoMutation DEF TypeOK, Mutation, Sequence, Checkpoint
      <4>2. SUFFICES ASSUME m.seq > CheckpointSequence(ckptFile) PROVE FALSE
        BY <1>5, <4>1 DEF CheckpointSequence
      <4>3. PICK i \in 1 .. Len(wal) : wal[i] = m
        BY <4>2 DEF SafeInv, FilesInv
      <4> QED BY <1>3, <1>5, <4>1, <4>2, <4>3 DEF RecoveredMutable
    <3> QED BY <3>1 DEF Represented
  <2>3. Visible(Contents(RecoveredSegments)) = Visible(committed)
    <3>1. committed \subseteq Mutation /\ \A m, n \in committed : m.seq = n.seq => m = n
      BY <1>2 DEF TypeOK, SafeInv, HistoryInv
    <3>2. /\ DOMAIN RecoveredSegments = ckptFile.ids
          /\ \A id \in ckptFile.ids : RecoveredSegments[id] = segFiles[id]
      BY <1>5 DEF SafeInv, FilesInv, RecoveredSegments, OnlySegments
    <3>3. Contents(RecoveredSegments) \subseteq committed
      BY <1>5, <3>2 DEF SafeInv, FilesInv, Contents
    <3>4. ASSUME NEW m \in committed PROVE CoveredBy(m, Contents(RecoveredSegments))
      <4>1. ~(m.seq > CheckpointSequence(ckptFile))
        BY <1>2, <1>5, <2>2, <3>1 DEF Represented, CheckpointSequence, TypeOK, Checkpoint,
                                      Mutation, Sequence
      <4>2. PICK id \in ckptFile.ids : CoveredBy(m, segFiles[id])
        BY <4>1 DEF SafeInv, FilesInv
      <4> QED BY <3>2, <4>2 DEF CoveredBy, Contents
    <3> QED BY <3>1, <3>3, <3>4, CoverShowsSame
  <2>4. ckptFile.seq \in SequencesOf(committed)
    BY <1>5 DEF SafeInv, FilesInv
  <2>5. CASE hnswFile # NoIndex /\ hnswFile.ckpt = ckptFile
    <3>1. hnsw' = hnswFile.versions /\ hnswFile' = hnswFile
      BY <1>1, <1>5, <2>5 DEF RestoreIndex
    <3>2. hnswFile.versions = Visible(committed)
      BY <1>5, <2>2, <2>5 DEF IndexInv
    <3> QED BY <2>1, <3>1, <3>2 DEF IndexInv, Represented
  <2>6. CASE ~(hnswFile # NoIndex /\ hnswFile.ckpt = ckptFile)
    <3>1. /\ hnsw' = Visible(committed)
          /\ \/ hnswFile' = hnswFile
             \/ hnswFile' = [ckpt |-> ckptFile, versions |-> Visible(committed)]
      BY <1>1, <1>5, <2>3, <2>6 DEF RestoreIndex
    <3>2. ASSUME hnswFile' # NoIndex, hnswFile'.ckpt # NoCheckpoint
          PROVE  /\ hnswFile'.ckpt.seq \in SequencesOf(committed')
                 /\ hnswFile'.versions = Visible({m \in committed' : m.seq <= hnswFile'.ckpt.seq})
      <4>1. CASE hnswFile' = hnswFile
        BY <2>1, <3>2, <4>1 DEF IndexInv, Represented
      <4>2. CASE hnswFile' = [ckpt |-> ckptFile, versions |-> Visible(committed)]
        <5>1. hnswFile'.ckpt = ckptFile /\ hnswFile'.versions = Visible(committed)
          BY <4>2
        <5> QED BY <2>1, <2>2, <2>4, <5>1 DEF Represented
      <4> QED BY <3>1, <4>1, <4>2
    <3> QED BY <2>1, <3>1, <3>2 DEF IndexInv, Represented
  <2> QED BY <2>5, <2>6
<1> QED BY <1>4, <1>5

LEMMA IndexNext == IndexedInv /\ [Next]_vars => IndexedInv'
<1> SUFFICES ASSUME IndexedInv, [Next]_vars, ~damaged' PROVE IndexInv'
  BY SafeNext DEF IndexedInv
<1>1. BaseInv /\ BaseInv' /\ ~damaged
  BY BaseNext, DamageIsAnAppend DEF IndexedInv, IInv
<1>2. SafeInv /\ SafeInv' /\ IndexInv
  BY <1>1, SafeNext DEF IndexedInv, IInv
<1>3. CASE UNCHANGED vars
  BY <1>2, <1>3, IndexStays DEF vars, disk, memory, ghost
<1>4. ASSUME NEW t \in Tasks, WriteStep(t) PROVE IndexInv'
  <2>1. CASE AppendFails(t)
    BY <1>2, <2>1, IndexStays DEF AppendFails, memory
  <2>2. CASE ~AppendFails(t)
    <3>1. PICK b \in Batches : AppendBatch(t, b)
      BY <1>4, <2>2 DEF WriteStep, UpsertBatch, Upserts, Delete, Deletes, ReplaceParentChunks,
                        DeleteParentDocument
    <3> QED BY <1>1, <1>2, <3>1, AppendKeepsIndex
  <2> QED BY <2>1, <2>2
<1>5. ASSUME NEW t \in Tasks, SealStep(t) PROVE IndexInv'
  BY <1>2, <1>5, IndexStays DEF SealStep, SealNothing, SealPublishSegment, SealSegmentFails,
     SealPublishCheckpoint, SealCheckpointFails, SealReclaim, SealReclaimFails, InstallSealed,
     disk, memory, ghost
<1>6. ASSUME NEW t \in Tasks, IndexStep(t) PROVE IndexInv'
  BY <1>1, <1>2, <1>6, RebuildKeepsIndex
<1>7. ASSUME NEW t \in Tasks, CompactStart(t) \/ CompactStep(t) \/ HandlerDropped(t) PROVE IndexInv'
  BY <1>2, <1>7, IndexStays DEF CompactStart, CompactStep, CompactCheck, CompactRevalidateFails,
     CompactPublishSegment, CompactSegmentFails, CompactPublishCheckpoint, CompactCheckpointFails,
     CompactInstall, CollectSegment, CollectDone, CollectFails, HandlerDropped, disk, memory, ghost
<1>8. CASE Crash \/ CrashInAppend
  BY <1>2, <1>8, IndexStays DEF Crash, CrashInAppend, LoseMemory, disk, ghost
<1>9. CASE Recover
  BY <1>1, <1>2, <1>9, RecoverKeepsIndex
<1>10. CASE RecoverRefused
  BY <1>2, <1>10, IndexStays DEF RecoverRefused, disk, memory, ghost
<1> QED BY <1>3, <1>4, <1>5, <1>6, <1>7, <1>8, <1>9, <1>10 DEF Next

\* An index that queries may use holds exactly the visible records, whether it was built from
\* the segments or loaded from a snapshot at recovery, whatever seals, compactions, failures and
\* crashes came between the snapshot and the recovery.
THEOREM IndexShowsRecords == Spec => []IndexAgreesWithRecords
<1>1. Init => IndexedInv
  BY SafeInit DEF Init, IndexedInv, IndexInv
<1>2. IndexedInv => IndexAgreesWithRecords
  BY DEF IndexedInv, IndexInv, IndexAgreesWithRecords
<1> QED BY <1>1, <1>2, IndexNext, PTL DEF Spec

-----------------------------------------------------------------------------
(* The refinement of RecordStore: the records, then the sequence numbers, then the steps *)

\* What a query returns is all the abstract store holds.
LEMMA SameShown ==
    ASSUME NEW M, NEW N, Visible(M) = Visible(N)
    PROVE  StoreOf(M) = StoreOf(N)
BY DEF StoreOf, ContentIn, Live

\* The first k changes of b as frames numbered from n.
FramesFrom(n, b, k) ==
    {[seq |-> n + i - 1, rec |-> b[i].rec, val |-> b[i].val] : i \in 1 .. k}

\* Newer frames change the records the way the batch they come from does: the last change of a
\* record in the batch wins.
LEMMA FramesApply ==
    ASSUME NEW C, C \subseteq Mutation, NEW n \in Nat \ {0}, \A m \in C : m.seq < n,
           NEW b, NEW k \in Nat, FramesFrom(n, b, k) \subseteq Mutation
    PROVE  StoreOf(C \cup FramesFrom(n, b, k)) = Abstract!Applied(StoreOf(C), b, k)
<1> DEFINE Frame(i) == [seq |-> n + i - 1, rec |-> b[i].rec, val |-> b[i].val]
           All == C \cup FramesFrom(n, b, k)
           Hits(r) == {i \in 1 .. k : b[i].rec = r}
           Last(r) == CHOOSE i \in Hits(r) : \A j \in Hits(r) : j <= i
<1>1. /\ \A m \in All : m \in Mutation /\ m.seq \in Nat
      /\ \A i \in 1 .. k : Frame(i) \in All
      /\ \A m \in All : m \in C \/ \E i \in 1 .. k : m = Frame(i)
  BY DEF FramesFrom, Mutation, Sequence
<1>2. ASSUME NEW r \in Records, Hits(r) = {} PROVE ContentIn(All, r) = ContentIn(C, r)
  <2>1. \A m \in All : m.rec = r => m \in C
    BY <1>1, <1>2
  <2>2. C \subseteq All
    OBVIOUS
  <2> HIDE DEF All, Hits
  <2>3. \A m : m \in Newest(All) /\ m.rec = r <=> m \in Newest(C) /\ m.rec = r
    BY <2>1, <2>2 DEF Newest
  <2>4. Live(All, r) = Live(C, r)
    BY <2>3 DEF Live, Visible
  <2> QED BY <2>4 DEF ContentIn
<1>3. ASSUME NEW r \in Records, Hits(r) # {} PROVE ContentIn(All, r) = b[Last(r)].val
  <2>1. Hits(r) \subseteq Sequence
    <3>1. SUFFICES ASSUME NEW i \in Hits(r) PROVE i \in Sequence
      OBVIOUS
    <3>2. n + i - 1 \in Sequence
      BY <1>1, <3>1 DEF Mutation
    <3> QED BY <3>1, <3>2, StoreAssumption DEF Sequence
  <2>2. PICK top \in Hits(r) : \A j \in Hits(r) : j <= top
    BY <1>3, <2>1, LargestSequence
  <2>3. Last(r) \in Hits(r) /\ \A j \in Hits(r) : j <= Last(r)
    BY <2>2
  <2> DEFINE i == Last(r)
             f == Frame(i)
  <2>4. i \in 1 .. k /\ b[i].rec = r /\ \A j \in 1 .. k : b[j].rec = r => j <= i
    BY <2>3
  <2> HIDE DEF i
  <2>5. f \in All /\ f.seq = n + i - 1 /\ f.rec = r /\ f.val = b[i].val
    BY <1>1, <2>4
  <2>6. \A m \in All : m.rec = r => m = f \/ m.seq < f.seq
    <3>1. SUFFICES ASSUME NEW m \in All, m.rec = r PROVE m = f \/ m.seq < f.seq
      OBVIOUS
    <3>2. CASE m \in C
      BY <1>1, <2>4, <2>5, <3>2
    <3>3. ASSUME NEW j \in 1 .. k, m = Frame(j) PROVE m = f \/ m.seq < f.seq
      <4>1. j <= i /\ m.seq = n + j - 1
        BY <2>4, <3>1, <3>3
      <4> QED BY <2>4, <2>5, <3>3, <4>1
    <3> QED BY <1>1, <3>2, <3>3
  <2> HIDE DEF f, All
  <2>7. \A m \in Newest(All) : m.rec = r <=> m = f
    BY <1>1, <2>5, <2>6 DEF Newest
  <2>8. f \in Newest(All)
    BY <1>1, <2>5, <2>6 DEF Newest
  <2>9. Live(All, r) = IF f.val = Deleted THEN {} ELSE {f}
    BY <2>7, <2>8 DEF Live, Visible
  <2>10. ContentIn(All, r) = f.val
    BY <2>9 DEF ContentIn
  <2> QED BY <2>5, <2>10 DEF i
<1> HIDE DEF All
<1>4. \A r \in Records :
        ContentIn(All, r) = IF Hits(r) = {} THEN StoreOf(C)[r] ELSE b[Last(r)].val
  BY <1>2, <1>3 DEF StoreOf
<1>5. StoreOf(All) = [r \in Records |-> IF Hits(r) = {} THEN StoreOf(C)[r] ELSE b[Last(r)].val]
  BY <1>4 DEF StoreOf
<1> QED BY <1>5 DEF Abstract!Applied, All

\* An append that does not finish on a clean tail leaves whole frames of its batch from the next
\* sequence number on.
LEMMA LeftBehind ==
    ASSUME TypeOK, LogInv, TailClean, NEW b \in Batches, nextSeq + Len(b) - 1 <= MaxSequence,
           NEW k \in 0 .. Len(b), NEW torn \in BOOLEAN, PartialAppend(b, k, torn)
    PROVE  CarriesOn(wal', nextSeq)
<1> DEFINE G == SubSeq(Frames(b), 1, k) \o Tear(torn)
           whole == IF Len(G) > 0 /\ G[Len(G)] = Torn THEN Len(G) - 1 ELSE Len(G)
<1>1. wal' = wal \o G /\ IsTail(G) /\ (torn => k < Len(b))
  BY PartialFact DEF PartialAppend
<1>2. Len(G) \in 0 .. Len(b)
  <2>1. Frames(b) \in Seq(Mutation) /\ Len(Frames(b)) = Len(b) /\ Len(b) \in Nat
    BY FramesFact
  <2> DEFINE F == SubSeq(Frames(b), 1, k)
             T == Tear(torn)
             Item == Mutation \cup {Torn}
  <2>2. F \in Seq(Item) /\ Len(F) = k
    <3>1. F \in Seq(Mutation) /\ Len(F) = IF 1 <= k THEN k - 1 + 1 ELSE 0
      BY <2>1, ElementOfSeq, SubSeqProperties
    <3> HIDE DEF F
    <3> QED BY <2>1, <3>1, SeqMonotonic
  <2>3. T \in Seq(Item) /\ Len(T) = IF torn THEN 1 ELSE 0
    <3>1. CASE torn
      <4>1. T = <<Torn>>
        BY <3>1 DEF Tear
      <4> HIDE DEF T
      <4> QED BY <3>1, <4>1
    <3>2. CASE ~torn
      <4>1. T = <<>>
        BY <3>2 DEF Tear
      <4> HIDE DEF T
      <4> QED BY <3>2, <4>1
    <3> QED BY <3>1, <3>2
  <2> HIDE DEF F, T, Item
  <2>4. Len(F \o T) = k + Len(T)
    BY <2>2, <2>3, ConcatProperties
  <2>5. Len(G) = k + Len(T)
    BY <2>4 DEF F, T
  <2> QED BY <1>1, <2>1, <2>3, <2>5
<1>3. Len(b) \in Nat /\ Len(b) <= MaxBatch
  <2>1. PICK n \in 1 .. MaxBatch : b \in [1 .. n -> Change]
    BY DEF Batches
  <2> QED BY <2>1, StoreAssumption
<1> HIDE DEF G
<1>4. /\ Len(wal) \in Nat /\ Len(G) \in Nat
      /\ Len(wal') = Len(wal) + Len(G)
      /\ \A i \in 1 .. Len(wal) :
           wal'[i] = wal[i] /\ wal[i] \in Mutation /\ wal[i].seq < nextSeq
      /\ \A i \in 1 .. Len(wal') :
           i > Len(wal) => i - Len(wal) \in 1 .. Len(G) /\ wal'[i] = G[i - Len(wal)]
      /\ \A j \in 1 .. Len(G) :
           j + Len(wal) \in 1 .. Len(wal') /\ wal'[j + Len(wal)] = G[j]
      /\ LogInv'
  BY <1>1, LogAppend
<1>5. /\ nextSeq \in Nat /\ MaxBatch \in Nat
      /\ whole \in Nat /\ whole <= Len(G) /\ whole \in 0 .. MaxBatch
  <2>1. whole \in {Len(G), Len(G) - 1} /\ (Len(G) = 0 => whole = 0)
    BY <1>4
  <2> HIDE DEF whole
  <2> QED BY <1>2, <1>3, <1>4, <2>1, StoreAssumption DEF TypeOK
<1>6. ASSUME NEW m \in Beyond(wal', nextSeq) PROVE m.seq \in nextSeq .. nextSeq + whole - 1
  <2>1. PICK i \in 1 .. Len(wal') : m = wal'[i] /\ wal'[i] # Torn
    BY <1>4 DEF Beyond, Replayed, Readable
  <2>2. i > Len(wal)
    <3>1. SUFFICES ASSUME i \in 1 .. Len(wal) PROVE FALSE
      BY <1>4
    <3> QED BY <1>4, <1>5, <2>1, <3>1 DEF Beyond, Mutation, Sequence
  <2>3. PICK j \in 1 .. Len(G) : m = G[j]
    BY <1>4, <2>1, <2>2
  <2>4. m.seq = nextSeq + j - 1
    BY <1>1, <2>1, <2>3 DEF IsTail
  <2>5. j <= whole
    BY <1>4, <2>1, <2>3
  <2> QED BY <1>4, <1>5, <2>3, <2>4, <2>5
<1>7. ASSUME NEW s \in nextSeq .. nextSeq + whole - 1 PROVE s \in SequencesOf(Beyond(wal', nextSeq))
  <2> DEFINE j == s - nextSeq + 1
  <2>1. j \in 1 .. Len(G) /\ j <= whole /\ s = nextSeq + j - 1 /\ s \in Nat
    <3> HIDE DEF whole
    <3>1. s \in Nat /\ nextSeq <= s /\ s <= nextSeq + whole - 1
      BY <1>5, <1>7
    <3> QED BY <1>4, <1>5, <3>1
  <2> HIDE DEF j
  <2>2. G[j] \in Mutation /\ G[j].seq = s /\ G[j] # Torn
    <3>1. G[j] # Torn
      <4>1. G[j] = Torn => j = Len(G)
        BY <1>1, <2>1, TornIsNoMutation DEF IsTail
      <4>2. Len(G) > 0 /\ G[Len(G)] = Torn => ~ (Len(G) <= whole)
        BY <1>4
      <4> QED BY <1>4, <2>1, <4>1, <4>2
    <3> QED BY <1>1, <2>1, <3>1 DEF IsTail
  <2>3. j + Len(wal) \in 1 .. Len(wal') /\ wal'[j + Len(wal)] = G[j]
    BY <1>4, <2>1
  <2>4. \A i \in 1 .. j + Len(wal) : wal'[i] # Torn
    <3>1. SUFFICES ASSUME NEW i \in 1 .. j + Len(wal), i < j + Len(wal) PROVE wal'[i] # Torn
      BY <1>4, <2>1, <2>2, <2>3
    <3>2. i \in 1 .. Len(wal')
      BY <1>4, <2>1, <2>3, <3>1
    <3> QED BY <1>4, <2>3, <3>1, <3>2 DEF LogInv
  <2>5. G[j] \in Replayed(wal')
    BY <2>3, <2>4 DEF Replayed, Readable
  <2> QED BY <1>5, <2>1, <2>2, <2>5 DEF Beyond, SequencesOf
<1>8. SequencesOf(Beyond(wal', nextSeq)) = nextSeq .. nextSeq + whole - 1
  BY <1>6, <1>7 DEF SequencesOf
<1> QED BY <1>5, <1>8 DEF CarriesOn

\* The empty log carries on from the first sequence number.
LEMMA BacklogInit == Init => BacklogInv
<1> SUFFICES ASSUME Init PROVE BacklogInv
  OBVIOUS
<1>1. nextSeq = 1 /\ SequencesOf(Beyond(wal, nextSeq)) = {}
  BY DEF Init, Beyond, Replayed, Readable, SequencesOf
<1>2. 0 \in 0 .. MaxBatch /\ nextSeq .. nextSeq + 0 - 1 = {}
  BY <1>1, StoreAssumption
<1> QED BY <1>1, <1>2 DEF BacklogInv, CarriesOn

\* Nothing is left behind when every frame of the log is older than the next sequence number.
LEMMA NothingLeft ==
    ASSUME NEW w, NEW n \in Nat, \A m \in Replayed(w) : m.seq \in Nat /\ m.seq < n
    PROVE  CarriesOn(w, n)
<1>1. SequencesOf(Beyond(w, n)) = {}
  BY DEF SequencesOf, Beyond
<1>2. 0 \in 0 .. MaxBatch /\ n .. n + 0 - 1 = {}
  BY StoreAssumption
<1> QED BY <1>1, <1>2 DEF CarriesOn

\* An accepted batch on a clean tail is the newest and leaves nothing behind.
LEMMA AppendKeepsBacklog ==
    ASSUME BaseInv, SafeInv, TailClean, NEW t \in Tasks, NEW b \in Batches, AppendBatch(t, b),
           BaseInv'
    PROVE  BacklogInv'
<1>1. /\ wal' = wal \o Frames(b) /\ nextSeq' = nextSeq + Len(b)
      /\ committed' = committed \cup FrameSet(Frames(b))
      /\ nextSeq + Len(b) - 1 <= MaxSequence
  BY DEF AppendBatch, AppendEnabled
<1>2. /\ Len(b) \in Nat \ {0} /\ Len(Frames(b)) = Len(b)
      /\ \A i \in 1 .. Len(b) : Frames(b)[i] \in Mutation /\ Frames(b)[i].seq = nextSeq + i - 1
      /\ TypeOK /\ LogInv /\ nextSeq \in Nat
  BY <1>1, FramesFact, StoreAssumption DEF BaseInv, SafeInv, TypeOK
<1>3. IsTail(Frames(b))
  BY <1>1, <1>2, FramesAreTail
<1>4. nextSeq' - 1 \in SequencesOf(committed')
  <2>1. Len(b) \in 1 .. Len(Frames(b)) /\ Len(b) \in 1 .. Len(b)
    BY <1>2
  <2>2. Frames(b)[Len(b)] \in committed'
    BY <1>1, <2>1 DEF FrameSet
  <2>3. Frames(b)[Len(b)].seq = nextSeq' - 1
    <3>1. Frames(b)[Len(b)].seq = nextSeq + Len(b) - 1
      BY <1>2, <2>1
    <3> QED BY <1>1, <1>2, <3>1
  <2> QED BY <2>2, <2>3 DEF SequencesOf
<1>5. \A m \in Replayed(wal') : m.seq \in Nat /\ m.seq < nextSeq'
  <2> DEFINE F == Frames(b)
  <2>1. Len(F) = Len(b) /\ \A i \in 1 .. Len(b) : F[i] \in Mutation /\ F[i].seq = nextSeq + i - 1
    BY <1>2
  <2>2. IsTail(F) /\ wal' = wal \o F
    BY <1>1, <1>3
  <2> HIDE DEF F
  <2>3. /\ Len(wal) \in Nat /\ Len(wal') = Len(wal) + Len(F)
        /\ \A i \in 1 .. Len(wal) : wal'[i] = wal[i] /\ wal[i] \in Mutation /\ wal[i].seq < nextSeq
        /\ \A i \in 1 .. Len(wal') :
             i > Len(wal) => i - Len(wal) \in 1 .. Len(F) /\ wal'[i] = F[i - Len(wal)]
    BY <1>2, <2>2, LogAppend
  <2>4. SUFFICES ASSUME NEW i \in 1 .. Len(wal') PROVE wal'[i].seq \in Nat /\ wal'[i].seq < nextSeq'
    BY DEF Replayed, Readable
  <2>5. CASE i \in 1 .. Len(wal)
    BY <1>1, <1>2, <2>3, <2>5 DEF Mutation, Sequence
  <2>6. CASE i > Len(wal)
    <3>1. PICK j \in 1 .. Len(b) : wal'[i] = F[j]
      BY <2>1, <2>3, <2>6
    <3>2. F[j].seq = nextSeq + j - 1 /\ j \in Nat /\ j <= Len(b)
      BY <1>2, <2>1
    <3>3. nextSeq' = nextSeq + Len(b) /\ Len(b) \in Nat /\ nextSeq \in Nat
      BY <1>1, <1>2
    <3> QED BY <3>1, <3>2, <3>3
  <2> QED BY <2>3, <2>5, <2>6
<1>6. CarriesOn(wal', nextSeq')
  <2>1. nextSeq' \in Nat
    BY <1>1, <1>2
  <2> QED BY <1>5, <2>1, NothingLeft
<1> QED BY <1>4, <1>6 DEF BacklogInv

\* After recovery every frame that was found is below the next sequence number.
LEMMA RecoveredBelowNext ==
    ASSUME BaseInv, SafeInv, Recover
    PROVE  nextSeq' \in Nat /\ \A m \in Replayed(wal) : m.seq \in Nat /\ m.seq < nextSeq'
<1>1. IsSuccessor(nextSeq', RecoveredSequences) /\ nextSeq' \in Nat
  BY StoreAssumption DEF Recover
<1>2. Replayed(wal) \subseteq Mutation
  BY FilesShow
<1>3. ASSUME NEW m \in Replayed(wal) PROVE m.seq \in Nat /\ m.seq < nextSeq'
  <2>1. m.seq \in Nat /\ CheckpointSequence(ckptFile) < nextSeq'
    BY <1>1, <1>2 DEF Mutation, Sequence, IsSuccessor, RecoveredSequences
  <2>2. CASE m \in RecoveredMutable
    BY <1>1, <2>1, <2>2 DEF IsSuccessor, RecoveredSequences, SequencesOf
  <2>3. CASE m \notin RecoveredMutable
    <3>1. ~(m.seq > CheckpointSequence(ckptFile)) /\ CheckpointSequence(ckptFile) \in Nat
      BY <2>3 DEF RecoveredMutable, CheckpointSequence, BaseInv, TypeOK, Checkpoint, Sequence
    <3> QED BY <1>1, <2>1, <3>1
  <2> QED BY <2>2, <2>3
<1> QED BY <1>1, <1>3

\* The next sequence number after recovery follows an accepted mutation.
LEMMA RecoverKeepsBacklog ==
    ASSUME BaseInv, SafeInv, Recover, BaseInv'
    PROVE  BacklogInv'
<1>1. /\ UNCHANGED <<wal, ckptFile>> /\ committed' = committed \cup RecoveredMutable
      /\ IsSuccessor(nextSeq', RecoveredSequences) /\ nextSeq' \in Nat
  BY StoreAssumption DEF Recover
<1>2. /\ Contents(RecoveredSegments) \subseteq committed
      /\ ckptFile # NoCheckpoint => ckptFile.seq \in SequencesOf(committed)
  BY FilesShow DEF SafeInv, FilesInv
<1>3. nextSeq' = 1 \/ nextSeq' - 1 \in SequencesOf(committed')
  <2>1. \A s \in RecoveredSequences : s = 0 \/ s \in SequencesOf(committed')
    BY <1>1, <1>2 DEF RecoveredSequences, SequencesOf, CheckpointSequence
  <2>2. CASE nextSeq' - 1 = 0
    BY <1>1, <2>2
  <2> QED BY <1>1, <2>1, <2>2 DEF IsSuccessor
<1>4. CarriesOn(wal', nextSeq')
  BY <1>1, RecoveredBelowNext, NothingLeft
<1> QED BY <1>3, <1>4 DEF BacklogInv

\* What the steps of handlers other than writes leave alone.
LEMMA TaskSummary ==
    ASSUME NEW t \in Tasks,
           SealStep(t) \/ IndexStep(t) \/ CompactStart(t) \/ CompactStep(t) \/ HandlerDropped(t)
    PROVE  UNCHANGED <<mode, nextSeq, committed, damaged>> /\ wal' \in {wal, <<>>}
BY DEF SealStep, SealNothing, SealPublishSegment, SealSegmentFails,
       SealPublishCheckpoint, SealCheckpointFails, SealReclaim, SealReclaimFails, IndexStep,
       RebuildIndex, RebuildIndexFails, CompactStart, CompactStep, CompactCheck,
       CompactRevalidateFails, CompactPublishSegment, CompactSegmentFails,
       CompactPublishCheckpoint, CompactCheckpointFails, CompactInstall, CollectSegment,
       CollectDone, CollectFails, HandlerDropped, disk, memory, ghost

\* Only a failed append leaves frames behind, and a seal or a recovery takes them away.
LEMMA BacklogNext ==
    RefinementInv /\ [Next]_vars => RefinementInv'
<1> SUFFICES ASSUME RefinementInv, [Next]_vars, ~damaged' PROVE BacklogInv'
  BY SafeNext DEF RefinementInv
<1>1. BaseInv /\ BaseInv' /\ ~damaged
  BY BaseNext, DamageIsAnAppend DEF RefinementInv, IInv
<1>2. SafeInv /\ BacklogInv
  BY <1>1 DEF RefinementInv, IInv
<1>3. CASE UNCHANGED vars
  BY <1>2, <1>3 DEF vars, disk, memory, ghost, BacklogInv, CarriesOn, SequencesOf, Beyond
<1>4. ASSUME NEW t \in Tasks, WriteStep(t) PROVE BacklogInv'
  <2>1. TailClean
    BY <1>1, <1>4, DamageIsAnAppend
  <2>2. CASE AppendFails(t)
    <3>1. PICK b \in Batches : \E k \in 0 .. Len(b), torn \in BOOLEAN :
              AppendEnabled(t, b) /\ PartialAppend(b, k, torn)
      BY <2>2 DEF AppendFails
    <3>2. PICK k \in 0 .. Len(b), torn \in BOOLEAN : AppendEnabled(t, b) /\ PartialAppend(b, k, torn)
      BY <3>1
    <3>3. mode = "up" /\ nextSeq + Len(b) - 1 <= MaxSequence
      BY <3>2 DEF AppendEnabled
    <3>4. CarriesOn(wal', nextSeq)
      BY <1>1, <1>2, <2>1, <3>2, <3>3, LeftBehind DEF BaseInv, SafeInv
    <3> QED BY <1>2, <2>2, <3>3, <3>4 DEF AppendFails, memory, BacklogInv, SequencesOf
  <2>3. CASE ~AppendFails(t)
    <3>1. PICK b \in Batches : AppendBatch(t, b)
      BY <1>4, <2>3 DEF WriteStep, UpsertBatch, Upserts, Delete, Deletes, ReplaceParentChunks,
                        DeleteParentDocument
    <3> QED BY <1>1, <1>2, <2>1, <3>1, AppendKeepsBacklog
  <2> QED BY <2>2, <2>3
<1>5. ASSUME NEW t \in Tasks,
             SealStep(t) \/ IndexStep(t) \/ CompactStart(t) \/ CompactStep(t) \/ HandlerDropped(t)
      PROVE  BacklogInv'
  <2>1. UNCHANGED <<mode, nextSeq, committed>> /\ wal' \in {wal, <<>>}
    BY <1>5, TaskSummary
  <2>2. CASE wal' = wal
    BY <1>2, <2>1, <2>2 DEF BacklogInv, CarriesOn, SequencesOf, Beyond
  <2>3. CASE wal' = <<>>
    <3>1. Replayed(wal') = {} /\ nextSeq \in Nat
      BY <1>1, <2>3, StoreAssumption DEF Replayed, Readable, BaseInv, TypeOK
    <3>2. CarriesOn(wal', nextSeq)
      BY <3>1, NothingLeft
    <3> QED BY <1>2, <2>1, <3>2 DEF BacklogInv, SequencesOf
  <2> QED BY <2>1, <2>2, <2>3
<1>6. CASE Crash \/ CrashInAppend \/ RecoverRefused
  BY <1>6 DEF Crash, CrashInAppend, LoseMemory, RecoverRefused, BacklogInv
<1>7. CASE Recover
  BY <1>1, <1>2, <1>7, RecoverKeepsBacklog
<1> QED BY <1>3, <1>4, <1>5, <1>6, <1>7 DEF Next

LEMMA RefinementHolds == Spec => []RefinementInv
<1>1. Init => RefinementInv
  BY SafeInit, BacklogInit DEF RefinementInv
<1> QED BY <1>1, BacklogNext, PTL DEF Spec

\* The process dies: what the log holds beyond the accepted mutations becomes the prefix of a
\* batch, or there is nothing and the records stay.
LEMMA CrashIsStop ==
    ASSUME BaseInv, SafeInv, BacklogInv, BaseInv', SafeInv', mode = "up", LoseMemory,
           UNCHANGED <<segFiles, ckptFile, committed>>,
           CarriesOn(wal', nextSeq),
           \A i \in 1 .. Len(wal') : wal'[i] = Torn \/ wal'[i] \in committed \/ nextSeq <= wal'[i].seq
    PROVE  Abstract!Stop \/ Abstract!StopInWrite
<1> DEFINE U == Beyond(wal', nextSeq)
           C == committed
           top == CheckpointSequence(ckptFile)
<1>1. PICK k \in 0 .. MaxBatch : SequencesOf(U) = nextSeq .. nextSeq + k - 1
  BY DEF CarriesOn
<1>2. /\ nextSeq \in Nat \ {0} /\ k \in Nat /\ k <= MaxBatch /\ MaxBatch \in Nat /\ top \in Nat
      /\ C \subseteq Mutation /\ \A m \in C : m.seq < nextSeq
      /\ top < nextSeq
      /\ ckptFile # NoCheckpoint => top \in SequencesOf(C)
      /\ nextSeq = 1 \/ nextSeq - 1 \in SequencesOf(C)
  <2>1. top < nextSeq
    BY FreshAboveCheckpoints DEF BaseInv, SafeInv
  <2> QED BY <2>1, StoreAssumption DEF BaseInv, SafeInv, TypeOK, HistoryInv, FilesInv, BacklogInv,
                     CheckpointSequence, Checkpoint, Sequence
<1>3. (/\ RecoveredMutable \subseteq Replayed(wal) /\ Replayed(wal) \subseteq Mutation
       /\ \A m \in Replayed(wal) : \E i \in 1 .. Len(wal) : wal[i] = m
       /\ \A m, n \in Replayed(wal) : m.seq = n.seq => m = n
       /\ Contents(RecoveredSegments) \subseteq committed
       /\ \A m \in committed : CoveredBy(m, DurableView)
       /\ Visible(DurableView) = Visible(committed \cup RecoveredMutable))'
  <2>1. (BaseInv /\ SafeInv)'
    OBVIOUS
  <2>2. (BaseInv /\ SafeInv =>
           /\ RecoveredMutable \subseteq Replayed(wal) /\ Replayed(wal) \subseteq Mutation
           /\ \A m \in Replayed(wal) : \E i \in 1 .. Len(wal) : wal[i] = m
           /\ \A m, n \in Replayed(wal) : m.seq = n.seq => m = n
           /\ Contents(RecoveredSegments) \subseteq committed
           /\ \A m \in committed : CoveredBy(m, DurableView)
           /\ Visible(DurableView) = Visible(committed \cup RecoveredMutable))'
    BY FilesShow, PTL
  <2> QED BY <2>1, <2>2
<1>4. mode' = "down" /\ UNCHANGED <<segFiles, ckptFile, committed>>
  BY DEF LoseMemory
<1>5. RecoveredMutable' = {m \in Replayed(wal') : m.seq > top}
  BY <1>4 DEF RecoveredMutable, CheckpointSequence
<1>6. \A m \in Replayed(wal') : m \in C \/ m \in U
  <2>1. SUFFICES ASSUME NEW m \in Replayed(wal'), m \notin C PROVE m.seq >= nextSeq
    BY DEF Beyond
  <2>2. PICK i \in 1 .. Len(wal') : wal'[i] = m
    BY <1>3, <2>1
  <2>3. m \in Mutation /\ m # Torn
    BY <1>3, <2>1, TornIsNoMutation
  <2> QED BY <1>2, <2>1, <2>2, <2>3 DEF Mutation, Sequence
<1>7. U \subseteq RecoveredMutable' /\ U \subseteq Mutation
  BY <1>2, <1>3, <1>5 DEF Beyond, Mutation, Sequence
<1>8. (committed \cup RecoveredMutable)' = C \cup U
  <2>1. RecoveredMutable' \subseteq C \cup U
    BY <1>3, <1>6
  <2> QED BY <1>4, <1>7, <2>1
<1>9. \A m, n \in U : m.seq = n.seq => m = n
  BY <1>3 DEF Beyond
<1> HIDE DEF U, C, top
<1>10. StoreOf(Current) = StoreOf(C) /\ StoreOf(Current)' = StoreOf(C \cup U)
  <2>1. Visible(Current) = Visible(C)
    BY ViewShowsRecords DEF Current, C
  <2>2. Current' = DurableView'
    BY <1>4 DEF Current
  <2>3. Visible(Current') = Visible(C \cup U)
    BY <1>3, <1>8, <2>2 DEF Visible, Newest
  <2>4. StoreOf(Current') = StoreOf(C \cup U)
    BY <2>3, SameShown
  <2>5. StoreOf(Current)' = StoreOf(Current')
    BY DEF StoreOf, ContentIn, Live, Visible, Newest
  <2> QED BY <2>1, <2>4, <2>5, SameShown
<1>11. LastSequence = nextSeq - 1 /\ LastSequence' = nextSeq - 1 + k
  <2> DEFINE last == nextSeq - 1 + k
             R == RecoveredSequences'
  <2>1. R = SequencesOf(Contents(RecoveredSegments)' \cup RecoveredMutable') \cup {top}
    BY <1>4 DEF RecoveredSequences, SequencesOf, CheckpointSequence, top, Contents
  <2>2. Contents(RecoveredSegments)' \subseteq C /\ RecoveredMutable' \subseteq C \cup U
    BY <1>3, <1>4, <1>8 DEF C
  <2>3. \A m \in U : m.seq \in nextSeq .. nextSeq + k - 1
    BY <1>1 DEF SequencesOf
  <2>4. \A s \in R : s \in Nat /\ s <= last
    <3>1. ASSUME NEW m \in C PROVE m.seq \in Nat /\ m.seq <= last
      <4>1. m.seq \in Nat /\ m.seq < nextSeq
        BY <1>2, <3>1 DEF Mutation, Sequence
      <4> QED BY <1>2, <4>1
    <3>2. ASSUME NEW m \in U PROVE m.seq \in Nat /\ m.seq <= last
      BY <1>2, <2>3, <3>2
    <3>3. top \in Nat /\ top <= last
      BY <1>2
    <3> HIDE DEF last
    <3> QED BY <2>1, <2>2, <3>1, <3>2, <3>3 DEF SequencesOf
  <2>5. last \in R
    <3>1. CASE k > 0
      <4>1. last \in SequencesOf(U)
        BY <1>1, <1>2, <3>1
      <4> QED BY <1>7, <2>1, <4>1 DEF SequencesOf
    <3>2. CASE k = 0 /\ nextSeq = 1
      <4>1. top = 0
        BY <1>2, <3>2
      <4> QED BY <1>2, <2>1, <3>2, <4>1
    <3>3. CASE k = 0 /\ nextSeq - 1 \in SequencesOf(C)
      <4>1. PICK m \in C : m.seq = last
        BY <1>2, <3>3 DEF SequencesOf
      <4>2. PICK n \in DurableView' : n.seq >= m.seq
        BY <1>3, <1>4 DEF CoveredBy, C
      <4>3. n.seq \in R
        BY <2>1, <4>2 DEF DurableView, SequencesOf
      <4> QED BY <1>2, <2>4, <4>1, <4>2, <4>3
    <3> QED BY <1>2, <3>1, <3>2, <3>3
  <2> HIDE DEF last, R
  <2>6. LastSequence' = CHOOSE n \in R : IsMaximum(n, R)
    BY <1>4 DEF LastSequence, R, IsMaximum
  <2>7. \A n \in R : IsMaximum(n, R) <=> n = last
    BY <2>4, <2>5 DEF IsMaximum
  <2>8. LastSequence' = last
    BY <2>5, <2>6, <2>7
  <2> QED BY <2>8 DEF LastSequence, last
<1>12. CASE k = 0
  <2>1. U = {}
    <3>1. SequencesOf(U) = {}
      BY <1>1, <1>2, <1>12
    <3> QED BY <3>1 DEF SequencesOf
  <2>2. StoreOf(Current)' = StoreOf(Current) /\ LastSequence' = LastSequence
    BY <1>2, <1>10, <1>11, <1>12, <2>1
  <2> QED BY <1>4, <2>2 DEF Abstract!Stop
<1>13. CASE k > 0
  <2> DEFINE At(i) == CHOOSE m \in U : m.seq = nextSeq + i - 1
             b == [i \in 1 .. k |-> [rec |-> At(i).rec, val |-> At(i).val]]
  <2>1. ASSUME NEW i \in 1 .. k PROVE At(i) \in U /\ At(i).seq = nextSeq + i - 1
    <3>1. nextSeq + i - 1 \in SequencesOf(U)
      BY <1>1, <1>2
    <3> QED BY <3>1 DEF SequencesOf
  <2>2. \A m \in U : \E i \in 1 .. k : m = At(i)
    <3>1. SUFFICES ASSUME NEW m \in U PROVE \E i \in 1 .. k : m = At(i)
      OBVIOUS
    <3>2. m.seq \in nextSeq .. nextSeq + k - 1
      BY <1>1 DEF SequencesOf
    <3>3. PICK i \in 1 .. k : m.seq = nextSeq + i - 1
      <4>1. m.seq - nextSeq + 1 \in 1 .. k /\ m.seq = nextSeq + (m.seq - nextSeq + 1) - 1
        BY <1>2, <3>2
      <4> QED BY <4>1
    <3> QED BY <1>9, <2>1, <3>3
  <2>3. \A i \in 1 .. k : /\ At(i) \in Mutation
                          /\ At(i) = [seq |-> nextSeq + i - 1, rec |-> At(i).rec, val |-> At(i).val]
    BY <1>7, <2>1 DEF Mutation
  <2> HIDE DEF At
  <2>4. b \in Abstract!Batches /\ Len(b) = k
    <3>1. b \in [1 .. k -> Abstract!Change]
      BY <2>3 DEF Mutation, Abstract!Change
    <3>2. k \in 1 .. MaxBatch
      BY <1>2, <1>13
    <3> QED BY <1>2, <3>1, <3>2 DEF Abstract!Batches
  <2>5. FramesFrom(nextSeq, b, k) = U
    <3>1. \A i \in 1 .. k :
            [seq |-> nextSeq + i - 1, rec |-> b[i].rec, val |-> b[i].val] = At(i)
      BY <2>3
    <3>2. FramesFrom(nextSeq, b, k) = {At(i) : i \in 1 .. k}
      BY <3>1 DEF FramesFrom
    <3> QED BY <2>1, <2>2, <3>2
  <2> HIDE DEF b
  <2>6. StoreOf(C \cup U) = Abstract!Applied(StoreOf(C), b, k)
    BY <1>2, <1>7, <2>5, FramesApply
  <2>7. Abstract!Changes(b, k)
    BY <1>10, <1>11, <2>6 DEF Abstract!Changes
  <2> QED BY <1>2, <1>4, <1>13, <2>4, <2>7 DEF Abstract!StopInWrite
<1> QED BY <1>2, <1>12, <1>13

\* A running collection shows the accepted mutations.
LEMMA RunningShows == BaseInv /\ SafeInv /\ mode = "up" => StoreOf(Current) = StoreOf(committed)
<1> SUFFICES ASSUME BaseInv, SafeInv, mode = "up" PROVE StoreOf(Current) = StoreOf(committed)
  OBVIOUS
<1>1. Visible(Current) = Visible(committed)
  BY ViewShowsRecords DEF Current
<1> QED BY <1>1, SameShown

\* The same of the state after a step.
LEMMA RunningShowsNext ==
    ASSUME BaseInv', SafeInv', mode' = "up"
    PROVE  StoreOf(Current)' = StoreOf(committed')
<1>1. (BaseInv /\ SafeInv /\ mode = "up" => StoreOf(Current) = StoreOf(committed))'
  BY RunningShows, PTL
<1>2. StoreOf(committed)' = StoreOf(committed')
  BY DEF StoreOf, ContentIn, Live, Visible, Newest
<1> QED BY <1>1, <1>2

\* An accepted batch is a write of the abstract store.
LEMMA AppendIsWrite ==
    ASSUME BaseInv, SafeInv, BaseInv', SafeInv', NEW t \in Tasks, NEW b \in Batches, AppendBatch(t, b)
    PROVE  Abstract!Write
<1>1. /\ mode = "up" /\ mode' = "up" /\ nextSeq' = nextSeq + Len(b)
      /\ committed' = committed \cup FrameSet(Frames(b))
      /\ nextSeq + Len(b) - 1 <= MaxSequence
  BY DEF AppendBatch, AppendEnabled
<1>2. /\ Len(b) \in Nat \ {0} /\ Len(Frames(b)) = Len(b) /\ nextSeq \in Nat \ {0}
      /\ \A i \in 1 .. Len(b) : Frames(b)[i] \in Mutation
  BY <1>1, FramesFact, StoreAssumption DEF BaseInv, TypeOK
<1>3. FrameSet(Frames(b)) = FramesFrom(nextSeq, b, Len(b))
  BY <1>2 DEF FrameSet, FramesFrom, Frames
<1>4. FramesFrom(nextSeq, b, Len(b)) \subseteq Mutation
  BY <1>2, <1>3 DEF FrameSet
<1>5. committed \subseteq Mutation /\ \A m \in committed : m.seq < nextSeq
  BY <1>1 DEF BaseInv, TypeOK, SafeInv, HistoryInv
<1>6. StoreOf(committed') = Abstract!Applied(StoreOf(committed), b, Len(b))
  BY <1>1, <1>2, <1>3, <1>4, <1>5, FramesApply
<1>7. StoreOf(Current) = StoreOf(committed) /\ StoreOf(Current)' = StoreOf(committed')
  BY <1>1, RunningShows, RunningShowsNext
<1>8. LastSequence = nextSeq - 1 /\ LastSequence' = LastSequence + Len(b)
  BY <1>1, <1>2 DEF LastSequence
<1>9. b \in Abstract!Batches
  BY DEF Batches, Change, Abstract!Batches, Abstract!Change
<1> QED BY <1>1, <1>6, <1>7, <1>8, <1>9 DEF Abstract!Write, Abstract!Changes

\* Recovery brings the collection back as the files had it.
LEMMA RecoverIsStart ==
    ASSUME BaseInv, SafeInv, Recover
    PROVE  Abstract!Start
<1>1. /\ mode = "down" /\ mode' = "up" /\ segments' = RecoveredSegments
      /\ mutable' = RecoveredMutable /\ nextSeq' \in Nat
      /\ IsSuccessor(nextSeq', RecoveredSequences)
  BY StoreAssumption DEF Recover
<1>2. Current' = Current
  BY <1>1 DEF Current, View, DurableView, Contents
<1>3. StoreOf(Current)' = StoreOf(Current)
  BY <1>2 DEF StoreOf, ContentIn, Live, Visible, Newest
<1>4. \A s \in RecoveredSequences : s \in Nat
  <2>1. /\ RecoveredMutable \subseteq Mutation
        /\ Contents(RecoveredSegments) \subseteq Mutation
        /\ CheckpointSequence(ckptFile) \in Nat
    BY FilesShow DEF BaseInv, TypeOK, CheckpointSequence, Checkpoint, Sequence
  <2> QED BY <2>1 DEF RecoveredSequences, SequencesOf, Mutation, Sequence
<1>5. CheckpointSequence(ckptFile) \in RecoveredSequences
  BY DEF RecoveredSequences
<1>6. nextSeq' - 1 \in RecoveredSequences
  <2>1. CASE nextSeq' = 1
    <3>1. CheckpointSequence(ckptFile) = 0
      BY <1>1, <1>4, <1>5, <2>1 DEF IsSuccessor
    <3> QED BY <1>5, <2>1, <3>1
  <2> QED BY <1>1, <2>1 DEF IsSuccessor
<1>7. \A n \in RecoveredSequences : IsMaximum(n, RecoveredSequences) <=> n = nextSeq' - 1
  <2> DEFINE R == RecoveredSequences
  <2>1. (\A s \in R : s \in Nat /\ s < nextSeq') /\ nextSeq' - 1 \in R
    BY <1>1, <1>4, <1>6 DEF IsSuccessor
  <2> HIDE DEF R
  <2>2. \A n \in R : IsMaximum(n, R) <=> n = nextSeq' - 1
    BY <1>1, <2>1 DEF IsMaximum
  <2> QED BY <2>2 DEF R
<1>8. LastSequence' = LastSequence
  BY <1>1, <1>6, <1>7 DEF LastSequence
<1> QED BY <1>1, <1>3, <1>8 DEF Abstract!Start

\* A step that leaves the process, the files and the runtime as they are.
LEMMA NothingShows ==
    ASSUME UNCHANGED <<disk, mode, memory>>
    PROVE  UNCHANGED Abstract!recordVars
<1>1. Current' = Current
  BY DEF Current, disk, memory, View, DurableView, Contents, RecoveredSegments, RecoveredMutable,
         OnlySegments, CheckpointSequence, Replayed, Readable
<1>2. StoreOf(Current)' = StoreOf(Current)
  BY <1>1 DEF StoreOf, ContentIn, Live, Visible, Newest
<1>3. RecoveredSequences' = RecoveredSequences
  BY DEF disk, RecoveredSequences, SequencesOf, Contents, RecoveredSegments, RecoveredMutable,
         OnlySegments, CheckpointSequence, Replayed, Readable
<1>4. LastSequence' = LastSequence
  BY <1>3 DEF LastSequence, memory, IsMaximum
<1> QED BY <1>2, <1>4 DEF Abstract!recordVars

\* A step of a running collection that accepts nothing, whatever it does to files, segments,
\* overlay and index.
LEMMA QuietStepShowsNothing ==
    ASSUME BaseInv, SafeInv, BaseInv', SafeInv', mode = "up", UNCHANGED <<mode, nextSeq, committed>>
    PROVE  UNCHANGED Abstract!recordVars
<1>1. StoreOf(Current)' = StoreOf(Current)
  BY RunningShows, RunningShowsNext
<1>2. LastSequence' = LastSequence
  BY DEF LastSequence
<1> QED BY <1>1, <1>2 DEF Abstract!recordVars

\* Up to the first append after an unclean tail, every step is a step of RecordStore or none.
LEMMA StepsImplement ==
    RefinementInv /\ RefinementInv' /\ [Next]_vars /\ ~damaged'
        => [Abstract!Next]_Abstract!recordVars
<1> SUFFICES ASSUME RefinementInv, RefinementInv', [Next]_vars, ~damaged'
             PROVE  Abstract!Next \/ UNCHANGED Abstract!recordVars
  OBVIOUS
<1>1. /\ BaseInv /\ BaseInv' /\ SafeInv /\ SafeInv' /\ BacklogInv
      /\ (\E t \in Tasks : WriteStep(t)) \/ CrashInAppend => TailClean
  <2>1. BaseInv /\ ~damaged
    BY DamageIsAnAppend DEF RefinementInv, IInv
  <2> QED BY <2>1, DamageIsAnAppend DEF RefinementInv, IInv
<1>2. CASE UNCHANGED vars
  BY <1>2, NothingShows DEF vars
<1>3. ASSUME NEW t \in Tasks, WriteStep(t) PROVE Abstract!Next \/ UNCHANGED Abstract!recordVars
  <2>1. CASE AppendFails(t)
    <3>1. mode = "up" /\ UNCHANGED <<mode, nextSeq, committed>>
      BY <2>1 DEF AppendFails, AppendEnabled, memory
    <3> QED BY <1>1, <3>1, QuietStepShowsNothing
  <2>2. CASE ~AppendFails(t)
    <3>1. PICK b \in Batches : AppendBatch(t, b)
      BY <1>3, <2>2 DEF WriteStep, UpsertBatch, Upserts, Delete, Deletes, ReplaceParentChunks,
                        DeleteParentDocument
    <3> QED BY <1>1, <3>1, AppendIsWrite DEF Abstract!Next
  <2> QED BY <2>1, <2>2
<1>4. ASSUME NEW t \in Tasks,
             SealStep(t) \/ IndexStep(t) \/ CompactStart(t) \/ CompactStep(t) \/ HandlerDropped(t)
      PROVE  UNCHANGED Abstract!recordVars
  <2>1. UNCHANGED <<mode, nextSeq, committed>>
    BY <1>4, TaskSummary
  <2>2. mode = "up"
    <3>1. pc[t] # "idle" \/ mode = "up"
      BY <1>4 DEF SealStep, SealNothing, SealPublishSegment, SealSegmentFails, MaySeal,
         SealPublishCheckpoint, SealCheckpointFails, SealReclaim, SealReclaimFails, IndexStep,
         RebuildIndex, RebuildIndexFails, CompactStart, CompactStep, CompactCheck,
         CompactRevalidateFails, CompactPublishSegment, CompactSegmentFails, MayCompact,
         CompactPublishCheckpoint, CompactCheckpointFails, CompactInstall, CollectSegment,
         CollectDone, CollectFails, HandlerDropped
    <3> QED BY <1>1, <3>1 DEF BaseInv, LockInv
  <2> QED BY <1>1, <2>1, <2>2, QuietStepShowsNothing
<1>5. CASE Crash
  <2>1. /\ mode = "up" /\ LoseMemory /\ UNCHANGED <<wal, segFiles, ckptFile, committed>>
    BY <1>5 DEF Crash, disk, ghost
  <2>2. CarriesOn(wal', nextSeq)
    BY <1>1, <2>1 DEF BacklogInv
  <2>3. \A i \in 1 .. Len(wal') : wal'[i] = Torn \/ wal'[i] \in committed \/ nextSeq <= wal'[i].seq
    BY <1>1, <2>1 DEF SafeInv, FrameInv
  <2> QED BY <1>1, <2>1, <2>2, <2>3, CrashIsStop DEF Abstract!Next
<1>6. CASE CrashInAppend
  <2>1. PICK t \in Writers, b \in Batches : \E k \in 0 .. Len(b), torn \in BOOLEAN :
            AppendEnabled(t, b) /\ PartialAppend(b, k, torn)
    BY <1>6 DEF CrashInAppend
  <2>2. PICK k \in 0 .. Len(b), torn \in BOOLEAN : AppendEnabled(t, b) /\ PartialAppend(b, k, torn)
    BY <2>1
  <2>3. mode = "up" /\ nextSeq + Len(b) - 1 <= MaxSequence /\ TailClean
    BY <1>1, <1>6, <2>2 DEF AppendEnabled
  <2>4. CarriesOn(wal', nextSeq)
    BY <1>1, <2>2, <2>3, LeftBehind DEF BaseInv, SafeInv
  <2>5. \A i \in 1 .. Len(wal') : wal'[i] = Torn \/ wal'[i] \in committed \/ nextSeq <= wal'[i].seq
    BY <1>1, <2>2, <2>3, PartialKeepsLog
  <2>6. LoseMemory /\ UNCHANGED <<segFiles, ckptFile, committed>>
    BY <1>6 DEF CrashInAppend
  <2> QED BY <1>1, <2>3, <2>4, <2>5, <2>6, CrashIsStop DEF Abstract!Next
<1>7. CASE Recover
  BY <1>1, <1>7, RecoverIsStart DEF Abstract!Next
<1>8. CASE RecoverRefused
  BY <1>1, <1>8, RecoveryAccepts
<1> QED BY <1>2, <1>3, <1>4, <1>5, <1>6, <1>7, <1>8 DEF Next

LEMMA InitImplements == Init => Abstract!Init
<1> SUFFICES ASSUME Init PROVE Abstract!Init
  OBVIOUS
<1>1. View = {} /\ nextSeq = 1 /\ mode = "up"
  BY DEF Init, View, Contents
<1>2. Visible(Current) = {}
  BY <1>1 DEF Current, Visible, Newest
<1>3. StoreOf(Current) = [r \in Records |-> Deleted]
  BY <1>2 DEF StoreOf, ContentIn, Live
<1>4. LastSequence = 0
  BY <1>1 DEF LastSequence
<1> QED BY <1>1, <1>3, <1>4 DEF Abstract!Init

\* Seals, compactions, index rebuilds, failed file operations, crashes and recoveries change
\* nothing a client can see, but that a crash may keep the first part of a batch that was being
\* written: also with torn frames and failed appends, until an append lands behind one of them.
THEOREM RecordStoreUntilDamaged == Spec => ImplementsUntilDamaged
<1>1. RefinementInv /\ RefinementInv' /\ [Next]_vars
        => [~damaged' => [Abstract!Next]_Abstract!recordVars]_vars
  BY StepsImplement
<1> QED BY <1>1, InitImplements, RefinementHolds, PTL DEF Spec, ImplementsUntilDamaged

LEMMA TailInit == Init => TailInv
<1> SUFFICES ASSUME Init PROVE TailInv
  OBVIOUS
<1>1. wal = <<>> /\ 1 .. Len(wal) = {} /\ ~damaged
  BY DEF Init
<1> QED BY <1>1 DEF TailInv, TailClean

\* Without failed appends and torn frames the log of a running collection ends with a frame its
\* writer knows, and so no append ever damages it.
LEMMA TailNext == IInv /\ TailInv /\ [Next]_vars => TailInv'
<1> SUFFICES ASSUME IInv, CleanTails, TailInv, [Next]_vars
             PROVE  /\ ~damaged'
                    /\ \A i \in 1 .. Len(wal') : wal'[i] # Torn
                    /\ mode' = "up" => TailClean'
  BY DEF TailInv
<1>1. /\ BaseInv /\ SafeInv /\ TypeOK /\ LogInv
      /\ ~damaged /\ (\A i \in 1 .. Len(wal) : wal[i] # Torn) /\ (mode = "up" => TailClean)
  BY DEF TailInv, IInv, BaseInv, SafeInv
<1>2. CASE UNCHANGED vars
  BY <1>1, <1>2 DEF vars, disk, memory, ghost, TailClean
<1>3. ASSUME NEW t \in Tasks, NEW b \in Batches, AppendBatch(t, b)
      PROVE  ~damaged' /\ (\A i \in 1 .. Len(wal') : wal'[i] # Torn) /\ TailClean'
  <2> DEFINE F == Frames(b)
  <2>1. /\ mode = "up" /\ wal' = wal \o F /\ nextSeq' = nextSeq + Len(b)
        /\ nextSeq + Len(b) - 1 <= MaxSequence /\ damaged' = (damaged \/ ~TailClean)
    BY <1>3 DEF AppendBatch, AppendEnabled
  <2>2. /\ Len(b) \in Nat \ {0} /\ Len(F) = Len(b) /\ nextSeq \in Nat
        /\ \A i \in 1 .. Len(b) : F[i] \in Mutation /\ F[i].seq = nextSeq + i - 1
    BY <1>1, <2>1, FramesFact, StoreAssumption DEF TypeOK
  <2>3. IsTail(F)
    BY <1>1, <2>1, FramesAreTail
  <2> HIDE DEF F
  <2>4. /\ Len(wal) \in Nat /\ Len(wal') = Len(wal) + Len(F)
        /\ \A i \in 1 .. Len(wal) : wal'[i] = wal[i] /\ wal[i] \in Mutation /\ wal[i].seq < nextSeq
        /\ \A i \in 1 .. Len(wal') :
             i > Len(wal) => i - Len(wal) \in 1 .. Len(F) /\ wal'[i] = F[i - Len(wal)]
        /\ \A j \in 1 .. Len(F) : j + Len(wal) \in 1 .. Len(wal') /\ wal'[j + Len(wal)] = F[j]
    BY <1>1, <2>1, <2>3, LogAppend
  <2>5. ASSUME NEW i \in 1 .. Len(wal') PROVE wal'[i] # Torn
    <3>1. CASE i \in 1 .. Len(wal)
      BY <2>4, <3>1, TornIsNoMutation
    <3>2. CASE i > Len(wal)
      BY <2>2, <2>4, <3>2, TornIsNoMutation
    <3> QED BY <2>4, <3>1, <3>2
  <2>6. Len(wal') \in 1 .. Len(wal') /\ wal'[Len(wal')] = F[Len(b)]
    <3>1. Len(b) \in 1 .. Len(F) /\ Len(b) + Len(wal) = Len(wal')
      BY <2>2, <2>4
    <3> QED BY <2>2, <2>4, <3>1
  <2>7. F[Len(b)].seq = nextSeq + Len(b) - 1
    <3>1. Len(b) \in 1 .. Len(b)
      BY <2>2
    <3> QED BY <2>2, <3>1
  <2>8. wal'[Len(wal')].seq < nextSeq'
    BY <2>1, <2>2, <2>6, <2>7
  <2>9. TailClean'
    BY <2>5, <2>6, <2>8 DEF TailClean
  <2> QED BY <1>1, <2>1, <2>5, <2>9
<1>4. ASSUME NEW t \in Tasks, WriteStep(t)
      PROVE  ~damaged' /\ (\A i \in 1 .. Len(wal') : wal'[i] # Torn) /\ TailClean'
  <2>1. PICK b \in Batches : AppendBatch(t, b)
    BY <1>4 DEF WriteStep, UpsertBatch, Upserts, Delete, Deletes, ReplaceParentChunks,
                DeleteParentDocument, AppendFails, CleanTails
  <2> QED BY <1>3, <2>1
<1>5. ASSUME NEW t \in Tasks,
             SealStep(t) \/ IndexStep(t) \/ CompactStart(t) \/ CompactStep(t) \/ HandlerDropped(t)
      PROVE  /\ ~damaged'
             /\ \A i \in 1 .. Len(wal') : wal'[i] # Torn
             /\ mode' = "up" => TailClean'
  <2>1. UNCHANGED <<mode, nextSeq, damaged>> /\ wal' \in {wal, <<>>}
    BY <1>5, TaskSummary
  <2>2. CASE wal' = wal
    BY <1>1, <2>1, <2>2 DEF TailClean
  <2>3. CASE wal' = <<>>
    <3>1. 1 .. Len(wal') = {}
      BY <2>3
    <3> QED BY <1>1, <2>1, <2>3, <3>1 DEF TailClean
  <2> QED BY <2>1, <2>2, <2>3
<1>6. CASE Crash \/ RecoverRefused
  BY <1>1, <1>6 DEF Crash, LoseMemory, RecoverRefused, disk, ghost
<1>7. CASE CrashInAppend
  <2>1. PICK t \in Writers, b \in Batches : \E k \in 0 .. Len(b), torn \in BOOLEAN :
            AppendEnabled(t, b) /\ (torn => TornAppends) /\ PartialAppend(b, k, torn)
    BY <1>7 DEF CrashInAppend
  <2>2. PICK k \in 0 .. Len(b) : AppendEnabled(t, b) /\ PartialAppend(b, k, FALSE)
    BY <2>1 DEF CleanTails
  <2> DEFINE G == SubSeq(Frames(b), 1, k) \o Tear(FALSE)
  <2>3. /\ mode = "up" /\ nextSeq + Len(b) - 1 <= MaxSequence /\ TailClean
        /\ mode' = "down" /\ wal' = wal \o G /\ damaged' = (damaged \/ ~TailClean)
    BY <1>1, <1>7, <2>2 DEF AppendEnabled, PartialAppend, CrashInAppend, LoseMemory
  <2>4. IsTail(G)
    BY <1>1, <2>3, PartialFact
  <2>5. \A i \in 1 .. Len(G) : G[i] \in Mutation
    <3>1. Frames(b) \in Seq(Mutation) /\ Len(Frames(b)) = Len(b) /\ Len(b) \in Nat
      BY <1>1, <2>3, FramesFact
    <3> DEFINE F == SubSeq(Frames(b), 1, k)
    <3>2. F \in Seq(Mutation)
      BY <3>1, ElementOfSeq, SubSeqProperties
    <3> HIDE DEF F
    <3>3. F \o Tear(FALSE) \in Seq(Mutation)
      <4>1. Tear(FALSE) = <<>>
        BY DEF Tear
      <4> QED BY <3>2, <4>1, EmptySeq, ConcatProperties
    <3> QED BY <3>3, ElementOfSeq DEF F
  <2> HIDE DEF G
  <2>6. /\ Len(wal) \in Nat /\ Len(wal') = Len(wal) + Len(G)
        /\ \A i \in 1 .. Len(wal) : wal'[i] = wal[i]
        /\ \A i \in 1 .. Len(wal') :
             i > Len(wal) => i - Len(wal) \in 1 .. Len(G) /\ wal'[i] = G[i - Len(wal)]
    BY <1>1, <2>3, <2>4, LogAppend
  <2>7. ASSUME NEW i \in 1 .. Len(wal') PROVE wal'[i] # Torn
    <3>1. CASE i \in 1 .. Len(wal)
      BY <1>1, <2>6, <3>1
    <3>2. CASE i > Len(wal)
      BY <2>5, <2>6, <3>2, TornIsNoMutation
    <3> QED BY <2>6, <3>1, <3>2
  <2> QED BY <1>1, <2>3, <2>7
<1>8. CASE Recover
  <2>1. UNCHANGED <<wal, damaged>>
    BY <1>8 DEF Recover
  <2>2. \A i \in 1 .. Len(wal) : wal[i] \in Replayed(wal)
    BY <1>1, OrderedLogReplays
  <2>3. wal = <<>> \/ Len(wal) \in 1 .. Len(wal)
    BY <1>1 DEF TypeOK
  <2>4. TailClean'
    BY <1>1, <1>8, <2>1, <2>2, <2>3, RecoveredBelowNext DEF TailClean
  <2> QED BY <1>1, <2>1, <2>4
<1> QED BY <1>2, <1>4, <1>5, <1>6, <1>7, <1>8 DEF Next

\* A collection whose appends neither fail half way nor tear their last frame is the record map
\* its clients see: for any number of records, writers, segments, crashes and failed seals and
\* compactions, only a write changes a record, and a crash keeps at most the first part of the
\* batch that was being written.
THEOREM RecordStoreImplemented == CleanTails => (Spec => ImplementsRecordStore)
<1>1. SUFFICES ASSUME CleanTails PROVE Spec => ImplementsRecordStore
  OBVIOUS
<1>2. Spec => []TailInv
  BY TailInit, TailNext, InvariantHolds, PTL DEF Spec
<1>3. TailInv => ~damaged
  BY <1>1 DEF TailInv
<1>4. RefinementInv /\ RefinementInv' /\ [Next]_vars /\ ~damaged'
        => [Abstract!Next]_Abstract!recordVars
  BY StepsImplement
<1> QED BY <1>2, <1>3, <1>4, InitImplements, RefinementHolds, PTL
        DEF Spec, ImplementsRecordStore, Abstract!Spec
=============================================================================
