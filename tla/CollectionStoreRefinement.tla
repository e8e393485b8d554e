----------------------- MODULE CollectionStoreRefinement -----------------------
(***************************************************************************)
(* CollectionStore implements RecordStore: the content of a record is its  *)
(* newest version in memory while the process runs, and the one recovery   *)
(* would read from the files while it is down; the last sequence number    *)
(* counts the changes, so that no step but a write may change a record.    *)
(***************************************************************************)
EXTENDS CollectionStoreInvariant

\* The versions of r that a query over M returns: none or one.
Live(M, r) == {m \in Visible(M) : m.rec = r}
ContentIn(M, r) == IF Live(M, r) = {} THEN Deleted ELSE (CHOOSE m \in Live(M, r) : TRUE).val
StoreOf(M) == [r \in Records |-> ContentIn(M, r)]

Current == IF mode = "up" THEN View ELSE DurableView

LastSequence ==
    IF mode = "up" THEN nextSeq - 1
    ELSE CHOOSE n \in RecoveredSequences : IsMaximum(n, RecoveredSequences)

Abstract == INSTANCE RecordStore WITH
    store   <- StoreOf(Current),
    version <- LastSequence,
    serving <- mode = "up"

\* Only writes change what clients see: every seal, compaction, index, crash
\* and recovery step of the code is a stuttering, Stop or Start step of
\* RecordStore.
ImplementsRecordStore == Abstract!Spec

\* The same when appends fail or crashes tear frames: up to the first append that lands after an
\* unclean log tail.
ImplementsUntilDamaged ==
    Abstract!Init /\ [][~damaged' => [Abstract!Next]_Abstract!recordVars]_vars

-----------------------------------------------------------------------------
(* What the refinement needs beyond IInv *)

\* Whole frames that a failed append left in the log: a crash now would make them records.
Beyond(w, n) == {m \in Replayed(w) : m.seq >= n}

\* They are a batch, or the first part of one, numbered from n.
CarriesOn(w, n) == \E k \in 0 .. MaxBatch : SequencesOf(Beyond(w, n)) = n .. n + k - 1

\* The last sequence number is that of an accepted mutation, and the frames left behind carry on
\* from it.
BacklogInv ==
    mode = "up" =>
        /\ nextSeq = 1 \/ nextSeq - 1 \in SequencesOf(committed)
        /\ CarriesOn(wal, nextSeq)

\* Nothing can leave an unclean tail behind: no append fails and no frame is torn.
CleanTails == ~TornAppends /\ ~FailedAppends

\* With clean tails a running process has a clean tail.
TailInv ==
    CleanTails =>
        /\ ~damaged
        /\ \A i \in 1 .. Len(wal) : wal[i] # Torn
        /\ mode = "up" => TailClean

\* The inductive invariant of the refinement.
RefinementInv == IInv /\ (~damaged => BacklogInv)
=============================================================================
