-------------------------- MODULE MCCollectionStore --------------------------
(* CollectionStore for TLC: tasks and records are interchangeable. *)
EXTENDS CollectionStoreRefinement, TLC

CONSTANTS MaxSegmentId
MCSegmentIds == 1 .. MaxSegmentId

Symmetric ==
    Permutations(Records) \cup Permutations(Values) \cup Permutations(Writers) \cup Permutations(Compactors)

\* Handlers of a collection make progress: those that started end (HandlersReturn), and a full
\* overlay is sealed (FullOverlayIsSealed).
HandlersProgress == HandlersReturn /\ FullOverlayIsSealed
=============================================================================
