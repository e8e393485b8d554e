\* Handlers end; no symmetry, since this run checks liveness.
CONSTANTS
    c1 = c1
    c2 = c2
    r1 = r1
    v1 = v1
    w1 = w1
    w2 = w2
    Deleted = Deleted
    Torn = Torn
    NoCheckpoint = NoCheckpoint
    NoIndex = NoIndex
    Records = {r1}
    Chunks = {r1}
    Values = {v1}
    Writers = {w1, w2}
    Compactors = {c1, c2}
    SealThreshold = 1
    MaxBatch = 1
    MaxSequence = 2
    MaxSegmentId = 7
    MaxFaults = 1
    TornAppends = FALSE
    FailedAppends = FALSE
    SegmentIds <- MCSegmentIds
SPECIFICATION FairSpec
\* The bounded resources (sequence numbers, faults) run out.
CHECK_DEADLOCK FALSE
PROPERTY
    HandlersProgress
