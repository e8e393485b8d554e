\* Every write is sealed at once; two crashes, failed or half-done file operations.
CONSTANTS
    c1 = c1
    r1 = r1
    r2 = r2
    v1 = v1
    w1 = w1
    Deleted = Deleted
    Torn = Torn
    NoCheckpoint = NoCheckpoint
    NoIndex = NoIndex
    Records = {r1, r2}
    Chunks = {r1, r2}
    Values = {v1}
    Writers = {w1}
    Compactors = {c1}
    SealThreshold = 1
    MaxBatch = 1
    MaxSequence = 3
    MaxSegmentId = 4
    MaxFaults = 2
    TornAppends = TRUE
    FailedAppends = TRUE
    SegmentIds <- MCSegmentIds
SPECIFICATION Spec
SYMMETRY Symmetric
\* The bounded resources (sequence numbers, faults) run out.
CHECK_DEADLOCK FALSE
INVARIANTS
    TypeOK
    SequencesUnique
    DurableAtEveryStep
    RestartNotRefused
    IndexAgreesWithRecords
    UnsealedImpliesWriter
PROPERTY SegmentsImmutable
