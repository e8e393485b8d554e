\* Racing calls of the migration with one user write and one fault; two callers of one provider
\* that embeds two texts at a time, with a cache of two.
CONSTANTS
    x1 = x1
    x2 = x2
    r1 = r1
    r2 = r2
    boot = boot
    Records = {r1, r2}
    Profiles = {"v1", "v2", "v3"}
    Source = "v1"
    Texts = {"a", "b"}
    Ops = {x1, x2}
    Boot = boot
    MaxCalls = 3
    MaxWrites = 1
    MaxFaults = 1
    Embedders = {x1, x2}
    Canonical <- MCCanonical
    Configured <- MCConfigured
    Requests <- MCRequests
    Reranker = "r"
    MaxBatchInputs = 2
    MaxConcurrency = 1
    MaxRetries = 1
    Capacity = 2
    MaxEmbeddings = 3
SPECIFICATION Spec
SYMMETRY Symmetric
\* The bounds run out.
CHECK_DEADLOCK FALSE
INVARIANTS
    MigrationInv EmbeddingInv
PROPERTY
    SwitchIsComplete
