\* Three records, two clients, a permit for one query; a schema change while documents are embedded.
CONSTANTS
    q1 = q1
    q2 = q2
    d1 = d1
    d2 = d2
    Terms = {"a", "b"}
    Ids = {1, 2, 3}
    Scores = {1, 2}
    Clients = {q1, q2}
    Requests <- MCRequests
    Profiles <- MCProfiles
    DefaultTopK = 4
    MaxConcurrency = 1
    MaxTopK = 3
    MaxCandidates = 4
    MaxTimeout = 2
    DefaultTimeout = 1
    CursorMaxAge = 0
    Metric = "dot"
    DefaultRrfK = 60
    MaxWrites = 1
    MaxTime = 2
    MaxCalls = 3
    Putters = {d1, d2}
    Parents = {"p"}
    Texts <- MCTexts
    Schemas <- MCSchemas
    Requested <- MCRequested
    MaxPuts = 3
    MaxRecreations = 1
SPECIFICATION Spec
SYMMETRY Symmetric
\* An input is checked once, and the bounds run out.
CHECK_DEADLOCK FALSE
INVARIANTS
    RetrievalCorrect FilesCorrect ChunkingCorrect AgentSearchCorrect
    QueryInv DocumentsInv
