\* Two builders and two callers that seal or change the schema; three calls of create and restore.
CONSTANTS
    x1 = x1
    x2 = x2
    b1 = b1
    b2 = b2
    Schemas = {"title"}
    Callers = {x1, x2}
    Builders = {b1, b2}
    Slots = 2
    MaxAttempts = 2
    MaxChanges = 2
    MaxBuildFaults = 1
    Writes = {"w"}
    Operators = {x1, x2}
    MaxTick = 1
    MaxCalls = 3
    MaxFaults = 1
SPECIFICATION Spec
SYMMETRY Symmetric
\* The bounds run out.
CHECK_DEADLOCK FALSE
INVARIANTS
    LexicalInv BackupSound
PROPERTY
    LiveWritesKept
