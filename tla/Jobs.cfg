\* Two jobs, one of which may be cancelled, a crash and a store error.
CONSTANTS
    r1 = r1
    Kinds = {"CatchUp", "Backup"}
    Cancellable = {"CatchUp"}
    Callers = {r1}
    Concurrency = 1
    MaxJobs = 2
    MaxCrashes = 1
    MaxIoErrors = 1
SPECIFICATION JobsFairSpec
\* A draining process may run out of work, and the bounds run out.
CHECK_DEADLOCK FALSE
INVARIANT
    JobsInv
PROPERTIES
    OutcomeIsFinal JobsEnd
