\* Five clients of the default budget; a process that fails, crashes, drains and starts again.
CONSTANTS
    embed = embed
    lexical = lexical
    compact = compact
    job = job
    jobEmbed = jobEmbed
    NoClient = NoClient
    Clients = {embed, lexical, compact, job, jobEmbed}
    TryClients = {embed}
    KindOf <- MCKindOf
    OuterOf <- MCOuterOf
    Budget <- DefaultBudget
    MaxCancels = 1
    KafkaConfigured = TRUE
    MaxFaults = 2
SPECIFICATION FairSpec
INVARIANTS
    SchedulerInv SharesKept
PROPERTIES
    WaitersAreServed DrainCompletes
