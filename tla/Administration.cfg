\* One key of one account, two projects and two collections; three submitters under two policies;
\* two versions of a search profile, a crash.
CONSTANTS
    x1 = x1
    x2 = x2
    c1 = c1
    c2 = c2
    p1 = p1
    p2 = p2
    k1 = k1
    a1 = a1
    g1 = g1
    g2 = g2
    g3 = g3
    Routes = {"create", "delete", "cancel"}
    Keys = {k1}
    Accounts = {a1}
    Projects = {p1, p2}
    Collections = {c1, c2}
    Requests = {x1, x2}
    MaxCollections = 1
    MaxEvents = 4
    GovernedProjects = {"p"}
    Submitters = {g1, g2, g3}
    Policies <- MCPolicies
    DefaultPolicy <- MCDefaultPolicy
    Units = {1, 2}
    MaxTime = 2
    MaxChanges = 2
    MaxWorkers = 2
    Handlers = {x1, x2}
    Versions = {1, 2}
    Bodies = {c1, c2}
    Pids = {7, 8}
    MaxHandled = 3
    MaxCrashes = 1
SPECIFICATION Spec
SYMMETRY Symmetric
\* The bounds run out.
CHECK_DEADLOCK FALSE
INVARIANTS
    AccessInv GovernanceInv
PROPERTIES
    WithdrawnSecretsRejected ProfilesKept
