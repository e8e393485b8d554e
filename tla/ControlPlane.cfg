SPECIFICATION Spec
CONSTANTS
  DOrg = DOrg
  Acme = Acme
  DProject = DProject
  Docs = Docs
  Alice = Alice
  Bob = Bob
  DSlug = DSlug
  Other = Other
  Threads = {t1, t2}
  Orgs = {DOrg, Acme}
  Projects = {DProject, Docs}
  Subjects = {Alice, Bob}
  Slugs = {DSlug, Other}
  DefaultOrg = DOrg
  DefaultProject = DProject
  DefaultSlug = DSlug
  Calls <- MCCalls
  Keyed = {Docs}
  MaxCalls = 5
  MaxFaults = 1
  Absent = Absent
  Unreadable = Unreadable
  NoFile = NoFile
  NoCall = NoCall
SYMMETRY Symmetric
CHECK_DEADLOCK FALSE
INVARIANTS
    ControlPlaneInv OwnersRetained ResourcesAgree
PROPERTY
    DeletingKept
