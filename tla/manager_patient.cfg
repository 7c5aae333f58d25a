\* Clients leave deploying instances alone: every cluster stays accounted for, every
\* deployment settles, and deletions give the clusters back.
CONSTANTS
  Objects = {o1}
  Names = {n1}
  UpdateNames = {}
  FnMillis = {1}
  Savers = {s1}
  StoreMayFail = FALSE
  DistinctFnIds = TRUE
  MaxRestarts = 0
  NoName = NoName
  NoObject = NoObject
  Slug <- MCSlug
  Routines = {g1, g2}
  Teardowns = {d1}
  InstMillis = {1, 2}
  DistinctInstIds = TRUE
  SuffixMod = 3
  MaxRetries = 2
  PatientClients = TRUE
  DownMayFail = TRUE
  PatchStatuses = {"running"}
  CarefulSeeds = TRUE
  ForwardsDie = TRUE
  Matches <- MCMatches
  BusyPorts = {1}
  PatchEndpoints = {External}
  SeedVias = {"skypilot", "manual"}
  NoCluster = NoCluster
  NoEndpoint = NoEndpoint
  External = External
SPECIFICATION FairSpec
CHECK_DEADLOCK FALSE
INVARIANTS TypeOK NoOrphan
PROPERTIES DeploymentsSettle DeleteReclaims
