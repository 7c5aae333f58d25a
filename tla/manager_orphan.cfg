\* A DELETE meets a deployment under way.
CONSTANTS
  Objects = {o1}
  Names = {n1}
  UpdateNames = {}
  FnMillis = {1}
  Savers = {s1}
  StoreMayFail = FALSE
  DistinctFnIds = TRUE
  MaxRestarts = 0
  NoName = NoName
  NoObject = NoObject
  Slug <- MCSlug
  Routines = {g1}
  Teardowns = {d1}
  InstMillis = {1}
  DistinctInstIds = TRUE
  SuffixMod = 3
  MaxRetries = 1
  PatientClients = FALSE
  DownMayFail = FALSE
  PatchStatuses = {}
  CarefulSeeds = TRUE
  ForwardsDie = TRUE
  Matches <- MCMatches
  BusyPorts = {}
  PatchEndpoints = {}
  SeedVias = {}
  NoCluster = NoCluster
  NoEndpoint = NoEndpoint
  External = External
SPECIFICATION Spec
CHECK_DEADLOCK FALSE
INVARIANTS NoOrphan
