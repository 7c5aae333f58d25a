\* Clients delete instances whose deployment is under way, and the process restarts.
CONSTANTS
  Objects = {o1}
  Names = {n1}
  UpdateNames = {}
  FnMillis = {1}
  Savers = {s1}
  StoreMayFail = FALSE
  DistinctFnIds = TRUE
  MaxRestarts = 1
  NoName = NoName
  NoObject = NoObject
  Slug <- MCSlug
  Routines = {g1, g2}
  Teardowns = {d1, d2}
  InstMillis = {1, 2}
  DistinctInstIds = TRUE
  SuffixMod = 3
  MaxRetries = 1
  PatientClients = FALSE
  DownMayFail = FALSE
  PatchStatuses = {}
  CarefulSeeds = TRUE
  ForwardsDie = TRUE
  Matches <- MCMatches
  BusyPorts = {}
  PatchEndpoints = {}
  SeedVias = {"skypilot"}
  NoCluster = NoCluster
  NoEndpoint = NoEndpoint
  External = External
SPECIFICATION Spec
CHECK_DEADLOCK FALSE
SYMMETRY Symmetry
INVARIANTS TeardownHitsOwn EndpointIsOwn EndpointIsBacked
PROPERTIES ImplementsLifecycle
