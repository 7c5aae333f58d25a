\* Two clusters, two requests of one session: what is decided, and how lately it was heard of.
CONSTANTS
  Clusters = {c1, c2}
  Models = {m1}
  Sessions = {s1}
  Prefixes = {p1}
  Requests = {q1, q2}
  CacheReports = {h1}
  Reports <- ThreeReports
  HealthTimeout = 0
  HealthPeriod = 1
  PrefixTTL = 1
  RedisTimeout = 1
  MaxOvertakes = 1
  RedisMayFail = TRUE
  AgeCap = 4
  NoModel = NoModel
  NoSession = NoSession
  NoPrefix = NoPrefix
  NoCluster = NoCluster
SPECIFICATION RouterSpec
CHECK_DEADLOCK FALSE
SYMMETRY Symmetry
INVARIANTS RouterTypeOK ChosenIsKnown
PROPERTIES CacheHitWins SessionSticks ChosenIsRecent
