\* The cluster manager, the tenant manager, the autoscaler and the config store.
CONSTANTS
  ClusterIds = {c1, c2}
  DegradedAfter = 6
  OfflineAfter = 12
  MonitorPeriod = 3
  AgeBound = 16
  ApiKeys = {k1, k2, k3}
  TenantMillis = {2, 3, 4}
  Callers = {q1, q2}
  NoKey = NoKey
  PolicyIds = {p1, p2}
  NoPolicy = NoPolicy
  Settings <- FewSettings
  Snapshots <- FewSnapshots
  Evaluations = {e1, e2}
  Cooldown <- ShortCooldown
  LargestInt = 6
  Horizon = 2
  Files = {"functions/f", "instances/i"}
  Instances = {"instances/i"}
  Documents = {d1, d2}
  Null = Null
  Garbage = Garbage
  Posts = {w1, w2}
  Inodes = {i1, i2, i3}
  NoInode = NoInode
  Empty = Empty
  Mixed = Mixed
SPECIFICATION MCSpec
CHECK_DEADLOCK FALSE
INVARIANTS ClustersTypeOK StatusIsTimely TenantsTypeOK BilledIsOwn ScalerTypeOK
  DecisionFollowsLoad StoreTypeOK SettledFileIsLast
PROPERTIES OnlyHeartbeatsHeal CooldownsHold
