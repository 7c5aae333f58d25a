\* Deployments, deletions and scalings at once, the bridge slower than its client.
CONSTANTS
  t1 = t1
  n1 = n1
  n2 = n2
  n3 = n3
  other = other
  Objects = {o1, o2}
  Ids = {1, 2}
  Tenants = {t1}
  Names = {n1, n2, n3}
  Joined <- MCJoined
  FileOf <- MCFileOf
  Deletes = {d1}
  DistinctDeployIds = TRUE
  None = None
SPECIFICATION DeploymentsSpec
CHECK_DEADLOCK FALSE
INVARIANTS DeploymentsTypeOK RunningIsServed
PROPERTIES ImplementsLifecycle DeploymentsSettle
