\* Two tenants deploy models of one name: whose file their service runs.
CONSTANTS
  t1 = t1
  n1 = n1
  n2 = n2
  n3 = n3
  other = other
  Objects = {o1, o2}
  Ids = {1, 2}
  Tenants = {t1, t2}
  Names = {n1}
  Joined <- MCJoined
  FileOf <- MCFileOf
  Deletes = {d1}
  DistinctDeployIds = FALSE
  None = None
SPECIFICATION DeploymentsSpec
CHECK_DEADLOCK FALSE
INVARIANTS ServicesAreSeparate
