\* Fetches fail and take time: how old is what two handlers see?
CONSTANTS
  f1 = f1
  f2 = f2
  i1 = i1
  t1 = t1
  Fns = {f1}
  Insts = {i1}
  FnOf <- OneFn
  TenantOf <- TenantsInsts
  OwnName <- Nameless
  Models = {m1}
  Tenants = {t1}
  Requests = {q1, q2}
  RefreshInterval = 1
  HttpTimeout = 1
  FetchMayFail = TRUE
  MaxServed = 1
  DownCap = 2
  Absent = Absent
  NoModel = NoModel
  NoTenant = NoTenant
  NoInst = NoInst
  Ticker = Ticker
SPECIFICATION FairSpec
PROPERTIES PassedIsRecent TableFollows
