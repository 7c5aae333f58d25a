\* Two handlers select for one tenant.
CONSTANTS
  f1 = f1
  f2 = f2
  i1 = i1
  t1 = t1
  Fns = {f1}
  Insts = {i1, i2}
  FnOf <- OneFn
  TenantOf <- TenantsInsts
  OwnName <- Nameless
  Models = {m1}
  Tenants = {t1}
  Requests = {q1, q2}
  RefreshInterval = 1
  HttpTimeout = 1
  FetchMayFail = FALSE
  MaxServed = 2
  DownCap = 0
  Absent = Absent
  NoModel = NoModel
  NoTenant = NoTenant
  NoInst = NoInst
  Ticker = Ticker
SPECIFICATION Spec
INVARIANT TenantSpread
