\* Overlapping handlers, lost POSTs, panics and a restart: what a file says, and what an identifier names.
CONSTANTS
  Objects = {o1, o2}
  Names = {n1, n2}
  UpdateNames = {n1, n2}
  FnMillis = {1, 2}
  Savers = {s1, s2}
  StoreMayFail = TRUE
  DistinctFnIds = TRUE
  MaxRestarts = 1
  NoName = NoName
  NoObject = NoObject
SPECIFICATION MCSpec
CHECK_DEADLOCK FALSE
INVARIANTS CatalogTypeOK SureConfigIsCurrent
PROPERTIES IdentifiersNeverReused EventuallySaved
