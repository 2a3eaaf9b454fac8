\* Postgres: updates and deletes that look their rows up, finds and saves
SPECIFICATION Spec
CONSTANTS
  t1 = t1
  t2 = t2
  v1 = v1
  v2 = v2
  Clients = {a, b}
  Ids = {1, 2, 3}
  Values = {v1, v2}
  Types = {t1, t2}
  InitialRows <- SoftDeleted
  PerPage = 1
  ReturningSupported = TRUE
  Requests <- LookupRequests
  MaxCalls = 3
  MaxFaults = 0
  None = None
SYMMETRY Symmetry
INVARIANTS ActsOnMatches OriginalsAreBefore UpdatesSpareDeleted TotalsFitPage
PROPERTIES SaveStands
CHECK_DEADLOCK FALSE
