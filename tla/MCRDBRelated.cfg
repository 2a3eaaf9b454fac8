\* MySQL: updates of a user with the assigned types, by id
SPECIFICATION FairSpec
CONSTANTS
  t1 = t1
  t2 = t2
  v1 = v1
  v2 = v2
  Clients = {a, b}
  Ids = {1, 2}
  Values = {v1, v2}
  Types = {t1, t2}
  InitialRows <- Paired
  PerPage = 1
  ReturningSupported = FALSE
  Requests <- RelatedRequests
  MaxCalls = 4
  MaxFaults = 1
  None = None
INVARIANTS TypeOK ReturnsUpdatedRows LinksAsAsked
PROPERTIES CallsEnd ChangesAtCommit
CHECK_DEADLOCK FALSE
