\* writes through both services, reads through the cache
SPECIFICATION Spec
CONSTANTS
  k1 = k1
  Cache = cache
  Main = main
  Services = {main, cache}
  Volatile = {cache}
  Keys = {k1}
  Callers = {a, b}
  Values = {v1, v2}
  Requests <- CacheRequests
  MaxCalls = 4
  Faults = {"throw"}
  None = None
SYMMETRY Symmetry
INVARIANTS TypeOK ServicesAgree LastWriteStands
PROPERTIES FreshReads
CHECK_DEADLOCK FALSE
