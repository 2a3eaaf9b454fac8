\* one read through an empty cache
SPECIFICATION Spec
CONSTANTS
  k1 = k1
  Cache = cache
  Main = main
  Services = {main, cache}
  Volatile = {cache}
  Keys = {k1}
  Callers = {a}
  Values = {v1, v2}
  Requests <- CacheRequests
  MaxCalls = 2
  Faults = {}
  None = None
PROPERTIES SavedInFirstService
CHECK_DEADLOCK FALSE
