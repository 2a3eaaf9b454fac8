\* one bulkCreate
SPECIFICATION Spec
CONSTANTS
  Clients = {c1}
  Fields = {f1}
  Values = {v1}
  MaxCalls = 1
  MaxItems = 1
  CallerIds = {1}
  UseHashmap = FALSE
  Faults = {}
  None = None
  Untouched = Untouched
INVARIANTS SavedWithId
CHECK_DEADLOCK FALSE
