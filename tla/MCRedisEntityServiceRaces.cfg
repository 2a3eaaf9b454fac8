\* three calls of two clients on separate keys, every store command may fail or lose its answer
SPECIFICATION Spec
CONSTANTS
  Clients = {c1, c2}
  Fields = {f1, f2}
  Values = {v1, v2}
  MaxCalls = 3
  MaxItems = 2
  CallerIds = {1}
  UseHashmap = FALSE
  Faults = {"fail", "lostReply"}
  None = None
  Untouched = Untouched
SYMMETRY Symmetry
INVARIANTS TypeOK UniqueIdsUnlessRaced SerialUnlessRaced TransactionsClosed
PROPERTIES ForcedCallsWriteAtEnd
CHECK_DEADLOCK FALSE
