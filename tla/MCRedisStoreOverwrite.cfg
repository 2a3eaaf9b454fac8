\* one caller sets the same field twice
SPECIFICATION Spec
CONSTANTS
  Clients = {c1}
  Handles = {h1}
  Values = {v1, v2}
  Transactions = {t1}
  MaxQueue = 1
  UseHashmap = TRUE
  HasTTL = FALSE
  Faults = {}
  NoValue = NoValue
  NoReply = NoReply
  NoTransaction = NoTransaction
  Untouched = Untouched
PROPERTIES NotSetMeansNotWritten
CHECK_DEADLOCK FALSE
