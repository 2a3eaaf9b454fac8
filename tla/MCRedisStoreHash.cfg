\* one hash, whose fields get no TTL
SPECIFICATION Spec
CONSTANTS
  Clients = {c1, c2}
  Handles = {h1, h2}
  Values = {v1}
  Transactions = {t1}
  MaxQueue = 2
  UseHashmap = TRUE
  HasTTL = TRUE
  Faults = {"reject", "crash"}
  NoValue = NoValue
  NoReply = NoReply
  NoTransaction = NoTransaction
  Untouched = Untouched
SYMMETRY Symmetry
PROPERTIES ImplementsAtomicStore
CHECK_DEADLOCK FALSE
