\* separate keys with a TTL: every interleaving of the two-command set() and of transactions
SPECIFICATION FairSpec
CONSTANTS
  Clients = {c1, c2}
  Handles = {h1}
  Values = {v1}
  Transactions = {t1}
  MaxQueue = 2
  UseHashmap = FALSE
  HasTTL = TRUE
  Faults = {"reject", "crash"}
  NoValue = NoValue
  NoReply = NoReply
  NoTransaction = NoTransaction
  Untouched = Untouched
INVARIANTS TypeOK TTLCovered TransactionsHeld
PROPERTIES CallsReturn DeletedOnlyAfterExec ImplementsAtomicStore
CHECK_DEADLOCK FALSE
