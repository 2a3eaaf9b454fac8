SPECIFICATION Spec
CONSTANTS
  Documents <- MCDocuments
  Changes <- MCChanges
  Opening <- MCOpening
  Closing <- MCClosing
  None = None
  Get <- GetNested
  SetIn <- SetNested
  ValuesAt <- ValuesOf
  Exchanges <- MCExchanges
  NotGiven = NotGiven
  ILikeSupported = TRUE
INVARIANTS
  NestedFieldsRead
  RunsAsGranted
  KeepsToLists
  
CHECK_DEADLOCK FALSE
