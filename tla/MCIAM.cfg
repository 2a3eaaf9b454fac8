\* local logins, callbacks of providers, and requests with what they return
SPECIFICATION MCSpec
CONSTANTS
  e1 = e1
  e2 = e2
  Clients = {c1, c2}
  Emails = {e1, e2}
  AuthTypes = {"local", "oauth2", "okta"}
  InitialUsers <- OneUser
  StartedLogins <- NoneStarted
  MaxUsers = 3
  MaxCalls = 4
  MaxVersion = 1
  MaxTime = 2
  AccessLifetime = 2
  RefreshLifetime = 0
  ExternalLifetime = 1
  ProcessExternal = TRUE
  RefreshSupported = TRUE
  UsersService = TRUE
  HashModes = {TRUE, FALSE}
  Faults = {"throw"}
  None = None
SYMMETRY Symmetry
INVARIANTS TypeOK PairsBelongTogether VerifierOfState NotOlderThanOwnInitiate
  EmailsUniqueUnlessRaced StoredPairMatches RequestsAsTheirUser
CHECK_DEADLOCK FALSE
