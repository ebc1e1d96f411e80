SPECIFICATION FairSpec
CONSTANTS
  p1 = p1
  h1 = h1
  o1 = o1
  Prefetch = {p1}
  Hourly = {h1}
  Owners = {o1}
  None = None
  CasAttempts = 2
  MaxTokens = 3
  MaxPublish = 0
  GitFaults = TRUE
  Crashes = TRUE
CHECK_DEADLOCK FALSE
INVARIANTS TypeOK GrantAtMostOnce ReturnedIsDurable
PROPERTY CredentialLineage ImplementsOneShot CallsEnd
