SPECIFICATION Spec
CONSTANTS
  p1 = p1
  h1 = h1
  o1 = o1
  Prefetch = {p1}
  Hourly = {h1}
  Owners = {o1}
  None = None
  CasAttempts = 4
  MaxTokens = 3
  MaxPublish = 4
  GitFaults = FALSE
  Crashes = FALSE
CHECK_DEADLOCK FALSE
INVARIANTS LostOnlyToContention
