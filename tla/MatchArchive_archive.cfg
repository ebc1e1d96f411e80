SPECIFICATION FairSpec
CONSTANTS
  h1 = h1
  f1 = f1
  MaxMatch = 3
  Dead = {1}
  Hourly = {h1}
  Forced = {f1}
  Interval = 2
  Retries = 1
  Cap = 2
  Budget = 4
  Hours = 3
  Late = 1
  MaxFaults = 2
  SingleWriter = TRUE
CHECK_DEADLOCK FALSE
INVARIANTS ArchiveTypeOK 
PROPERTY ArchiveKept MatchesArchived
