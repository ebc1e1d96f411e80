SPECIFICATION FairSpec
CONSTANTS
  Triggers <- SomeTriggers
  Settle = 2
  Cooldown = 3
  Warning = 1
  Critical = 2
  Page = 20
  RunTime = 1
  MaxTime = 3
  MaxRuns = 3
INVARIANT RecoveryTypeOK
INVARIANT RecoveriesAreSpaced
 
PROPERTY IncidentFollows
CHECK_DEADLOCK FALSE
