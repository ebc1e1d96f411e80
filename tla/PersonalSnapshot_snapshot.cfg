SPECIFICATION FairSpec
CONSTANTS
  Runs = {r1, r2}
  None = None
  Attempts = 2
  OtherPushes = 1
  MaxTime = 2
  Squads = {s1, s2}
  Faults = TRUE
INVARIANT SnapshotTypeOK
INVARIANT PassIsServed
INVARIANT SnapshotsAreAsOf
PROPERTY ImplementsRecord
PROPERTY CommitIsServed
CHECK_DEADLOCK FALSE
