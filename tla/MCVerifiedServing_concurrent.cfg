SPECIFICATION Spec
CONSTANTS
  Runs = {r1, r2}
  None = None
  Mixed = Mixed
  MaxSlot = 2
  PushAttempts = 2
  OtherPushes = 1
  Faults = FALSE
  Reruns = FALSE
  MaxOrch = 2
  CasAttempts = 2
  Comments = TRUE
  Forced = FALSE
INVARIANT PointedIsVerified
INVARIANT PointedWasReadBack
INVARIANT ReceiptIsFactual
SYMMETRY RunSymmetry
CHECK_DEADLOCK FALSE
