SPECIFICATION Spec
CONSTANTS
  Runs = {r1, r2}
  None = None
  Mixed = Mixed
  MaxSlot = 2
  PushAttempts = 2
  OtherPushes = 0
  Faults = TRUE
  Reruns = TRUE
  MaxOrch = 2
  CasAttempts = 2
  Comments = FALSE
  Forced = FALSE
INVARIANT ServingTypeOK
INVARIANT PointerMatchesReceipt
PROPERTY PointerAdvances
PROPERTY ImplementsOutlet
SYMMETRY RunSymmetry
CHECK_DEADLOCK FALSE
