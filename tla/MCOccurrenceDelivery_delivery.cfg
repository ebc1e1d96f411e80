SPECIFICATION FairSpec
CONSTANTS
  deep = deep
  price = price
  Occurrences = {deep, price}
  Due <- DueTimes
  None = None
  ResolverHi = 2
  Grace = 3
  MaxOverdue = 6
  Origins = {"schedule", "external"}
  Recovery = TRUE
  Faults = TRUE
  MaxTime = 3
  MaxTriggers = 2
  MaxComments = 1
INVARIANTS TypeOK OneReadyReceipt RecoveredOnce RecoveryFillsAGap
PROPERTIES ImplementsOnce TickIsServed
CHECK_DEADLOCK FALSE
