SPECIFICATION FairSpec
CONSTANTS
  Proofs = {p1, p2}
  Masters = {m1}
  Others = {}
  Absent = Absent
  Missing = Missing
  MaxSlot = 2
  Window = 2
  PushAttempts = 2
  Faults = TRUE
  SingleWriter = FALSE
INVARIANTS TypeOK ControlMatchesLedger OwnersAreProofs
CHECK_DEADLOCK FALSE
PROPERTY RunsEnd
