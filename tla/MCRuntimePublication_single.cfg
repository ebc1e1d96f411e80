SPECIFICATION Spec
CONSTANTS
  Proofs = {p1, p2, p3}
  Masters = {m1}
  Others = {o1}
  Absent = Absent
  Missing = Missing
  MaxSlot = 3
  Window = 2
  PushAttempts = 2
  Faults = TRUE
  SingleWriter = TRUE
SYMMETRY RunSymmetry
INVARIANTS MissingIsFactual
PROPERTY ImplementsLedger
CHECK_DEADLOCK FALSE
