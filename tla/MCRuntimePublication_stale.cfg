SPECIFICATION Spec
CONSTANTS
  Proofs = {p1, p2, p3}
  Masters = {}
  Others = {o1}
  Absent = Absent
  Missing = Missing
  MaxSlot = 3
  Window = 3
  PushAttempts = 1
  Faults = FALSE
  SingleWriter = FALSE
SYMMETRY RunSymmetry
INVARIANT MissingIsFactual
CHECK_DEADLOCK FALSE
