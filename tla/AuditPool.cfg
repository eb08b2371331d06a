SPECIFICATION Spec
CONSTANTS
  Threads = {w1, w2}
  Tables = {a, b}
  BufferLimit = 4
  MaxEvents = 3
  MaxFaults = 0
SYMMETRY AuditSymmetry
INVARIANT NothingVanishes
CHECK_DEADLOCK FALSE
