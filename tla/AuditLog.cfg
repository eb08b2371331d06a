SPECIFICATION Spec
CONSTANTS
  Threads = {w1, w2}
  Tables = {a, b}
  BufferLimit = 4
  MaxEvents = 3
  MaxFaults = 1
SYMMETRY AuditSymmetry
INVARIANTS TypeOK CrashLosesOpenTask SequenceOrdersTask BufferIsBounded
CHECK_DEADLOCK FALSE
