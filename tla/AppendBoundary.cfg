SPECIFICATION Spec
CONSTANTS
  Keys = {k1, k2}
  Drivers = {d1}
  RunIds = {r1, r2}
  Hashes = {d1}
  CommitLag = 0
  Ties = FALSE
  MaxClock = 2
  MaxVersion = 1
  Overlap = 0
  LowerBoundDefault = 0
  BoundInclusive = FALSE
  Retries = 1
  StallRuns = 2
  MaxInvocations = 2
  MaxFaults = 0
SYMMETRY AppendSymmetry
INVARIANT NoRowIsLost
CHECK_DEADLOCK FALSE
