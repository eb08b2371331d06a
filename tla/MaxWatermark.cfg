CONSTANTS
  Keys = {k1, k2}
  Drivers = {d1}
  CommitLag = 1
  Ties = TRUE
  MaxClock = 5
  MaxVersion = 2
  Overlap = 2
  LowerBoundDefault = 0
  BoundInclusive = FALSE
  Retries = 1
  UseUpperBound = FALSE
  MaxFaults = 2
SPECIFICATION Spec
INVARIANTS NoLoss
