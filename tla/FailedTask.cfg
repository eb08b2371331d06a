CONSTANTS
  Keys = {k1}
  Drivers = {d1}
  CommitLag = 0
  Ties = FALSE
  MaxClock = 3
  MaxVersion = 1
  Overlap = 0
  LowerBoundDefault = 0
  BoundInclusive = TRUE
  Retries = 1
  UseUpperBound = TRUE
  MaxFaults = 1
SPECIFICATION Spec
INVARIANTS FailedTaskHeldMark
