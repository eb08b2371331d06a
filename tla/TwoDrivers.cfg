CONSTANTS
  Keys = {k1}
  Drivers = {d1, d2}
  CommitLag = 1
  Ties = FALSE
  MaxClock = 4
  MaxVersion = 2
  Overlap = 1
  LowerBoundDefault = 0
  BoundInclusive = TRUE
  Retries = 0
  UseUpperBound = TRUE
  MaxFaults = 1
SPECIFICATION FairSpec
INVARIANTS TypeOK NoLoss
PROPERTIES MarkNeverRegresses TargetNeverRegresses ImplementsMirror Converges
