SPECIFICATION Spec
CONSTANTS
  Keys = {k1, k2}
  Drivers = {d1, d2}
  RunIds = {r1, r2}
  Hashes = {d1, d2}
  CommitLag = 0
  Ties = FALSE
  MaxClock = 2
  MaxVersion = 1
  Overlap = 0
  LowerBoundDefault = 0
  BoundInclusive = TRUE
  Retries = 1
  StallRuns = 2
  MaxInvocations = 2
  MaxFaults = 1
SYMMETRY AppendSymmetry
INVARIANTS TypeOK NoRowIsLost BatchIsWhole CopiesAreAccountedFor VolumeNeverOverstates DashboardsAgree StalledMeansUntracked AdvanceReportIsSound
PROPERTIES HistorySurvives
CHECK_DEADLOCK FALSE
