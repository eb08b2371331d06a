SPECIFICATION Spec
CONSTANTS
  Configs <- MCConfigs
  MaxClock = 2
  MaxTies = 2
  MaxRuns = 3
INVARIANTS TypeOK FailuresAreKnown NothingIsPassedOver NoCopies WarningIsTrue
CHECK_DEADLOCK FALSE
