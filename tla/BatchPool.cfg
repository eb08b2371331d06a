SPECIFICATION FairSpec
CONSTANTS
  Tables = {a, b, c}
  Disabled = {c}
  MaxWorkers = 2
  SkipDependents = TRUE
  Retries = 1
INVARIANTS TypeOK RefusedIffCyclic DependenciesFirst RunRowIsTruthful ClosedRunIsQuiet JobKeepsOrder
PROPERTIES RunEnds
CHECK_DEADLOCK FALSE
