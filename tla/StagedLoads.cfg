SPECIFICATION Spec
CONSTANTS
  Slots = {s1, s2, s3}
  Keys = {a, b}
  NullKeys = {n}
  MaxStamp = 2
  Ties = FALSE
  Incremental = TRUE
  NullCheckKeys = TRUE
  ExpectationAction = "fail"
  MaxMoves = 1
  MaxLoads = 2
SYMMETRY StagingSymmetry
INVARIANTS TypeOK ChecksAreExact PassedRowsAreGood
CHECK_DEADLOCK FALSE
