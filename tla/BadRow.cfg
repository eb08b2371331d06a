SPECIFICATION Spec
CONSTANTS
  Slots = {s1, s2}
  Keys = {a}
  NullKeys = {n}
  MaxStamp = 1
  Ties = FALSE
  Incremental = TRUE
  NullCheckKeys = TRUE
  ExpectationAction = "fail"
  MaxMoves = 0
  MaxLoads = 1
INVARIANT BadRowsStayOut
CHECK_DEADLOCK FALSE
