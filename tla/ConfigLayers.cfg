SPECIFICATION Spec
CONSTANTS
  Layers <- MCLayers
  LowerCase <- MCLowerCase
  Depth = 3
  MergeKey = "column"
  Identity = {"table_fqn", "env", "domain", "table"}
  MaxPasses = 5
INVARIANTS TypeOK EntriesSurvive
PROPERTIES MergesPathByPath InterpolatesAllTexts
CHECK_DEADLOCK FALSE
