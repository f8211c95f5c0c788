SPECIFICATION FairSpec
CONSTANTS
  MaximumRetry = 6
  CopySize = 2
  MaxLen = 2
  MaxWrite = 2
  MaxControl = 1
  BufLen = 3
  MaxBody = 7
INVARIANTS GroupIsThere FailIsEarned
PROPERTIES MainGoesOn CutForGood
CHECK_DEADLOCK FALSE
