CONSTANTS
  c1 = c1   k1 = k1  NULL = NULL
  Confirms = {c1}
  Closers = {k1}
  LastPlan = 1
  MaxConfirms = 2
  Size = 1
  PartialFills = FALSE
  MayLose = {}
  DbMayFail = TRUE
  MaxRestarts = 1
SPECIFICATION FairSpec
INVARIANTS ExecutedIsRecorded
PROPERTIES AbortsBeyondBand
