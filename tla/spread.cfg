CONSTANTS
  c1 = c1  k1 = k1  NULL = NULL
  Confirms = {c1}
  Closers = {k1}
  LastPlan = 2
  MaxConfirms = 2
  Size = 1
  PartialFills = FALSE
  MayLose = {"close"}
  DbMayFail = FALSE
  MaxRestarts = 0
SPECIFICATION Spec
INVARIANTS TypeOK OneEpisode
PROPERTIES WholeOrAlarmed
