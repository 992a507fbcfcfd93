CONSTANTS
  NULL = NULL  c1 = c1
  Callers = {c1}
  Worlds <- LimitEntry
  Lots = 2
  Attempts = 2
SPECIFICATION FairSpec
CHECK_DEADLOCK FALSE
INVARIANT StaysWatched
