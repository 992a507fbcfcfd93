CONSTANTS
  NULL = NULL  c1 = c1  c2 = c2
  Orders = {1, 2}
  Size <- OrderSize
  Worlds <- AllWorlds
  MaxRequests = 1
  MaxBreaks = 1
  Callers = {c1, c2}
  StopAccounts <- StopWorlds
  Lots = 2
  Attempts = 2
SPECIFICATION SpecBoth
CHECK_DEADLOCK FALSE
INVARIANTS Typed   VerdictIsTrue ProtectedOrTold OneOfEach
PROPERTIES Decided Heals
