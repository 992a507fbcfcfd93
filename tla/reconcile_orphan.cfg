CONSTANTS
  p1 = p1  p2 = p2  t1 = t1  t2 = t2  NULL = NULL
  Passes = {p1}
  Traders = {t1}
  LastRow = 1
  MaxSize = 2
  Threshold = 3
  MaxRestarts = 0
SPECIFICATION Spec
INVARIANTS NoOrphan
CHECK_DEADLOCK FALSE
