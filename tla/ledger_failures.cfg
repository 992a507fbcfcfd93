CONSTANTS
  a1 = a1  a2 = a2  long = long  NULL = NULL
  Agents = {a1, a2}
  LastRow = 1
  Legs = {long}
  MaxSize = 2
  Gains <- LossGain
  OpenFee = 1
  CloseFee = 1
  FeeScope = "round_trip"
  Responses = {"reported", "silent", "lost", "refused"}
  PartialTriggers = TRUE
  HistoryMayLag = TRUE
  DbMayFail = TRUE
  MayRestart = TRUE
  StartCapital = 10
  MaxDrawdown = 50
SPECIFICATION Spec
SYMMETRY Symmetry
INVARIANT BookedOnce
CHECK_DEADLOCK FALSE
