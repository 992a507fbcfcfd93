CONSTANTS
  a1 = a1  a2 = a2  long = long  short = short  NULL = NULL
  Agents = {a1}
  LastRow = 1
  Legs = {long}
  MaxSize = 2
  Gains <- OneGain
  OpenFee = 1
  CloseFee = 1
  FeeScope = "round_trip"
  Responses = {"reported"}
  PartialTriggers = FALSE
  HistoryMayLag = FALSE
  DbMayFail = FALSE
  MayRestart = FALSE
  StartCapital = 20
  MaxDrawdown = 50
SPECIFICATION Spec
CHECK_DEADLOCK FALSE
INVARIANTS BookedExactly
