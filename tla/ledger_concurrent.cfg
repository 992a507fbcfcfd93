CONSTANTS
  a1 = a1  a2 = a2  long = long  NULL = NULL
  Agents = {a1, a2}
  LastRow = 2
  Legs = {long}
  MaxSize = 2
  Gains <- OneGain
  OpenFee = 1
  CloseFee = 1
  FeeScope = "round_trip"
  Responses = {"reported", "silent", "lost", "refused"}
  PartialTriggers = TRUE
  HistoryMayLag = TRUE
  DbMayFail = FALSE
  MayRestart = FALSE
  StartCapital = 20
  MaxDrawdown = 50
SPECIFICATION Spec
SYMMETRY Symmetry
INVARIANTS TypeOK SettledIsBooked BookedOnce
 
CHECK_DEADLOCK FALSE
