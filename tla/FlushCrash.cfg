SPECIFICATION Spec
CONSTANTS
  k1 = k1
  k2 = k2
  Keys <- TwoKeys
  Absent = Absent
  Torn = Torn
  Thresholds = {0, 2}
  MergeFactor = 2
  RatioNum = 1
  RatioDen = 4
  TierBase = 10
  MaintainCap = 10
  Durable = TRUE
  AutoMaintain = FALSE
  CallOps <- AllCalls
  CrashIn = {"flushed"}
  FaultIn = {}
  MaxCalls = 4
  MaxCrashes = 1
  MaxFaults = 0
SYMMETRY KeySymmetry
INVARIANT OneCopyPerKey
CHECK_DEADLOCK FALSE
