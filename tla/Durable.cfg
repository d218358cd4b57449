SPECIFICATION Spec
CONSTANTS
  k1 = k1
  k2 = k2
  Keys <- TwoKeys
  Absent = Absent
  Torn = Torn
  Thresholds = {0, 2}
  MergeFactor = 2
  RatioNum = 1
  RatioDen = 4
  TierBase = 10
  MaintainCap = 10
  Durable = TRUE
  AutoMaintain = FALSE
  CallOps <- AllCalls
  CrashIn = {"other"}
  FaultIn = {"takeOutput", "merge", "swap", "mark", "openOutput"}
  MaxCalls = 5
  MaxCrashes = 2
  MaxFaults = 1
SYMMETRY KeySymmetry
INVARIANTS MergedDocsAreCurrent OneCopyPerKey
PROPERTY StoreSpec
CHECK_DEADLOCK FALSE
