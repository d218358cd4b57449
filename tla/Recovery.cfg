SPECIFICATION FairSpec
CONSTANTS
  k1 = k1
  k2 = k2
  Keys <- OneKey
  Absent = Absent
  Torn = Torn
  Thresholds = {0, 2}
  MergeFactor = 1
  RatioNum = 1
  RatioDen = 4
  TierBase = 10
  MaintainCap = 2
  Durable = TRUE
  AutoMaintain = TRUE
  CallOps <- AllCalls
  CrashIn = {"other", "flushed", "updating", "replaying", "exposed"}
  FaultIn = {"keymapLog", "saveStones", "tombstone"}
  MaxCalls = 3
  MaxCrashes = 2
  MaxFaults = 1
INVARIANT RebuildLeavesOneCopy
PROPERTY OpenCompletes
PROPERTY CallsReturn
CHECK_DEADLOCK FALSE
