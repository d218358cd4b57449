SPECIFICATION Spec
CONSTANTS
  k1 = k1
  k2 = k2
  Keys <- TwoKeys
  Absent = Absent
  Torn = Torn
  Thresholds = {0, 2}
  MergeFactor = 2
  RatioNum = 1
  RatioDen = 4
  TierBase = 2
  MaintainCap = 10
  Durable = FALSE
  AutoMaintain = FALSE
  CallOps <- AllCalls
  CrashIn = {"other", "flushed"}
  FaultIn = {"openSegment", "register", "newWriter", "takeOutput", "merge", "mark", "openOutput", "saveStones", "keymapLog"}
  MaxCalls = 5
  MaxCrashes = 1
  MaxFaults = 1
SYMMETRY KeySymmetry
INVARIANT TypeOK
INVARIANT ManifestComplete
INVARIANT GenerationsBurnt
PROPERTY NoResurrection
PROPERTY MaintainQuiesces
CHECK_DEADLOCK FALSE
