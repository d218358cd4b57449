SPECIFICATION Spec
CONSTANTS
  A = 1
  U = 2
  D = 3
  MaxKey = 2
  MaxDocument = 2
  Dimension = 1
  Requests <- MixedRequests
  FaultIn = {"write", "fsync", "empty", "reopen"}
  MaxRecords = 2
  MaxFaults = 2
  MaxKills = 1
INVARIANT TypeOK
INVARIANT LogIsExact
INVARIANT EarlierKept
