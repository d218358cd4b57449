SPECIFICATION FairSpec
CONSTANTS
  d1 = d1
  d2 = d2
  d3 = d3
  Docs <- MCDocs
  NoDoc = NoDoc
  FlushThreshold = 2
  MaxPromises = 2
  MaxFails = 2
  MaxStops = 1
INVARIANTS
  TypeOK
  OneAtATime
  EngineAlive
  KeptIfWriting
PROPERTY
  PromisesSettle
