SPECIFICATION FairSpec
CONSTANTS
  f1 = f1
  f2 = f2
  s1 = s1
  s2 = s2
  m1 = m1
  m2 = m2
  None = None
  Files <- MCFiles
  Spans <- MCSpans
  Shapes <- MCShapes
  Models <- MCModels
  DimOf <- MCDimOf
  FirstModel = m1
  MaxChanges = 3
  MaxCuts = 1
INVARIANTS
  TypeOK
  FreshIsCovered
  SearchSeesTree
  UnhurtIsExact
PROPERTY
  RequestsEnd
