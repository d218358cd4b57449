SPECIFICATION Spec
CONSTANTS
  MaxSegments = 2
  MaxBooks = 6
  MaxFails = 1
  MaxStops = 1
INVARIANTS
  TypeOK
  NoDangling
  CodesFit
  Searchable
PROPERTIES
  RebuildReencodes
  BuiltAsLoaded
