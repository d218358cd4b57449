\* The generations run out.
CHECK_DEADLOCK FALSE
SPECIFICATION Spec
CONSTANTS
  d1 = d1
  d2 = d2
  d3 = d3
  None = None
  Docs = {d1, d2, d3}
  Fields = {"year", "tags"}
  StringFields = {"tags"}
  MultiFields = {"tags"}
  Attr <- MCAttr
  Queries <- MCQueries
  Filters <- MCFilters
  Limits = {2}
  MaxGeneration = 5
  MaxFails = 1
  MaxStops = 1
INVARIANTS
  TypeOK
  SearchIsTopK
