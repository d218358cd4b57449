\* The queries run out.
CHECK_DEADLOCK FALSE
SPECIFICATION Spec
CONSTANTS
  documents = 5
  Width = 2
  Gains = {1, 2}
  Limits = {4, 9}
  MaxPostings = 5
  MaxQueries = 2
INVARIANT
  HoldsTheBest
