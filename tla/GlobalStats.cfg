SPECIFICATION Spec
CONSTANTS
  g1 = g1
  g2 = g2
  g3 = g3
  g4 = g4
  g5 = g5
  Generations <- FiveGenerations
  MaxDocs = 5
  MaxFaults = 2
  MergesEmpty = FALSE
SYMMETRY GenerationSymmetry
INVARIANT TypeOK
INVARIANT OwnCounts
INVARIANT RankedGlobally
