------------------------- MODULE MCGlobalStatistics -------------------------
(* GlobalStatistics on a small instance.  Only the identity of a           *)
(* generation matters here: they are interchangeable.                      *)
EXTENDS GlobalStatistics, TLC

CONSTANTS g1, g2, g3, g4, g5

FiveGenerations == {g1, g2, g3, g4, g5}
GenerationSymmetry == Permutations(FiveGenerations)
=============================================================================
