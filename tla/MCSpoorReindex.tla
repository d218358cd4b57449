--------------------------- MODULE MCSpoorReindex ---------------------------
(* Small instances of SpoorReindex: two files, two spans, files of no       *)
(* chunk, of two, and of two on the same lines.                             *)
EXTENDS SpoorReindex, TLC

CONSTANTS f1, f2, s1, s2, m1, m2

MCFiles  == {f1, f2}
MCSpans  == {s1, s2}
MCShapes == {<<>>, <<s1, s2>>, <<s2, s2>>}
MCModels == {m1, m2}
MCDimOf  == (m1 :> 2) @@ (m2 :> 3)
=============================================================================
