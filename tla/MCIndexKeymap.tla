---------------------------- MODULE MCIndexKeymap ----------------------------
(***************************************************************************)
(* IndexKeymap on a small instance: a table of four slots that grows, keys *)
(* that collide in it and run over its end, one the prefix of another, and *)
(* one too long to be loaded.                                              *)
(***************************************************************************)
EXTENDS IndexKeymap

CONSTANTS k1, k2, k3, k4

FourKeys == {k1, k2, k3, k4}

Hashes == [k \in FourKeys |-> CASE k = k1 -> 3 [] k = k2 -> 3 [] k = k3 -> 6 [] k = k4 -> 0]

ShorterKeys == [k \in FourKeys |-> IF k = k2 THEN {k1} ELSE {}]

SomeEntries == {<<k1, 1>>, <<k1, 2>>, <<k2, 1>>, <<k3, 2>>, <<k4, 1>>}
=============================================================================
