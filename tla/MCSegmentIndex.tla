--------------------------- MODULE MCSegmentIndex ---------------------------
(* SegmentIndex on small instances.  Keys are interchangeable.             *)
EXTENDS SegmentIndex, TLC

CONSTANTS k1, k2

TwoKeys == {k1, k2}
OneKey  == {k1}
KeySymmetry == Permutations({k1, k2})

AllCalls == {"add", "update", "delete", "flush", "maintain", "compact"}
=============================================================================
