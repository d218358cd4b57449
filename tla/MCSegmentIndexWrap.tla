------------------------ MODULE MCSegmentIndexWrap ------------------------
(* Small instances of SegmentIndexWrap: interchangeable documents.          *)
EXTENDS SegmentIndexWrap, TLC

CONSTANTS d1, d2, d3

MCDocs == {d1, d2, d3}
DocSymmetry == Permutations(MCDocs)
=============================================================================
