---------------------------- MODULE MCPqCodebook ----------------------------
(* PqCodebook for TLC: two segments, which is what a codebook can be       *)
(* shared by.                                                              *)
EXTENDS PqCodebook
=============================================================================
