------------------------------- MODULE MCTopK -------------------------------
(* TopK for TLC.                                                           *)
EXTENDS TopK
=============================================================================
