-------------------------- MODULE MCWriteAheadLog --------------------------
(***************************************************************************)
(* WriteAheadLog on a small instance.  The operation codes, the lengths    *)
(* and the characters share their range, so that a parser that is out of   *)
(* step takes one for another.                                             *)
(***************************************************************************)
EXTENDS WriteAheadLog

Request(op, key, document, vector) ==
  [op |-> op, key |-> key, document |-> document, vector |-> vector]

(* Records with and without a document and a vector, with a document that  *)
(* reads like the head of a record, and one whose key is too long.         *)
MixedRequests ==
  { Request(1, <<2>>, <<1>>, <<>>), Request(1, <<2>>, <<1, 2>>, <<>>),
    Request(2, <<2, 1>>, <<>>, <<0>>), Request(3, <<1>>, <<>>, <<>>),
    Request(1, <<2, 2, 2>>, <<>>, <<>>) }
=============================================================================
