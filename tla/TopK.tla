-------------------------------- MODULE TopK --------------------------------
(***************************************************************************)
(* The accumulators of one search engine, and the heap that keeps its best *)
(* top_k documents (search_engine_result.h, heap.h).                       *)
(*                                                                         *)
(* A ranking function walks the postings of one query term after another   *)
(* and calls add_rsv() for every document it meets, or set_rsv() when it   *)
(* ranks by document number.  accumulator_pointers starts with the         *)
(* documents found so far; once there are top_k of them it is a heap with  *)
(* the worst at the root.  Whether a document is in the heap is not        *)
(* stored: it is in there if it is not worse than the root.  The           *)
(* accumulators are not cleared between queries; a row of them is set to 0 *)
(* when it is first touched.                                               *)
(*                                                                         *)
(* What a term adds to a document is a small positive number, as it is for *)
(* every ranking function but TopSig's negative one.                       *)
(***************************************************************************)
EXTENDS Integers, Sequences, FiniteSets, SequencesExt

CONSTANTS
  documents,    \* documents of the index
  Width,        \* accumulators in a row (256 in the code)
  Gains,        \* what one posting can add to a score
  Limits,       \* the top_k that queries ask for
  MaxPostings,  \* bound: postings of a query
  MaxQueries    \* bound: queries

ASSUME TopKAssumption ==
  /\ documents \in Nat \ {0} /\ Width \in Nat \ {0}
  /\ Gains \subseteq Nat \ {0} /\ Limits \subseteq Nat
  /\ MaxPostings \in Nat /\ MaxQueries \in Nat

VARIABLES
  accumulator, init_flags,
  accumulator_pointers, results_list_length, top_k,
  ranking,   \* what ranks the query: "add", "set", or "idle" between queries
  score,     \* history: what each document has been given in this query
  postings, queries

lists == <<accumulator, init_flags, accumulator_pointers, results_list_length>>
vars  == <<lists, top_k, ranking, score, postings, queries>>

Documents == 0 .. documents - 1
Row(d)    == d \div Width

-----------------------------------------------------------------------------
(* The heap *)

(* a is worse than b: equal scores are told apart by the address.          *)
Worse(rsv, a, b) == rsv[a] < rsv[b] \/ (rsv[a] = rsv[b] /\ a < b)

(* Moves smaller children up from i until key may stand there.             *)
RECURSIVE Sift(_, _, _, _)
Sift(array, rsv, i, key) ==
  LET children == {c \in {2 * i + 1, 2 * i + 2} : c < top_k /\ Worse(rsv, array[c], key)}
  IN IF children = {} THEN [array EXCEPT ![i] = key]
     ELSE LET c == CHOOSE c \in children : \A d \in children : ~Worse(rsv, array[d], array[c])
          IN Sift([array EXCEPT ![i] = array[c]], rsv, c, key)

min_heapify(array, rsv, pos) == Sift(array, rsv, pos, array[pos])

build_min_heap(array, rsv) ==
  FoldLeft(LAMBDA a, n : min_heapify(a, rsv, top_k \div 2 - n), array, [n \in 1 .. top_k \div 2 |-> n])

min_insert(array, rsv, key) ==
  IF Worse(rsv, key, array[0]) THEN array ELSE Sift(array, rsv, 0, key)

(* Mutant: a key whose score grew is left where it is.                     *)
min_updateInPlace(array, rsv, key) == array

(* The key's place, or the place behind the heap if it is not there.       *)
min_update(array, rsv, key) ==
  LET at == {i \in 0 .. top_k - 1 : array[i] = key}
      i  == IF at = {} THEN top_k ELSE CHOOSE i \in at : \A j \in at : i <= j
  IN Sift(array, rsv, i, key)

-----------------------------------------------------------------------------
(* The accumulators *)

init_partial_accumulators(d) ==
  IF Row(d) \in init_flags THEN accumulator
  ELSE [e \in Documents |-> IF Row(e) = Row(d) THEN 0 ELSE accumulator[e]]

(* Document d, in the row just initialised, gets the value rsv.            *)
Listed(before, after, d) ==
  LET new    == before[d] = 0 /\ after[d] # 0
      length == results_list_length + (IF new THEN 1 ELSE 0)
      array  == IF new THEN [accumulator_pointers EXCEPT ![results_list_length] = d] ELSE accumulator_pointers
  IN /\ results_list_length' = length
     /\ accumulator_pointers' =
          IF length = top_k /\ (ranking = "set" \/ top_k # documents) THEN build_min_heap(array, after) ELSE array

Heaped(before, after, d) ==
  LET root == accumulator_pointers[0]
  IN /\ accumulator_pointers' =
          IF ~Worse(before, d, root) THEN min_update(accumulator_pointers, after, d)
          ELSE IF Worse(after, root, d) THEN min_insert(accumulator_pointers, after, d)
          ELSE accumulator_pointers
     /\ UNCHANGED results_list_length

Put(d, rsv) ==
  LET before == init_partial_accumulators(d)
      after  == [before EXCEPT ![d] = rsv]
  IN /\ accumulator' = after
     /\ init_flags' = init_flags \cup {Row(d)}
     /\ IF results_list_length < top_k \/ (ranking = "add" /\ top_k = documents)
        THEN Listed(before, after, d)
        ELSE Heaped(before, after, d)
     /\ score' = [score EXCEPT ![d] = rsv]
     /\ postings' = postings + 1
     /\ UNCHANGED <<top_k, ranking, queries>>

add_rsv(d, gain) ==
  /\ ranking = "add" /\ postings < MaxPostings
  /\ Put(d, init_partial_accumulators(d)[d] + gain)

(* Ranking by document number gives a document the same score every time.  *)
set_rsv(d) ==
  /\ ranking = "set" /\ postings < MaxPostings
  /\ Put(d, documents - d)

(* A query: init_accumulators() and, before the first posting,             *)
(* set_accumulator_width(), which forgets the rows.                        *)
init_accumulators(k, how) ==
  /\ ranking = "idle" /\ queries < MaxQueries
  /\ top_k' = IF k > documents THEN documents ELSE k
  /\ ranking' = how
  /\ results_list_length' = 0
  /\ init_flags' = {}
  /\ score' = [d \in Documents |-> 0]
  /\ postings' = 0 /\ queries' = queries + 1
  /\ UNCHANGED <<accumulator, accumulator_pointers>>

Hits == [i \in 1 .. results_list_length |-> accumulator_pointers[i - 1]]

sort_results_list ==
  /\ ranking # "idle"
  /\ LET sorted == SortSeq(Hits, LAMBDA a, b : Worse(accumulator, b, a))
     IN accumulator_pointers' = [i \in Documents |-> IF i < results_list_length THEN sorted[i + 1]
                                                     ELSE accumulator_pointers[i]]
  /\ ranking' = "idle"
  /\ UNCHANGED <<accumulator, init_flags, results_list_length, top_k, score, postings, queries>>

(* The accumulators come from malloc(): clean pages or used ones.          *)
Init ==
  /\ \E left \in {0, 1 + MaxPostings} : accumulator = [d \in Documents |-> left]
  /\ init_flags = {}
  /\ accumulator_pointers = [i \in Documents |-> i]
  /\ results_list_length = 0
  /\ top_k = 10
  /\ ranking = "idle"
  /\ score = [d \in Documents |-> 0]
  /\ postings = 0 /\ queries = 0

Next ==
  \/ \E k \in Limits, how \in {"add", "set"} : init_accumulators(k, how)
  \/ \E d \in Documents, gain \in Gains : add_rsv(d, gain)
  \/ \E d \in Documents : set_rsv(d)
  \/ sort_results_list

Spec == Init /\ [][Next]_vars

-----------------------------------------------------------------------------
(* Properties *)

Found == {d \in Documents : score[d] > 0}

(* The best n of the documents that were found.                            *)
Best(n) == {d \in Found : Cardinality({e \in Found : Worse(score, d, e)}) < n}

(* Whatever order the postings come in, the list holds exactly the best    *)
(* top_k of the documents found so far, each once and with the score of    *)
(* this query; among them the heap has the worst at its root, without      *)
(* which the next add_rsv() would take a document in the heap for one that *)
(* is not and list it twice; and what sort_results_list() leaves is the    *)
(* ranking (add_rsv(), set_rsv() and the heap).                            *)
HoldsTheBest ==
  /\ {Hits[i] : i \in DOMAIN Hits} = Best(top_k)
  /\ Cardinality(Best(top_k)) = results_list_length
  /\ \A d \in Found : accumulator[d] = score[d]
  /\ ranking # "idle" /\ results_list_length = top_k /\ (ranking = "set" \/ top_k # documents)
       => \A i \in 1 .. top_k - 1 : Worse(score, Hits[(i - 1) \div 2 + 1], Hits[i + 1])
  /\ ranking = "idle"
       => \A i \in 1 .. results_list_length - 1 : Worse(score, Hits[i + 1], Hits[i])

=============================================================================
