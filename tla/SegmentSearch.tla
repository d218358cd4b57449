--------------------------- MODULE SegmentSearch ---------------------------
(***************************************************************************)
(* Filtered and unfiltered search over the segments and the live writer    *)
(* (atire_segment_index_search.cpp, filter.cpp), and the attributes and    *)
(* payloads the filters and the hits are made of: captured with a document,*)
(* written to .attr and .pay files by a flush, rewritten by a compaction   *)
(* (attribute_store.cpp, payload_store.cpp).                               *)
(*                                                                         *)
(* A query is a function from documents to scores; what one engine returns *)
(* for it is the subject of TopK.  The manifest, the tombstone files, the  *)
(* log and a crash in the middle of a flush or a compaction are            *)
(* SegmentIndex's; here they succeed, except for the files of attributes   *)
(* and payloads, whose failure flush() and compact() ignore.  A document   *)
(* is added once.  Docids count from 1.                                    *)
(***************************************************************************)
EXTENDS Integers, Sequences, FiniteSets, FiniteSetsExt, SequencesExt

CONSTANTS
  Docs,
  Fields, StringFields, MultiFields,  \* the schema
  Attr,         \* what a document is added with: the values of each field, or None
  Queries,      \* a query is [Docs -> score]; 0: the document does not match
  Filters,      \* trees: a leaf wants one of a set of values
  Limits,       \* the top_k asked for
  None,         \* no filter, no attribute set, no payload
  MaxGeneration,\* bound: generations taken
  MaxFails,     \* bound: .attr and .pay files that cannot be written
  MaxStops      \* bound: times the process ends

(* A single-valued field has at most one value.                            *)
ASSUME SchemaAssumption ==
  /\ StringFields \subseteq Fields /\ MultiFields \subseteq Fields
  /\ \A d \in Docs, f \in Fields \ MultiFields : Attr[d] # None => Len(Attr[d][f]) <= 1
  /\ Limits \subseteq Nat \ {0}

VARIABLES
  segments,   \* the open segments, in the order of the list
  writer,     \* the live segment
  manifestGeneration,  \* the next generation
  configured, \* set_attributes_config() has succeeded
  added,      \* history: documents added
  bare,       \* history: documents whose attributes have been lost
  unpaid,     \* history: documents whose payload has been lost
  fails, stops

vars == <<segments, writer, manifestGeneration, configured, added, bare, unpaid, fails, stops>>

Elements(s) == {s[i] : i \in DOMAIN s}
Prefix(s, n) == SubSeq(s, 1, Min({n, Len(s)}))

-----------------------------------------------------------------------------
(* Attribute and payload files *)

Blank == [f \in Fields |-> <<>>]
Row(set) == IF set = None THEN Blank ELSE set

(* The ids of a string field are the positions of its values in the        *)
(* dictionary of the file, which lists them as they are first seen.        *)
intern(dictionary, value) ==
  IF value \in Elements(dictionary) THEN dictionary ELSE Append(dictionary, value)

string_id(dictionary, value) ==
  IF value \in Elements(dictionary) THEN CHOOSE i \in DOMAIN dictionary : dictionary[i] = value ELSE 0

(* What a row leaves of a field: the column of a single-valued one has     *)
(* room for one value.                                                     *)
Kept(row, f) == IF f \in MultiFields THEN row[f] ELSE Prefix(row[f], 1)

(* The store a writer's rows make: begin_document() .. finish().           *)
AttributeFile(rows) ==
  LET dictionary == [f \in Fields |-> FoldLeft(intern, <<>>, FlattenSeq([d \in DOMAIN rows |-> Kept(rows[d], f)]))]
      Encoded(f, values) == [i \in DOMAIN values |->
        IF f \in StringFields THEN string_id(dictionary[f], values[i]) ELSE values[i]]
  IN [documents  |-> Len(rows),
      dictionary |-> [f \in StringFields |-> dictionary[f]],
      column     |-> [f \in Fields |-> [d \in DOMAIN rows |-> Encoded(f, Kept(rows[d], f))]]]

(* The store of a missing or a rejected file.                              *)
Degraded == AttributeFile(<<>>)

load(file, documents) == IF file.documents = documents THEN file ELSE Degraded

(* The values of a field; none without its presence bit.                   *)
ValuesOf(store, f, docid) ==
  IF docid > store.documents THEN <<>>
  ELSE LET column == store.column[f][docid] IN
       [i \in DOMAIN column |-> IF f \in StringFields THEN store.dictionary[f][column[i]] ELSE column[i]]

PayloadOf(payload, docid) == IF docid \in DOMAIN payload THEN payload[docid] ELSE None

-----------------------------------------------------------------------------
(* Filters *)

(* int_equals(), int_matches_range() and string_matches(): a leaf holds if *)
(* one of the values is a wanted one; strings are compared by their ids,   *)
(* and a string that is not in the dictionary has none.                    *)
StoreLeaf(leaf, store, docid) ==
  LET f == leaf.field
      wanted == IF f \in StringFields THEN {string_id(store.dictionary[f], v) : v \in leaf.values} \ {0}
                ELSE leaf.values
  IN Elements(store.column[f][docid]) \cap wanted # {}

set_leaf_match(leaf, set) == set # None /\ Elements(set[leaf.field]) \cap leaf.values # {}

(* The documents that a filter admits: of a store, or (attrs = None) of    *)
(* the writer's captured sets.                                             *)
RECURSIVE evaluate_node(_, _, _, _)
evaluate_node(filter, attrs, sets, documents) ==
  LET Of(child) == evaluate_node(child, attrs, sets, documents) IN
  CASE filter.kind = "leaf" ->
         {d \in 1 .. documents : IF attrs = None THEN set_leaf_match(filter, sets[d]) ELSE StoreLeaf(filter, attrs, d)}
    [] filter.kind = "not"  -> (1 .. documents) \ Of(filter.child)
    [] filter.kind = "and"  -> {d \in 1 .. documents : \A i \in DOMAIN filter.children : d \in Of(filter.children[i])}
    [] filter.kind = "or"   -> UNION {Of(filter.children[i]) : i \in DOMAIN filter.children}

(* A degraded store admits nothing, whatever the filter.                   *)
evaluate(filter, attrs, documents) ==
  IF attrs.documents # documents THEN {} ELSE evaluate_node(filter, attrs, <<>>, documents)

-----------------------------------------------------------------------------
(* Search *)

(* The fetch best matches of one engine: of equal scores the highest docid *)
(* comes first.                                                            *)
EngineSearch(docs, query, fetch) ==
  Prefix(SetToSortSeq({d \in DOMAIN docs : query[docs[d]] > 0},
                      LAMBDA a, b : query[docs[a]] > query[docs[b]] \/ (query[docs[a]] = query[docs[b]] /\ a > b)),
         fetch)

Fetch(segment, top_k, filter) ==
  IF filter = None THEN top_k + Cardinality(segment.dead) ELSE Len(segment.docs)

search_one_segment(segment, payload, query, top_k, filter, admitted) ==
  LET found     == EngineSearch(segment.docs, query, Fetch(segment, top_k, filter))
      published == SelectSeq(found, LAMBDA d : d \notin segment.dead /\ (filter = None \/ d \in admitted))
      taken     == IF filter = None THEN published ELSE Prefix(published, top_k)
  IN {[generation |-> segment.generation, docid |-> d, score |-> query[segment.docs[d]],
       doc |-> segment.docs[d], payload |-> PayloadOf(payload, d)] : d \in Elements(taken)}

hit_cmp(a, b) ==
  \/ a.score > b.score
  \/ a.score = b.score /\ a.generation < b.generation
  \/ a.score = b.score /\ a.generation = b.generation /\ a.docid < b.docid

(* The bytes a document came with stand for the document.                  *)
WriterPayload == [d \in DOMAIN writer.docs |-> IF writer.sets[d] = None THEN None ELSE writer.docs[d]]

search(query, top_k, filter) ==
  LET onDisk == UNION {search_one_segment(segments[i], segments[i].payload, query, top_k, filter,
                         IF filter = None THEN {}
                         ELSE evaluate(filter, segments[i].attributes, Len(segments[i].docs))) : i \in DOMAIN segments}
      live   == search_one_segment(writer, WriterPayload, query, top_k, filter,
                         IF filter = None THEN {}
                         ELSE evaluate_node(filter, None, writer.sets, Len(writer.docs)))
  IN Prefix(SetToSortSeq(onDisk \cup live, hit_cmp), top_k)

-----------------------------------------------------------------------------
(* Operations *)

NewWriter(generation) == [generation |-> generation, docs |-> <<>>, dead |-> {}, sets |-> <<>>]

(* Mutant: the buffer of attribute sets is not reset.                      *)
start_new_writerKeepingSets ==
  /\ manifestGeneration < MaxGeneration
  /\ manifestGeneration' = manifestGeneration + 1
  /\ writer' = [NewWriter(manifestGeneration) EXCEPT !.sets = writer.sets]

(* Mutant: the manifest does not count the generation.                     *)
start_new_writerUncounted ==
  /\ manifestGeneration < MaxGeneration
  /\ manifestGeneration' = manifestGeneration
  /\ writer' = NewWriter(manifestGeneration)

start_new_writer ==
  /\ manifestGeneration < MaxGeneration
  /\ manifestGeneration' = manifestGeneration + 1
  /\ writer' = NewWriter(manifestGeneration)

set_attributes_config ==
  /\ configured' = TRUE
  /\ UNCHANGED <<segments, writer, manifestGeneration, added, bare, unpaid, fails, stops>>

(* writer_attribute_capture() clones the set and the payload in it.        *)
add_document(d) ==
  /\ d \notin added
  /\ added' = added \cup {d}
  /\ LET docid == Len(writer.docs) + 1
         kept  == [i \in 1 .. docid |-> IF i \in DOMAIN writer.sets THEN writer.sets[i] ELSE None]
     IN writer' = [writer EXCEPT !.docs = Append(@, d),
                                 !.sets = IF configured /\ Attr[d] # None THEN [kept EXCEPT ![docid] = Attr[d]] ELSE kept]
  /\ bare' = IF configured THEN bare ELSE bare \cup {d}
  /\ unpaid' = IF configured THEN unpaid ELSE unpaid \cup {d}
  /\ UNCHANGED <<segments, manifestGeneration, configured, fails, stops>>

delete_document(d) ==
  /\ \/ \E docid \in DOMAIN writer.docs :
          /\ writer.docs[docid] = d /\ docid \notin writer.dead
          /\ writer' = [writer EXCEPT !.dead = @ \cup {docid}]
          /\ UNCHANGED segments
     \/ \E i \in DOMAIN segments : \E docid \in DOMAIN segments[i].docs :
          /\ segments[i].docs[docid] = d /\ docid \notin segments[i].dead
          /\ segments' = [segments EXCEPT ![i].dead = @ \cup {docid}]
          /\ UNCHANGED writer
  /\ UNCHANGED <<manifestGeneration, configured, added, bare, unpaid, fails, stops>>

(* The two files of a segment; attributes or payloads in lost are not      *)
(* written.  Nothing is written before set_attributes_config().            *)
Opened(generation, docs, dead, rows, payload, lost) ==
  [generation |-> generation, docs |-> docs, dead |-> dead,
   attributes |-> load(IF configured /\ "attr" \notin lost THEN AttributeFile(rows) ELSE Degraded, Len(docs)),
   payload    |-> IF configured /\ "pay" \notin lost THEN payload ELSE <<>>]

Losing(lost, docs) ==
  /\ fails + Cardinality(lost) <= MaxFails
  /\ configured \/ lost = {}
  /\ fails' = fails + Cardinality(lost)
  /\ bare' = IF "attr" \in lost THEN bare \cup Elements(docs) ELSE bare
  /\ unpaid' = IF "pay" \in lost THEN unpaid \cup Elements(docs) ELSE unpaid

flush ==
  /\ writer.docs # <<>>
  /\ \E lost \in SUBSET {"attr", "pay"} :
       /\ Losing(lost, writer.docs)
       /\ segments' = Append(segments,
            Opened(writer.generation, writer.docs, writer.dead,
                   [d \in DOMAIN writer.docs |-> Row(writer.sets[d])], WriterPayload, lost))
  /\ start_new_writer
  /\ UNCHANGED <<configured, added, stops>>

(* The live docids of the inputs, in the order given, as <<input, docid>>. *)
Renumbered(inputs) ==
  FlattenSeq([n \in DOMAIN inputs |->
    [i \in 1 .. Len(segments[inputs[n]].docs) - Cardinality(segments[inputs[n]].dead) |->
      <<inputs[n], SetToSortSeq(DOMAIN segments[inputs[n]].docs \ segments[inputs[n]].dead, <)[i]>>]])

(* One loop fills both files, so neither is of use if one of them cannot   *)
(* be created; finish() of one may fail without the other.                 *)
compact(inputs) ==
  /\ manifestGeneration < MaxGeneration
  /\ LET merged == Renumbered(inputs)
         docs   == [n \in DOMAIN merged |-> segments[merged[n][1]].docs[merged[n][2]]]
         rows   == [n \in DOMAIN merged |->
                     [f \in Fields |-> ValuesOf(segments[merged[n][1]].attributes, f, merged[n][2])]]
         paid   == [n \in DOMAIN merged |-> PayloadOf(segments[merged[n][1]].payload, merged[n][2])]
         others == SetToSortSeq(DOMAIN segments \ Elements(inputs), <)
     IN \E lost \in SUBSET {"attr", "pay"} :
          /\ Losing(lost, docs)
          /\ segments' = Append([n \in DOMAIN others |-> segments[others[n]]],
                                Opened(manifestGeneration, docs, {}, rows, paid, lost))
  /\ manifestGeneration' = manifestGeneration + 1
  /\ UNCHANGED <<writer, configured, added, stops>>

(* The process ends and open() replays the log, which has the documents    *)
(* and the deletes of the writer but no attributes.                        *)
Reopen ==
  /\ stops < MaxStops /\ manifestGeneration < MaxGeneration
  /\ writer' = [writer EXCEPT !.generation = manifestGeneration, !.sets = [d \in DOMAIN writer.docs |-> None]]
  /\ manifestGeneration' = manifestGeneration + 1
  /\ bare' = bare \cup Elements(writer.docs)
  /\ unpaid' = unpaid \cup Elements(writer.docs)
  /\ stops' = stops + 1
  /\ UNCHANGED <<segments, configured, added, fails>>

Init ==
  /\ segments = <<>>
  /\ writer = NewWriter(0)
  /\ manifestGeneration = 1
  /\ configured = FALSE
  /\ added = {} /\ bare = {} /\ unpaid = {}
  /\ fails = 0 /\ stops = 0

Next ==
  \/ set_attributes_config
  \/ \E d \in Docs : add_document(d) \/ delete_document(d)
  \/ flush
  \/ \E chosen \in SUBSET (DOMAIN segments) \ {{}} : \E inputs \in SetToSeqs(chosen) : compact(inputs)
  \/ Reopen

Spec == Init /\ [][Next]_vars

-----------------------------------------------------------------------------
(* Properties *)

(* The types of the variables (members of ATIRE_segment_index and of its   *)
(* segments); no two segments have one generation.                         *)
TypeOK ==
  /\ \A i \in DOMAIN segments :
       /\ segments[i].docs \in Seq(Docs) /\ segments[i].dead \subseteq DOMAIN segments[i].docs
       /\ segments[i].attributes.documents \in {0, Len(segments[i].docs)}
       /\ Len(segments[i].payload) \in {0, Len(segments[i].docs)}
       /\ segments[i].generation \in 0 .. manifestGeneration - 1 /\ segments[i].generation # writer.generation
       /\ \A j \in DOMAIN segments : segments[i].generation = segments[j].generation => i = j
  /\ writer.docs \in Seq(Docs) /\ writer.dead \subseteq DOMAIN writer.docs
  /\ writer.generation \in 0 .. manifestGeneration - 1
  /\ manifestGeneration \in 0 .. MaxGeneration /\ configured \in BOOLEAN
  /\ bare \subseteq added /\ unpaid \subseteq added /\ added \subseteq Docs
  /\ fails \in 0 .. MaxFails /\ stops \in 0 .. MaxStops

Live ==
  LET In(s) == {s.docs[d] : d \in DOMAIN s.docs \ s.dead}
  IN In(writer) \cup UNION {In(segments[i]) : i \in DOMAIN segments}

(* What a filter means for the attributes a document was given.            *)
RECURSIVE Matches(_, _)
Matches(filter, attributes) ==
  CASE filter.kind = "leaf" -> Elements(attributes[filter.field]) \cap filter.values # {}
    [] filter.kind = "not"  -> ~Matches(filter.child, attributes)
    [] filter.kind = "and"  -> \A i \in DOMAIN filter.children : Matches(filter.children[i], attributes)
    [] filter.kind = "or"   -> \E i \in DOMAIN filter.children : Matches(filter.children[i], attributes)

(* hits are a best top_k of the documents that must be found: sorted, no   *)
(* document twice, and one that is missing is no better than the last.     *)
IsTopK(hits, must, may, query, top_k) ==
  LET shown == {hits[i].doc : i \in DOMAIN hits} IN
  /\ Len(hits) <= top_k /\ Cardinality(shown) = Len(hits)
  /\ shown \subseteq must \cup may
  /\ \A i \in 1 .. Len(hits) - 1 : hit_cmp(hits[i], hits[i + 1])
  /\ \A d \in must \ shown : Len(hits) = top_k /\ query[d] <= hits[top_k].score

(* However the documents are spread over segments and writer, deleted,     *)
(* merged and renumbered: a search returns a best top_k of the live        *)
(* documents that match and whose own attributes pass the filter, and each *)
(* hit carries its own document's payload.  A document whose attributes    *)
(* were lost passes only as one without any, if at all, and one whose      *)
(* payload was lost may come without (search(), filter evaluate(), the     *)
(* .attr and .pay files of flush() and compact()).                         *)
SearchIsTopK ==
  \A query \in Queries, top_k \in Limits, filter \in Filters \cup {None} :
    LET hits  == search(query, top_k, filter)
        found == {d \in Live : query[d] > 0}
        must  == {d \in found : filter = None \/ (d \notin bare /\ Matches(filter, Row(Attr[d])))}
        may   == {d \in found \cap bare : filter # None /\ Matches(filter, Blank)}
        Paid(hit) == IF Attr[hit.doc] = None THEN None ELSE hit.doc
    IN /\ IsTopK(hits, must, may, query, top_k)
       /\ \A i \in DOMAIN hits :
            hits[i].payload = Paid(hits[i]) \/ (hits[i].payload = None /\ hits[i].doc \in unpaid)
=============================================================================
