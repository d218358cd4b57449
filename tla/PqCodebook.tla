----------------------------- MODULE PqCodebook -----------------------------
(***************************************************************************)
(* Product quantization of an index's dense vectors                        *)
(* (atire_segment_index_vector.cpp, append_segment() and compact()).       *)
(*                                                                         *)
(* A segment's float vectors stay in its .vec file.  build_pq() encodes    *)
(* them with a codebook into a .pq file, which holds that codebook too.    *)
(* In global mode all segments are encoded with one codebook, saved in     *)
(* pq.codebook; in memory a segment's store then does not load its own     *)
(* copy but borrows the resident one.  The resident tier says what stays   *)
(* in memory beside the codes.  An HNSW graph is built over what is        *)
(* resident when it is built.                                              *)
(*                                                                         *)
(* A codebook is an id.  Any write may fail, and the process may die       *)
(* between any two steps of a loop over the segments.                      *)
(***************************************************************************)
EXTENDS Integers, Sequences, FiniteSets

CONSTANTS
  MaxSegments,   \* bound: segments at a time
  MaxBooks,      \* bound: codebooks that something still refers to
  MaxFails,      \* bound: writes and trainings that fail
  MaxStops       \* bound: closes and crashes

ASSUME PqAssumption ==
  MaxSegments \in Nat \ {0} /\ MaxBooks \in Nat \ {0} /\ MaxFails \in Nat /\ MaxStops \in Nat

VARIABLES
  conf,     \* pq.config and hnsw.config, the same in memory and on disk
  book,     \* pq.codebook on disk: [id, k], id 0 if there is none
  segs,     \* the segments, in the order of segments[]
  global,   \* global_pq_codebook: an id, 0 for NULL
  pc, job,  \* the loop over the segments that runs, and where it is
  hurt,     \* history: a .pq may be encoded with another codebook than the saved one
  dropped,  \* history: a rebuild in this session has dropped a store and not reloaded it
  fails, stops

disk == <<conf, book>>
hist == <<hurt, dropped, fails, stops>>
vars == <<disk, segs, global, pc, job, hist>>

-----------------------------------------------------------------------------
(* Values *)

Books   == 1 .. MaxBooks
NoBook  == [id |-> 0, k |-> 256]
Tiers   == {"float", "int8", "none"}
Config  == [pq : {"off", "replace", "rerank"}, global : BOOLEAN, tier : Tiers, k : {16, 256}, hnsw : BOOLEAN]
NoJob   == [at |-> 0, graph |-> FALSE, had |-> {}, ok |-> TRUE]

(* What a graph is built over, or candidates are scored with: the resident *)
(* vectors, or codes decoded with a codebook.                              *)
Source  == ({"float", "int8"} \X {0}) \cup ({"codes"} \X Books)
NoGraph == <<"none", 0>>

(* file: the codebook of the .pq on disk; by, borrowed: the one the store  *)
(* in memory decodes with, and whose buffer it is; pqr: the int8 file is   *)
(* there; vectors: the resident store.                                     *)
Segment == [file : 0 .. MaxBooks, by : 0 .. MaxBooks, borrowed : BOOLEAN, pqr : BOOLEAN,
            vectors : Tiers, graph : Source \cup {NoGraph}]

pq_configured == conf.pq # "off"
Places  == DOMAIN segs
Idle    == pc = "idle"

Used    == {book.id, global} \cup {segs[s].file : s \in Places} \cup {segs[s].by : s \in Places}
             \cup {segs[s].graph[2] : s \in Places}
FreeBooks == Books \ Used
NewBook == CHOOSE b \in FreeBooks : TRUE      \* train() makes a codebook that nothing refers to
MayTrain == FreeBooks # {} \/ (conf.global /\ global # 0)

SearchSource(seg) == IF seg.vectors # "none" THEN <<seg.vectors, 0>>
                     ELSE IF seg.by # 0 THEN <<"codes", seg.by>> ELSE NoGraph

-----------------------------------------------------------------------------
(* Loading *)

(* Mutant: the tier is honoured for a segment that has no codes.           *)
loadBare(seg, glo) == [seg EXCEPT !.by = IF seg.file # 0 /\ conf.global /\ glo # 0 THEN glo ELSE seg.file,
                                  !.borrowed = conf.global /\ glo # 0 /\ seg.file # 0,
                                  !.vectors = conf.tier]

load_segment_pq_vectors(seg, glo) ==
  LET valid == pq_configured /\ seg.file # 0
      borrow == valid /\ conf.global /\ glo # 0 IN
  [seg EXCEPT !.by = IF borrow THEN glo ELSE IF valid THEN seg.file ELSE 0,
              !.borrowed = borrow]

append_segment(seg, glo) ==
  LET s == load_segment_pq_vectors(seg, glo) IN
  [s EXCEPT !.vectors = CASE s.by = 0 \/ conf.tier = "float" -> "float"
                          [] s.by # 0 /\ conf.tier = "int8" /\ s.pqr -> "int8"
                          [] OTHER -> "none"]

(* A codebook of another size than the configured one is not loaded.       *)
load_pq_codebook == IF conf.global /\ book.k = conf.k THEN book.id ELSE 0

-----------------------------------------------------------------------------
(* Configuration.  A setter saves the new value or takes it back, and      *)
(* leaves a value that was set before as it is.                            *)

set_hnsw_config ==
  /\ Idle /\ ~conf.hnsw
  /\ conf' = [conf EXCEPT !.hnsw = TRUE]
  /\ UNCHANGED <<book, segs, global, pc, job, hist>>

set_pq_config(posture) ==
  /\ Idle /\ ~pq_configured
  /\ conf' = [conf EXCEPT !.pq = posture]
  /\ UNCHANGED <<book, segs, global, pc, job, hist>>

MayTier(tier) ==
  /\ Idle /\ pq_configured
  /\ conf.tier = "float" /\ tier # "float"
  /\ tier = "none" => conf.pq = "replace"

(* The graphs, built over float vectors, are removed with the change.      *)
set_pq_resident_tier(tier) ==
  /\ MayTier(tier)
  /\ conf' = [conf EXCEPT !.tier = tier]
  /\ segs' = IF conf.hnsw THEN [s \in Places |-> [segs[s] EXCEPT !.graph = NoGraph]] ELSE segs
  /\ UNCHANGED <<book, global, pc, job, hist>>

set_pq_global_codebook ==
  /\ Idle /\ pq_configured /\ ~conf.global
  /\ conf' = [conf EXCEPT !.global = TRUE]
  /\ hurt' = (\E s \in Places : segs[s].file # 0)
  /\ UNCHANGED <<book, segs, global, pc, job, dropped, fails, stops>>

set_pq_k ==
  /\ Idle /\ pq_configured /\ conf.k = 256
  /\ conf' = [conf EXCEPT !.k = 16]
  /\ hurt' = (hurt \/ book.id # 0)
  /\ UNCHANGED <<book, segs, global, pc, job, dropped, fails, stops>>

-----------------------------------------------------------------------------
(* Encoding one segment.  "bad" says which parts fail: training or saving  *)
(* the global codebook, writing the codes, the int8 copy, the graph.       *)

Parts == {"codebook", "codes", "int8", "graph"}
MayFail(bad) == fails + Cardinality(bad) <= MaxFails

NeedsTraining == conf.global /\ global = 0
Trains(bad)   == NeedsTraining /\ "codebook" \notin bad

(* Mutant: the codebook trained first is used and not saved.               *)
ensureUnsaved(bad) ==
  IF Trains(bad) THEN [book |-> book, global |-> NewBook] ELSE [book |-> book, global |-> global]

ensure_global_pq_codebook(bad) ==
  IF Trains(bad) THEN [book |-> [id |-> NewBook, k |-> conf.k], global |-> NewBook]
  ELSE [book |-> book, global |-> global]

(* The .pq is written with the global codebook, or with one of its own.    *)
encode(seg, bad, glo) ==
  IF "codes" \in bad THEN seg
  ELSE load_segment_pq_vectors(
         [seg EXCEPT !.file = IF conf.global /\ glo # 0 THEN glo ELSE NewBook], glo)

(* Mutant: a segment with codes keeps its float vectors in memory too.     *)
realizeNothing(seg, bad) == seg

(* What is resident beside the codes, once there are codes.                *)
realize(seg, bad) ==
  CASE seg.by = 0 \/ conf.tier = "float" -> seg
    [] seg.by # 0 /\ conf.tier = "none"  -> [seg EXCEPT !.vectors = "none"]
    [] seg.by # 0 /\ conf.tier = "int8"  ->
         LET pqr == seg.pqr \/ "int8" \notin bad IN
         [seg EXCEPT !.pqr = pqr, !.vectors = IF pqr THEN "int8" ELSE "none"]

graph(seg, bad) ==
  IF ~conf.hnsw \/ seg.graph # NoGraph \/ "graph" \in bad THEN seg
  ELSE [seg EXCEPT !.graph = SearchSource(seg)]

-----------------------------------------------------------------------------
(* flush() adds a segment.  Its graph is built over the float vectors at   *)
(* once unless PQ is configured; the eager policy then goes on to build    *)
(* codes and graphs.                                                       *)

NewSegment == [file |-> 0, by |-> 0, borrowed |-> FALSE, pqr |-> FALSE, vectors |-> "float", graph |-> NoGraph]

flush(eager, bad) ==
  /\ Idle /\ Len(segs) < MaxSegments /\ bad \subseteq {"graph"} /\ MayFail(bad)
  /\ segs' = Append(segs, IF pq_configured THEN NewSegment ELSE graph(NewSegment, bad))
  /\ eager => pq_configured \/ conf.hnsw
  /\ pc' = IF ~eager THEN "idle" ELSE IF pq_configured THEN "build" ELSE "graph"
  /\ job' = IF eager THEN [NoJob EXCEPT !.at = 1, !.graph = TRUE] ELSE NoJob
  /\ fails' = fails + Cardinality(bad)
  /\ UNCHANGED <<disk, global, hurt, dropped, stops>>

build_pq ==
  /\ Idle /\ pq_configured
  /\ pc' = "build" /\ job' = [NoJob EXCEPT !.at = 1]
  /\ UNCHANGED <<disk, segs, global, hist>>

build_hnsw ==
  /\ Idle /\ conf.hnsw
  /\ pc' = "graph" /\ job' = [NoJob EXCEPT !.at = 1]
  /\ UNCHANGED <<disk, segs, global, hist>>

(* One segment of build_pq(): codes if it has none, then the tier.         *)
BuildSegment(bad) ==
  /\ pc = "build" /\ job.at \in Places
  /\ bad \subseteq {"codebook", "codes", "int8"} /\ MayFail(bad)
  /\ LET seg == segs[job.at]
         new == ensure_global_pq_codebook(bad) IN
       IF seg.by # 0
       THEN /\ bad \subseteq {"int8"}
            /\ segs' = [segs EXCEPT ![job.at] = realize(seg, bad)]
            /\ UNCHANGED <<book, global, hurt>>
       ELSE /\ MayTrain
            /\ book' = new.book /\ global' = new.global
            /\ segs' = [segs EXCEPT ![job.at] = realize(encode(seg, bad, new.global), bad)]
            /\ hurt' = (hurt \/ (conf.global /\ new.global = 0 /\ "codes" \notin bad))
  /\ job' = [job EXCEPT !.at = @ + 1]
  /\ fails' = fails + Cardinality(bad)
  /\ UNCHANGED <<conf, pc, dropped, stops>>

BuildEnd ==
  /\ pc = "build" /\ job.at \notin Places
  /\ IF job.graph /\ conf.hnsw
     THEN pc' = "graph" /\ job' = [NoJob EXCEPT !.at = 1]
     ELSE pc' = "idle" /\ job' = NoJob
  /\ UNCHANGED <<disk, segs, global, hist>>

(* One segment of build_hnsw(): a graph that is there is kept.             *)
GraphSegment(bad) ==
  /\ pc = "graph" /\ job.at \in Places
  /\ bad \subseteq {"graph"} /\ MayFail(bad)
  /\ segs' = [segs EXCEPT ![job.at] = graph(@, bad)]
  /\ job' = [job EXCEPT !.at = @ + 1]
  /\ fails' = fails + Cardinality(bad)
  /\ UNCHANGED <<disk, global, pc, hurt, dropped, stops>>

GraphEnd ==
  /\ pc = "graph" /\ job.at \notin Places
  /\ pc' = "idle" /\ job' = NoJob
  /\ UNCHANGED <<disk, segs, global, hist>>

-----------------------------------------------------------------------------
(* compact(): the inputs' float vectors are merged into a new segment,     *)
(* which is encoded, realized and graphed, and takes their place.          *)

(* Mutant: the inputs stay in segments[] beside their merge.               *)
OthersAll(inputs) == {[i \in Places |-> i]}

(* The segments that are no inputs, in their order.                        *)
Others(inputs) ==
  {keep \in [1 .. Len(segs) - Cardinality(inputs) -> Places \ inputs] :
     \A i, j \in DOMAIN keep : i < j => keep[i] < keep[j]}

compact(inputs, bad) ==
  /\ Idle /\ inputs # {} /\ inputs \subseteq Places
  /\ MayTrain /\ MayFail(bad)
  /\ pq_configured \/ bad \subseteq {"graph"}
  /\ LET new == IF pq_configured THEN ensure_global_pq_codebook(bad) ELSE [book |-> book, global |-> global]
         coded == IF pq_configured THEN realize(encode(NewSegment, bad, new.global), bad) ELSE NewSegment IN
       /\ book' = new.book /\ global' = new.global
       /\ \E keep \in Others(inputs) :
            segs' = Append([i \in DOMAIN keep |-> segs[keep[i]]], graph(coded, bad))
       /\ hurt' = (hurt \/ (conf.global /\ new.global = 0 /\ "codes" \notin bad))
  /\ fails' = fails + Cardinality(bad)
  /\ UNCHANGED <<conf, pc, job, dropped, stops>>

-----------------------------------------------------------------------------
(* rebuild_pq_global_codebook(): train over all segments, free the old     *)
(* codebook, drop the stores that borrow it, save the new one; then encode *)
(* the segments that had a store, one after the other, and load them.      *)

Had == {s \in Places : segs[s].by # 0}

(* Mutant: stores that borrow the freed codebook are kept.                 *)
dropNone == segs

drop_borrowing ==
  [s \in Places |-> IF segs[s].borrowed THEN [segs[s] EXCEPT !.by = 0, !.borrowed = FALSE] ELSE segs[s]]

MayRebuild == Idle /\ pq_configured /\ conf.global /\ Places # {} /\ FreeBooks # {}

(* Training fails, or saving: the call gives up, with no codebook resident *)
(* or with one that nothing on disk agrees with.                           *)
RebuildFails(trained) ==
  /\ MayRebuild /\ fails < MaxFails
  /\ global' = IF trained THEN NewBook ELSE 0
  /\ segs' = drop_borrowing
  /\ dropped' = (dropped \/ \E s \in Places : segs[s].borrowed)
  /\ hurt' = (hurt \/ trained \/ \E s \in Places : segs[s].file # 0)
  /\ fails' = fails + 1
  /\ UNCHANGED <<disk, pc, job, stops>>

rebuild_pq_global_codebook ==
  /\ MayRebuild
  /\ global' = NewBook /\ book' = [id |-> NewBook, k |-> conf.k]
  /\ segs' = drop_borrowing
  /\ pc' = "reencode" /\ job' = [NoJob EXCEPT !.at = 1, !.had = Had]
  /\ hurt' = TRUE
  /\ UNCHANGED <<conf, dropped, fails, stops>>

(* Mutant: only stores that borrowed are encoded again.                    *)
ReencodeDropped(bad) ==
  /\ pc = "reencode" /\ job.at \in Places
  /\ bad \subseteq {"codes"} /\ MayFail(bad)
  /\ IF job.at \in job.had /\ segs[job.at].by = 0
     THEN /\ segs' = [segs EXCEPT ![job.at] = encode(@, bad, global)]
          /\ job' = [job EXCEPT !.at = @ + 1, !.ok = @ /\ bad = {}]
          /\ dropped' = (dropped \/ bad # {})
     ELSE /\ bad = {}
          /\ job' = [job EXCEPT !.at = @ + 1]
          /\ UNCHANGED <<segs, dropped>>
  /\ fails' = fails + Cardinality(bad)
  /\ UNCHANGED <<disk, global, pc, hurt, stops>>

ReencodeSegment(bad) ==
  /\ pc = "reencode" /\ job.at \in Places
  /\ bad \subseteq {"codes"} /\ MayFail(bad)
  /\ IF job.at \in job.had
     THEN /\ segs' = [segs EXCEPT ![job.at] = encode(@, bad, global)]
          /\ job' = [job EXCEPT !.at = @ + 1, !.ok = @ /\ bad = {}]
          /\ dropped' = (dropped \/ bad # {})
     ELSE /\ bad = {}
          /\ job' = [job EXCEPT !.at = @ + 1]
          /\ UNCHANGED <<segs, dropped>>
  /\ fails' = fails + Cardinality(bad)
  /\ UNCHANGED <<disk, global, pc, hurt, stops>>

RebuildEnd ==
  /\ pc = "reencode" /\ job.at \notin Places
  /\ pc' = "idle" /\ job' = NoJob
  /\ hurt' = (\E s \in Places : segs[s].file \notin {0, book.id})
  /\ UNCHANGED <<disk, segs, global, dropped, fails, stops>>

-----------------------------------------------------------------------------
(* close(), or a crash between two steps: what was in memory is gone.      *)

Forgotten(seg) == [seg EXCEPT !.by = 0, !.borrowed = FALSE, !.vectors = "none"]

Closes ==
  /\ stops < MaxStops /\ stops' = stops + 1
  /\ pc' = "closed" /\ job' = NoJob /\ global' = 0
  /\ dropped' = FALSE
  /\ UNCHANGED <<hurt, fails>>

Stop ==
  /\ pc # "closed" /\ Closes
  /\ segs' = [s \in Places |-> Forgotten(segs[s])]
  /\ UNCHANGED disk

(* A crash when the codebook has just been saved and no .pq uses it yet,   *)
(* in build_pq() or compact().                                             *)
StopAfterTraining ==
  /\ \/ pc = "build" /\ job.at \in Places /\ segs[job.at].by = 0
     \/ Idle /\ pq_configured /\ Places # {}
  /\ NeedsTraining /\ FreeBooks # {} /\ Closes
  /\ book' = [id |-> NewBook, k |-> conf.k]
  /\ segs' = [s \in Places |-> Forgotten(segs[s])]
  /\ UNCHANGED conf

(* A crash when the new tier is saved and the graphs are being removed.    *)
StopInTier(tier, n) ==
  /\ MayTier(tier) /\ conf.hnsw /\ n \in 0 .. Len(segs) - 1 /\ Closes
  /\ conf' = [conf EXCEPT !.tier = tier]
  /\ segs' = [s \in Places |-> IF s <= n THEN [Forgotten(segs[s]) EXCEPT !.graph = NoGraph]
                                ELSE Forgotten(segs[s])]
  /\ UNCHANGED book

open ==
  /\ pc = "closed"
  /\ pc' = "idle" /\ global' = load_pq_codebook
  /\ segs' = [s \in Places |-> append_segment(segs[s], load_pq_codebook)]
  /\ UNCHANGED <<disk, job, hist>>

-----------------------------------------------------------------------------

Init ==
  /\ conf = [pq |-> "off", global |-> FALSE, tier |-> "float", k |-> 256, hnsw |-> FALSE]
  /\ book = NoBook /\ segs = <<>> /\ global = 0
  /\ pc = "idle" /\ job = NoJob
  /\ hurt = FALSE /\ dropped = FALSE /\ fails = 0 /\ stops = 0

Configure ==
  \/ set_hnsw_config \/ set_pq_global_codebook \/ set_pq_k
  \/ \E posture \in {"replace", "rerank"} : set_pq_config(posture)
  \/ \E tier \in Tiers : set_pq_resident_tier(tier)

Write == \E bad \in SUBSET Parts :
  \/ \E eager \in BOOLEAN : flush(eager, bad)
  \/ BuildSegment(bad) \/ GraphSegment(bad) \/ ReencodeSegment(bad)
  \/ \E inputs \in SUBSET Places : compact(inputs, bad)

Loops ==
  \/ build_pq \/ BuildEnd \/ build_hnsw \/ GraphEnd
  \/ rebuild_pq_global_codebook \/ RebuildEnd
  \/ \E trained \in BOOLEAN : RebuildFails(trained)

Stops ==
  \/ Stop \/ StopAfterTraining \/ open
  \/ \E tier \in Tiers, n \in 0 .. MaxSegments : StopInTier(tier, n)

Next == Configure \/ Write \/ Loops \/ Stops

Spec == Init /\ [][Next]_vars

-----------------------------------------------------------------------------
(* Properties *)

(* Types; what a closed index has in memory is nothing.                    *)
TypeOK ==
  /\ conf \in Config /\ book \in [id : 0 .. MaxBooks, k : {16, 256}]
  /\ segs \in Seq(Segment) /\ Len(segs) <= MaxSegments
  /\ global \in 0 .. MaxBooks
  /\ pc \in {"idle", "build", "graph", "reencode", "closed"}
  /\ job \in [at : 0 .. MaxSegments + 1, graph : BOOLEAN, had : SUBSET (1 .. MaxSegments), ok : BOOLEAN]
  /\ hurt \in BOOLEAN /\ dropped \in BOOLEAN /\ fails \in 0 .. MaxFails /\ stops \in 0 .. MaxStops

(* A store that borrows its codebook borrows the one that is resident now, *)
(* never one that a rebuild has freed (rebuild_pq_global_codebook()).      *)
NoDangling == \A s \in Places : segs[s].borrowed => global # 0 /\ segs[s].by = global

(* The codes of a segment are decoded with the codebook they were encoded  *)
(* with.                                                                   *)
DecodedAsEncoded == \A s \in Places : segs[s].by \in {0, segs[s].file}

(* It is so, and in global mode the segments' codes can be compared, until *)
(* one of these: global mode or another k comes when codes exist; a        *)
(* segment had to train a codebook of its own; a rebuild failed or was cut *)
(* short.  A rebuild that reaches every segment restores it.               *)
CodesFit ==
  hurt \/ /\ DecodedAsEncoded
          /\ conf.global => \A s \in Places : segs[s].file \in {0, book.id}

(* Every segment has something its vectors can be scored with, at any time *)
(* a search may come, unless a rebuild in this session has failed.         *)
Searchable == Idle => dropped \/ \A s \in Places : SearchSource(segs[s]) # NoGraph

(* A rebuild that returns 0 leaves each segment that had a store with      *)
(* codes of the saved codebook, in memory and on disk.                     *)
RebuildReencodes ==
  [][pc = "reencode" /\ pc' = "idle" /\ job.ok =>
       \A s \in job.had : segs'[s].file = book.id /\ segs'[s].by = book.id]_vars

(* After build_pq() the segments are as a restart would load them: the     *)
(* tier took effect at once, and scores do not change with a restart.      *)
BuiltAsLoaded ==
  [][pc = "build" /\ pc' \in {"idle", "graph"} /\ ~hurt /\ ~dropped =>
       \A s \in Places : segs'[s] = append_segment(segs[s], load_pq_codebook)]_vars
=============================================================================
