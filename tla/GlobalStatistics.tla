-------------------------- MODULE GlobalStatistics --------------------------
(***************************************************************************)
(* Cross-segment ranking statistics.  Each open segment is scored by an    *)
(* engine of its own, whose ranking function copies the number of          *)
(* documents N once, when it is built.  To score every segment on the      *)
(* whole collection the index pokes the global N into each engine, rebuilds *)
(* the ranking function, and puts the engine's own number back:            *)
(* everything else (get_document_count(), maintain(), compact(), and the   *)
(* next refresh) reads it as the size of that segment.                     *)
(*                                                                         *)
(* flush() and compact() refresh last, so that one that fails on the way   *)
(* returns without it.                                                     *)
(*                                                                         *)
(* The mean document length travels with N and is not represented.  The    *)
(* client and the index are in one thread: a call is one step.             *)
(***************************************************************************)
EXTENDS Integers, FiniteSets, Functions

CONSTANTS
  Generations,  \* numbers a segment may carry
  MaxDocs,      \* bound: documents in the index, deleted ones included
  MaxFaults,    \* bound: calls that fail
  MergesEmpty   \* compact() is called on inputs without a live document too

ASSUME GlobalStatisticsAssumption ==
  MaxDocs \in Nat /\ MaxFaults \in Nat /\ MergesEmpty \in BOOLEAN

VARIABLES
  engines,  \* engines[g]: the engine of disk segment g, and its tombstones
  writer,   \* writer_documents and writer_tombstones->count()
  wrapper,  \* writer_engine, the searchable view of the memory segment
  stale,    \* writer_engine_stale
  writable, \* writer # NULL
  enabled,  \* global_stats_enabled
  disk,     \* disk[g]: the segments in the manifest that was saved last, as
            \* open() would find them
  missed,   \* history: a failed call has changed the segments since the last
            \* refresh
  faults

vars == <<engines, writer, wrapper, stale, writable, enabled, disk, missed, faults>>

-----------------------------------------------------------------------------
(* An engine *)

(* An opened engine over n documents: what the segment holds, the member   *)
(* document_count() returns, local_documents_saved, and the N of its       *)
(* ranking function.                                                       *)
Engine(n, dead) == [own |-> n, dead |-> dead, documents |-> n, saved |-> 0, ranked |-> n]

NoEngine == Engine(0, 0)

(* set_global_document_statistics(n): 0 restores the engine's own number,  *)
(* which is saved when nothing has been saved yet.                         *)
SetStatistics(e, n) ==
  LET own == IF e.saved = 0 THEN e.documents ELSE e.saved
  IN  [e EXCEPT !.saved = own, !.documents = IF n = 0 THEN own ELSE n]

(* construct_default_ranking_function() copies document_count().           *)
Rerank(e) == [e EXCEPT !.ranked = e.documents]

(* apply_global_statistics(n)                                              *)
ApplyUnrestored(e, n) == Rerank(SetStatistics(e, n))

Apply(e, n) == SetStatistics(Rerank(SetStatistics(e, n)), 0)

-----------------------------------------------------------------------------
(* refresh_global_statistics() *)

Sum(f) == SumFunction(f)

(* N over the engines es and the memory segment w, as document_count() has it *)
Total(es, w) == Sum([g \in DOMAIN es |-> es[g].documents]) + w.docs

(* Without a length to average the refresh gives up: no disk segment has a *)
(* document and the memory segment has no view yet.                        *)
Measured(es, v) == v # NoEngine \/ \E g \in DOMAIN es : es[g].documents > 0

ApplyAll(es, v, n) ==
  /\ engines' = [g \in DOMAIN es |-> Apply(es[g], n)]
  /\ wrapper' = IF v = NoEngine THEN NoEngine ELSE Apply(v, n)

(* The refresh of the engines es, the memory segment w and its view v.     *)
Refresh(es, w, v, on) ==
  \/ ~on /\ ApplyAll(es, v, 0)
  \/ on /\ Measured(es, v) /\ ApplyAll(es, v, Total(es, w))
  \/ on /\ ~Measured(es, v) /\ engines' = es /\ wrapper' = v

Refreshed(es, w, v, on) == Refresh(es, w, v, on) /\ missed' = FALSE

-----------------------------------------------------------------------------
(* The calls *)

Stored == Sum([g \in DOMAIN engines |-> engines[g].own]) + writer.docs

NewWriter == [docs |-> 0, dead |-> 0]

With(es, g, e) == [h \in DOMAIN es \cup {g} |-> IF h = g THEN e ELSE es[h]]

(* What a manifest that is saved now lists, with the tombstones beside it. *)
Image(es) == [g \in DOMAIN es |-> [docs |-> es[g].own, dead |-> es[g].dead]]

(* take_generation(): one that neither memory nor the disk knows.          *)
Unused == Generations \ (DOMAIN engines \cup DOMAIN disk)

Fault == faults < MaxFaults /\ faults' = faults + 1

(* add_document(): the view of the memory segment is out of date.          *)
Add ==
  /\ writable /\ Stored < MaxDocs
  /\ writer' = [writer EXCEPT !.docs = @ + 1]
  /\ stale' = TRUE
  /\ UNCHANGED <<engines, wrapper, writable, enabled, disk, missed, faults>>

(* A tombstone recorded twice is counted twice.                            *)
TombstoneAgain ==
  /\ \E g \in DOMAIN engines : engines' = [engines EXCEPT ![g].dead = @ + 1]
  /\ UNCHANGED <<writer, wrapper, stale, writable, enabled, disk, missed, faults>>

(* tombstone(): a deleted document still counts in N.  One in a segment is *)
(* saved at once.                                                          *)
Tombstone ==
  /\ \/ \E g \in DOMAIN engines :
          /\ engines[g].dead < engines[g].own
          /\ engines' = [engines EXCEPT ![g].dead = @ + 1]
          /\ disk' = [h \in DOMAIN disk |->
                        IF h = g THEN [disk[h] EXCEPT !.dead = engines[g].dead + 1] ELSE disk[h]]
          /\ UNCHANGED writer
     \/ /\ writer.dead < writer.docs
        /\ writer' = [writer EXCEPT !.dead = @ + 1]
        /\ UNCHANGED <<engines, disk>>
  /\ UNCHANGED <<wrapper, stale, writable, enabled, missed, faults>>

(* The engines, with that of the segment flush() has written.              *)
Opened(g) == With(engines, g, Engine(writer.docs, writer.dead))

(* flush(): the memory segment becomes a disk segment, deleted documents   *)
(* included, and a new one starts.                                         *)
Flush ==
  /\ writer.docs # 0
  /\ \E g \in Unused : /\ Refreshed(Opened(g), NewWriter, NoEngine, enabled)
                       /\ disk' = Image(Opened(g))
  /\ writer' = NewWriter /\ stale' = TRUE
  /\ UNCHANGED <<writable, enabled, faults>>

(* Its files are not written: the memory segment only loses its view.      *)
FlushUnwritten ==
  /\ writer.docs # 0 /\ Fault
  /\ wrapper' = NoEngine /\ stale' = TRUE
  /\ UNCHANGED <<engines, writer, writable, enabled, disk, missed>>

(* It returns without a writer: the segment cannot be opened, or is open   *)
(* and the manifest cannot be saved, or only the save for the next memory  *)
(* segment fails.                                                          *)
FlushUnfinished ==
  /\ writer.docs # 0 /\ Fault
  /\ \/ UNCHANGED <<engines, disk>>
     \/ \E g \in Unused : engines' = Opened(g) /\ disk' \in {disk, Image(Opened(g))}
  /\ writer' = NewWriter /\ writable' = FALSE
  /\ wrapper' = NoEngine /\ stale' = FALSE
  /\ missed' = TRUE
  /\ UNCHANGED enabled

(* What the merge finds to copy from the inputs: the documents their       *)
(* engines report, less the tombstones.                                    *)
LiveOf(inputs) == Sum([g \in inputs |-> engines[g].documents - engines[g].dead])

Merged(inputs, out) ==
  With(Restrict(engines, DOMAIN engines \ inputs), out, Engine(LiveOf(inputs), 0))

(* Inputs and a generation for what they are merged into.                  *)
Mergeable ==
  {m \in (SUBSET DOMAIN engines \ {{}}) \X Unused : MergesEmpty \/ LiveOf(m[1]) # 0}

(* A merge leaves "the total N unchanged": without the refresh.            *)
CompactUnrefreshed ==
  \E m \in Mergeable :
    /\ engines' = Merged(m[1], m[2]) /\ disk' = Image(Merged(m[1], m[2]))
    /\ missed' = FALSE
    /\ UNCHANGED <<wrapper, writer, stale, writable, enabled, faults>>

(* compact() of any open segments: their live documents become one segment *)
(* and the deleted ones leave the collection.                              *)
Compact ==
  \E m \in Mergeable :
    /\ Refreshed(Merged(m[1], m[2]), writer, wrapper, enabled)
    /\ disk' = Image(Merged(m[1], m[2]))
    /\ UNCHANGED <<writer, stale, writable, enabled, faults>>

(* It fails before the inputs are replaced.  What it has saved is the      *)
(* manifest with the generation it has taken, if that.                     *)
CompactUnmerged ==
  /\ DOMAIN engines # {} /\ Fault
  /\ disk' \in {disk, Image(engines)}
  /\ UNCHANGED <<engines, wrapper, writer, stale, writable, enabled, missed>>

(* The inputs are replaced in memory, and the manifest cannot be saved.    *)
CompactUnsaved ==
  /\ Fault
  /\ \E m \in Mergeable : engines' = Merged(m[1], m[2])
  /\ disk' = Image(engines)
  /\ missed' = TRUE
  /\ UNCHANGED <<wrapper, writer, stale, writable, enabled>>

(* set_global_stats(on) of an open index                                   *)
SetGlobalStats ==
  /\ enabled' \in BOOLEAN
  /\ Refreshed(engines, writer, wrapper, enabled')
  /\ UNCHANGED <<writer, stale, writable, disk, faults>>

(* rebuild_writer_engine(): a new view of the memory segment when it has   *)
(* changed, and the refresh that goes with it.                             *)
RebuildWriterEngine ==
  /\ stale' = FALSE
  /\ \/ ~stale /\ wrapper # NoEngine /\ UNCHANGED <<engines, wrapper, missed>>
     \/ /\ (stale \/ wrapper = NoEngine) /\ writer.docs = 0
        /\ wrapper' = NoEngine /\ UNCHANGED <<engines, missed>>
     \/ /\ (stale \/ wrapper = NoEngine) /\ writer.docs # 0
        /\ Refreshed(engines, writer, Engine(writer.docs, 0), enabled)

(* search(): of what it does only the new view of the memory segment stays. *)
Search ==
  /\ RebuildWriterEngine
  /\ UNCHANGED <<writer, writable, enabled, disk, faults>>

(* The index object is deleted and open()ed again, in relaxed mode: the    *)
(* memory segment is lost, each segment of the manifest gets a new engine. *)
(* (The tombstones that a rebuild of the keymap raises again are those of  *)
(* Tombstone steps after it.)                                              *)
Reopen ==
  /\ enabled' \in BOOLEAN
  /\ Refreshed([g \in DOMAIN disk |-> Engine(disk[g].docs, disk[g].dead)],
               NewWriter, NoEngine, enabled')
  /\ writer' = NewWriter /\ writable' = TRUE
  /\ stale' = TRUE
  /\ UNCHANGED <<disk, faults>>

Init ==
  /\ engines = [g \in {} |-> NoEngine]
  /\ writer = NewWriter /\ writable = TRUE
  /\ wrapper = NoEngine
  /\ stale = TRUE
  /\ enabled \in BOOLEAN
  /\ disk = Image(engines)
  /\ missed = FALSE
  /\ faults = 0

Next ==
  \/ Add \/ Tombstone \/ Search \/ SetGlobalStats \/ Reopen
  \/ Flush \/ FlushUnwritten \/ FlushUnfinished
  \/ Compact \/ CompactUnmerged \/ CompactUnsaved

Spec == Init /\ [][Next]_vars

-----------------------------------------------------------------------------
(* Properties *)

(* Types, and no more tombstones than documents: a document is counted     *)
(* dead once.                                                              *)
TypeOK ==
  /\ DOMAIN engines \subseteq Generations
  /\ \A g \in DOMAIN engines :
       /\ engines[g] \in [own : Nat, dead : Nat, documents : Nat, saved : Nat, ranked : Nat]
       /\ engines[g].dead <= engines[g].own
  /\ writer \in [docs : 0 .. MaxDocs, dead : 0 .. MaxDocs] /\ writer.dead <= writer.docs
  /\ wrapper \in [own : Nat, dead : Nat, documents : Nat, saved : Nat, ranked : Nat]
  /\ stale \in BOOLEAN /\ writable \in BOOLEAN /\ enabled \in BOOLEAN /\ missed \in BOOLEAN
  /\ DOMAIN disk \subseteq Generations
  /\ \A g \in DOMAIN disk : disk[g] \in [docs : Nat, dead : Nat] /\ disk[g].dead <= disk[g].docs

(* Between calls document_count() reports the engine's own documents to    *)
(* everything but the ranking function (set_global_document_statistics()): *)
(* get_document_count(), maintain()'s tiers and compact() rely on it.      *)
OwnCounts ==
  /\ \A g \in DOMAIN engines : engines[g].documents = engines[g].own
  /\ wrapper.documents = wrapper.own

(* Once a search has brought the view of the memory segment up to date,    *)
(* every engine ranks with the N of the whole collection as it is now (or, *)
(* with the feature off, with its own), whatever flushes, merges, toggles  *)
(* and reopenings came between, failed ones included; except from a        *)
(* flush() that fails with the memory segment gone, or a compact() with    *)
(* its inputs replaced, to the next refresh: they return before theirs.    *)
RankedGlobally ==
  ~stale /\ ~missed =>
    /\ \A g \in DOMAIN engines :
         engines[g].ranked = IF enabled THEN Stored ELSE engines[g].own
    /\ wrapper # NoEngine => wrapper.ranked = IF enabled THEN Stored ELSE wrapper.own
=============================================================================
