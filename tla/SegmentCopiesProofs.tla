----------------------- MODULE SegmentCopiesProofs -----------------------
(***************************************************************************)
(* A key has one live copy, the one the keymap names, and a merge writes   *)
(* only those; with the log off no crash brings an older one back, and     *)
(* with the log on the index implements DurableStore: for any keys,        *)
(* segments, thresholds and numbers of calls and crashes, as long as the   *)
(* process does not die in the windows, and the writes do not fail, in     *)
(* which the code is known to lose track.                                  *)
(***************************************************************************)
EXTENDS SegmentIndexProofs

(* flush() merges nothing, tombstones and the keymap's log are written,    *)
(* and the process does not die between the two halves of an update, or    *)
(* while the log says less than the segments.  With the log on, a flush()  *)
(* that has its segment on disk goes on, unharmed, to empty the log.       *)
Sheltered ==
  /\ ~AutoMaintain
  /\ FaultIn \cap {"tombstone", "keymapLog"} = {}
  /\ CrashIn \cap {"updating", "replaying", "exposed"} = {}
  /\ Durable => /\ "flushed" \notin CrashIn
                /\ FaultIn \cap {"register", "newWriter"} = {}

-----------------------------------------------------------------------------
(* Copies, one at a time *)

(* p is a document of key k in a segment of S, not among the tombstones.   *)
FlushedAt(p, k, S, st, f) ==
  /\ p.gen \in S /\ p.docid \in DOMAIN f[p.gen].docs \ st[p.gen]
  /\ f[p.gen].docs[p.docid].key = k

(* p is one in the memory segment w.                                       *)
BufferedAt(p, k, w) ==
  p.gen = w.gen /\ p.docid \in DOMAIN w.docs \ w.del /\ w.docs[p.docid].key = k

Live(p, k) == FlushedAt(p, k, Range(manifest.segs), stones, files) \/ BufferedAt(p, k, writer)

(* What a crash now leaves.                                                *)
SavedAt(p, k, S, f) ==
  /\ p.gen \in S /\ p.docid \in DOMAIN f[p.gen].docs \ f[p.gen].del
  /\ f[p.gen].docs[p.docid].key = k

OnDisk(p, k) == SavedAt(p, k, Range(disk.segs), files)

-----------------------------------------------------------------------------
(* The inductive invariant *)

(* The keymap is yet to be loaded, or rebuilt.                             *)
Loading == pc \in {"down", "rebuild"} \/ (pc = "sweep" /\ call.op = "rebuild")

(* The one copy, and in the middle of an update the one it replaces; while *)
(* a compaction swaps the lists, the inputs are still there.               *)
SingleCopy ==
  /\ ~Loading /\ pc # "unlist" =>
       \A k \in Keys, p \in Place :
         Live(p, k) => p = keymap[k] \/ (HalfUpdated /\ k = call.key /\ p = call.old)
  /\ pc = "unlist" =>
       \A k \in Keys, p \in Place :
         Live(p, k) => p = keymap[k] \/ p.gen \in Range(job.inputs)

(* The tombstones on disk are those in memory.                             *)
StonesSaved ==
  /\ pc \notin {"down", "saveStones"} => \A g \in DOMAIN stones : files[g].del = stones[g]
  /\ pc \in {"mark", "repoint", "unlist"} => files[job.out].del = {}

(* Where the saved list is the one in memory.                              *)
Synced == {"sweep", "retain", "rebuild", "saveStones", "openUnmark", "newWriter", "merge",
           "mark", "repoint", "dropInputs", "unmark", "truncate"}

(* A saved list that is behind is behind under a marker.                   *)
ListSaved ==
  /\ pc # "down" /\ ~marker => Range(disk.segs) \subseteq Range(manifest.segs)
  /\ pc \in Synced => disk.segs = manifest.segs
  /\ pc \in {"repoint", "unlist"} => marker

(* Only a marker makes open() rebuild the keymap.                          *)
RebuildMarked ==
  /\ pc \in {"rebuild", "saveStones"} => call.op = "rebuild"
  /\ pc \in {"sweep", "rebuild", "saveStones"} /\ call.op = "rebuild" => marker
  /\ ~logThere => disk.segs = <<>> /\ pc = "down"

(* Without one, a crash leaves a log that names the copies on disk.        *)
LogNamesCopies ==
  pc = "down" /\ ~marker => \A k \in Keys, p \in Place : OnDisk(p, k) => p = keymap[k]

(* What a call has found out about its key.                                *)
KeyLookedUp ==
  /\ pc = "index" => call.old = keymap[call.key]
  /\ pc = "index" /\ call.op = "add" => \A p \in Place : ~Live(p, call.key)
  /\ pc = "tombstone" /\ call.op = "delete" => call.old = keymap[call.key]
  /\ pc = "unmap" => \A p \in Place : ~Live(p, call.key)

(* Where a compaction, or the maintain() that asks for it, runs.           *)
Compacts == {"maintain", "takeOutput", "merge", "mark", "repoint", "unlist", "dropInputs",
             "unmark"}

(* The output of a compaction has the copies the keymap names in the       *)
(* inputs, and then the keymap names those in the output.                  *)
OutputCurrent ==
  /\ pc \in Compacts => call.op \in {"maintain", "compact"}
  /\ pc = "maintain" => call.op = "maintain"
  /\ pc \in {"mark", "repoint", "unlist"} => writer.gen \notin Range(job.inputs)
  /\ pc \in {"mark", "repoint"} =>
       LET docs == files[job.out].docs IN
       \A d \in DOMAIN docs :
         /\ keymap[docs[d].key].gen \in Range(job.inputs)
         /\ VersionAt(keymap[docs[d].key]) = docs[d].ver
         /\ \A e \in DOMAIN docs : docs[e].key = docs[d].key => e = d
  /\ pc = "unlist" =>
       LET docs == files[job.out].docs IN
       \A d \in DOMAIN docs : keymap[docs[d].key] = [gen |-> job.out, docid |-> d]

Unique ==
  /\ SingleCopy /\ StonesSaved /\ ListSaved /\ RebuildMarked /\ LogNamesCopies
  /\ KeyLookedUp /\ OutputCurrent

-----------------------------------------------------------------------------
(* The copies of Observed are the live ones                                *)

(* A place is among the copies when the document there is live.            *)
LEMMA CopiesAreLive ==
  Inv /\ Content => \A k : Copies(k) \subseteq Place /\ \A p \in Place : p \in Copies(k) <=> Live(p, k)
<1> SUFFICES ASSUME Inv, Content, NEW k
             PROVE  Copies(k) \subseteq Place /\ \A p \in Place : p \in Copies(k) <=> Live(p, k)
  OBVIOUS
<1>1. Copies(k) \subseteq Place
  BY CopiesAreDocs
<1>2. ASSUME NEW p \in Place
      PROVE  p \in Copies(k) <=> Live(p, k)
  <2>1. p = [gen |-> p.gen, docid |-> p.docid]
    BY DEF Place
  <2>2. \A g : p \in FlushedCopies(g, k) <=>
                 p.gen = g /\ p.docid \in LiveIn(g) /\ files[g].docs[p.docid].key = k
    BY <2>1 DEF FlushedCopies
  <2>3. p \in BufferedCopies(k) <=> BufferedAt(p, k, writer)
    BY <2>1 DEF BufferedCopies, BufferedAt, LiveInWriter
  <2>4. p \in Copies(k) <=>
          p \in BufferedCopies(k) \/ \E g \in Range(manifest.segs) : p \in FlushedCopies(g, k)
    BY DEF Copies
  <2> QED
    BY <2>2, <2>3, <2>4 DEF Live, FlushedAt, LiveIn
<1> QED
  BY <1>1, <1>2

(* No copy is of generation 0.                                             *)
LEMMA NoPlaceIsDead == ASSUME Inv, Content PROVE \A k : ~Live(NoPlace, k)
<1>1. NoPlace.gen = 0
  BY DEF NoPlace
<1>2. 0 \notin Range(manifest.segs)
  BY NoPlaceIsNowhere DEF Inv, Listed
<1>3. writer.gen = 0 => writer.docs = <<>>
  BY DEF Inv, WriterApart
<1>4. DOMAIN <<>> = {}
  OBVIOUS
<1> QED
  BY <1>1, <1>2, <1>3, <1>4 DEF Live, FlushedAt, BufferedAt

(* The steps that move no document: what is live stays so, or less.        *)
LEMMA LiveShrinks ==
  ASSUME Range(manifest'.segs) \subseteq Range(manifest.segs),
         UNCHANGED writer,
         \A g \in Range(manifest'.segs) : files'[g].docs = files[g].docs /\ stones[g] \subseteq stones'[g]
  PROVE  \A k, p : Live(p, k)' => Live(p, k)
  BY DEF Live, FlushedAt, BufferedAt

(* An update is carried on with, or was not halfway.                       *)
Carried == HalfUpdated => HalfUpdated' /\ call'.key = call.key /\ call'.old = call.old

(* No key gains a copy by a step that moves none.                          *)
LEMMA SingleStays ==
  ASSUME SingleCopy, ~Loading, pc # "unlist", pc' # "unlist", UNCHANGED keymap, Carried,
         \A k \in Keys, p \in Place : Live(p, k)' => Live(p, k)
  PROVE  SingleCopy'
  BY DEF SingleCopy, Carried

(* Where the invariant asks for something.                                 *)
Asking == {"down", "sweep", "retain", "rebuild", "saveStones", "openUnmark", "newWriter",
           "mark", "repoint", "unlist", "dropInputs", "unmark", "unmap"}

(* Nor by one that only moves on.                                          *)
LEMMA SameContent ==
  ASSUME Unique, UNCHANGED <<disk, files, keymap, logThere, marker, manifest, stones, writer>>,
         ~Loading, pc \notin {"down", "saveStones", "unlist"}, pc' \notin Asking, Carried,
         pc' \in {"truncate", "merge"} => disk.segs = manifest.segs,
         pc' \in Compacts => call'.op \in {"maintain", "compact"},
         pc' = "maintain" => call'.op = "maintain",
         pc' = "index" => call'.old = keymap[call'.key],
         pc' = "index" /\ call'.op = "add" => \A p \in Place : ~Live(p, call'.key),
         pc' = "tombstone" /\ call'.op = "delete" => call'.old = keymap[call'.key]
  PROVE  Unique'
<1>1. \A k, p : Live(p, k)' <=> Live(p, k)
  BY DEF Live, FlushedAt, BufferedAt
<1>2. SingleCopy'
  BY <1>1, SingleStays DEF Asking, Unique
<1>3. StonesSaved' /\ ListSaved' /\ RebuildMarked' /\ LogNamesCopies' /\ OutputCurrent'
  BY DEF Unique, StonesSaved, ListSaved, RebuildMarked, LogNamesCopies, OutputCurrent, Asking,
         Synced
<1>4. KeyLookedUp'
  BY <1>1 DEF KeyLookedUp, Asking
<1> QED
  BY <1>2, <1>3, <1>4 DEF Unique

(* An index that was never opened has no copies.                           *)
LEMMA InitUnique == Init => Unique
<1> SUFFICES ASSUME Init PROVE Unique
  OBVIOUS
<1>1. Range(<<>>) = {}
  BY DEF Range
<1>2. \A k, p : ~OnDisk(p, k)
  BY <1>1 DEF Init, OnDisk, SavedAt
<1> QED
  BY <1>2 DEF Init, Unique, SingleCopy, StonesSaved, ListSaved, RebuildMarked, LogNamesCopies,
              KeyLookedUp, OutputCurrent, Loading, NoCall, Compacts, Synced

-----------------------------------------------------------------------------
(* add_document(), update_document(), delete_document()                    *)

(* The copy that a call indexes is the only new one.                       *)
LEMMA IndexedLive ==
  ASSUME Inv, Content, IndexDocument
  PROVE  \A k \in Keys, p \in Place :
           Live(p, k)' => \/ Live(p, k)
                          \/ k = call.key /\ p = [gen |-> writer.gen, docid |-> Len(writer.docs) + 1]
<1> USE DEF IndexDocument, Step, Goto, budget
<1> DEFINE doc == [key |-> call.key, ver |-> call.ver]
           n == Len(writer.docs)
           new == [gen |-> writer.gen, docid |-> n + 1]
<1>1. UNCHANGED <<files, manifest, stones>> /\ pc = "index"
  OBVIOUS
<1>2. call.key \in Keys
  BY DEF Inv, CallsNamed
<1>3. /\ writer'.gen = writer.gen /\ writer'.del = writer.del
      /\ writer'.docs = Append(writer.docs, doc)
  BY DEF Inv, Shapes
<1>4. /\ n \in Nat /\ DOMAIN writer.docs = 1 .. n /\ DOMAIN writer'.docs = 1 .. n + 1
      /\ writer'.docs[n + 1] = doc /\ \A i \in 1 .. n : writer'.docs[i] = writer.docs[i]
  <2>1. writer.docs \in Seq(Doc) /\ doc \in Doc
    BY <1>2 DEF Content, Stored, Doc, Inv, Shapes, CatalogueTypeOK
  <2> QED
    BY <1>3, <2>1, AppendProperties, LenProperties
<1> HIDE DEF IndexDocument, n
<1> SUFFICES ASSUME NEW k \in Keys, NEW p \in Place, Live(p, k)'
             PROVE  Live(p, k) \/ (k = call.key /\ p = new)
  BY DEF n
<1>5. CASE FlushedAt(p, k, Range(manifest.segs), stones, files)'
  BY <1>1, <1>5 DEF Live, FlushedAt
<1>6. CASE BufferedAt(p, k, writer)' /\ p.docid \in 1 .. n
  BY <1>3, <1>4, <1>6 DEF Live, BufferedAt
<1>7. CASE BufferedAt(p, k, writer)' /\ p.docid = n + 1
  <2>1. p.gen = writer.gen /\ k = call.key
    BY <1>3, <1>4, <1>7 DEF BufferedAt
  <2> QED
    BY <1>7, <2>1 DEF Place
<1> QED
  BY <1>4, <1>5, <1>6, <1>7 DEF Live, BufferedAt

(* The new copy is the one the keymap names; what there was is old.        *)
LEMMA IndexDocumentUnique == ASSUME Inv, Content, Unique, IndexDocument PROVE Unique'
<1> DEFINE new == [gen |-> writer.gen, docid |-> Len(writer.docs) + 1]
<1>1. /\ pc = "index" /\ pc' = "logAdd"
      /\ UNCHANGED <<disk, files, logThere, marker, manifest, stones, call>>
      /\ keymap' = [keymap EXCEPT ![call.key] = new]
  BY DEF IndexDocument, Step, Goto, budget
<1>2. call.key \in Keys /\ call.op \in {"add", "update"} /\ DOMAIN keymap = Keys
  BY <1>1 DEF Inv, CallsNamed, Shapes, CatalogueTypeOK
<1> HIDE DEF new
<1>3. \A k \in Keys, p \in Place : Live(p, k)' => Live(p, k) \/ (k = call.key /\ p = new)
  BY IndexedLive DEF new
<1>4. SingleCopy'
  <2> SUFFICES ASSUME NEW k \in Keys, NEW p \in Place, Live(p, k)'
               PROVE  p = keymap'[k] \/ (HalfUpdated' /\ k = call'.key /\ p = call'.old)
    BY <1>1 DEF SingleCopy
  <2>1. CASE k = call.key /\ p = new
    BY <1>1, <1>2, <2>1
  <2>2. CASE Live(p, k)
    <3>1. p = keymap[k] /\ (k = call.key => call.op = "update" /\ p = call.old)
      BY <1>1, <1>2, <2>2 DEF Unique, SingleCopy, KeyLookedUp, Loading, HalfUpdated
    <3>2. CASE k = call.key
      BY <1>1, <3>1, <3>2 DEF HalfUpdated
    <3>3. CASE k # call.key
      BY <1>1, <1>2, <3>1, <3>3
    <3> QED
      BY <3>2, <3>3
  <2> QED
    BY <1>3, <2>1, <2>2
<1>5. StonesSaved' /\ ListSaved' /\ RebuildMarked' /\ LogNamesCopies' /\ OutputCurrent' /\ KeyLookedUp'
  BY <1>1 DEF Unique, StonesSaved, ListSaved, RebuildMarked, LogNamesCopies, OutputCurrent,
              KeyLookedUp, Compacts, Synced
<1> QED
  BY <1>4, <1>5 DEF Unique

(* The log says nothing about copies.                                      *)
LEMMA LogUnique == ASSUME Inv, Content, Unique, LogAdd \/ LogUpdate \/ LogDelete PROVE Unique'
<1> USE DEF LogAdd, LogUpdate, LogDelete, Step, Goto, AfterAdd, Return, budget, memory, NoCall
<1>1. /\ pc \in {"logAdd", "logUpdate", "logDelete"}
      /\ pc' \in {"flush", "logUpdate", "tombstone", "replay", "ready"}
      /\ UNCHANGED <<disk, files, keymap, logThere, marker, manifest, stones, writer>>
  OBVIOUS
<1>2. pc' = "tombstone" => call'.op \in {"add", "update"}
  BY DEF Inv, CallsNamed
<1>3. Carried
  BY DEF Carried, HalfUpdated, Inv, CallsNamed
<1> HIDE DEF LogAdd, LogUpdate, LogDelete
<1> QED
  BY <1>1, <1>2, <1>3, SameContent DEF Loading, Asking, Compacts

(* A tombstone that is not written is one for a segment that is not open,  *)
(* so that the copy is dead either way, and no other.                      *)
LEMMA TombstoneBuries ==
  ASSUME Sheltered, Inv, Content, pc = "tombstone", Unique, NEW q \in Place, NEW ok \in BOOLEAN,
         Tombstone(q, ok), UNCHANGED <<disk, manifest>>
  PROVE  /\ \A k, p : p \in Place => (Live(p, k)' <=> Live(p, k) /\ p # q)
         /\ \A k, p : p \in Place => (OnDisk(p, k)' => OnDisk(p, k))
         /\ \A g \in DOMAIN stones' : files'[g].del = stones'[g]
         /\ writer'.gen = writer.gen
         /\ \A g \in DOMAIN files :
              \/ files'[g] = files[g]
              \/ /\ g \in Range(manifest.segs) /\ files'[g].docs = files[g].docs
                 /\ files[g].del \subseteq files'[g].del
<1>1. \A p \in Place : p = q <=> p.gen = q.gen /\ p.docid = q.docid
  BY DEF Place
<1>2. /\ \A g \in Range(manifest.segs) : g \in DOMAIN stones /\ g \in DOMAIN files /\ g # writer.gen
      /\ DOMAIN stones \subseteq DOMAIN files
      /\ \A g \in DOMAIN stones : files[g].del = stones[g]
  BY DEF Inv, WriterApart, Listed, Content, Stored, Unique, StonesSaved
<1>3. Range(disk.segs) \subseteq DOMAIN files
  BY DEF Inv, Listed
<1>4. CASE q.gen # 0 /\ q.gen = writer.gen
  <2>1. /\ writer'.gen = writer.gen /\ writer'.docs = writer.docs
        /\ writer'.del = writer.del \cup {q.docid} /\ UNCHANGED <<files, stones>>
    BY <1>4 DEF Tombstone, Inv, Shapes
  <2>2. \A k, p : p \in Place =>
          (BufferedAt(p, k, writer)' <=> BufferedAt(p, k, writer) /\ p # q)
    BY <1>1, <1>4, <2>1 DEF BufferedAt
  <2>3. \A k, p : FlushedAt(p, k, Range(manifest.segs), stones, files) => p # q
    BY <1>2, <1>4 DEF FlushedAt
  <2> QED
    BY <1>2, <2>1, <2>2, <2>3 DEF Live, FlushedAt, OnDisk, SavedAt
<1>5. CASE ~(q.gen # 0 /\ q.gen = writer.gen) /\ q.gen \in Range(manifest.segs)
  <2> DEFINE bits == stones[q.gen] \cup {q.docid}
  <2>1. /\ UNCHANGED writer /\ stones' = [stones EXCEPT ![q.gen] = bits]
        /\ files' = [files EXCEPT ![q.gen].del = bits]
    BY <1>5 DEF Tombstone, Fault, Sheltered
  <2>2. /\ DOMAIN stones' = DOMAIN stones /\ stones'[q.gen] = bits
        /\ \A g \in DOMAIN stones : g # q.gen => stones'[g] = stones[g]
        /\ \A g \in DOMAIN files : g # q.gen => files'[g] = files[g]
        /\ files'[q.gen].docs = files[q.gen].docs /\ files'[q.gen].del = bits
        /\ files[q.gen].del = stones[q.gen]
    <3>1. files[q.gen] \in Segment /\ q.gen \in DOMAIN files /\ q.gen \in DOMAIN stones
      BY <1>2, <1>5 DEF Content, Stored
    <3> QED
      BY <1>2, <2>1, <3>1 DEF Segment
  <2> HIDE DEF bits
  <2>3. \A k, p : p \in Place =>
          (FlushedAt(p, k, Range(manifest.segs), stones, files)'
             <=> FlushedAt(p, k, Range(manifest.segs), stones, files) /\ p # q)
    <3> SUFFICES ASSUME NEW k, NEW p \in Place
                 PROVE  FlushedAt(p, k, Range(manifest.segs), stones, files)'
                          <=> FlushedAt(p, k, Range(manifest.segs), stones, files) /\ p # q
      OBVIOUS
    <3>1. CASE p.gen = q.gen
      BY <1>1, <2>2, <3>1 DEF FlushedAt, bits
    <3>2. CASE p.gen # q.gen
      BY <1>2, <2>2, <3>2 DEF FlushedAt
    <3> QED
      BY <3>1, <3>2
  <2>4. \A k, p : BufferedAt(p, k, writer) => p # q
    BY <1>2, <1>5 DEF BufferedAt
  <2>5. \A k, p : OnDisk(p, k)' => OnDisk(p, k)
    <3> SUFFICES ASSUME NEW k, NEW p, OnDisk(p, k)' PROVE OnDisk(p, k)
      OBVIOUS
    <3>1. CASE p.gen = q.gen
      BY <2>2, <3>1 DEF OnDisk, SavedAt, bits
    <3>2. CASE p.gen # q.gen
      BY <1>3, <2>2, <3>2 DEF OnDisk, SavedAt
    <3> QED
      BY <3>1, <3>2
  <2>6. \A g \in DOMAIN stones' : files'[g].del = stones'[g]
    BY <1>2, <2>2
  <2>7. \A g \in DOMAIN files :
          files'[g] = files[g] \/ (/\ g \in Range(manifest.segs) /\ files'[g].docs = files[g].docs
                                  /\ files[g].del \subseteq files'[g].del)
    BY <1>5, <2>2 DEF bits
  <2> QED
    BY <2>1, <2>3, <2>4, <2>5, <2>6, <2>7 DEF Live, BufferedAt
<1>6. CASE ~(q.gen # 0 /\ q.gen = writer.gen) /\ q.gen \notin Range(manifest.segs)
  <2>1. UNCHANGED <<files, stones, writer>>
    BY <1>6 DEF Tombstone
  <2>2. \A k : ~Live(q, k)
    <3>1. writer.gen = 0 => DOMAIN writer.docs = {}
      BY DEF Inv, WriterApart
    <3> QED
      BY <1>6, <3>1 DEF Live, FlushedAt, BufferedAt
  <2>3. \A k, p : Live(p, k)' <=> Live(p, k)
    BY <2>1 DEF Live, FlushedAt, BufferedAt
  <2>4. \A k, p : OnDisk(p, k)' <=> OnDisk(p, k)
    BY <2>1 DEF OnDisk, SavedAt
  <2> QED
    BY <1>2, <2>1, <2>2, <2>3, <2>4
<1> QED
  BY <1>4, <1>5, <1>6

(* The copy an update replaces is dead when it returns.                    *)
LEMMA TombstoneOldUnique ==
  ASSUME Sheltered, Inv, Content, Unique, TombstoneOld
  PROVE  Unique'
<1> USE DEF TombstoneOld, Goto, Return
<1>1. /\ pc = "tombstone" /\ call.op = "update" /\ pc' \in {"replay", "ready"}
      /\ UNCHANGED <<disk, keymap, logThere, marker, manifest>>
      /\ pc' = "ready" => call' = NoCall
  OBVIOUS
<1>2. call.old \in Place
  BY DEF Content, PlacesKept
<1>3. /\ \A k, p : p \in Place => (Live(p, k)' => Live(p, k) /\ p # call.old)
      /\ \A g \in DOMAIN stones' : files'[g].del = stones'[g]
  <2>1. CASE call.old = NoPlace
    <3>1. UNCHANGED <<files, stones, writer>>
      BY <2>1
    <3>2. \A k, p : Live(p, k)' => Live(p, k)
      BY <1>1, <3>1 DEF Live, FlushedAt, BufferedAt
    <3> QED
      BY <1>1, <2>1, <3>1, <3>2, NoPlaceIsDead DEF Unique, StonesSaved
  <2>2. CASE call.old # NoPlace
    BY <1>1, <1>2, <2>2, TombstoneBuries
  <2> QED
    BY <2>1, <2>2
<1> HIDE DEF TombstoneOld
<1>4. SingleCopy'
  BY <1>1, <1>3 DEF Unique, SingleCopy, Loading
<1>5. StonesSaved' /\ ListSaved' /\ RebuildMarked' /\ LogNamesCopies' /\ OutputCurrent' /\ KeyLookedUp'
  BY <1>1, <1>3 DEF Unique, StonesSaved, ListSaved, RebuildMarked, LogNamesCopies,
                    OutputCurrent, KeyLookedUp, Compacts, Synced
<1> QED
  BY <1>4, <1>5 DEF Unique

(* A deleted document had no other copy.                                   *)
LEMMA TombstoneDeletedUnique ==
  ASSUME Sheltered, Inv, Content, Unique, TombstoneDeleted
  PROVE  Unique'
<1> USE DEF TombstoneDeleted, Goto, Return
<1>1. /\ pc = "tombstone" /\ call.op = "delete" /\ pc' \in {"unmap", "replay", "ready"}
      /\ UNCHANGED <<disk, keymap, logThere, marker, manifest>>
      /\ pc' = "ready" => call' = NoCall
      /\ pc' # "ready" => call' = call
  OBVIOUS
<1>2. call.old \in Place /\ call.old = keymap[call.key] /\ call.key \in Keys
  BY <1>1 DEF Content, PlacesKept, Unique, KeyLookedUp, Inv, CallsNamed
<1>3. /\ \A k, p : p \in Place => (Live(p, k)' => Live(p, k) /\ p # call.old)
      /\ \A g \in DOMAIN stones' : files'[g].del = stones'[g]
  BY <1>1, <1>2, TombstoneBuries
<1> HIDE DEF TombstoneDeleted
<1>4. SingleCopy'
  BY <1>1, <1>3 DEF Unique, SingleCopy, Loading, HalfUpdated
<1>5. \A k, p : p \in Place /\ k = call.key => ~Live(p, k)'
  BY <1>1, <1>2, <1>3 DEF Unique, SingleCopy, Loading, HalfUpdated
<1>6. StonesSaved' /\ ListSaved' /\ RebuildMarked' /\ LogNamesCopies' /\ OutputCurrent' /\ KeyLookedUp'
  BY <1>1, <1>3, <1>5 DEF Unique, StonesSaved, ListSaved, RebuildMarked, LogNamesCopies,
                    OutputCurrent, KeyLookedUp, Compacts, Synced
<1> QED
  BY <1>4, <1>6 DEF Unique

(* A key without a copy needs no place.                                    *)
LEMMA UnmapUnique == ASSUME Inv, Content, Unique, Unmap PROVE Unique'
<1> USE DEF Unmap, Step, Goto, memory, budget
<1>1. /\ pc = "unmap" /\ pc' = "logDelete"
      /\ UNCHANGED <<disk, files, logThere, marker, manifest, stones, writer, call>>
      /\ keymap' = [keymap EXCEPT ![call.key] = NoPlace]
  OBVIOUS
<1>2. call.op = "delete" /\ DOMAIN keymap = Keys
  BY <1>1 DEF Inv, CallsNamed, Shapes, CatalogueTypeOK
<1>3. \A k, p : Live(p, k)' <=> Live(p, k)
  BY <1>1 DEF Live, FlushedAt, BufferedAt
<1>4. SingleCopy'
  <2> SUFFICES ASSUME NEW k \in Keys, NEW p \in Place, Live(p, k)
               PROVE  p = keymap'[k]
    BY <1>1, <1>3 DEF SingleCopy
  <2>1. k # call.key
    BY <1>1 DEF Unique, KeyLookedUp
  <2>2. p = keymap[k]
    BY <1>1, <1>2 DEF Unique, SingleCopy, Loading, HalfUpdated
  <2> QED
    BY <1>1, <1>2, <2>1, <2>2
<1>5. StonesSaved' /\ ListSaved' /\ RebuildMarked' /\ LogNamesCopies' /\ OutputCurrent' /\ KeyLookedUp'
  BY <1>1 DEF Unique, StonesSaved, ListSaved, RebuildMarked, LogNamesCopies, OutputCurrent,
              KeyLookedUp, Compacts, Synced
<1> QED
  BY <1>4, <1>5 DEF Unique

-----------------------------------------------------------------------------
(* flush()                                                                 *)

(* A file that nothing lists shows nothing.                                *)
LEMMA WriteSegmentUnique == ASSUME Inv, Content, Unique, WriteSegment PROVE Unique'
<1> USE DEF WriteSegment, Step, Goto, AfterFlush, AfterAdd, Return, memory, budget, NoCall
<1>1. CASE writer.docs = <<>>
  <2>1. /\ pc = "flush" /\ pc' \in {"logUpdate", "replay", "ready"}
        /\ UNCHANGED <<disk, files, keymap, logThere, marker, manifest, stones, writer>>
    BY <1>1
  <2>2. Carried
    BY <1>1 DEF Carried, HalfUpdated
  <2> HIDE DEF WriteSegment
  <2> QED
    BY <2>1, <2>2, SameContent DEF Loading, Asking, Compacts
<1>2. CASE writer.docs # <<>>
  <2>1. /\ pc = "flush" /\ pc' = "register"
        /\ UNCHANGED <<disk, keymap, logThere, marker, manifest, stones, writer, call>>
        /\ files' = Put(files, writer.gen, [docs |-> writer.docs, del |-> writer.del])
    BY <1>2
  <2>2. \A g \in DOMAIN files : g # writer.gen => files'[g] = files[g]
    BY <2>1 DEF Put
  <2>3. /\ \A g \in Range(manifest.segs) : g \in DOMAIN files /\ g # writer.gen
        /\ \A g \in DOMAIN stones : g \in DOMAIN files /\ g # writer.gen
    BY DEF Inv, Listed, WriterApart, Content, Stored, WriterUnopened
  <2> HIDE DEF WriteSegment
  <2>4. \A k, p : Live(p, k)' => Live(p, k)
    BY <2>1, <2>2, <2>3 DEF Live, FlushedAt, BufferedAt
  <2>5. SingleCopy'
    BY <2>1, <2>4, SingleStays DEF Unique, Loading, Carried, HalfUpdated
  <2>6. StonesSaved'
    BY <2>1, <2>2, <2>3 DEF Unique, StonesSaved
  <2>7. ListSaved' /\ RebuildMarked' /\ LogNamesCopies' /\ OutputCurrent' /\ KeyLookedUp'
    BY <2>1 DEF Unique, ListSaved, RebuildMarked, LogNamesCopies, OutputCurrent, KeyLookedUp,
                Compacts, Synced
  <2> QED
    BY <2>5, <2>6, <2>7 DEF Unique
<1> QED
  BY <1>1, <1>2

(* A segment that is registered, if it opens, has the live documents that  *)
(* the memory segment had.                                                 *)
LEMMA RegisteredLive ==
  ASSUME Inv, Content, RegisterSegment
  PROVE  /\ \A k, p : Live(p, k)' => Live(p, k)
         /\ UNCHANGED <<manifest, stones>> \/
              /\ Range(manifest'.segs) = Range(manifest.segs) \cup {writer.gen}
              /\ \A g \in DOMAIN stones' :
                   IF g = writer.gen THEN stones'[g] = files[g].del
                   ELSE g \in DOMAIN stones /\ stones'[g] = stones[g]
<1> USE DEF RegisterSegment, Goto
<1>1. pc = "register" /\ writer' = NoWriter /\ UNCHANGED files
  OBVIOUS
<1>2. \/ UNCHANGED <<manifest, stones>>
      \/ /\ manifest' = [manifest EXCEPT !.segs = Append(@, writer.gen)]
         /\ stones' = Put(stones, writer.gen, writer.del)
  OBVIOUS
<1> HIDE DEF RegisterSegment
<1>3. \A k, p : ~BufferedAt(p, k, writer')
  BY <1>1 DEF BufferedAt, NoWriter
<1>4. CASE UNCHANGED <<manifest, stones>>
  BY <1>1, <1>3, <1>4 DEF Live, FlushedAt
<1>5. CASE /\ manifest' = [manifest EXCEPT !.segs = Append(@, writer.gen)]
           /\ stones' = Put(stones, writer.gen, writer.del)
  <2>1. Range(manifest'.segs) = Range(manifest.segs) \cup {writer.gen}
    <3>1. manifest.segs \in Seq(Nat) /\ writer.gen \in Nat
      BY GenerationsAreNumbers
    <3>2. manifest'.segs = Append(manifest.segs, writer.gen)
      BY <1>5 DEF Inv, Shapes, CatalogueTypeOK, Catalogue
    <3> QED
      BY <3>1, <3>2, AppendRange
  <2>2. /\ DOMAIN stones' = DOMAIN stones \cup {writer.gen} /\ stones'[writer.gen] = writer.del
        /\ \A g \in DOMAIN stones : g # writer.gen => stones'[g] = stones[g]
    BY <1>5 DEF Put
  <2>3. files[writer.gen].docs = writer.docs /\ files[writer.gen].del = writer.del
    BY <1>1 DEF Content, WriterUnopened
  <2>4. \A g \in Range(manifest.segs) : g \in DOMAIN stones /\ g # writer.gen
    BY DEF Inv, WriterApart, Content, Stored
  <2>5. ASSUME NEW k, NEW p, FlushedAt(p, k, Range(manifest'.segs), stones', files')
        PROVE  Live(p, k)
    <3>1. CASE p.gen = writer.gen
      BY <1>1, <2>2, <2>3, <2>5, <3>1 DEF FlushedAt, BufferedAt, Live
    <3>2. CASE p.gen # writer.gen
      BY <1>1, <2>1, <2>2, <2>4, <2>5, <3>2 DEF FlushedAt, Live
    <3> QED
      BY <3>1, <3>2
  <2> QED
    BY <1>3, <2>1, <2>2, <2>3, <2>5 DEF Live
<1> QED
  BY <1>2, <1>4, <1>5

(* Registered or not, no key has gained a copy.                            *)
LEMMA RegisterSegmentUnique == ASSUME Inv, Content, Unique, RegisterSegment PROVE Unique'
<1>1. /\ pc = "register" /\ pc' \in {"newWriter", "logUpdate", "replay", "ready"}
      /\ UNCHANGED <<files, keymap, logThere, marker>>
      /\ pc' = "newWriter" => disk' = manifest' /\ UNCHANGED call
      /\ disk' = manifest' \/ disk' = disk
      /\ disk' = manifest' => Range(disk'.segs) \subseteq Range(manifest'.segs)
  BY DEF RegisterSegment, Goto, AfterFlush, AfterAdd, Return
<1>2. Carried
  BY DEF Carried, HalfUpdated, RegisterSegment, Goto, AfterFlush, AfterAdd, Return, NoCall
<1>3. /\ \A k, p : Live(p, k)' => Live(p, k)
      /\ UNCHANGED <<manifest, stones>> \/
           /\ Range(manifest'.segs) = Range(manifest.segs) \cup {writer.gen}
           /\ \A g \in DOMAIN stones' :
                IF g = writer.gen THEN stones'[g] = files[g].del
                ELSE g \in DOMAIN stones /\ stones'[g] = stones[g]
  BY RegisteredLive
<1>4. SingleCopy'
  BY <1>1, <1>2, <1>3, SingleStays DEF Unique, Loading
<1>5. StonesSaved'
  BY <1>1, <1>3 DEF Unique, StonesSaved
<1>6. ListSaved'
  BY <1>1, <1>3 DEF Unique, ListSaved, Synced
<1>7. RebuildMarked' /\ LogNamesCopies' /\ OutputCurrent' /\ KeyLookedUp'
  BY <1>1 DEF Unique, RebuildMarked, LogNamesCopies, OutputCurrent, KeyLookedUp, Compacts
<1> QED
  BY <1>4, <1>5, <1>6, <1>7 DEF Unique

(* What a list that is not behind lists, and is alive on disk, is alive.   *)
LEMMA SavedIsLive ==
  ASSUME Inv, Content, Unique, pc \notin {"down", "saveStones"},
         Range(disk.segs) \subseteq Range(manifest.segs)
  PROVE  \A k, p : OnDisk(p, k) => Live(p, k)
<1>1. \A g \in Range(manifest.segs) : files[g].del = stones[g]
  BY DEF Unique, StonesSaved, Content, Stored
<1> QED
  BY <1>1 DEF OnDisk, SavedAt, Live, FlushedAt

(* The new memory segment is empty.                                        *)
LEMMA StartNewWriterUnique ==
  ASSUME Sheltered, Inv, Content, Unique, StartNewWriter
  PROVE  Unique'
<1> USE DEF StartNewWriter, Goto, AfterFlush, AfterAdd, Return, NoCall
<1>1. /\ pc = "newWriter" /\ pc' \in {"replay", "ready", "truncate", "down", "logUpdate"}
      /\ UNCHANGED <<files, keymap, logThere, marker, stones>>
      /\ pc' = "down" => call.op = "open"
      /\ pc' = "truncate" => disk' = manifest' /\ call' = call
      /\ disk' = manifest' \/ (disk' = disk /\ UNCHANGED writer)
  BY DEF Sheltered, ModesAssumption
<1>2. pc' # "down" => Carried
  BY DEF Carried, HalfUpdated, Sheltered
<1>3. manifest'.segs = manifest.segs
  BY GenerationsAreNumbers DEF Inv, Shapes, CatalogueTypeOK, Catalogue
<1>4. writer' = writer \/ writer'.docs = <<>>
  OBVIOUS
<1> HIDE DEF StartNewWriter
<1>5. disk.segs = manifest.segs
  BY <1>1 DEF Unique, ListSaved, Synced
<1>6. \A k, p : Live(p, k)' => Live(p, k)
  <2>1. \A k, p : BufferedAt(p, k, writer') => BufferedAt(p, k, writer)
    BY <1>4 DEF BufferedAt
  <2> QED
    BY <1>1, <1>3, <2>1 DEF Live, FlushedAt
<1>7. SingleCopy'
  <2>1. CASE pc' = "down"
    BY <2>1 DEF SingleCopy, Loading
  <2>2. CASE pc' # "down"
    BY <1>1, <1>2, <1>6, <2>2, SingleStays DEF Unique, Loading
  <2> QED
    BY <2>1, <2>2
<1>8. StonesSaved' /\ ListSaved' /\ RebuildMarked' /\ OutputCurrent' /\ KeyLookedUp'
  BY <1>1, <1>3, <1>5 DEF Unique, StonesSaved, ListSaved, RebuildMarked, OutputCurrent,
                          KeyLookedUp, Compacts, Synced
<1>9. LogNamesCopies'
  <2> SUFFICES ASSUME pc' = "down", NEW k \in Keys, NEW p \in Place, OnDisk(p, k)'
               PROVE  p = keymap'[k]
    BY DEF LogNamesCopies
  <2>1. OnDisk(p, k)
    BY <1>1, <1>3, <1>5 DEF OnDisk, SavedAt
  <2>2. Live(p, k)
    BY <1>1, <1>5, <2>1, SavedIsLive
  <2> QED
    BY <1>1, <2>2 DEF Unique, SingleCopy, Loading, HalfUpdated
<1> QED
  BY <1>7, <1>8, <1>9 DEF Unique

(* The log is not where the copies are.                                    *)
LEMMA TruncateWalUnique == ASSUME Inv, Content, Unique, TruncateWal PROVE Unique'
<1> USE DEF TruncateWal, Goto, AfterFlush, AfterAdd, Return, NoCall
<1>1. /\ pc = "truncate" /\ pc' \in {"logUpdate", "replay", "ready"}
      /\ UNCHANGED <<disk, files, keymap, logThere, marker, manifest, stones, writer>>
  OBVIOUS
<1>2. Carried
  BY DEF Carried, HalfUpdated
<1> HIDE DEF TruncateWal
<1> QED
  BY <1>1, <1>2, SameContent DEF Loading, Asking, Compacts

-----------------------------------------------------------------------------
(* maintain() and compact()                                                *)

(* Choosing what to merge merges nothing.                                  *)
LEMMA MaintainUnique == ASSUME Inv, Content, Unique, Maintain PROVE Unique'
<1> USE DEF Maintain, EndMaintain, Enter, Goto, Return, disks, memory, NoCall
<1>1. /\ pc = "maintain" /\ call.op = "maintain" /\ pc' \in {"takeOutput", "replay", "ready"}
      /\ UNCHANGED <<disk, files, keymap, logThere, marker, manifest, stones, writer>>
      /\ pc' = "takeOutput" => call' = call
  BY DEF Unique, OutputCurrent
<1> HIDE DEF Maintain
<1>2. Carried
  BY <1>1 DEF Carried, HalfUpdated
<1> QED
  BY <1>1, <1>2, SameContent DEF Loading, Asking, Compacts

(* Nothing waits for a compaction but the call that asked for it.          *)
LEMMA CompactGivesUp ==
  ASSUME Unique, pc \in Compacts, Goto(CompactFailed)
  PROVE  /\ pc' \in {"replay", "ready"} /\ Carried /\ ~HalfUpdated
         /\ pc' = "ready" => call' = NoCall
<1>1. call.op \in {"maintain", "compact"}
  BY DEF Unique, OutputCurrent
<1> QED
  BY <1>1 DEF Goto, CompactFailed, Return, Carried, HalfUpdated

(* The number of the output is saved with the list as it is.               *)
LEMMA TakeOutputUnique == ASSUME Inv, Content, Unique, TakeOutput PROVE Unique'
<1>1. /\ pc = "takeOutput" /\ UNCHANGED <<files, keymap, logThere, marker, stones, writer>>
      /\ manifest'.segs = manifest.segs
  BY GenerationsAreNumbers DEF TakeOutput, Inv, Shapes, CatalogueTypeOK, Catalogue
<1>2. call.op \in {"maintain", "compact"}
  BY <1>1 DEF Unique, OutputCurrent, Compacts
<1>3. \A k, p : Live(p, k)' <=> Live(p, k)
  BY <1>1 DEF Live, FlushedAt, BufferedAt
<1>4. \/ disk' = manifest' /\ pc' = "merge" /\ UNCHANGED call
      \/ disk' = disk /\ Goto(CompactFailed)
  BY DEF TakeOutput, Enter
<1>5. /\ pc' \in {"merge", "replay", "ready"} /\ Carried
      /\ pc' = "merge" => UNCHANGED call
      /\ disk'.segs \in {disk.segs, manifest'.segs} /\ (pc' = "merge" => disk' = manifest')
  BY <1>1, <1>2, <1>4, CompactGivesUp DEF Carried, HalfUpdated, Compacts
<1>6. SingleCopy'
  BY <1>1, <1>3, <1>5, SingleStays DEF Unique, Loading
<1>7. StonesSaved' /\ ListSaved' /\ RebuildMarked' /\ LogNamesCopies' /\ OutputCurrent' /\ KeyLookedUp'
  BY <1>1, <1>2, <1>5 DEF Unique, StonesSaved, ListSaved, RebuildMarked, LogNamesCopies,
                          OutputCurrent, KeyLookedUp, Compacts, Synced
<1> QED
  BY <1>6, <1>7 DEF Unique

(* The live documents of the inputs are the ones the keymap names.         *)
LEMMA MergeUnique == ASSUME Inv, Content, Unique, Merge PROVE Unique'
<1>1. pc = "merge" /\ UNCHANGED <<disk, keymap, logThere, marker, manifest, stones, writer>>
  BY DEF Merge, memory
<1>2. call.op \in {"maintain", "compact"} /\ disk.segs = manifest.segs
  BY <1>1 DEF Unique, OutputCurrent, ListSaved, Compacts, Synced
<1>3. CASE /\ files' = Put(files, job.out, [docs |-> Merged(job.inputs), del |-> {}])
           /\ Goto("mark")
  <2> DEFINE docs == Merged(job.inputs)
  <2>1. pc' = "mark" /\ UNCHANGED <<call, job>>
    BY <1>3 DEF Goto
  <2>2. /\ files'[job.out].docs = docs /\ files'[job.out].del = {}
        /\ \A g \in DOMAIN files : g # job.out => files'[g] = files[g]
    BY <1>3 DEF Put
  <2>3. /\ job.out \notin DOMAIN stones /\ job.out \notin Range(manifest.segs)
        /\ Range(manifest.segs) \subseteq DOMAIN files /\ DOMAIN stones \subseteq DOMAIN files
        /\ Range(job.inputs) \subseteq Range(manifest.segs) /\ IsInjective(job.inputs)
        /\ writer.gen \notin Range(manifest.segs) /\ job.inputs \in Seq(Nat)
    BY <1>1 DEF Content, OutputUnopened, Stored, Inv, OutputApart, Listed, WriterApart, Shapes,
                CatalogueTypeOK
  <2>4. \A k, p : Live(p, k)' => Live(p, k)
    BY <1>1, <2>2, <2>3 DEF Live, FlushedAt, BufferedAt
  <2>5. SingleCopy'
    BY <1>1, <1>2, <2>1, <2>4, SingleStays DEF Unique, Loading, Carried, HalfUpdated
  <2>6. StonesSaved'
    BY <1>1, <2>1, <2>2, <2>3 DEF Unique, StonesSaved
  <2>7. docs \in Seq(Doc) /\ \E gen, docid : Sources(job.inputs, gen, docid)
    <3>1. \A g \in Range(job.inputs) : files[g].docs \in Seq(Doc)
      BY <2>3 DEF Content, Stored, Segment
    <3> QED
      BY <2>3, <3>1, MergedTraced
  <2>8. PICK gen, docid : Sources(job.inputs, gen, docid)
    BY <2>7
  <2>9. DOMAIN docs = 1 .. Len(docs) /\ \A d \in DOMAIN docs : docs[d] \in Doc
    BY <2>7, LenProperties, ElementOfSeq
  <2>10. /\ \A d \in DOMAIN docs :
              /\ gen[d] \in Range(job.inputs) /\ docid[d] \in LiveIn(gen[d])
              /\ docs[d] = files[gen[d]].docs[docid[d]]
         /\ \A d, e \in DOMAIN docs : gen[d] = gen[e] /\ docid[d] = docid[e] => d = e
    BY <2>8, <2>9 DEF Sources
  <2> HIDE DEF docs
  <2>11. ASSUME NEW d \in DOMAIN docs
         PROVE  /\ docs[d].key \in Keys /\ keymap[docs[d].key] = [gen |-> gen[d], docid |-> docid[d]]
                /\ gen[d] \in Range(job.inputs) /\ gen[d] # job.out /\ gen[d] # writer.gen
                /\ gen[d] \in DOMAIN files
    <3> DEFINE p == [gen |-> gen[d], docid |-> docid[d]]
               k == docs[d].key
    <3>1. /\ gen[d] \in Range(job.inputs) /\ gen[d] \in Range(manifest.segs)
          /\ gen[d] \in DOMAIN files /\ gen[d] # job.out /\ gen[d] # writer.gen
      BY <2>3, <2>10
    <3>2. k \in Keys
      BY <2>9 DEF Doc
    <3>3. p \in Place
      <4>1. files[gen[d]].docs \in Seq(Doc) /\ gen[d] \in Nat
        BY <3>1 DEF Content, Stored, Segment, Inv, Shapes, CatalogueTypeOK
      <4>2. docid[d] \in Nat
        BY <2>10, <4>1, LenProperties DEF LiveIn
      <4> QED
        BY <4>1, <4>2 DEF Place
    <3>4. Live(p, k)
      BY <2>10, <3>1 DEF Live, FlushedAt, LiveIn
    <3>5. p = keymap[k]
      BY <1>1, <1>2, <3>2, <3>3, <3>4 DEF Unique, SingleCopy, Loading, HalfUpdated
    <3> QED
      BY <3>1, <3>2, <3>5
  <2>12. OutputCurrent'
    <3> SUFFICES ASSUME NEW d \in DOMAIN docs
                 PROVE  /\ keymap[docs[d].key].gen \in Range(job.inputs) \ {writer.gen}
                        /\ files'[keymap[docs[d].key].gen].docs[keymap[docs[d].key].docid].ver
                             = docs[d].ver
                        /\ \A e \in DOMAIN docs : docs[e].key = docs[d].key => e = d
      BY <1>1, <2>1, <2>2, <2>3 DEF OutputCurrent, VersionAt, Compacts, Unique
    <3>1. keymap[docs[d].key] = [gen |-> gen[d], docid |-> docid[d]]
      BY <2>11
    <3>2. files'[gen[d]].docs[docid[d]].ver = docs[d].ver
      <4>1. gen[d] \in DOMAIN files /\ gen[d] # job.out
        BY <2>11
      <4>2. files'[gen[d]] = files[gen[d]]
        BY <2>2, <4>1
      <4>3. docs[d] = files[gen[d]].docs[docid[d]]
        BY <2>10
      <4> QED
        BY <4>2, <4>3
    <3>3. ASSUME NEW e \in DOMAIN docs, docs[e].key = docs[d].key
          PROVE  e = d
      <4>1. keymap[docs[e].key] = [gen |-> gen[e], docid |-> docid[e]]
        BY <2>11
      <4>2. gen[d] = gen[e] /\ docid[d] = docid[e]
        BY ONLY <3>1, <3>3, <4>1
      <4> QED
        BY <2>10, <4>2
    <3> QED
      BY <2>11, <3>1, <3>2, <3>3
  <2>13. ListSaved' /\ RebuildMarked' /\ LogNamesCopies' /\ KeyLookedUp'
    BY <1>1, <1>2, <2>1 DEF Unique, ListSaved, RebuildMarked, LogNamesCopies, KeyLookedUp, Synced
  <2> QED
    BY <2>5, <2>6, <2>12, <2>13 DEF Unique
<1>4. CASE UNCHANGED files /\ Goto(CompactFailed)
  <2>1. /\ pc' \in {"replay", "ready"} /\ Carried
        /\ UNCHANGED <<disk, files, keymap, logThere, marker, manifest, stones, writer>>
    BY <1>1, <1>4, CompactGivesUp DEF Compacts
  <2> QED
    BY <1>1, <2>1, SameContent DEF Loading, Asking, Compacts
<1> QED
  BY <1>3, <1>4 DEF Merge

(* An output that is given up was not listed.                              *)
LEMMA GivingUpUnique ==
  ASSUME Inv, Content, Unique, pc \in {"mark", "repoint"},
         UNCHANGED <<disk, keymap, logThere, manifest, stones, writer>>,
         files' = Restrict(files, DOMAIN files \ {job.out}), Goto(CompactFailed)
  PROVE  Unique'
<1>1. /\ pc' \in {"replay", "ready"} /\ Carried
      /\ disk.segs = manifest.segs
  BY CompactGivesUp DEF Compacts, Unique, ListSaved, Synced
<1>2. \A g \in DOMAIN files : g # job.out => files'[g] = files[g]
  BY DEF Restrict
<1>3. /\ job.out \notin DOMAIN stones /\ job.out \notin Range(manifest.segs)
      /\ Range(manifest.segs) \subseteq DOMAIN files /\ DOMAIN stones \subseteq DOMAIN files
  BY DEF Content, OutputUnopened, Stored, Inv, OutputApart, Listed
<1>4. \A k, p : Live(p, k)' => Live(p, k)
  BY <1>2, <1>3 DEF Live, FlushedAt, BufferedAt
<1>5. SingleCopy'
  BY <1>1, <1>4, SingleStays DEF Unique, Loading
<1>6. StonesSaved'
  BY <1>1, <1>2, <1>3 DEF Unique, StonesSaved
<1>7. ListSaved' /\ RebuildMarked' /\ LogNamesCopies' /\ OutputCurrent' /\ KeyLookedUp'
  BY <1>1 DEF Unique, ListSaved, RebuildMarked, LogNamesCopies, OutputCurrent, KeyLookedUp,
              Compacts, Synced
<1> QED
  BY <1>5, <1>6, <1>7 DEF Unique

(* Marked or given up, the output is not listed.                           *)
LEMMA MarkUnique == ASSUME Inv, Content, Unique, Mark PROVE Unique'
<1>1. pc = "mark" /\ UNCHANGED <<disk, keymap, logThere, manifest, stones, writer>>
  BY DEF Mark, memory
<1>2. CASE marker' = TRUE /\ UNCHANGED files /\ Goto("repoint")
  <2>1. pc' = "repoint" /\ UNCHANGED <<call, job, files>>
    BY <1>2 DEF Goto
  <2>2. \A k, p : Live(p, k)' <=> Live(p, k)
    BY <1>1, <2>1 DEF Live, FlushedAt, BufferedAt
  <2>3. SingleCopy'
    BY <1>1, <2>1, <2>2, SingleStays DEF Unique, Loading, Carried, HalfUpdated
  <2>4. StonesSaved' /\ ListSaved' /\ RebuildMarked' /\ LogNamesCopies' /\ KeyLookedUp'
    BY <1>1, <1>2, <2>1 DEF Unique, StonesSaved, ListSaved, RebuildMarked, LogNamesCopies,
                      KeyLookedUp, Synced
  <2>5. OutputCurrent'
    BY <1>1, <2>1 DEF Unique, OutputCurrent, VersionAt, Compacts
  <2> QED
    BY <2>3, <2>4, <2>5 DEF Unique
<1>3. CASE files' = Restrict(files, DOMAIN files \ {job.out}) /\ Goto(CompactFailed)
  BY <1>1, <1>3, GivingUpUnique
<1> QED
  BY <1>2, <1>3 DEF Mark

(* The keymap moves to the output's copies, which take the inputs' place.  *)
LEMMA RepointUnique == ASSUME Inv, Content, Unique, Repoint PROVE Unique'
<1>1. pc = "repoint" /\ UNCHANGED <<disk, logThere, manifest, writer>>
  BY DEF Repoint
<1>2. CASE /\ keymap' = [k \in Keys |->
                LET here == {d \in DOMAIN files[job.out].docs : files[job.out].docs[d].key = k} IN
                IF here = {} THEN keymap[k] ELSE [gen |-> job.out, docid |-> Max(here)]]
           /\ stones' = Put(stones, job.out, {})
           /\ UNCHANGED <<files, marker>> /\ Goto("unlist")
  <2> DEFINE docs == files[job.out].docs
             here(k) == {d \in DOMAIN docs : docs[d].key = k}
  <2>1. pc' = "unlist" /\ UNCHANGED <<call, job, files, marker>>
    BY <1>2 DEF Goto
  <2>2. /\ DOMAIN stones' = DOMAIN stones \cup {job.out} /\ stones'[job.out] = {}
        /\ \A g \in DOMAIN stones : g # job.out => stones'[g] = stones[g]
    BY <1>2 DEF Put
  <2>3. \A k \in Keys :
          keymap'[k] = IF here(k) = {} THEN keymap[k] ELSE [gen |-> job.out, docid |-> Max(here(k))]
    BY <1>2
  <2>4. /\ job.out \notin DOMAIN stones /\ job.out \notin Range(manifest.segs)
        /\ Range(manifest.segs) \subseteq DOMAIN stones /\ files[job.out].docs \in Seq(Doc)
        /\ files[job.out].del = {}
    BY <1>1 DEF Content, OutputUnopened, Stored, Segment, Inv, OutputApart, Unique, StonesSaved
  <2>5. /\ \A d \in DOMAIN docs : docs[d].key \in Keys
        /\ DOMAIN docs = 1 .. Len(docs) /\ Len(docs) \in Nat
    <3>1. docs \in Seq(Doc)
      BY <2>4
    <3> HIDE DEF docs
    <3>2. DOMAIN docs = 1 .. Len(docs) /\ Len(docs) \in Nat /\ \A d \in 1 .. Len(docs) : docs[d] \in Doc
      BY <3>1, LenProperties, ElementOfSeq
    <3> QED
      BY <3>2 DEF Doc
  <2>6. /\ \A d \in DOMAIN docs : keymap[docs[d].key].gen \in Range(job.inputs)
        /\ \A d, e \in DOMAIN docs : docs[e].key = docs[d].key => e = d
    BY <1>1 DEF Unique, OutputCurrent
  <2> HIDE DEF docs
  <2>7. \A k, p : Live(p, k)' => Live(p, k)
    BY <1>1, <2>1, <2>2, <2>4 DEF Live, FlushedAt, BufferedAt
  <2>8. ASSUME NEW k \in Keys, NEW p \in Place, Live(p, k)'
        PROVE  p = keymap'[k] \/ p.gen \in Range(job.inputs)
    <3>1. call.op \in {"maintain", "compact"}
      BY <1>1 DEF Unique, OutputCurrent, Compacts
    <3>2. p = keymap[k]
      BY <1>1, <2>7, <2>8, <3>1 DEF Unique, SingleCopy, Loading, HalfUpdated
    <3>3. CASE here(k) = {}
      BY <2>3, <3>2, <3>3
    <3>4. CASE here(k) # {}
      <4>1. PICK d \in DOMAIN docs : docs[d].key = k
        BY <3>4
      <4> QED
        BY <2>6, <3>2, <4>1
    <3> QED
      BY <3>3, <3>4
  <2>9. SingleCopy'
    BY <2>1, <2>8 DEF SingleCopy
  <2>10. ASSUME NEW d \in DOMAIN docs
         PROVE  keymap'[docs[d].key] = [gen |-> job.out, docid |-> d]
    <3>1. here(docs[d].key) = {d}
      BY <2>6
    <3>2. Max(here(docs[d].key)) = d
      <4>1. here(docs[d].key) \in SUBSET (1 .. Len(docs)) /\ here(docs[d].key) # {}
        BY <2>5, <3>1
      <4>2. Max(here(docs[d].key)) \in here(docs[d].key)
        BY <2>5, <4>1, MaxIsMember
      <4> QED
        BY <3>1, <4>2
    <3> HIDE DEF here
    <3> QED
      BY <2>3, <2>5, <3>1, <3>2
  <2>11. OutputCurrent'
    <3>1. call.op \in {"maintain", "compact"} /\ writer.gen \notin Range(job.inputs)
      BY <1>1 DEF Unique, OutputCurrent, Compacts
    <3> QED
      BY <1>1, <2>1, <2>10, <3>1 DEF OutputCurrent, docs
  <2>12. StonesSaved' /\ ListSaved' /\ RebuildMarked' /\ LogNamesCopies' /\ KeyLookedUp'
    <3>1. marker
      BY <1>1 DEF Unique, ListSaved
    <3> QED
      BY <1>1, <2>1, <2>2, <2>4, <3>1 DEF Unique, StonesSaved, ListSaved, RebuildMarked,
                                   LogNamesCopies, KeyLookedUp, Synced
  <2> QED
    BY <2>9, <2>11, <2>12 DEF Unique
<1>3. CASE /\ files' = Restrict(files, DOMAIN files \ {job.out}) /\ Goto(CompactFailed)
           /\ UNCHANGED <<keymap, stones>>
  BY <1>1, <1>3, GivingUpUnique
<1> QED
  BY <1>2, <1>3 DEF Repoint

(* An input leaves the list, and nothing else does.                        *)
LEMMA UnlistShrinks ==
  ASSUME Inv, Unlist
  PROVE  Range(manifest'.segs) \subseteq Range(manifest.segs)
<1>1. Head(job.left) \in Nat
  BY TailRange DEF Unlist, Inv, Shapes, CatalogueTypeOK
<1>2. manifest'.segs = Without(manifest.segs, Head(job.left))
  BY DEF Unlist, Inv, Shapes, CatalogueTypeOK, Catalogue
<1>3. manifest.segs \in Seq(Nat) /\ IsInjective(manifest.segs)
  BY DEF Inv, Shapes, CatalogueTypeOK, Catalogue, Listed
<1> QED
  BY <1>1, <1>2, <1>3, WithoutShrinks

(* Inputs that have left the list show no copies.                          *)
LEMMA UnlistUnique == ASSUME Inv, Content, Unique, Unlist PROVE Unique'
<1>1. /\ pc = "unlist" /\ pc' = "unlist" /\ job'.out = job.out /\ job'.inputs = job.inputs
      /\ UNCHANGED <<disk, files, keymap, logThere, marker, stones, writer, call>>
  BY DEF Unlist, Enter, Inv, Shapes, CatalogueTypeOK, disks
<1>2. Range(manifest'.segs) \subseteq Range(manifest.segs)
  BY UnlistShrinks
<1>3. \A k, p : Live(p, k)' => Live(p, k)
  BY <1>1, <1>2 DEF Live, FlushedAt, BufferedAt
<1>4. SingleCopy'
  BY <1>1, <1>3 DEF Unique, SingleCopy
<1>5. StonesSaved' /\ ListSaved' /\ RebuildMarked' /\ LogNamesCopies' /\ OutputCurrent' /\ KeyLookedUp'
  BY <1>1 DEF Unique, StonesSaved, ListSaved, RebuildMarked, LogNamesCopies, OutputCurrent,
              KeyLookedUp, Compacts, Synced
<1> QED
  BY <1>4, <1>5 DEF Unique

(* The output's copies take the place of the inputs'.                      *)
LEMMA SwapUnique == ASSUME Inv, Content, Unique, Swap PROVE Unique'
<1>1. /\ pc = "unlist" /\ job.left = <<>>
      /\ UNCHANGED <<files, keymap, logThere, marker, writer>>
      /\ stones' = Restrict(stones, DOMAIN stones \ Range(job.inputs))
      /\ \/ disk' = manifest' /\ Goto("dropInputs")
         \/ disk' = disk /\ Goto(CompactFailed)
  BY DEF Swap
<1>2. call.op \in {"maintain", "compact"} /\ marker
  BY <1>1 DEF Unique, OutputCurrent, ListSaved, Compacts
<1>3. /\ pc' \in {"dropInputs", "replay", "ready"} /\ ~HalfUpdated'
      /\ pc' = "dropInputs" => disk' = manifest' /\ UNCHANGED call
  BY <1>1, <1>2 DEF Goto, CompactFailed, Return, HalfUpdated, NoCall
<1>4. Range(manifest'.segs) = Range(manifest.segs) \cup {job.out}
  <2>1. manifest.segs \in Seq(Nat) /\ job.out \in Nat
    BY DEF Inv, Shapes, CatalogueTypeOK, Catalogue
  <2>2. manifest'.segs = Append(manifest.segs, job.out)
    BY DEF Swap, Inv, Shapes, CatalogueTypeOK, Catalogue
  <2> QED
    BY <2>1, <2>2, AppendRange
<1>5. \A g \in DOMAIN stones' : g \in DOMAIN stones /\ stones'[g] = stones[g]
  BY <1>1 DEF Restrict
<1>6. \A g \in Range(manifest.segs) : g \in DOMAIN stones /\ g \notin Range(job.inputs)
  <2>1. Range(job.left) = {}
    BY <1>1 DEF Range
  <2> QED
    BY <1>1, <2>1 DEF Inv, InputsApart, Content, Stored
<1>7. \A g \in Range(manifest.segs) : stones'[g] = stones[g]
  BY <1>1, <1>6 DEF Restrict
<1>8. writer.gen \notin Range(job.inputs)
  BY <1>1 DEF Unique, OutputCurrent
<1>9. ASSUME NEW k \in Keys, NEW p \in Place, Live(p, k)'
      PROVE  p = keymap[k]
  <2>1. CASE p.gen = job.out /\ p.gen # writer.gen
    <3>1. p.docid \in DOMAIN files[job.out].docs /\ files[job.out].docs[p.docid].key = k
      BY <1>1, <1>9, <2>1 DEF Live, FlushedAt, BufferedAt
    <3>2. keymap[k] = [gen |-> job.out, docid |-> p.docid]
      BY <1>1, <3>1 DEF Unique, OutputCurrent
    <3> QED
      BY <2>1, <3>2 DEF Place
  <2>2. CASE Live(p, k) /\ p.gen \notin Range(job.inputs)
    BY <1>1, <2>2 DEF Unique, SingleCopy
  <2>3. job.out # writer.gen
    BY <1>1 DEF Inv, OutputApart
  <2> QED
    BY <1>1, <1>4, <1>6, <1>7, <1>8, <1>9, <2>1, <2>2, <2>3 DEF Live, FlushedAt, BufferedAt
<1>10. SingleCopy'
  BY <1>1, <1>3, <1>9 DEF SingleCopy
<1>11. StonesSaved'
  BY <1>1, <1>3, <1>5 DEF Unique, StonesSaved
<1>12. ListSaved' /\ RebuildMarked' /\ LogNamesCopies' /\ OutputCurrent' /\ KeyLookedUp'
  BY <1>1, <1>2, <1>3 DEF Unique, ListSaved, RebuildMarked, LogNamesCopies, OutputCurrent,
              KeyLookedUp, Compacts, Synced
<1> QED
  BY <1>10, <1>11, <1>12 DEF Unique

(* The inputs are in no list, and no marker is needed for them any more.   *)
LEMMA DropInputsUnique == ASSUME Inv, Content, Unique, DropInputs PROVE Unique'
<1> USE DEF DropInputs, Step, Goto, memory
<1>1. /\ pc = "dropInputs" /\ pc' = "unmark"
      /\ UNCHANGED <<disk, keymap, logThere, marker, manifest, stones, writer, call>>
      /\ files' = Restrict(files, DOMAIN files \ Range(job.inputs))
  OBVIOUS
<1> HIDE DEF DropInputs
<1>2. /\ Range(job.inputs) \cap DOMAIN stones = {} /\ DOMAIN stones \subseteq DOMAIN files
      /\ Range(manifest.segs) \subseteq DOMAIN stones
  BY <1>1 DEF Content, OutputUnopened, Stored
<1>3. \A g \in DOMAIN stones : files'[g] = files[g]
  BY <1>1, <1>2 DEF Restrict
<1>4. \A k, p : Live(p, k)' => Live(p, k)
  BY <1>1, <1>2, <1>3 DEF Live, FlushedAt, BufferedAt
<1>5. SingleCopy'
  BY <1>1, <1>4, SingleStays DEF Unique, Loading, Carried, HalfUpdated
<1>6. StonesSaved' /\ ListSaved' /\ RebuildMarked' /\ LogNamesCopies' /\ OutputCurrent' /\ KeyLookedUp'
  BY <1>1, <1>3 DEF Unique, StonesSaved, ListSaved, RebuildMarked, LogNamesCopies,
                    OutputCurrent, KeyLookedUp, Compacts, Synced
<1> QED
  BY <1>5, <1>6 DEF Unique

(* The marker goes when the saved list is the one in memory.               *)
LEMMA UnmarkUnique == ASSUME Inv, Content, Unique, Unmark PROVE Unique'
<1> USE DEF Unmark, Step, Goto, memory, AfterCompact, Return, NoCall
<1>1. /\ pc = "unmark" /\ pc' \in {"maintain", "replay", "ready"}
      /\ UNCHANGED <<disk, files, keymap, logThere, manifest, stones, writer>>
      /\ pc' = "maintain" => call' = call /\ call.op # "compact"
  OBVIOUS
<1>2. call.op \in {"maintain", "compact"} /\ disk.segs = manifest.segs
  BY <1>1 DEF Unique, OutputCurrent, ListSaved, Compacts, Synced
<1>3. Carried
  BY <1>2 DEF Carried, HalfUpdated
<1> HIDE DEF Unmark
<1>4. \A k, p : Live(p, k)' <=> Live(p, k)
  BY <1>1 DEF Live, FlushedAt, BufferedAt
<1>5. SingleCopy'
  BY <1>1, <1>3, <1>4, SingleStays DEF Unique, Loading
<1>6. StonesSaved' /\ ListSaved' /\ RebuildMarked' /\ LogNamesCopies' /\ OutputCurrent' /\ KeyLookedUp'
  BY <1>1, <1>2 DEF Unique, StonesSaved, ListSaved, RebuildMarked, LogNamesCopies,
                    OutputCurrent, KeyLookedUp, Compacts, Synced
<1> QED
  BY <1>5, <1>6 DEF Unique

-----------------------------------------------------------------------------
(* open()                                                                  *)

(* What is loaded is what was on disk.                                     *)
LEMMA OpenUnique == ASSUME Inv, Content, Unique, Open PROVE Unique'
<1> USE DEF Open, Enter, NoCall
<1>1. /\ pc = "down" /\ pc' = "sweep" /\ manifest' = disk /\ writer = NoWriter /\ logThere' = TRUE
      /\ UNCHANGED <<disk, files, marker, writer>>
      /\ stones' = [g \in Range(disk.segs) |-> files[g].del]
      /\ call'.op = IF marker \/ (~logThere /\ disk.segs # <<>>) THEN "rebuild" ELSE "open"
  BY DEF Content, Reopened
<1>2. keymap' = IF marker \/ ~logThere THEN [k \in Keys |-> NoPlace] ELSE keymap
  OBVIOUS
<1> HIDE DEF Open
<1>3. call'.op = IF marker THEN "rebuild" ELSE "open"
  BY <1>1 DEF Unique, RebuildMarked
<1>4. \A k, p : Live(p, k)' => OnDisk(p, k)
  BY <1>1 DEF Live, FlushedAt, BufferedAt, OnDisk, SavedAt, NoWriter
<1>5. SingleCopy'
  <2> SUFFICES ASSUME ~marker, NEW k \in Keys, NEW p \in Place, Live(p, k)'
               PROVE  p = keymap'[k]
    BY <1>1, <1>3 DEF SingleCopy, Loading
  <2>1. p = keymap[k]
    BY <1>1, <1>4 DEF Unique, LogNamesCopies
  <2>2. CASE logThere
    BY <1>2, <2>1, <2>2
  <2>3. CASE ~logThere
    <3>1. disk.segs = <<>>
      BY <2>3 DEF Unique, RebuildMarked
    <3>2. Range(disk.segs) = {}
      BY <3>1 DEF Range
    <3> QED
      BY <1>4, <3>2 DEF OnDisk, SavedAt
  <2> QED
    BY <2>2, <2>3
<1>6. StonesSaved' /\ ListSaved' /\ RebuildMarked' /\ LogNamesCopies' /\ OutputCurrent' /\ KeyLookedUp'
  BY <1>1, <1>3 DEF Unique, StonesSaved, ListSaved, RebuildMarked, LogNamesCopies,
                    OutputCurrent, KeyLookedUp, Compacts, Synced
<1> QED
  BY <1>5, <1>6 DEF Unique

(* The files that are swept are not open.                                  *)
LEMMA SweepUnique == ASSUME Inv, Content, Unique, Sweep PROVE Unique'
<1> USE DEF Sweep, Step, Goto, memory
<1>1. /\ pc = "sweep" /\ pc' = (IF call.op = "rebuild" THEN "rebuild" ELSE "retain")
      /\ UNCHANGED <<disk, keymap, logThere, marker, manifest, stones, writer, call>>
      /\ files' = Restrict(files, DOMAIN files \cap Range(manifest.segs))
  OBVIOUS
<1> HIDE DEF Sweep
<1>2. DOMAIN stones = Range(manifest.segs) /\ Range(manifest.segs) \subseteq DOMAIN files
  BY <1>1 DEF Content, Reopened, Inv, Listed
<1>3. \A g \in DOMAIN stones : files'[g] = files[g]
  BY <1>1, <1>2 DEF Restrict
<1>4. \A k, p : Live(p, k)' => Live(p, k)
  BY <1>1, <1>2, <1>3 DEF Live, FlushedAt, BufferedAt
<1>5. SingleCopy'
  <2>1. CASE call.op = "rebuild"
    BY <1>1, <2>1 DEF SingleCopy, Loading
  <2>2. CASE call.op # "rebuild"
    BY <1>1, <1>4, <2>2, SingleStays DEF Unique, Loading, Carried, HalfUpdated
  <2> QED
    BY <2>1, <2>2
<1>6. StonesSaved' /\ ListSaved' /\ RebuildMarked' /\ LogNamesCopies' /\ OutputCurrent' /\ KeyLookedUp'
  BY <1>1, <1>3 DEF Unique, StonesSaved, ListSaved, RebuildMarked, LogNamesCopies,
                    OutputCurrent, KeyLookedUp, Compacts, Synced
<1> QED
  BY <1>5, <1>6 DEF Unique

(* Entries that are dropped named no listed segment.                       *)
LEMMA RetainUnique == ASSUME Inv, Content, Unique, RetainGenerations PROVE Unique'
<1> USE DEF RetainGenerations, Step, Goto, memory
<1>1. /\ pc = "retain" /\ pc' = "newWriter" /\ writer = NoWriter
      /\ UNCHANGED <<disk, files, logThere, marker, manifest, stones, writer, call>>
      /\ keymap' = [k \in Keys |-> IF keymap[k].gen \in Range(manifest.segs)
                                   THEN keymap[k] ELSE NoPlace]
  BY DEF Content, Reopened
<1> HIDE DEF RetainGenerations
<1>2. \A k, p : Live(p, k)' => Live(p, k) /\ p.gen \in Range(manifest.segs)
  BY <1>1 DEF Live, FlushedAt, BufferedAt, NoWriter
<1>3. SingleCopy'
  <2> SUFFICES ASSUME NEW k \in Keys, NEW p \in Place, Live(p, k)'
               PROVE  p = keymap'[k] \/ (HalfUpdated' /\ k = call'.key /\ p = call'.old)
    BY <1>1 DEF SingleCopy
  <2>1. p = keymap[k] \/ (HalfUpdated /\ k = call.key /\ p = call.old)
    BY <1>1, <1>2 DEF Unique, SingleCopy, Loading
  <2> QED
    BY <1>1, <1>2, <2>1 DEF HalfUpdated
<1>4. StonesSaved' /\ ListSaved' /\ RebuildMarked' /\ LogNamesCopies' /\ OutputCurrent' /\ KeyLookedUp'
  BY <1>1 DEF Unique, StonesSaved, ListSaved, RebuildMarked, LogNamesCopies, OutputCurrent,
              KeyLookedUp, Compacts, Synced
<1> QED
  BY <1>3, <1>4 DEF Unique

(* A rebuild ends with one copy of each key, as Content has it.            *)
LEMMA RebuildUnique ==
  ASSUME Inv, Content, Unique, Inv', Content',
         RebuildKeymap \/ SaveStones \/ OpenUnmark
  PROVE  Unique'
<1>1. /\ pc \in {"rebuild", "saveStones", "openUnmark"}
      /\ pc' \in {"saveStones", "openUnmark", "down", "newWriter"}
      /\ UNCHANGED <<disk, logThere, manifest>>
      /\ pc' \in {"saveStones", "openUnmark", "down"} => marker' = marker /\ call' = call
      /\ pc' = "newWriter" =>
           /\ pc = "openUnmark" /\ UNCHANGED <<files, keymap, stones, writer>> /\ call'.op = "open"
      /\ pc' \in {"saveStones", "down"} => pc \in {"rebuild", "saveStones"}
  BY DEF RebuildKeymap, SaveStones, OpenUnmark, Step, Goto, Enter, memory, NoCall
<1>2. pc \in {"saveStones", "openUnmark"} =>
        \A k \in Keys, p \in Place : Live(p, k) => p = keymap[k]
  <2>1. \A k \in Keys, p \in Place : p \in Copies(k) <=> Live(p, k)
    BY CopiesAreLive
  <2> QED
    BY <2>1 DEF Content, Reopened
<1>3. pc' \in {"saveStones", "openUnmark"} =>
        \A k \in Keys, p \in Place : Live(p, k)' => p = keymap'[k]
  <2>1. (Inv' /\ Content') =>
          (\A k : Copies(k) \subseteq Place /\ \A p \in Place : p \in Copies(k) <=> Live(p, k))'
    BY CopiesAreLive, PTL
  <2>2. \A k \in Keys, p \in Place : p \in Copies(k)' <=> Live(p, k)'
    BY <2>1
  <2>3. pc' \in {"saveStones", "openUnmark"} => \A k \in Keys : Copies(k)' \subseteq {keymap'[k]}
    BY DEF Content, Reopened
  <2> QED
    BY <2>2, <2>3
<1>4. SingleCopy'
  <2>1. CASE pc' = "down"
    BY <2>1 DEF SingleCopy, Loading
  <2>2. CASE pc' \in {"saveStones", "openUnmark"}
    BY <1>3, <2>2 DEF SingleCopy
  <2>3. CASE pc' = "newWriter"
    <3>1. \A k, p : Live(p, k)' <=> Live(p, k)
      BY <1>1, <2>3 DEF Live, FlushedAt, BufferedAt
    <3> QED
      BY <1>1, <1>2, <2>3, <3>1 DEF SingleCopy
  <2> QED
    BY <1>1, <2>1, <2>2, <2>3
<1>5. StonesSaved'
  <2>1. CASE pc' = "openUnmark"
    BY <2>1 DEF StonesSaved, Content, Reopened
  <2>2. CASE pc' = "newWriter"
    BY <1>1, <2>2 DEF StonesSaved, Unique
  <2> QED
    BY <1>1, <2>1, <2>2 DEF StonesSaved
<1>6. ListSaved' /\ RebuildMarked' /\ LogNamesCopies' /\ OutputCurrent' /\ KeyLookedUp'
  BY <1>1 DEF Unique, ListSaved, RebuildMarked, LogNamesCopies, OutputCurrent, KeyLookedUp,
              Compacts, Synced
<1> QED
  BY <1>4, <1>5, <1>6 DEF Unique

(* A record of the log is looked up like a call.                           *)
LEMMA ReplayUnique ==
  ASSUME Inv, Content, Unique, ReplayRecord \/ EndReplay,
         pc' = "index" /\ call'.op = "add" => \A p \in Place : ~Live(p, call'.key)
  PROVE  Unique'
<1>1. /\ pc = "replay" /\ pc' \in {"replay", "index", "tombstone", "ready"}
      /\ UNCHANGED <<disk, files, keymap, logThere, marker, manifest, stones, writer>>
      /\ pc' # "ready" => call'.old = keymap[call'.key]
      /\ pc' = "ready" => call' = NoCall
  BY DEF ReplayRecord, EndReplay, Enter, Goto, Call, disks
<1>2. Carried
  BY <1>1 DEF Carried, HalfUpdated
<1>3. pc' \notin {"replay", "ready"} => call'.old = keymap[call'.key]
  BY <1>1
<1> QED
  BY <1>1, <1>2, <1>3, SameContent DEF Loading, Asking, Compacts

-----------------------------------------------------------------------------
(* The client and the environment                                          *)

(* A call that is over leaves nothing behind.                              *)
LEMMA NextRested ==
  ASSUME [Next]_vars
  PROVE  pc' = "ready" => call' = NoCall \/ (pc = "ready" /\ call' = call)
<1> USE DEF Goto, Enter, Step
<1>1. CASE CallOnKey \/ CallFlush \/ CallMaintain \/ CallCompact \/ Crash
  BY <1>1 DEF CallOnKey, CallFlush, CallMaintain, Invoke, CallCompact, Crash
<1>2. CASE Updating \/ Deleting
  BY <1>2 DEF Updating, Deleting, IndexDocument, LogAdd, LogUpdate, TombstoneOld,
              TombstoneDeleted, Unmap, LogDelete
<1>3. CASE Flushing
  BY <1>3 DEF Flushing, WriteSegment, RegisterSegment, StartNewWriter, TruncateWal
<1>4. CASE Compacting
  BY <1>4 DEF Compacting, Maintain, EndMaintain, TakeOutput, Merge, Mark, Repoint, Unlist,
              Swap, DropInputs, Unmark
<1>5. CASE Opening
  BY <1>5 DEF Opening, Open, Sweep, RetainGenerations, RebuildKeymap, SaveStones, OpenUnmark,
              ReplayRecord, EndReplay
<1>6. CASE UNCHANGED vars \/ LoseKeymapLog
  BY <1>6 DEF vars, control, LoseKeymapLog
<1> QED
  BY <1>1, <1>2, <1>3, <1>4, <1>5, <1>6 DEF Next, Work

(* Between calls no call is under way.                                     *)
Rested == pc = "ready" => call.op = "none"

(* A call finds the one copy of its key, or none, where the keymap says.   *)
LEMMA InvokeUnique ==
  ASSUME Inv, Content, Unique, Rested,
         NEW op \in Ops \ {"compact"}, NEW k \in Keys \cup {Absent},
         op \in {"add", "update", "delete"} => k \in Keys, Invoke(op, k)
  PROVE  Unique'
<1> USE DEF Invoke, disks, memory, budget
<1>1. op \in {"add", "update", "delete", "flush", "maintain"}
  BY DEF Ops
<1>2. /\ UNCHANGED <<disk, files, keymap, logThere, marker, manifest, stones, writer>>
      /\ pc = "ready" /\ pc' \in {"index", "tombstone", "flush", "maintain"}
      /\ pc' = "index" => op \in {"add", "update"}
      /\ pc' = "tombstone" => op = "delete"
      /\ pc' = "maintain" => op = "maintain"
      /\ op = "add" => keymap[k] = NoPlace
  BY <1>1
<1>3. call'.op = op /\ call'.key = k /\ (k \in Keys => call'.old = keymap[k])
  BY DEF Call
<1> HIDE DEF Invoke, disks, memory, budget
<1>4. ~HalfUpdated
  BY <1>2 DEF HalfUpdated, Rested
<1>5. op \in {"add", "update", "delete"} => call'.old = keymap[call'.key]
  BY <1>3
<1>6. op = "add" => \A p \in Place : ~Live(p, k)
  BY <1>2, <1>4, NoPlaceIsDead DEF Unique, SingleCopy, Loading
<1> QED
  BY <1>2, <1>3, <1>4, <1>5, <1>6, SameContent DEF Loading, Asking, Compacts, Carried

(* compact() has touched nothing yet.                                      *)
LEMMA CallCompactUnique == ASSUME Inv, Content, Unique, Rested, CallCompact PROVE Unique'
<1>1. /\ UNCHANGED <<disk, files, keymap, logThere, marker, manifest, stones, writer>>
      /\ pc = "ready" /\ pc' = "takeOutput" /\ call'.op = "compact"
  BY DEF CallCompact, disks, memory, budget, NoCall
<1>2. ~HalfUpdated
  BY <1>1 DEF HalfUpdated, Rested
<1> QED
  BY <1>1, <1>2, SameContent DEF Loading, Asking, Compacts, Carried

(* Nothing sheltered kills the process in the middle of an update.         *)
LEMMA CrashUnique == ASSUME Sheltered, Inv, Content, Unique, Crash PROVE Unique'
<1>1. /\ UNCHANGED <<disk, files, keymap, logThere, marker>> /\ pc' = "down" /\ pc # "down"
      /\ Range(stones') = {} /\ DOMAIN stones' = {} /\ call'.op = "none"
  BY DEF Crash, disks, NoCall, Range
<1>2. Window \notin {"updating", "replaying", "exposed"}
  BY DEF Crash, Sheltered
<1>3. ~HalfUpdated
  BY <1>2 DEF Window, FlushedUnlogged, HalfUpdated
<1>4. LogNamesCopies'
  <2> SUFFICES ASSUME ~marker, NEW k \in Keys, NEW p \in Place, OnDisk(p, k)
               PROVE  p = keymap[k]
    BY <1>1 DEF LogNamesCopies, OnDisk, SavedAt
  <2>1. ~Loading /\ pc \notin {"saveStones", "unlist"} /\ Range(disk.segs) \subseteq Range(manifest.segs)
    BY <1>1 DEF Unique, RebuildMarked, ListSaved, Loading
  <2>2. Live(p, k)
    BY <1>1, <2>1, SavedIsLive
  <2> QED
    BY <1>3, <2>1, <2>2 DEF Unique, SingleCopy
<1>5. SingleCopy' /\ StonesSaved' /\ ListSaved' /\ RebuildMarked' /\ OutputCurrent' /\ KeyLookedUp'
  BY <1>1 DEF Unique, SingleCopy, Loading, StonesSaved, ListSaved, RebuildMarked,
              OutputCurrent, KeyLookedUp, Compacts, Synced
<1> QED
  BY <1>4, <1>5 DEF Unique

(* A step that changes nothing; the keymap's log is not lost.              *)
LEMMA StutterUnique ==
  ASSUME Sheltered, Unique, LoseKeymapLog \/ UNCHANGED vars
  PROVE  Unique'
<1>1. UNCHANGED <<disk, files, keymap, logThere, marker, manifest, stones, writer, pc, call, job>>
  BY DEF LoseKeymapLog, Fault, Sheltered, vars, disks, memory, control
<1>2. \A k, p : (Live(p, k)' <=> Live(p, k)) /\ (OnDisk(p, k)' <=> OnDisk(p, k))
  BY <1>1 DEF Live, FlushedAt, BufferedAt, OnDisk, SavedAt
<1>3. (Loading' <=> Loading) /\ (HalfUpdated' <=> HalfUpdated)
  BY <1>1 DEF Loading, HalfUpdated
<1>4. SingleCopy' /\ LogNamesCopies' /\ KeyLookedUp'
  BY <1>1, <1>2, <1>3 DEF Unique, SingleCopy, LogNamesCopies, KeyLookedUp
<1>5. StonesSaved' /\ ListSaved' /\ RebuildMarked' /\ OutputCurrent'
  BY <1>1 DEF Unique, StonesSaved, ListSaved, RebuildMarked, OutputCurrent, VersionAt
<1> QED
  BY <1>4, <1>5 DEF Unique

(* Every step that does not replay an add of a key that is there.          *)
LEMMA NextUnique ==
  ASSUME Sheltered, Inv, Content, Unique, Rested, [Next]_vars,
         ReplayRecord /\ pc' = "index" /\ call'.op = "add" =>
           \A p \in Place : ~Live(p, call'.key)
  PROVE  Unique'
<1>1. Inv' /\ Content'
  BY NextInv, NextContent
<1>2. CASE CallOnKey \/ CallFlush \/ CallMaintain
  BY <1>2, InvokeUnique DEF CallOnKey, CallFlush, CallMaintain, Ops
<1>3. CASE CallCompact \/ Crash \/ LoseKeymapLog
  BY <1>3, CallCompactUnique, CrashUnique, StutterUnique
<1>4. CASE Updating
  BY <1>4, IndexDocumentUnique, LogUnique, TombstoneOldUnique DEF Updating
<1>5. CASE Deleting
  BY <1>5, TombstoneDeletedUnique, UnmapUnique, LogUnique DEF Deleting
<1>6. CASE Flushing
  BY <1>6, WriteSegmentUnique, RegisterSegmentUnique, StartNewWriterUnique, TruncateWalUnique
     DEF Flushing
<1>7. CASE Compacting
  BY <1>7, MaintainUnique, TakeOutputUnique, MergeUnique, MarkUnique, RepointUnique,
     UnlistUnique, SwapUnique, DropInputsUnique, UnmarkUnique DEF Compacting
<1>8. CASE Opening
  <2>1. CASE Open \/ Sweep \/ RetainGenerations
    BY <2>1, OpenUnique, SweepUnique, RetainUnique
  <2>2. CASE RebuildKeymap \/ SaveStones \/ OpenUnmark
    BY <1>1, <2>2, RebuildUnique
  <2>3. CASE ReplayRecord \/ EndReplay
    <3>1. EndReplay => pc' = "ready"
      BY DEF EndReplay, Goto
    <3> QED
      BY <2>3, <3>1, ReplayUnique
  <2> QED
    BY <1>8, <2>1, <2>2, <2>3 DEF Opening
<1>9. CASE UNCHANGED vars
  BY <1>9, StutterUnique
<1> QED
  BY <1>2, <1>3, <1>4, <1>5, <1>6, <1>7, <1>8, <1>9 DEF Next, Work

-----------------------------------------------------------------------------
(* The write-ahead log and the copies                                      *)

(* The index is yet to be opened.                                          *)
Unopened ==
  \/ pc \in {"down", "sweep", "retain", "rebuild", "saveStones", "openUnmark"}
  \/ pc = "newWriter" /\ call.op = "open"

(* It is open and has, or is about to have, a memory segment to index in;  *)
(* a flush that cannot open its segment leaves it without.                 *)
Serving == ~Unopened /\ (writer.gen # 0 \/ pc = "newWriter")

(* Of the first n records one puts the key in, and none after it takes it  *)
(* out again.                                                              *)
PutIn(k, n, w) ==
  \E i \in 1 .. n : /\ w[i].key = k /\ w[i].op # "delete"
                    /\ \A j \in i + 1 .. n : ~(w[j].key = k /\ w[j].op = "delete")

(* No record from the given one up to the ith is of the ith one's key.     *)
FirstOf(i, from, w) == \A j \in from .. i - 1 : w[j].key # w[i].key

(* Some record is of key k.                                                *)
Recorded(k, w) == \E i \in 1 .. Len(w) : w[i].key = k

(* The records that the session has taken up.                              *)
Taken == IF Replaying THEN replayed - 1 ELSE Len(wal)

(* No flush has put on disk what the log still has.                        *)
Settled == ~truncPending /\ (pc \in {"newWriter", "truncate"} => call.op = "open")

(* Which calls the procedures run for.                                     *)
CallsRun ==
  /\ pc = "sweep" => call.op \in {"open", "rebuild"}
  /\ pc = "retain" => call.op = "open"
  /\ pc = "logAdd" => call.op \in {"add", "update"}
  /\ pc = "logUpdate" => call.op = "update"
  /\ pc \in {"flush", "register", "truncate"} => call.op \in {"add", "update", "flush"}
  /\ pc = "newWriter" => call.op \in {"add", "update", "flush", "open"}
  /\ pc = "tombstone" => call.op \in {"update", "delete"}

(* While the log is replayed the saved list is up to date, and the call    *)
(* that runs is the one of the record taken up last.                       *)
ReplayKept ==
  /\ Unopened \/ pc = "ready" => ~Replaying
  /\ truncPending \/ pc = "replay" => Replaying
  /\ Replaying =>
       /\ disk.segs = manifest.segs /\ replayed <= Len(wal) + 1
       /\ pc # "replay" => /\ replayed > 1
                           /\ wal[replayed - 1].op = call.op /\ wal[replayed - 1].key = call.key

(* An add is recorded when the key is not in.                              *)
LogOrdered == \A i \in 1 .. Len(wal) : wal[i].op = "add" => ~PutIn(wal[i].key, i - 1, wal)

(* The key that is added first in the log has no copy on disk.             *)
FirstAddsNew ==
  Settled =>
    \A i \in 1 .. Len(wal) :
      wal[i].op = "add" /\ FirstOf(i, 1, wal) => \A p \in Place : ~OnDisk(p, wal[i].key)

(* Nor a live one, when it is added first in what is left to replay, once  *)
(* the delete that runs has buried what there was.                         *)
PendingAddsNew ==
  Replaying =>
    \A i \in replayed .. Len(wal) :
      /\ wal[i].op = "add" /\ FirstOf(i, replayed, wal)
      /\ ~(pc = "tombstone" /\ call.op = "delete" /\ call.key = wal[i].key)
      => \A p \in Place : ~Live(p, wal[i].key)

(* The keymap has the keys that the records put in,                        *)
PutInMapped ==
  Serving =>
    \A k \in Keys :
      PutIn(k, Taken, wal) /\ ~(pc \in {"index", "logDelete"} /\ k = call.key) => keymap[k] # NoPlace

(* and those that are on disk and have no record,                          *)
UnloggedMapped ==
  Serving =>
    \A k \in Keys, p \in Place :
      ~Recorded(k, wal) /\ OnDisk(p, k) /\ ~(pc = "logDelete" /\ k = call.key) => keymap[k] # NoPlace

(* and the one that is being added or updated.                             *)
IndexedMapped ==
  call.op \in {"add", "update"} /\ pc \notin {"index", "replay"} => keymap[call.key] # NoPlace

(* The add that is about to be recorded is of a key that is not in.        *)
AddsNew ==
  pc \in {"index", "logAdd"} /\ call.op = "add" /\ ~Replaying =>
    /\ ~PutIn(call.key, Len(wal), wal)
    /\ ~Recorded(call.key, wal) => \A p \in Place : ~OnDisk(p, call.key)

(* A compaction or a rebuild puts nothing on disk that was not there.      *)
NothingRises ==
  /\ pc \in {"mark", "repoint", "unlist"} =>
       \A d \in DOMAIN files[job.out].docs :
         \E p \in Place : p.gen \in Range(job.inputs) /\ OnDisk(p, files[job.out].docs[d].key)
  /\ pc = "unlist" => Range(manifest.segs) \subseteq Range(disk.segs)
  /\ pc = "saveStones" => \A g \in DOMAIN stones : files[g].del \subseteq stones[g]

Logged ==
  /\ CallsRun /\ ReplayKept /\ LogOrdered /\ FirstAddsNew /\ PendingAddsNew
  /\ PutInMapped /\ UnloggedMapped /\ IndexedMapped /\ AddsNew /\ NothingRises

(* What the session lists is in the saved list too, or a list that could   *)
(* not be saved has left another copy of its key there.                    *)
ListedOnDisk ==
  ~Unopened =>
    \A k \in Keys, p \in Place :
      SavedAt(p, k, Range(manifest.segs), files) =>
        \E q \in Place : OnDisk(q, k) /\ (q = p \/ q.gen \notin Range(manifest.segs))

-----------------------------------------------------------------------------
(* Records, one at a time *)

(* What one more record says.                                              *)
LEMMA PutInStep ==
  ASSUME NEW k, NEW w, NEW n \in Nat
  PROVE  PutIn(k, n + 1, w) <=>
           \/ w[n + 1].key = k /\ w[n + 1].op # "delete"
           \/ PutIn(k, n, w) /\ ~(w[n + 1].key = k /\ w[n + 1].op = "delete")
<1>1. ASSUME PutIn(k, n + 1, w)
      PROVE  \/ w[n + 1].key = k /\ w[n + 1].op # "delete"
             \/ PutIn(k, n, w) /\ ~(w[n + 1].key = k /\ w[n + 1].op = "delete")
  <2>1. PICK i \in 1 .. n + 1 :
          /\ w[i].key = k /\ w[i].op # "delete"
          /\ \A j \in i + 1 .. n + 1 : ~(w[j].key = k /\ w[j].op = "delete")
    BY <1>1 DEF PutIn
  <2>2. CASE i = n + 1
    BY <2>1, <2>2
  <2>3. CASE i # n + 1
    <3>1. i \in 1 .. n /\ n + 1 \in i + 1 .. n + 1 /\ \A j \in i + 1 .. n : j \in i + 1 .. n + 1
      BY <2>3
    <3> QED
      BY <2>1, <3>1 DEF PutIn
  <2> QED
    BY <2>2, <2>3
<1>2. ASSUME w[n + 1].key = k, w[n + 1].op # "delete"
      PROVE  PutIn(k, n + 1, w)
  <2>1. n + 1 \in 1 .. n + 1 /\ \A j \in n + 1 + 1 .. n + 1 : FALSE
    OBVIOUS
  <2> QED
    BY <1>2, <2>1 DEF PutIn
<1>3. ASSUME PutIn(k, n, w), ~(w[n + 1].key = k /\ w[n + 1].op = "delete")
      PROVE  PutIn(k, n + 1, w)
  <2>1. PICK i \in 1 .. n :
          /\ w[i].key = k /\ w[i].op # "delete"
          /\ \A j \in i + 1 .. n : ~(w[j].key = k /\ w[j].op = "delete")
    BY <1>3 DEF PutIn
  <2>2. i \in 1 .. n + 1 /\ \A j \in i + 1 .. n + 1 : j \in i + 1 .. n \/ j = n + 1
    OBVIOUS
  <2> QED
    BY <1>3, <2>1, <2>2 DEF PutIn
<1> QED
  BY <1>1, <1>2, <1>3

(* The records after the nth do not matter.                                *)
LEMMA PutInAgrees ==
  ASSUME NEW k, NEW w, NEW v, NEW n \in Nat, \A i \in 1 .. n : v[i] = w[i]
  PROVE  PutIn(k, n, v) <=> PutIn(k, n, w)
<1>1. \A i \in 1 .. n : \A j \in i + 1 .. n : j \in 1 .. n
  OBVIOUS
<1> QED
  BY <1>1 DEF PutIn

(* No records put nothing in.                                              *)
LEMMA NothingPutIn == ASSUME NEW k, NEW w PROVE ~PutIn(k, 0, w)
  BY DEF PutIn

(* A record that is the first of its key before the ith, and puts it in.   *)
LEMMA FirstPutsIn ==
  ASSUME NEW w, NEW i \in Nat, NEW n \in 1 .. i - 1, FirstOf(i, n + 1, w),
         w[n].key = w[i].key, w[n].op # "delete"
  PROVE  PutIn(w[i].key, i - 1, w)
  BY DEF PutIn, FirstOf

(* What the log is made of.                                                *)
LEMMA LogOfRecords ==
  Inv => /\ wal \in Seq(Record) /\ Len(wal) \in Nat /\ replayed \in Nat
         /\ \A i \in 1 .. Len(wal) : wal[i] \in Record /\ wal[i].key \in Keys
<1> SUFFICES ASSUME Inv
             PROVE  /\ wal \in Seq(Record) /\ Len(wal) \in Nat /\ replayed \in Nat
                    /\ \A i \in 1 .. Len(wal) : wal[i] \in Record /\ wal[i].key \in Keys
  OBVIOUS
<1>1. wal \in Seq(Record) /\ replayed \in Nat
  BY DEF Inv, Shapes, CatalogueTypeOK
<1>2. Len(wal) \in Nat /\ \A i \in 1 .. Len(wal) : wal[i] \in Record
  BY ONLY <1>1, LenProperties, ElementOfSeq
<1> QED
  BY <1>1, <1>2 DEF Record

(* A saved list that is up to date lists copies that the keymap names.     *)
LEMMA SyncedNames ==
  Inv /\ Content /\ Unique /\ IndexedMapped =>
    (~Loading /\ pc \notin {"down", "saveStones", "unlist"}
       /\ Range(disk.segs) \subseteq Range(manifest.segs) =>
       \A k \in Keys, p \in Place : OnDisk(p, k) => keymap[k] # NoPlace)
<1> SUFFICES ASSUME Inv, Content, Unique, IndexedMapped,
                    ~Loading, pc \notin {"down", "saveStones", "unlist"},
                    Range(disk.segs) \subseteq Range(manifest.segs),
                    NEW k \in Keys, NEW p \in Place, OnDisk(p, k)
             PROVE  keymap[k] # NoPlace
  OBVIOUS
<1>1. Live(p, k)
  BY SavedIsLive
<1>2. p = keymap[k] \/ (HalfUpdated /\ k = call.key /\ p = call.old)
  BY <1>1 DEF Unique, SingleCopy
<1>3. p # NoPlace
  BY <1>1, NoPlaceIsDead
<1> QED
  BY <1>2, <1>3 DEF IndexedMapped, HalfUpdated

-----------------------------------------------------------------------------
(* Steps that leave the log alone                                          *)

(* The log of an index that was never opened is empty.                     *)
LEMMA InitLogged == Init => Logged
<1> SUFFICES ASSUME Init PROVE Logged
  OBVIOUS
<1>1. Len(wal) = 0 /\ ~Replaying /\ Unopened
  BY DEF Init, Replaying, Unopened
<1> QED
  BY <1>1 DEF Init, NoCall, Logged, CallsRun, ReplayKept, LogOrdered, FirstAddsNew,
              PendingAddsNew, PutInMapped, UnloggedMapped, IndexedMapped, AddsNew, NothingRises,
              Serving

(* A step of an open index, within a call, after which the log is as it    *)
(* was, no more keys are on disk (but for a flush) or live, and none has   *)
(* gone from the keymap.                                                   *)
LEMMA CalmLogged ==
  ASSUME Inv, Logged, ~Unopened, ~Unopened',
         UNCHANGED <<wal, replayed>>, truncPending' => Replaying, Settled' => Settled,
         pc \notin {"index", "logDelete", "replay"}, pc' \notin {"index", "logAdd"},
         call' = call \/ (~Replaying /\ call'.op \notin {"add", "update"}),
         pc' = "ready" => ~Replaying, pc' = "replay" => Replaying,
         Replaying => disk'.segs = manifest'.segs,
         Serving' => Serving,
         \A k \in Keys : keymap[k] # NoPlace => keymap'[k] # NoPlace,
         \A k \in Keys, p \in Place :
           OnDisk(p, k)' => \/ \E q \in Place : OnDisk(q, k)
                            \/ ~Settled' /\ keymap'[k] # NoPlace,
         Replaying => \A k \in Keys, p \in Place : Live(p, k)' => Live(p, k),
         pc = "tombstone" /\ call.op = "delete" =>
           \A k \in Keys, p \in Place : k = call.key => ~Live(p, k)'
  PROVE  ReplayKept' /\ LogOrdered' /\ FirstAddsNew' /\ PendingAddsNew' /\ PutInMapped'
         /\ UnloggedMapped' /\ IndexedMapped' /\ AddsNew'
<1>1. (Replaying' <=> Replaying) /\ (Taken' = Taken)
  BY DEF Replaying, Taken
<1>2. \A i \in 1 .. Len(wal) : wal[i].key \in Keys
  BY LogOfRecords
<1>3. replayed \in Nat /\ (Replaying => 1 <= replayed)
  BY LogOfRecords DEF Replaying
<1>4. ReplayKept'
  BY <1>1 DEF Logged, ReplayKept
<1>5. LogOrdered' /\ AddsNew'
  BY DEF Logged, LogOrdered, AddsNew
<1>6. FirstAddsNew'
  <2> SUFFICES ASSUME Settled', NEW i \in 1 .. Len(wal), wal[i].op = "add", FirstOf(i, 1, wal),
                      NEW p \in Place, OnDisk(p, wal[i].key)'
               PROVE  FALSE
    BY DEF FirstAddsNew
  <2>1. PICK k \in Keys : k = wal[i].key /\ OnDisk(p, k)'
    BY <1>2
  <2> QED
    BY <2>1 DEF Logged, FirstAddsNew
<1>7. PendingAddsNew'
  <2> SUFFICES ASSUME Replaying, NEW i \in replayed .. Len(wal), wal[i].op = "add",
                      FirstOf(i, replayed, wal), NEW p \in Place, Live(p, wal[i].key)'
               PROVE  FALSE
    BY <1>1 DEF PendingAddsNew
  <2>1. i \in 1 .. Len(wal)
    BY <1>3, LogOfRecords
  <2>2. PICK k \in Keys : k = wal[i].key /\ Live(p, k)'
    BY <1>2, <2>1
  <2>3. CASE pc = "tombstone" /\ call.op = "delete" /\ call.key = k
    BY <2>2, <2>3
  <2>4. CASE ~(pc = "tombstone" /\ call.op = "delete" /\ call.key = k)
    BY <2>2, <2>4 DEF Logged, PendingAddsNew
  <2> QED
    BY <2>3, <2>4
<1>8. PutInMapped'
  BY <1>1 DEF Logged, PutInMapped
<1>9. UnloggedMapped'
  BY DEF Logged, UnloggedMapped
<1>10. IndexedMapped'
  <2>1. call.op \in {"add", "update"} => call.key \in Keys
    BY DEF Inv, CallsNamed
  <2> QED
    BY <2>1 DEF Logged, IndexedMapped
<1> QED
  BY <1>4, <1>5, <1>6, <1>7, <1>8, <1>9, <1>10

-----------------------------------------------------------------------------
(* add_document(), update_document(), delete_document() and their records  *)

(* A document that is indexed again is not the one a pending add is about. *)
LEMMA IndexDocumentLogged == ASSUME Inv, Content, Logged, IndexDocument PROVE Logged'
<1>1. /\ pc = "index" /\ pc' = "logAdd"
      /\ UNCHANGED <<disk, files, wal, manifest, replayed, truncPending, call>>
      /\ keymap' = [keymap EXCEPT ![call.key] = [gen |-> writer.gen, docid |-> Len(writer.docs) + 1]]
      /\ writer' = [writer EXCEPT !.docs = Append(@, [key |-> call.key, ver |-> call.ver])]
  BY DEF IndexDocument, Step, Goto, budget
<1>2. /\ call.key \in Keys /\ call.op \in {"add", "update"} /\ writer.gen # 0
      /\ DOMAIN keymap = Keys /\ writer'.gen = writer.gen
  BY <1>1 DEF Inv, CallsNamed, Shapes, CatalogueTypeOK, WriterApart
<1>3. \A k \in Keys : keymap'[k] # NoPlace \/ (k # call.key /\ keymap'[k] = keymap[k])
  BY <1>1, <1>2 DEF NoPlace
<1>4. /\ (Replaying' <=> Replaying) /\ Taken' = Taken /\ (Settled' <=> Settled)
      /\ ~Unopened /\ ~Unopened' /\ Serving
  BY <1>1, <1>2 DEF Replaying, Taken, Settled, Unopened, Serving
<1>5. \A k, p : OnDisk(p, k)' <=> OnDisk(p, k)
  BY <1>1 DEF OnDisk, SavedAt
<1>6. CallsRun' /\ ReplayKept' /\ LogOrdered' /\ NothingRises'
  BY <1>1, <1>2, <1>4 DEF Logged, CallsRun, ReplayKept, LogOrdered, NothingRises
<1>7. FirstAddsNew'
  BY <1>1, <1>4, <1>5 DEF Logged, FirstAddsNew
<1>8. PendingAddsNew'
  <2> SUFFICES ASSUME Replaying, NEW i \in replayed .. Len(wal), wal[i].op = "add",
                      FirstOf(i, replayed, wal), NEW p \in Place, Live(p, wal[i].key)'
               PROVE  FALSE
    BY <1>1, <1>4 DEF PendingAddsNew
  <2>1. /\ replayed - 1 \in 1 .. i - 1 /\ replayed - 1 + 1 = replayed /\ i \in 1 .. Len(wal) /\ i \in Nat
        /\ wal[replayed - 1].op = call.op /\ wal[replayed - 1].key = call.key
    BY <1>1, LogOfRecords DEF Logged, ReplayKept
  <2>2. PICK k \in Keys : k = wal[i].key /\ Live(p, k)'
    BY <1>1, <2>1, LogOfRecords
  <2>3. CASE k = call.key
    <3>1. PutIn(wal[i].key, i - 1, wal)
      BY <1>2, <2>1, <2>2, <2>3, FirstPutsIn
    <3> QED
      BY <2>1, <3>1 DEF Logged, LogOrdered
  <2>4. CASE k # call.key
    <3>1. Live(p, k)
      BY <2>2, <2>4, IndexedLive
    <3> QED
      BY <1>1, <2>2, <3>1 DEF Logged, PendingAddsNew
  <2> QED
    BY <2>3, <2>4
<1>9. PutInMapped' /\ UnloggedMapped' /\ IndexedMapped'
  BY <1>1, <1>2, <1>3, <1>4, <1>5 DEF Logged, PutInMapped, UnloggedMapped, IndexedMapped
<1>10. AddsNew'
  BY <1>1, <1>4, <1>5 DEF Logged, AddsNew
<1> QED
  BY <1>6, <1>7, <1>8, <1>9, <1>10 DEF Logged

(* The record of a call that is over is the last of its key.               *)
LEMMA RecordLogged ==
  ASSUME Inv, Logged, ~Replaying, NEW r \in Record, r.key = call.key, wal' = Append(wal, r),
         \/ pc = "logAdd" /\ call.op = "add" /\ r.op = "add"
         \/ pc = "logUpdate" /\ r.op = "update"
         \/ pc = "logDelete" /\ r.op = "delete",
         UNCHANGED <<disk, files, keymap, writer, replayed, truncPending>>,
         pc' \in {"flush", "tombstone", "ready"}, call' \in {call, NoCall}
  PROVE  ReplayKept' /\ LogOrdered' /\ FirstAddsNew' /\ PendingAddsNew' /\ PutInMapped'
         /\ UnloggedMapped' /\ IndexedMapped' /\ AddsNew'
<1> DEFINE n == Len(wal)
<1>1. /\ wal \in Seq(Record) /\ n \in Nat /\ Len(wal') = n + 1 /\ wal'[n + 1] = r
      /\ \A i \in 1 .. n : wal'[i] = wal[i]
  BY LogOfRecords, AppendProperties
<1> HIDE DEF n
<1>2. ~Replaying' /\ Taken = n /\ Taken' = n + 1 /\ ~Unopened /\ ~Unopened' /\ (Serving' => Serving)
  BY <1>1 DEF Replaying, Taken, Unopened, Serving, n
<1>3. \A k, p : OnDisk(p, k)' <=> OnDisk(p, k)
  BY DEF OnDisk, SavedAt
<1>4. ASSUME NEW k, NEW m \in 0 .. n
      PROVE  PutIn(k, m, wal') <=> PutIn(k, m, wal)
  <2>1. m \in Nat /\ \A i \in 1 .. m : wal'[i] = wal[i]
    BY <1>1
  <2> QED
    BY <2>1, PutInAgrees
<1>5. ReplayKept' /\ PendingAddsNew' /\ AddsNew'
  BY <1>2 DEF Logged, ReplayKept, PendingAddsNew, AddsNew
<1>6. pc = "logAdd" => /\ ~PutIn(call.key, n, wal)
                       /\ ~Recorded(call.key, wal) => \A p \in Place : ~OnDisk(p, call.key)
  BY DEF Logged, AddsNew, n
<1>7. LogOrdered'
  <2> SUFFICES ASSUME NEW i \in 1 .. n + 1, wal'[i].op = "add", PutIn(wal'[i].key, i - 1, wal')
               PROVE  FALSE
    BY <1>1 DEF LogOrdered
  <2>1. i - 1 \in 0 .. n /\ PutIn(wal'[i].key, i - 1, wal)
    BY <1>1, <1>4
  <2>2. CASE i \in 1 .. n
    BY <1>1, <2>1, <2>2 DEF Logged, LogOrdered, n
  <2>3. CASE i = n + 1
    BY <1>1, <1>6, <2>1, <2>3
  <2> QED
    BY <1>1, <2>2, <2>3
<1>8. FirstAddsNew'
  <2> SUFFICES ASSUME Settled, NEW i \in 1 .. n + 1, wal'[i].op = "add", FirstOf(i, 1, wal'),
                      NEW p \in Place, OnDisk(p, wal[i].key)'
               PROVE  FALSE
    BY <1>1 DEF FirstAddsNew, Settled, FirstOf
  <2>1. OnDisk(p, wal'[i].key)
    BY DEF OnDisk, SavedAt
  <2>2. CASE i \in 1 .. n
    <3>1. wal'[i] = wal[i] /\ FirstOf(i, 1, wal)
      BY <1>1, <2>2 DEF FirstOf
    <3> QED
      BY <2>1, <2>2, <3>1 DEF Logged, FirstAddsNew, n
  <2>3. CASE i = n + 1
    <3>1. pc = "logAdd" /\ wal'[i].key = call.key
      BY <1>1, <2>3
    <3>2. ~Recorded(call.key, wal)
      BY <1>1, <2>3, <3>1 DEF Recorded, FirstOf, n
    <3> QED
      BY <1>6, <2>1, <3>1, <3>2
  <2> QED
    BY <1>1, <2>2, <2>3
<1>9. IndexedMapped'
  BY <1>2 DEF Logged, IndexedMapped, NoCall
<1>10. PutInMapped'
  <2> SUFFICES ASSUME Serving, NEW k \in Keys, PutIn(k, n + 1, wal') PROVE keymap[k] # NoPlace
    BY <1>2 DEF PutInMapped
  <2>1. \/ r.key = k /\ r.op # "delete"
        \/ PutIn(k, n, wal) /\ ~(r.key = k /\ r.op = "delete")
    <3>1. /\ wal'[n + 1] = r /\ n \in Nat
          /\ PutIn(k, n, wal') <=> PutIn(k, n, wal)
      BY <1>1, <1>4
    <3>2. PutIn(k, n + 1, wal') <=>
            \/ wal'[n + 1].key = k /\ wal'[n + 1].op # "delete"
            \/ PutIn(k, n, wal') /\ ~(wal'[n + 1].key = k /\ wal'[n + 1].op = "delete")
      BY <3>1, PutInStep
    <3> QED
      BY <3>1, <3>2
  <2>2. CASE r.key = k /\ r.op # "delete"
    BY <2>2 DEF Logged, IndexedMapped, CallsRun
  <2>3. CASE PutIn(k, n, wal) /\ ~(r.key = k /\ r.op = "delete")
    BY <1>2, <2>3 DEF Logged, PutInMapped
  <2> QED
    BY <2>1, <2>2, <2>3
<1>11. UnloggedMapped'
  <2> SUFFICES ASSUME Serving, NEW k \in Keys, NEW p \in Place, ~Recorded(k, wal'), OnDisk(p, k)
               PROVE  keymap[k] # NoPlace
    BY <1>2, <1>3 DEF UnloggedMapped
  <2>1. ~Recorded(k, wal) /\ k # call.key
    BY <1>1 DEF Recorded, n
  <2> QED
    BY <1>2, <2>1 DEF Logged, UnloggedMapped
<1> QED
  BY <1>5, <1>7, <1>8, <1>9, <1>10, <1>11

(* While the log is replayed the record is there already.                  *)
LEMMA LogLogged ==
  ASSUME Durable, Inv, Content, Logged, LogAdd \/ LogUpdate \/ LogDelete
  PROVE  Logged'
<1> USE DEF LogAdd, LogUpdate, LogDelete, Step, Goto, AfterAdd, Return, budget, memory
<1>1. /\ pc \in {"logAdd", "logUpdate", "logDelete"}
      /\ UNCHANGED <<disk, files, keymap, manifest, stones, writer, replayed, truncPending>>
      /\ pc' = "replay" => Replaying
      /\ IF pc' = "ready" THEN ~Replaying /\ call' = NoCall ELSE call' = call
      /\ pc' \in {"flush", "logUpdate", "tombstone", "replay", "ready"}
      /\ pc = "logDelete" => pc' \in {"replay", "ready"}
      /\ pc' = "tombstone" => pc = "logUpdate"
      /\ pc' = "logUpdate" => call.op = "update"
  OBVIOUS
<1>2. CallsRun' /\ NothingRises'
  BY <1>1 DEF Logged, CallsRun, NothingRises
<1>3. CASE wal' = wal /\ pc # "logDelete"
  <2>1. \A k, p : (OnDisk(p, k)' <=> OnDisk(p, k)) /\ (Live(p, k)' <=> Live(p, k))
    BY <1>1 DEF OnDisk, SavedAt, Live, FlushedAt, BufferedAt
  <2>2. ~Unopened /\ ~Unopened' /\ (Settled' => Settled) /\ (Serving' => Serving)
    BY <1>1 DEF Unopened, Settled, Serving
  <2>3. (Replaying => disk'.segs = manifest'.segs) /\ (truncPending' => Replaying)
    BY <1>1 DEF Logged, ReplayKept
  <2> HIDE DEF LogAdd, LogUpdate, LogDelete
  <2> QED
    BY <1>1, <1>2, <1>3, <2>1, <2>2, <2>3, CalmLogged DEF Logged, NoCall
<1>4. CASE pc = "logDelete" /\ Replaying
  <2>1. wal' = wal /\ pc' = "replay" /\ call.op = "delete" /\ call' = call /\ replayed \in Nat
    BY <1>1, <1>4, LogOfRecords DEF Inv, CallsNamed
  <2> HIDE DEF LogAdd, LogUpdate, LogDelete
  <2>2. \A k, p : (OnDisk(p, k)' <=> OnDisk(p, k)) /\ (Live(p, k)' <=> Live(p, k))
    BY <1>1 DEF OnDisk, SavedAt, Live, FlushedAt, BufferedAt
  <2>3. Replaying' /\ Taken = replayed - 1 /\ Taken' = Taken /\ (Serving' => Serving) /\ (Settled' <=> Settled)
    BY <1>1, <1>4, <2>1 DEF Replaying, Taken, Unopened, Serving, Settled
  <2>4. /\ replayed - 1 \in 1 .. Len(wal) /\ replayed - 2 \in Nat /\ replayed - 2 + 1 = replayed - 1
        /\ wal[replayed - 1].key = call.key /\ wal[replayed - 1].op = "delete"
    BY <1>4, <2>1, LogOfRecords DEF Logged, ReplayKept
  <2>5. ~PutIn(call.key, replayed - 1, wal)
    BY <2>4, PutInStep
  <2>6. Recorded(call.key, wal)
    BY <2>4 DEF Recorded
  <2>7. PutInMapped' /\ UnloggedMapped'
    BY <1>1, <2>1, <2>2, <2>3, <2>5, <2>6 DEF Logged, PutInMapped, UnloggedMapped
  <2>8. LogOrdered' /\ IndexedMapped' /\ AddsNew'
    BY <1>1, <1>4, <2>1, <2>3 DEF Logged, LogOrdered, IndexedMapped, AddsNew
  <2>10. ReplayKept'
    BY <1>1, <1>4, <2>1, <2>3 DEF Logged, ReplayKept, Unopened
  <2>9. FirstAddsNew' /\ PendingAddsNew'
    BY <1>1, <1>4, <2>1, <2>2, <2>3 DEF Logged, FirstAddsNew, PendingAddsNew
  <2> QED
    BY <1>2, <2>7, <2>8, <2>9, <2>10 DEF Logged
<1>5. CASE wal' # wal \/ (pc = "logDelete" /\ ~Replaying)
  <2>1. PICK r : /\ r = [op |-> r.op, key |-> call.key, ver |-> r.ver] /\ wal' = Append(wal, r)
                 /\ \/ pc = "logAdd" /\ call.op = "add" /\ r.op = "add" /\ r.ver = call.ver
                    \/ pc = "logUpdate" /\ r.op = "update" /\ r.ver = call.ver
                    \/ pc = "logDelete" /\ r.op = "delete" /\ r.ver = 0
                 /\ ~Replaying
    <3>1. CASE LogAdd /\ call.op = "add"
      <4> WITNESS [op |-> "add", key |-> call.key, ver |-> call.ver]
      <4> QED BY <1>5, <3>1
    <3>2. CASE LogUpdate
      <4> WITNESS [op |-> "update", key |-> call.key, ver |-> call.ver]
      <4> QED BY <1>5, <3>2
    <3>3. CASE LogDelete
      <4> WITNESS [op |-> "delete", key |-> call.key, ver |-> 0]
      <4> QED BY <1>5, <3>3
    <3> QED
      BY <1>5, <3>1, <3>2, <3>3
  <2>2. call.key \in Keys /\ call.ver \in Nat /\ r.op \in {"add", "update", "delete"}
    BY <1>1, <2>1 DEF Inv, CallsNamed, Logged, CallsRun, Shapes, CatalogueTypeOK
  <2>3. r \in Record /\ r.key = call.key
    BY <2>1, <2>2 DEF Record
  <2>4. pc' \in {"flush", "tombstone", "ready"} /\ call' \in {call, NoCall}
    BY <1>1, <2>1
  <2> HIDE DEF LogAdd, LogUpdate, LogDelete
  <2> QED
    BY <1>1, <1>2, <2>1, <2>3, <2>4, RecordLogged DEF Logged
<1> QED
  BY <1>3, <1>4, <1>5

(* A delete leaves no copy for a later add to meet.                        *)
LEMMA BuryLogged ==
  ASSUME Sheltered, Inv, Content, Unique, Logged, TombstoneOld \/ TombstoneDeleted
  PROVE  Logged'
<1> USE DEF TombstoneOld, TombstoneDeleted, Goto, Return
<1>1. /\ pc = "tombstone" /\ pc' \in {"unmap", "replay", "ready"}
      /\ UNCHANGED <<disk, keymap, wal, manifest, replayed, truncPending>>
      /\ pc' = "replay" => Replaying
      /\ IF pc' = "ready" THEN ~Replaying /\ call' = NoCall ELSE call' = call
  OBVIOUS
<1>2. call.old \in Place
  BY DEF Content, PlacesKept
<1>3. /\ \A k, p : p \in Place => (Live(p, k)' => Live(p, k))
      /\ \A k, p : p \in Place => (OnDisk(p, k)' => OnDisk(p, k))
      /\ writer'.gen = writer.gen
      /\ call.op = "delete" => \A k, p : p \in Place => (Live(p, k)' => p # call.old)
  <2>1. CASE call.op = "update" /\ call.old = NoPlace
    <3>1. UNCHANGED <<files, stones, writer>>
      BY <2>1
    <3> QED
      BY <1>1, <2>1, <3>1 DEF Live, FlushedAt, BufferedAt, OnDisk, SavedAt
  <2>2. CASE ~(call.op = "update" /\ call.old = NoPlace)
    <3>1. PICK ok \in BOOLEAN : Tombstone(call.old, ok)
      BY <2>2
    <3> HIDE DEF TombstoneOld, TombstoneDeleted
    <3> QED
      BY <1>1, <1>2, <3>1, TombstoneBuries
  <2> QED
    BY <2>1, <2>2
<1> HIDE DEF TombstoneOld, TombstoneDeleted
<1>4. call.op = "delete" => \A k \in Keys, p \in Place : k = call.key => ~Live(p, k)'
  <2>1. call.op = "delete" => call.old = keymap[call.key]
    BY <1>1 DEF Unique, KeyLookedUp
  <2> QED
    BY <1>1, <1>3, <2>1 DEF Unique, SingleCopy, Loading, HalfUpdated
<1>5. CallsRun' /\ NothingRises'
  BY <1>1 DEF CallsRun, NothingRises
<1>6. ~Unopened /\ ~Unopened' /\ (Settled' => Settled) /\ (Serving' => Serving)
  BY <1>1, <1>3 DEF Unopened, Settled, Serving
<1>7. (Replaying => disk'.segs = manifest'.segs) /\ (truncPending' => Replaying)
  BY <1>1 DEF Logged, ReplayKept
<1> QED
  BY <1>1, <1>3, <1>4, <1>5, <1>6, <1>7, CalmLogged DEF Logged, NoCall

(* The key of a delete that is about to be recorded is no longer in.       *)
LEMMA UnmapLogged == ASSUME Inv, Logged, Unmap PROVE Logged'
<1>1. /\ pc = "unmap" /\ pc' = "logDelete"
      /\ UNCHANGED <<disk, files, wal, manifest, stones, writer, replayed, truncPending, call>>
      /\ keymap' = [keymap EXCEPT ![call.key] = NoPlace]
  BY DEF Unmap, Step, Goto, memory, budget
<1>2. call.op = "delete" /\ DOMAIN keymap = Keys
  BY <1>1 DEF Inv, CallsNamed, Shapes, CatalogueTypeOK
<1>3. \A k, p : (OnDisk(p, k)' <=> OnDisk(p, k)) /\ (Live(p, k)' <=> Live(p, k))
  BY <1>1 DEF OnDisk, SavedAt, Live, FlushedAt, BufferedAt
<1>4. /\ (Replaying' <=> Replaying) /\ Taken' = Taken /\ ~Unopened /\ ~Unopened'
      /\ (Settled' <=> Settled) /\ (Serving' => Serving)
  BY <1>1 DEF Replaying, Taken, Unopened, Settled, Serving
<1>5. CallsRun' /\ NothingRises' /\ LogOrdered' /\ AddsNew'
  BY <1>1 DEF Logged, CallsRun, NothingRises, LogOrdered, AddsNew
<1>6. ReplayKept'
  BY <1>1, <1>4 DEF Logged, ReplayKept
<1>7. FirstAddsNew' /\ PendingAddsNew'
  BY <1>1, <1>3, <1>4 DEF Logged, FirstAddsNew, PendingAddsNew
<1>8. PutInMapped' /\ UnloggedMapped' /\ IndexedMapped'
  BY <1>1, <1>2, <1>3, <1>4 DEF Logged, PutInMapped, UnloggedMapped, IndexedMapped
<1> QED
  BY <1>5, <1>6, <1>7, <1>8 DEF Logged

-----------------------------------------------------------------------------
(* The client's calls and the log                                          *)

(* A key that is added is neither in the log nor, unlogged, on disk.       *)
LEMMA InvokeLogged ==
  ASSUME Inv, Logged, NEW op \in Ops \ {"compact"}, NEW k \in Keys \cup {Absent},
         op \in {"add", "update", "delete"} => k \in Keys, Invoke(op, k)
  PROVE  Logged'
<1> USE DEF Invoke, disks, memory, budget
<1>1. op \in {"add", "update", "delete", "flush", "maintain"}
  BY DEF Ops
<1>2. /\ UNCHANGED <<disk, files, keymap, wal, manifest, writer, replayed, truncPending>>
      /\ pc = "ready" /\ pc' \in {"index", "tombstone", "flush", "maintain"}
      /\ pc' = "index" <=> op \in {"add", "update"}
      /\ pc' = "tombstone" <=> op = "delete"
      /\ pc' = "flush" => op = "flush"
      /\ op = "add" => keymap[k] = NoPlace /\ writer.gen # 0
      /\ call'.op = op /\ call'.key = k
  BY <1>1 DEF Call
<1> HIDE DEF Invoke, disks, memory, budget
<1>3. /\ ~Replaying /\ ~Replaying' /\ ~Unopened /\ ~Unopened' /\ (Settled' <=> Settled)
      /\ Taken = Len(wal) /\ Taken' = Len(wal) /\ (Serving' => Serving)
      /\ op = "add" => Serving
  BY <1>2 DEF Logged, ReplayKept, Replaying, Unopened, Settled, Taken, Serving
<1>4. \A l, p : OnDisk(p, l)' <=> OnDisk(p, l)
  BY <1>2 DEF OnDisk, SavedAt
<1>5. CallsRun' /\ NothingRises' /\ LogOrdered'
  BY <1>2 DEF Logged, CallsRun, NothingRises, LogOrdered
<1>6. ReplayKept' /\ PendingAddsNew'
  BY <1>2, <1>3 DEF Logged, ReplayKept, PendingAddsNew
<1>7. FirstAddsNew'
  BY <1>2, <1>3, <1>4 DEF Logged, FirstAddsNew
<1>8. PutInMapped' /\ UnloggedMapped' /\ IndexedMapped'
  BY <1>2, <1>3, <1>4 DEF Logged, PutInMapped, UnloggedMapped, IndexedMapped
<1>9. AddsNew'
  <2> SUFFICES ASSUME op = "add"
               PROVE  /\ ~PutIn(k, Len(wal), wal)
                      /\ ~Recorded(k, wal) => \A p \in Place : ~OnDisk(p, k)
    BY <1>2, <1>4 DEF AddsNew
  <2> QED
    BY <1>2, <1>3 DEF Logged, PutInMapped, UnloggedMapped
<1> QED
  BY <1>5, <1>6, <1>7, <1>8, <1>9 DEF Logged

(* compact() is called between calls.                                      *)
LEMMA CallCompactLogged == ASSUME Inv, Logged, CallCompact PROVE Logged'
<1>1. /\ UNCHANGED <<disk, files, keymap, wal, manifest, stones, writer, replayed, truncPending>>
      /\ pc = "ready" /\ pc' = "takeOutput" /\ call'.op = "compact"
  BY DEF CallCompact, disks, memory, budget, NoCall
<1>2. ~Replaying /\ ~Unopened /\ ~Unopened' /\ (Settled' => Settled) /\ (Serving' => Serving) /\ ~truncPending'
  BY <1>1 DEF Unopened, Settled, Serving, Logged, ReplayKept
<1>3. \A k, p : OnDisk(p, k)' <=> OnDisk(p, k)
  BY <1>1 DEF OnDisk, SavedAt
<1>4. CallsRun' /\ NothingRises'
  BY <1>1 DEF CallsRun, NothingRises
<1> QED
  BY <1>1, <1>2, <1>3, <1>4, CalmLogged DEF Logged

-----------------------------------------------------------------------------
(* flush() and the log                                                     *)

(* A file that no list has is nothing yet.                                 *)
LEMMA WriteSegmentLogged == ASSUME Inv, Content, Logged, WriteSegment PROVE Logged'
<1>1. /\ UNCHANGED <<disk, keymap, wal, manifest, stones, writer, replayed, truncPending>>
      /\ pc = "flush" /\ pc' \in {"register", "logUpdate", "replay", "ready"}
      /\ pc' = "replay" => Replaying
      /\ IF pc' = "ready" THEN ~Replaying /\ call' = NoCall ELSE call' = call
      /\ pc' = "logUpdate" => call.op = "update"
      /\ files' = files \/ files' = Put(files, writer.gen, [docs |-> writer.docs, del |-> writer.del])
  BY DEF WriteSegment, Step, Goto, AfterFlush, AfterAdd, Return, memory, budget
<1>2. writer.gen \notin Range(disk.segs) \cup Range(manifest.segs)
  BY DEF Inv, WriterApart
<1>3. /\ Range(disk.segs) \cup Range(manifest.segs) \subseteq DOMAIN files
      /\ \A g \in DOMAIN files : g # writer.gen => files'[g] = files[g]
  BY <1>1 DEF Inv, Listed, Put
<1>4. \A k, p : (OnDisk(p, k)' <=> OnDisk(p, k)) /\ (Live(p, k)' <=> Live(p, k))
  BY <1>1, <1>2, <1>3 DEF OnDisk, SavedAt, Live, FlushedAt, BufferedAt
<1>5. CallsRun' /\ NothingRises'
  BY <1>1 DEF Logged, CallsRun, NothingRises
<1>6. ~Unopened /\ ~Unopened' /\ (Settled' => Settled) /\ (Serving' => Serving)
  BY <1>1 DEF Unopened, Settled, Serving
<1>7. (Replaying => disk'.segs = manifest'.segs) /\ (truncPending' => Replaying)
  BY <1>1 DEF Logged, ReplayKept
<1> QED
  BY <1>1, <1>4, <1>5, <1>6, <1>7, CalmLogged DEF Logged, NoCall

(* What a flush puts on disk has a place in the keymap; if it cannot open  *)
(* its segment, nothing is listed and nothing more is indexed.             *)
LEMMA RegisterSegmentLogged ==
  ASSUME Sheltered, Durable, Inv, Content, Unique, Logged, Inv', Content', Unique', RegisterSegment
  PROVE  Logged'
<1>1. /\ UNCHANGED <<files, keymap, wal, replayed, truncPending>> /\ pc = "register"
      /\ \/ pc' = "newWriter" /\ disk' = manifest' /\ UNCHANGED call
         \/ /\ UNCHANGED <<disk, manifest>> /\ pc' \in {"logUpdate", "replay", "ready"}
            /\ pc' = "replay" => Replaying
            /\ IF pc' = "ready" THEN ~Replaying /\ call' = NoCall ELSE call' = call
            /\ pc' = "logUpdate" => call.op = "update"
  BY DEF RegisterSegment, Goto, AfterFlush, AfterAdd, Return, Fault, Sheltered
<1>2. call.op \in {"add", "update", "flush"}
  BY <1>1 DEF Logged, CallsRun
<1>3. ~Unopened /\ ~Unopened' /\ Serving /\ (Settled' => Settled) /\ (truncPending' => Replaying)
  <2>1. writer.gen # 0
    BY <1>1, NoPlaceIsNowhere DEF Inv, WriterApart
  <2> QED
    BY <1>1, <1>2, <2>1 DEF Unopened, Settled, Serving, Logged, ReplayKept
<1>4. \A k, p : Live(p, k)' => Live(p, k)
  BY RegisteredLive
<1>5. CallsRun' /\ NothingRises'
  BY <1>1, <1>2 DEF Logged, CallsRun, NothingRises
<1>6. CASE pc' = "newWriter"
  <2>1. IndexedMapped'
    BY <1>1, <1>6 DEF Logged, IndexedMapped
  <2>2. \A k \in Keys, p \in Place : OnDisk(p, k)' => keymap'[k] # NoPlace
    <3>1. (Inv /\ Content /\ Unique /\ IndexedMapped)' =>
            (~Loading /\ pc \notin {"down", "saveStones", "unlist"}
               /\ Range(disk.segs) \subseteq Range(manifest.segs) =>
               \A k \in Keys, p \in Place : OnDisk(p, k) => keymap[k] # NoPlace)'
      BY SyncedNames, PTL
    <3>2. ~Loading' /\ Range(disk'.segs) \subseteq Range(manifest'.segs)
      BY <1>1, <1>6 DEF Loading
    <3> QED
      BY <1>1, <1>6, <2>1, <3>1, <3>2
  <2>3. ~Settled'
    BY <1>1, <1>2, <1>6 DEF Settled
  <2> QED
    BY <1>1, <1>3, <1>4, <1>5, <1>6, <2>2, <2>3, CalmLogged DEF Logged
<1>7. CASE pc' # "newWriter"
  <2>1. /\ \A k, p : OnDisk(p, k)' <=> OnDisk(p, k)
        /\ Replaying => disk'.segs = manifest'.segs
    BY <1>1, <1>7 DEF OnDisk, SavedAt, Logged, ReplayKept
  <2> QED
    BY <1>1, <1>3, <1>4, <1>5, <1>7, <2>1, CalmLogged DEF Logged, NoCall
<1> QED
  BY <1>6, <1>7

(* With a new memory segment open() goes on to the replay, where the first *)
(* adds of the log find nothing, and a flush to the truncation.            *)
LEMMA StartNewWriterLogged ==
  ASSUME Sheltered, Durable, Inv, Content, Unique, Logged, StartNewWriter
  PROVE  Logged'
<1> USE DEF StartNewWriter, Goto, Fault, Sheltered
<1>1. /\ UNCHANGED <<files, keymap, wal, stones, truncPending, call>> /\ pc = "newWriter"
      /\ disk' = manifest' /\ manifest' = [manifest EXCEPT !.gen = @ + 1]
      /\ writer' = [gen |-> manifest.gen, docs |-> <<>>, del |-> {}]
      /\ \/ call.op = "open" /\ pc' = "replay" /\ replayed' = 1
         \/ call.op # "open" /\ pc' = "truncate" /\ replayed' = replayed
  BY DEF ModesAssumption
<1> HIDE DEF StartNewWriter, Goto, Fault, Sheltered
<1>2. /\ disk'.segs = manifest.segs /\ manifest'.segs = manifest.segs /\ disk.segs = manifest.segs
      /\ writer'.docs = <<>> /\ DOMAIN writer'.docs = {}
      /\ writer'.gen = manifest.gen /\ manifest.gen \in Nat /\ 0 < manifest.gen
  <2>1. disk.gen \in Nat /\ manifest.gen \in Nat /\ 0 < disk.gen /\ disk.gen <= manifest.gen
    BY <1>1, NoPlaceIsNowhere, GenerationsAreNumbers DEF Inv, Numbered, Shapes, CatalogueTypeOK, Catalogue
  <2>2. manifest'.segs = manifest.segs /\ disk.segs = manifest.segs
    BY <1>1 DEF Unique, ListSaved, Synced, Inv, Shapes, CatalogueTypeOK, Catalogue
  <2> QED
    BY <1>1, <2>1, <2>2
<1>3. \A k, p : Live(p, k)' => Live(p, k) /\ FlushedAt(p, k, Range(manifest.segs), stones, files)
  BY <1>1, <1>2 DEF Live, FlushedAt, BufferedAt
<1>4. \A k, p : OnDisk(p, k)' <=> OnDisk(p, k)
  BY <1>1, <1>2 DEF OnDisk, SavedAt
<1>5. \A k \in Keys, p \in Place : OnDisk(p, k) => keymap[k] # NoPlace
  BY <1>1, <1>2, SyncedNames DEF Loading, Logged
<1>6. CallsRun' /\ NothingRises'
  BY <1>1 DEF Logged, CallsRun, NothingRises
<1>7. CASE call.op = "open"
  <2>1. /\ pc' = "replay" /\ replayed' = 1 /\ Replaying' /\ Taken' = 0 /\ ~Unopened' /\ ~truncPending
        /\ Settled /\ ~Replaying
    BY <1>1, <1>7 DEF Logged, ReplayKept, Replaying, Taken, Unopened, Settled
  <2>2. ReplayKept'
    BY <1>1, <1>2, <2>1, LogOfRecords DEF ReplayKept, Unopened
  <2>3. FirstAddsNew'
    BY <1>1, <1>4, <2>1 DEF Logged, FirstAddsNew
  <2>4. PendingAddsNew'
    <3>1. \A k, p : Live(p, k)' => OnDisk(p, k)
      <4>1. \A g \in Range(manifest.segs) : files[g].del = stones[g]
        BY <1>1 DEF Unique, StonesSaved, Content, Stored
      <4> QED
        BY <1>2, <1>3, <4>1 DEF FlushedAt, OnDisk, SavedAt
    <3> SUFFICES ASSUME NEW i \in 1 .. Len(wal), wal[i].op = "add", FirstOf(i, 1, wal),
                        NEW p \in Place, Live(p, wal[i].key)'
                 PROVE  FALSE
      BY <1>1, <2>1 DEF PendingAddsNew
    <3>2. PICK k \in Keys : k = wal[i].key /\ Live(p, k)'
      BY <1>1, LogOfRecords
    <3> QED
      BY <2>1, <3>1, <3>2 DEF Logged, FirstAddsNew
  <2>5. PutInMapped'
    BY <1>1, <2>1, NothingPutIn DEF PutInMapped
  <2>6. UnloggedMapped' /\ IndexedMapped' /\ AddsNew' /\ LogOrdered'
    BY <1>1, <1>2, <1>4, <1>5, <1>7, <2>1
       DEF Logged, UnloggedMapped, IndexedMapped, AddsNew, LogOrdered
  <2> QED
    BY <1>6, <2>2, <2>3, <2>4, <2>5, <2>6 DEF Logged
<1>8. CASE call.op # "open"
  <2>1. ~Unopened /\ ~Unopened' /\ ~Settled' /\ Serving /\ (truncPending' => Replaying)
    BY <1>1, <1>8 DEF Unopened, Settled, Serving, Logged, ReplayKept
  <2> QED
    BY <1>1, <1>2, <1>3, <1>4, <1>6, <1>8, <2>1, CalmLogged DEF Logged
<1> QED
  BY <1>7, <1>8

(* When the log is emptied, what is on disk is in the keymap.              *)
LEMMA TruncateWalLogged == ASSUME Durable, Inv, Content, Unique, Logged, TruncateWal PROVE Logged'
<1>1. /\ UNCHANGED <<disk, files, keymap, manifest, stones, writer, replayed>>
      /\ wal' = (IF Replaying THEN wal ELSE <<>>)
      /\ truncPending' = (truncPending \/ Replaying)
      /\ pc = "truncate" /\ pc' \in {"logUpdate", "replay", "ready"}
      /\ pc' = "replay" => Replaying
      /\ IF pc' = "ready" THEN ~Replaying /\ call' = NoCall ELSE call' = call
      /\ pc' = "logUpdate" => call.op = "update"
  BY DEF TruncateWal, Goto, AfterFlush, AfterAdd, Return
<1>2. \A k, p : (OnDisk(p, k)' <=> OnDisk(p, k)) /\ (Live(p, k)' <=> Live(p, k))
  BY <1>1 DEF OnDisk, SavedAt, Live, FlushedAt, BufferedAt
<1>3. CallsRun' /\ NothingRises'
  BY <1>1 DEF Logged, CallsRun, NothingRises
<1>4. ~Unopened /\ ~Unopened' /\ (Serving' => Serving)
  BY <1>1 DEF Unopened, Serving
<1>5. CASE Replaying
  <2>1. ~Settled' /\ disk'.segs = manifest'.segs /\ wal' = wal
    BY <1>1, <1>5 DEF Settled, Logged, ReplayKept
  <2> QED
    BY <1>1, <1>2, <1>3, <1>4, <1>5, <2>1, CalmLogged DEF Logged
<1>6. CASE ~Replaying
  <2>1. wal' = <<>> /\ Len(wal') = 0 /\ ~Replaying' /\ Taken' = 0 /\ ~truncPending'
    BY <1>1, <1>6 DEF Replaying, Taken, Logged, ReplayKept
  <2>2. \A k \in Keys, p \in Place : OnDisk(p, k) => keymap[k] # NoPlace
    BY <1>1, SyncedNames DEF Loading, Logged, Unique, ListSaved, Synced
  <2>3. ReplayKept' /\ LogOrdered' /\ FirstAddsNew' /\ PendingAddsNew' /\ AddsNew'
    BY <1>1, <1>4, <1>6, <2>1 DEF ReplayKept, LogOrdered, FirstAddsNew, PendingAddsNew, AddsNew
  <2>4. PutInMapped' /\ UnloggedMapped'
    BY <1>1, <1>2, <2>1, <2>2, NothingPutIn DEF PutInMapped, UnloggedMapped
  <2>5. IndexedMapped'
    BY <1>1, <1>4 DEF Logged, IndexedMapped, NoCall
  <2> QED
    BY <1>3, <2>3, <2>4, <2>5 DEF Logged
<1> QED
  BY <1>5, <1>6

-----------------------------------------------------------------------------
(* maintain(), compact() and the log                                       *)

(* The log is replayed by calls that compact nothing.                      *)
LEMMA NoReplayCompacts ==
  ASSUME Inv, Unique, Logged, pc \in Compacts
  PROVE  ~Replaying /\ ~truncPending /\ ~Unopened /\ call.op \in {"maintain", "compact"}
<1>1. call.op \in {"maintain", "compact"} /\ ~Unopened /\ pc # "replay"
  BY DEF Unique, OutputCurrent, Compacts, Unopened
<1>2. ASSUME Replaying
      PROVE  FALSE
  <2>1. replayed - 1 \in 1 .. Len(wal) /\ wal[replayed - 1].op = call.op
    BY <1>1, <1>2, LogOfRecords DEF Logged, ReplayKept
  <2>2. wal[replayed - 1] \in Record
    BY <2>1, LogOfRecords
  <2> QED
    BY <1>1, <2>1, <2>2 DEF Record
<1> QED
  BY <1>1, <1>2 DEF Logged, ReplayKept

(* A step of a compaction, if it brings no key back to the disk.           *)
LEMMA CompactingLogged ==
  ASSUME Inv, Unique, Logged, pc \in Compacts, pc' \in Compacts \cup {"ready"},
         UNCHANGED <<wal, replayed, truncPending, writer>>, call' \in {call, NoCall},
         \A k \in Keys : keymap[k] # NoPlace => keymap'[k] # NoPlace,
         \A k \in Keys, p \in Place : OnDisk(p, k)' => \E q \in Place : OnDisk(q, k),
         NothingRises'
  PROVE  Logged'
<1>1. ~Replaying /\ ~truncPending /\ ~Unopened /\ call.op \in {"maintain", "compact"}
  BY NoReplayCompacts
<1>2. pc \notin {"index", "logDelete", "replay", "newWriter", "truncate", "tombstone"}
      /\ pc' \notin {"index", "logAdd", "replay", "newWriter", "truncate"}
  BY DEF Compacts
<1>3. ~Unopened' /\ (Settled' => Settled) /\ (Serving' => Serving) /\ CallsRun'
  BY <1>1, <1>2 DEF Unopened, Settled, Serving, Logged, CallsRun, Compacts
<1>4. call'.op \notin {"add", "update"}
  BY <1>1 DEF NoCall
<1> QED
  BY <1>1, <1>2, <1>3, <1>4, CalmLogged DEF Logged

(* What a merge writes is on disk already.                                 *)
LEMMA MergeRises ==
  ASSUME Inv, Content, Unique, Merge, pc' = "mark"
  PROVE  NothingRises'
<1> USE DEF Merge, Goto, memory, CompactFailed, Return
<1>1. /\ pc = "merge" /\ UNCHANGED <<disk, manifest, stones, job>>
      /\ files' = Put(files, job.out, [docs |-> Merged(job.inputs), del |-> {}])
  OBVIOUS
<1> HIDE DEF Merge
<1> DEFINE docs == Merged(job.inputs)
<1>2. /\ files'[job.out].docs = docs
      /\ \A g \in DOMAIN files : g # job.out => files'[g] = files[g]
  BY <1>1 DEF Put
<1>3. /\ job.inputs \in Seq(Nat) /\ IsInjective(job.inputs)
      /\ \A g \in Range(job.inputs) :
           /\ g \in Range(disk.segs) /\ g \in DOMAIN files /\ g # job.out /\ g \in Nat
           /\ files[g].del = stones[g] /\ files[g].docs \in Seq(Doc)
  <2>1. disk.segs = manifest.segs /\ \A g \in DOMAIN stones : files[g].del = stones[g]
    BY <1>1 DEF Unique, ListSaved, StonesSaved, Synced
  <2>2. /\ Range(job.inputs) \subseteq Range(manifest.segs) /\ IsInjective(job.inputs)
        /\ Range(manifest.segs) \subseteq DOMAIN stones /\ DOMAIN stones \subseteq DOMAIN files
        /\ job.out \notin DOMAIN stones
        /\ \A g \in DOMAIN files : files[g].docs \in Seq(Doc)
    BY <1>1 DEF Content, OutputUnopened, Stored, Segment
  <2>3. job.inputs \in Seq(Nat) /\ DOMAIN files \subseteq Nat
    BY DEF Inv, Shapes, CatalogueTypeOK
  <2> QED
    BY <2>1, <2>2, <2>3
<1>4. docs \in Seq(Doc) /\ \E gen, docid : Sources(job.inputs, gen, docid)
  BY <1>3, MergedTraced
<1>5. PICK gen, docid : Sources(job.inputs, gen, docid)
  BY <1>4
<1>6. \A d \in DOMAIN docs : /\ gen[d] \in Range(job.inputs) /\ docid[d] \in LiveIn(gen[d])
                             /\ docs[d] = files[gen[d]].docs[docid[d]]
  BY <1>4, <1>5, LenProperties DEF Sources
<1> HIDE DEF docs
<1>7. ASSUME NEW d \in DOMAIN docs
      PROVE  \E p \in Place : /\ p.gen \in Range(job.inputs)
                              /\ SavedAt(p, docs[d].key, Range(disk'.segs), files')
  <2> DEFINE p == [gen |-> gen[d], docid |-> docid[d]]
  <2>1. /\ gen[d] \in Range(disk.segs) /\ files'[gen[d]] = files[gen[d]] /\ gen[d] \in Nat
        /\ docid[d] \in DOMAIN files[gen[d]].docs \ files[gen[d]].del
    BY <1>2, <1>3, <1>6 DEF LiveIn
  <2>2. docid[d] \in Nat
    <3>1. files[gen[d]].docs \in Seq(Doc)
      BY <1>3, <1>6
    <3> QED
      BY <2>1, <3>1, LenProperties
  <2>3. p \in Place /\ p.gen \in Range(job.inputs)
    BY <1>6, <2>1, <2>2 DEF Place
  <2>4. SavedAt(p, docs[d].key, Range(disk'.segs), files')
    BY <1>1, <1>6, <2>1 DEF SavedAt
  <2> QED
    BY <2>3, <2>4
<1>8. \A d \in DOMAIN files'[job'.out].docs :
        \E p \in Place : /\ p.gen \in Range(job'.inputs)
                         /\ SavedAt(p, files'[job'.out].docs[d].key, Range(disk'.segs), files')
  BY <1>1, <1>2, <1>7
<1> QED
  BY <1>8 DEF NothingRises, OnDisk

(* Files come and go that the saved list does not have.                    *)
LEMMA MergingLogged ==
  ASSUME Inv, Content, Unique, Logged, ListedOnDisk, Maintain \/ TakeOutput \/ Merge \/ Mark
  PROVE  Logged'
<1>1. pc \in Compacts /\ ~Replaying /\ call.op \in {"maintain", "compact"}
  <2>1. pc \in Compacts
    BY DEF Maintain, TakeOutput, Merge, Mark, Compacts
  <2> QED
    BY <2>1, NoReplayCompacts
<1>2. /\ pc' \in Compacts \cup {"ready"} /\ call' \in {call, NoCall}
      /\ UNCHANGED <<wal, replayed, truncPending, writer, keymap>>
      /\ disk'.segs = disk.segs \/ (disk'.segs = manifest.segs /\ pc = "takeOutput")
      /\ pc = "takeOutput" => UNCHANGED files
      /\ pc' = "mark" => pc = "merge"
      /\ pc' = "repoint" => UNCHANGED <<files, disk, job>> /\ pc = "mark"
      /\ pc' # "unlist" /\ pc' # "saveStones"
  <2>1. CASE Maintain
    <3>1. pc = "maintain" /\ UNCHANGED <<disk, files, keymap, wal, replayed, truncPending, writer>>
      BY <2>1 DEF Maintain, disks, memory
    <3>2. call.op = "maintain"
      BY <3>1 DEF Unique, OutputCurrent
    <3>3. \/ pc' = "takeOutput" /\ call' = call
          \/ Goto("ready")
      BY <1>1, <2>1, <3>2 DEF Maintain, EndMaintain, Enter, Return
    <3> QED
      BY <3>1, <3>3 DEF Goto, Compacts
  <2>2. CASE TakeOutput
    <3>1. manifest'.segs = manifest.segs
      BY <2>2, GenerationsAreNumbers DEF TakeOutput, Inv, Shapes, CatalogueTypeOK, Catalogue
    <3>2. pc = "takeOutput" /\ UNCHANGED <<files, keymap, wal, replayed, truncPending, writer>>
          /\ (disk' = manifest' \/ disk' = disk)
      BY <2>2 DEF TakeOutput
    <3>3. \/ pc' = "merge" /\ call' = call
          \/ Goto("ready")
      BY <1>1, <2>2 DEF TakeOutput, Enter, CompactFailed, Return
    <3> QED
      BY <3>1, <3>2, <3>3 DEF Goto, Compacts
  <2>3. CASE Merge
    <3>1. pc = "merge" /\ UNCHANGED <<disk, keymap, wal, replayed, truncPending, writer>>
      BY <2>3 DEF Merge, memory
    <3>2. Goto("mark") \/ Goto("ready")
      BY <1>1, <2>3 DEF Merge, CompactFailed, Return
    <3> QED
      BY <3>1, <3>2 DEF Goto, Compacts
  <2>4. CASE Mark
    <3>1. pc = "mark" /\ UNCHANGED <<disk, keymap, wal, replayed, truncPending, writer>>
      BY <2>4 DEF Mark, memory
    <3>2. (Goto("repoint") /\ UNCHANGED files) \/ Goto("ready")
      BY <1>1, <2>4 DEF Mark, CompactFailed, Return
    <3> QED
      BY <3>1, <3>2 DEF Goto, Compacts
  <2> QED
    BY <2>1, <2>2, <2>3, <2>4
<1>3. \A g \in Range(disk.segs) : files'[g] = files[g]
  <2>1. CASE Maintain \/ TakeOutput
    BY <2>1 DEF Maintain, TakeOutput, disks
  <2>2. CASE Merge \/ Mark
    <3>1. job.out \notin Range(disk.segs) /\ Range(disk.segs) \subseteq DOMAIN files
      BY <2>2 DEF Merge, Mark, Inv, OutputApart, Listed
    <3>2. \/ files' = files \/ files' = Restrict(files, DOMAIN files \ {job.out})
          \/ files' = Put(files, job.out, [docs |-> Merged(job.inputs), del |-> {}])
      BY <2>2 DEF Merge, Mark
    <3> QED
      BY <3>1, <3>2 DEF Restrict, Put
  <2> QED
    BY <2>1, <2>2
<1>4. \A k \in Keys, p \in Place : OnDisk(p, k)' => \E q \in Place : OnDisk(q, k)
  <2>1. CASE disk'.segs = disk.segs
    BY <1>3, <2>1 DEF OnDisk, SavedAt
  <2>2. CASE pc = "takeOutput" /\ disk'.segs = manifest.segs
    <3>1. \A k, p : OnDisk(p, k)' => SavedAt(p, k, Range(manifest.segs), files)
      BY <1>2, <2>2 DEF OnDisk, SavedAt
    <3>2. ~Unopened
      BY <2>2 DEF Unopened
    <3> QED
      BY <3>1, <3>2 DEF ListedOnDisk
  <2> QED
    BY <1>2, <2>1, <2>2
<1>5. NothingRises'
  <2>1. CASE pc' = "mark"
    <3>1. Merge
      BY <1>2, <2>1 DEF Maintain, TakeOutput, Mark
    <3> QED
      BY <2>1, <3>1, MergeRises
  <2>2. CASE pc' = "repoint"
    BY <1>2, <2>2 DEF Logged, NothingRises, OnDisk, SavedAt
  <2> QED
    BY <1>2, <2>1, <2>2 DEF NothingRises
<1> QED
  BY <1>1, <1>2, <1>4, <1>5, CompactingLogged

(* The keys of the output get a place in it.                               *)
LEMMA RepointLogged == ASSUME Inv, Content, Unique, Logged, Repoint PROVE Logged'
<1>1. pc \in Compacts /\ ~Replaying /\ call.op \in {"maintain", "compact"}
  <2>1. pc \in Compacts
    BY DEF Repoint, Compacts
  <2> QED
    BY <2>1, NoReplayCompacts
<1>2. /\ pc = "repoint" /\ pc' \in {"unlist", "ready"} /\ call' \in {call, NoCall}
      /\ UNCHANGED <<disk, manifest, wal, replayed, truncPending, writer>>
      /\ files' = files \/ (files' = Restrict(files, DOMAIN files \ {job.out}) /\ pc' = "ready")
      /\ pc' = "unlist" => UNCHANGED <<files, job>>
      /\ UNCHANGED keymap
           \/ keymap' = [k \in Keys |->
                LET here == {d \in DOMAIN files[job.out].docs : files[job.out].docs[d].key = k} IN
                IF here = {} THEN keymap[k] ELSE [gen |-> job.out, docid |-> Max(here)]]
  BY <1>1 DEF Repoint, Goto, CompactFailed, Return
<1>3. 0 < job.out /\ job.out \notin Range(disk.segs) /\ Range(disk.segs) \subseteq DOMAIN files
  BY <1>2 DEF Inv, OutputApart, Listed
<1>4. ASSUME NEW k \in Keys, keymap[k] # NoPlace
      PROVE  keymap'[k] # NoPlace
  <2>1. keymap'[k] = keymap[k] \/ \E d : keymap'[k] = [gen |-> job.out, docid |-> d]
    BY <1>2
  <2>2. \A d : [gen |-> job.out, docid |-> d] # NoPlace
    BY <1>3 DEF NoPlace
  <2> QED
    BY <1>4, <2>1, <2>2
<1>5. \A k, p : OnDisk(p, k)' <=> OnDisk(p, k)
  BY <1>2, <1>3 DEF OnDisk, SavedAt, Restrict
<1>6. NothingRises'
  <2>1. CASE pc' = "unlist"
    <3>1. disk.segs = manifest.segs
      BY <1>2 DEF Unique, ListSaved, Synced
    <3>2. UNCHANGED <<disk, files, job, manifest>>
      BY <1>2, <2>1
    <3> QED
      BY <1>2, <2>1, <3>1, <3>2 DEF Logged, NothingRises, OnDisk, SavedAt
  <2>2. CASE pc' = "ready"
    BY <2>2 DEF NothingRises
  <2> QED
    BY <1>2, <2>1, <2>2
<1>7. pc' \in Compacts \cup {"ready"}
  BY <1>2 DEF Compacts
<1> QED
  BY <1>1, <1>2, <1>4, <1>5, <1>6, <1>7, CompactingLogged

(* The list on disk waits for the swap.                                    *)
LEMMA UnlistLogged == ASSUME Inv, Content, Unique, Logged, Unlist PROVE Logged'
<1>1. /\ pc = "unlist" /\ pc' = "unlist" /\ job'.out = job.out /\ job'.inputs = job.inputs
      /\ UNCHANGED <<disk, files, keymap, wal, replayed, truncPending, writer, call>>
  BY DEF Unlist, Enter, Inv, Shapes, CatalogueTypeOK, disks
<1>2. Range(manifest'.segs) \subseteq Range(manifest.segs)
  BY UnlistShrinks
<1>3. \A k, p : OnDisk(p, k)' <=> OnDisk(p, k)
  BY <1>1 DEF OnDisk, SavedAt
<1>4. NothingRises'
  BY <1>1, <1>2, <1>3 DEF Logged, NothingRises
<1>5. pc \in Compacts /\ pc' \in Compacts
  BY <1>1 DEF Compacts
<1> QED
  BY <1>1, <1>3, <1>4, <1>5, CompactingLogged

(* What the swap puts on disk takes the place of something there.          *)
LEMMA SwapLogged == ASSUME Inv, Content, Unique, Logged, Swap PROVE Logged'
<1>1. pc \in Compacts /\ ~Replaying /\ call.op \in {"maintain", "compact"}
  <2>1. pc \in Compacts
    BY DEF Swap, Compacts
  <2> QED
    BY <2>1, NoReplayCompacts
<1>2. /\ pc = "unlist" /\ pc' \in {"dropInputs", "ready"} /\ call' \in {call, NoCall}
      /\ UNCHANGED <<files, keymap, wal, replayed, truncPending, writer>>
      /\ disk' = manifest' \/ disk' = disk
  BY <1>1 DEF Swap, Goto, CompactFailed, Return
<1>3. Range(manifest'.segs) = Range(manifest.segs) \cup {job.out}
  <2>1. manifest.segs \in Seq(Nat) /\ job.out \in Nat
    BY DEF Inv, Shapes, CatalogueTypeOK, Catalogue
  <2>2. manifest'.segs = Append(manifest.segs, job.out)
    BY DEF Swap, Inv, Shapes, CatalogueTypeOK, Catalogue
  <2> QED
    BY <2>1, <2>2, AppendRange
<1>4. ASSUME NEW k \in Keys, NEW p \in Place, SavedAt(p, k, Range(disk'.segs), files)
      PROVE  \E q \in Place : OnDisk(q, k)
  <2>1. CASE p.gen \in Range(disk.segs)
    BY <1>4, <2>1 DEF OnDisk, SavedAt
  <2>2. CASE p.gen = job.out
    <3>1. p.docid \in DOMAIN files[job.out].docs /\ files[job.out].docs[p.docid].key = k
      BY <1>4, <2>2 DEF SavedAt
    <3> QED
      BY <1>2, <3>1 DEF Logged, NothingRises
  <2>3. Range(manifest.segs) \subseteq Range(disk.segs)
    BY <1>2 DEF Logged, NothingRises
  <2> QED
    BY <1>2, <1>3, <1>4, <2>1, <2>2, <2>3 DEF SavedAt
<1>5. \A k \in Keys, p \in Place : OnDisk(p, k)' => \E q \in Place : OnDisk(q, k)
  BY <1>2, <1>4 DEF OnDisk
<1>6. NothingRises' /\ pc' \in Compacts \cup {"ready"}
  BY <1>2 DEF NothingRises, Compacts
<1> QED
  BY <1>1, <1>2, <1>5, <1>6, CompactingLogged

(* Files are deleted that are in no list.                                  *)
LEMMA DropInputsLogged == ASSUME Inv, Content, Unique, Logged, DropInputs \/ Unmark PROVE Logged'
<1>1. pc \in Compacts /\ ~Replaying /\ call.op \in {"maintain", "compact"}
  <2>1. pc \in Compacts
    BY DEF DropInputs, Unmark, Compacts
  <2> QED
    BY <2>1, NoReplayCompacts
<1>2. /\ pc \in {"dropInputs", "unmark"} /\ pc' \in {"unmark", "maintain", "ready"}
      /\ call' \in {call, NoCall}
      /\ UNCHANGED <<disk, keymap, wal, replayed, truncPending, writer>>
      /\ files' = files
         \/ (pc = "dropInputs" /\ files' = Restrict(files, DOMAIN files \ Range(job.inputs)))
  BY <1>1 DEF DropInputs, Unmark, Step, Goto, AfterCompact, Return, memory
<1>3. pc = "dropInputs" => Range(job.inputs) \cap Range(disk.segs) = {}
  BY DEF Inv, InputsApart
<1>4. Range(disk.segs) \subseteq DOMAIN files
  BY DEF Inv, Listed
<1>5. \A k, p : OnDisk(p, k)' <=> OnDisk(p, k)
  BY <1>2, <1>3, <1>4 DEF OnDisk, SavedAt, Restrict
<1>6. NothingRises' /\ pc' \in Compacts \cup {"ready"}
  BY <1>2 DEF NothingRises, Compacts
<1> QED
  BY <1>1, <1>2, <1>5, <1>6, CompactingLogged

-----------------------------------------------------------------------------
(* open(), a crash and the log                                             *)

(* An index that is not open yet is asked about its saved list only.       *)
LEMMA UnopenedLogged ==
  ASSUME Inv, Logged, Settled, Unopened', wal' = wal, replayed' = 0, ~truncPending',
         call'.op \notin {"add", "update"}, CallsRun', NothingRises',
         \A k \in Keys, p \in Place : OnDisk(p, k)' => OnDisk(p, k)
  PROVE  Logged'
<1>1. ~Replaying' /\ pc' \notin {"replay", "index", "logAdd"}
  BY DEF Replaying, Unopened
<1>2. \A i \in 1 .. Len(wal) : wal[i].key \in Keys
  BY LogOfRecords
<1>3. FirstAddsNew'
  <2> SUFFICES ASSUME NEW i \in 1 .. Len(wal), wal[i].op = "add", FirstOf(i, 1, wal),
                      NEW p \in Place, OnDisk(p, wal[i].key)'
               PROVE  FALSE
    BY DEF FirstAddsNew
  <2>1. PICK k \in Keys : k = wal[i].key /\ OnDisk(p, k)'
    BY <1>2
  <2> QED
    BY <2>1 DEF Logged, FirstAddsNew
<1>4. ReplayKept' /\ LogOrdered' /\ PendingAddsNew' /\ AddsNew'
  BY <1>1 DEF Logged, ReplayKept, LogOrdered, PendingAddsNew, AddsNew
<1>5. PutInMapped' /\ UnloggedMapped' /\ IndexedMapped'
  BY DEF PutInMapped, UnloggedMapped, IndexedMapped, Serving
<1> QED
  BY <1>3, <1>4, <1>5 DEF Logged

(* Nothing is replayed before the index is open.                           *)
LEMMA UnopenedSettled ==
  ASSUME Inv, Logged, Unopened
  PROVE  Settled /\ replayed = 0 /\ ~truncPending
<1>1. ~Replaying /\ ~truncPending
  BY DEF Logged, ReplayKept
<1>2. replayed = 0
  BY <1>1, LogOfRecords DEF Replaying
<1> QED
  BY <1>1, <1>2 DEF Unopened, Settled

(* Loading and sweeping change no file that is listed.                     *)
LEMMA LoadingLogged ==
  ASSUME Inv, Unique, Logged, Open \/ Sweep \/ RetainGenerations
  PROVE  Logged'
<1>1. Unopened
  BY DEF Open, Sweep, RetainGenerations, Unopened
<1>2. /\ pc' \in {"sweep", "rebuild", "retain", "newWriter"}
      /\ UNCHANGED <<disk, wal, replayed, truncPending>>
      /\ files' = files \/ (pc = "sweep" /\ files' = Restrict(files, DOMAIN files \cap Range(manifest.segs)))
      /\ call'.op \in {"open", "rebuild"} /\ (pc' \in {"retain", "newWriter"} => call'.op = "open")
  <2>1. CASE Open
    BY <2>1 DEF Open, Enter
  <2>2. CASE Sweep
    <3>1. call.op \in {"open", "rebuild"}
      BY <2>2 DEF Sweep, Logged, CallsRun
    <3> QED
      BY <2>2, <3>1 DEF Sweep, Step, Goto, memory
  <2>3. CASE RetainGenerations
    <3>1. call.op = "open"
      BY <2>3 DEF RetainGenerations, Logged, CallsRun
    <3> QED
      BY <2>3, <3>1 DEF RetainGenerations, Step, Goto, memory
  <2> QED
    BY <2>1, <2>2, <2>3
<1>3. /\ pc = "sweep" => disk.segs = manifest.segs
      /\ Range(disk.segs) \subseteq DOMAIN files
  BY DEF Unique, ListSaved, Synced, Inv, Listed
<1>4. \A k, p : OnDisk(p, k)' => OnDisk(p, k)
  BY <1>2, <1>3 DEF OnDisk, SavedAt, Restrict
<1>5. CallsRun' /\ NothingRises' /\ Unopened'
  BY <1>2 DEF CallsRun, NothingRises, Unopened
<1> QED
  BY <1>1, <1>2, <1>4, <1>5, UnopenedSettled, UnopenedLogged

(* A rebuild adds tombstones.                                              *)
LEMMA RebuildLogged ==
  ASSUME Inv, Content, Unique, Logged, RebuildKeymap \/ SaveStones \/ OpenUnmark
  PROVE  Logged'
<1>1. Unopened
  BY DEF RebuildKeymap, SaveStones, OpenUnmark, Unopened
<1>2. /\ pc' \in {"saveStones", "openUnmark", "down", "newWriter"}
      /\ UNCHANGED <<disk, wal, replayed, truncPending>>
      /\ pc' = "newWriter" => call'.op = "open"
      /\ pc' # "newWriter" => call' = call /\ pc \in {"rebuild", "saveStones"}
      /\ pc' = "saveStones" => pc = "rebuild"
  BY DEF RebuildKeymap, SaveStones, OpenUnmark, Step, Goto, Enter, memory, NoCall
<1>3. call'.op \in {"open", "rebuild"}
  BY <1>2 DEF Unique, RebuildMarked
<1>4. CASE RebuildKeymap \/ OpenUnmark
  <2>1. UNCHANGED files
    BY <1>4 DEF RebuildKeymap, OpenUnmark
  <2>2. \A k, p : OnDisk(p, k)' => OnDisk(p, k)
    BY <1>2, <2>1 DEF OnDisk, SavedAt
  <2>3. pc' = "saveStones" => \A g \in DOMAIN stones' : files'[g].del \subseteq stones'[g]
    <3>1. SUFFICES ASSUME RebuildKeymap
                   PROVE  \A g \in DOMAIN stones' : files'[g].del \subseteq stones'[g]
      BY <1>2, <1>4 DEF OpenUnmark
    <3>2. \A g \in DOMAIN stones : files[g].del = stones[g]
      BY <3>1 DEF RebuildKeymap, Unique, StonesSaved
    <3>3. PICK last : stones' = [g \in DOMAIN stones |-> stones[g] \cup Superseded(g, last)]
      BY <3>1 DEF RebuildKeymap
    <3> QED
      BY <2>1, <3>2, <3>3
  <2>4. CallsRun' /\ NothingRises' /\ Unopened'
    BY <1>2, <2>3 DEF CallsRun, NothingRises, Unopened
  <2> QED
    BY <1>1, <1>2, <1>3, <2>2, <2>4, UnopenedSettled, UnopenedLogged
<1>5. CASE SaveStones
  <2>1. pc = "saveStones" /\ DOMAIN files = DOMAIN stones /\ Range(disk.segs) \subseteq DOMAIN files
    BY <1>5 DEF SaveStones, Content, Reopened, Inv, Listed
  <2>2. \A g \in DOMAIN files : files[g].del \subseteq stones[g] /\ files[g] \in Segment
    BY <2>1 DEF Logged, NothingRises, Content, Stored
  <2>3. \A g \in DOMAIN files : /\ files'[g].docs = files[g].docs
                                /\ files'[g].del \in {files[g].del, stones[g]}
    BY <1>5, <2>2 DEF SaveStones, Segment
  <2>4. \A k, p : OnDisk(p, k)' => OnDisk(p, k)
    BY <1>2, <2>1, <2>2, <2>3 DEF OnDisk, SavedAt
  <2>5. CallsRun' /\ NothingRises' /\ Unopened'
    BY <1>2, <2>1 DEF CallsRun, NothingRises, Unopened
  <2> QED
    BY <1>1, <1>2, <1>3, <2>4, <2>5, UnopenedSettled, UnopenedLogged
<1> QED
  BY <1>4, <1>5

(* The process does not die between a flush and the truncation of the log. *)
LEMMA CrashLogged == ASSUME Sheltered, Durable, Inv, Logged, Crash PROVE Logged'
<1>1. /\ UNCHANGED <<disk, files, wal>> /\ pc' = "down" /\ call'.op = "none"
      /\ replayed' = 0 /\ ~truncPending'
  BY DEF Crash, disks, NoCall
<1>2. Window \notin {"updating", "replaying", "exposed", "flushed"}
  BY DEF Crash, Sheltered
<1>3. Settled
  <2>1. ~truncPending /\ ~HalfUpdated /\ ~FlushedUnlogged
    BY <1>2 DEF Window, FlushedUnlogged, HalfUpdated
  <2> QED
    BY <2>1 DEF Settled, HalfUpdated, FlushedUnlogged, Logged, CallsRun
<1>4. CallsRun' /\ NothingRises' /\ Unopened' /\ \A k, p : OnDisk(p, k)' => OnDisk(p, k)
  BY <1>1 DEF CallsRun, NothingRises, Unopened, OnDisk, SavedAt
<1> QED
  BY <1>1, <1>3, <1>4, UnopenedLogged

-----------------------------------------------------------------------------
(* The replay of the log                                                   *)

(* The next record is applied, unless it deletes a key that is not in.     *)
LEMMA ReplayRecordLogged == ASSUME Inv, Content, Unique, Logged, ReplayRecord PROVE Logged'
<1> DEFINE n == replayed
           r == wal[n]
<1>1. /\ pc = "replay" /\ pc' \in {"replay", "index", "tombstone"}
      /\ n \in DOMAIN wal /\ replayed' = n + 1
      /\ UNCHANGED <<disk, files, keymap, wal, manifest, stones, writer, truncPending>>
      /\ call'.op = r.op /\ call'.key = r.key
      /\ r.op \in {"add", "update"} /\ writer.gen # 0 => pc' = "index"
      /\ pc' = "index" => r.op \in {"add", "update"}
      /\ pc' = "tombstone" => r.op \notin {"add", "update"}
      /\ r.op \notin {"add", "update"} => pc' = IF keymap[r.key] # NoPlace THEN "tombstone" ELSE "replay"
  BY DEF ReplayRecord, Enter, Call, disks
<1> HIDE DEF r
<1>2. /\ n \in 1 .. Len(wal) /\ n \in Nat /\ Len(wal) \in Nat /\ n - 1 \in Nat /\ n - 1 + 1 = n
      /\ r \in Record /\ r.key \in Keys /\ r = wal[n]
  <2>1. DOMAIN wal = 1 .. Len(wal)
    BY LogOfRecords, LenProperties
  <2> QED
    BY <1>1, <2>1, LogOfRecords DEF r
<1> HIDE DEF n
<1>3. /\ r.op \in {"add", "update", "delete"}
      /\ r.op # "delete" /\ writer.gen # 0 => pc' = "index"
      /\ pc' = "tombstone" => r.op = "delete"
  BY <1>1, <1>2 DEF Record
<1>4. /\ Replaying /\ Replaying' /\ Taken = n - 1 /\ Taken' = n /\ ~Unopened /\ ~Unopened'
      /\ (Settled' <=> Settled) /\ (Serving' => Serving) /\ (Serving' => writer.gen # 0)
  BY <1>1, <1>2 DEF Replaying, Taken, Unopened, Settled, Serving, n
<1>5. \A k, p : (OnDisk(p, k)' <=> OnDisk(p, k)) /\ (Live(p, k)' <=> Live(p, k))
  BY <1>1 DEF OnDisk, SavedAt, Live, FlushedAt, BufferedAt
<1>6. CallsRun' /\ NothingRises' /\ LogOrdered' /\ AddsNew'
  BY <1>1, <1>3, <1>4 DEF Logged, CallsRun, NothingRises, LogOrdered, AddsNew
<1>7. ReplayKept'
  BY <1>1, <1>2, <1>4 DEF Logged, ReplayKept, n
<1>8. FirstAddsNew'
  BY <1>1, <1>4, <1>5 DEF Logged, FirstAddsNew
<1>9. PendingAddsNew'
  <2> SUFFICES ASSUME NEW i \in n + 1 .. Len(wal), wal[i].op = "add", FirstOf(i, n + 1, wal),
                      ~(pc' = "tombstone" /\ r.op = "delete" /\ r.key = wal[i].key),
                      NEW p \in Place, Live(p, wal[i].key)'
               PROVE  FALSE
    BY <1>1 DEF PendingAddsNew, n
  <2>1. /\ i \in Nat /\ n \in 1 .. i - 1 /\ i \in n .. Len(wal) /\ i \in 1 .. Len(wal)
        /\ wal[i].key \in Keys
    BY <1>2, LogOfRecords
  <2>2. PICK k \in Keys : k = wal[i].key /\ Live(p, k)
    BY <1>1, <1>5, <2>1
  <2>3. CASE r.key # k
    <3>1. FirstOf(i, n, wal)
      BY <1>2, <2>1, <2>2, <2>3 DEF FirstOf
    <3> QED
      BY <1>1, <1>4, <2>1, <2>2, <3>1 DEF Logged, PendingAddsNew, n
  <2>4. CASE r.key = k /\ r.op # "delete"
    <3>1. PutIn(wal[i].key, i - 1, wal)
      BY <1>2, <2>1, <2>2, <2>4, FirstPutsIn
    <3> QED
      BY <2>1, <3>1 DEF Logged, LogOrdered
  <2>5. CASE r.key = k /\ r.op = "delete"
    <3>1. keymap[k] = NoPlace
      BY <1>1, <2>2, <2>5
    <3>2. p = keymap[k]
      BY <1>1, <2>2 DEF Unique, SingleCopy, Loading, HalfUpdated
    <3> QED
      BY <2>2, <3>1, <3>2, NoPlaceIsDead
  <2> QED
    BY <2>3, <2>4, <2>5
<1>10. PutInMapped'
  <2> SUFFICES ASSUME Serving, writer.gen # 0, NEW k \in Keys, PutIn(k, n, wal),
                      ~(pc' = "index" /\ k = r.key)
               PROVE  keymap[k] # NoPlace
    BY <1>1, <1>4 DEF PutInMapped
  <2>1. \/ wal[n].key = k /\ wal[n].op # "delete"
        \/ PutIn(k, n - 1, wal)
    <3>1. PutIn(k, n - 1 + 1, wal) <=>
            \/ wal[n - 1 + 1].key = k /\ wal[n - 1 + 1].op # "delete"
            \/ PutIn(k, n - 1, wal) /\ ~(wal[n - 1 + 1].key = k /\ wal[n - 1 + 1].op = "delete")
      BY <1>2, PutInStep
    <3> QED
      BY <1>2, <3>1
  <2> QED
    BY <1>1, <1>2, <1>3, <1>4, <2>1 DEF Logged, PutInMapped
<1>11. UnloggedMapped' /\ IndexedMapped'
  BY <1>1, <1>3, <1>4, <1>5 DEF Logged, UnloggedMapped, IndexedMapped
<1> QED
  BY <1>6, <1>7, <1>8, <1>9, <1>10, <1>11 DEF Logged

(* The log that a flush left to the end of the replay is on disk.          *)
LEMMA EndReplayLogged == ASSUME Inv, Content, Unique, Logged, EndReplay PROVE Logged'
<1>1. /\ pc = "replay" /\ pc' = "ready" /\ replayed > Len(wal) /\ replayed' = 0 /\ ~truncPending'
      /\ UNCHANGED <<disk, files, keymap, manifest, stones, writer>> /\ call' = NoCall
      /\ wal' = IF truncPending THEN <<>> ELSE wal
  BY DEF EndReplay, Goto
<1>2. /\ Replaying /\ ~Replaying' /\ Taken = Len(wal) /\ Taken' = Len(wal') /\ ~Unopened /\ ~Unopened'
      /\ (Serving' => Serving)
  BY <1>1, LogOfRecords DEF Logged, ReplayKept, Replaying, Taken, Unopened, Serving
<1>3. \A k, p : OnDisk(p, k)' <=> OnDisk(p, k)
  BY <1>1 DEF OnDisk, SavedAt
<1>4. CallsRun' /\ NothingRises' /\ PendingAddsNew' /\ AddsNew' /\ IndexedMapped'
  BY <1>1, <1>2 DEF Logged, CallsRun, NothingRises, PendingAddsNew, AddsNew, IndexedMapped, NoCall, Unopened
<1>5. ReplayKept'
  BY <1>1, <1>2 DEF ReplayKept
<1>6. CASE truncPending
  <2>1. wal' = <<>> /\ Len(wal') = 0 /\ Taken' = 0
    BY <1>1, <1>2, <1>6
  <2>2. LogOrdered' /\ FirstAddsNew'
    BY <2>1 DEF LogOrdered, FirstAddsNew
  <2>3. \A k \in Keys, p \in Place : OnDisk(p, k) => keymap[k] # NoPlace
    BY <1>1, <1>2, SyncedNames DEF Logged, ReplayKept, Loading
  <2>4. PutInMapped' /\ UnloggedMapped'
    BY <1>1, <1>3, <2>1, <2>3, NothingPutIn DEF PutInMapped, UnloggedMapped
  <2> QED
    BY <1>4, <1>5, <2>2, <2>4 DEF Logged
<1>7. CASE ~truncPending
  <2>1. wal' = wal /\ Settled /\ Taken' = Taken
    BY <1>1, <1>2, <1>7 DEF Settled
  <2>2. LogOrdered' /\ FirstAddsNew'
    BY <1>3, <2>1 DEF Logged, LogOrdered, FirstAddsNew
  <2>3. PutInMapped' /\ UnloggedMapped'
    BY <1>1, <1>2, <1>3, <2>1 DEF Logged, PutInMapped, UnloggedMapped
  <2> QED
    BY <1>4, <1>5, <2>2, <2>3 DEF Logged
<1> QED
  BY <1>6, <1>7

(* An add that is replayed finds no copy of its key.                       *)
LEMMA ReplayedAddsNew ==
  ASSUME Inv, Logged, ReplayRecord, pc' = "index", call'.op = "add"
  PROVE  \A p \in Place : ~Live(p, call'.key)
<1>1. /\ pc = "replay" /\ replayed \in DOMAIN wal
      /\ call'.op = wal[replayed].op /\ call'.key = wal[replayed].key
  BY DEF ReplayRecord, Call
<1>2. replayed \in replayed .. Len(wal) /\ FirstOf(replayed, replayed, wal) /\ Replaying
  <2>1. DOMAIN wal = 1 .. Len(wal)
    BY LogOfRecords, LenProperties
  <2> QED
    BY <1>1, <2>1, LogOfRecords DEF FirstOf, Replaying
<1> QED
  BY <1>1, <1>2 DEF Logged, PendingAddsNew

(* A step that changes nothing; the keymap's log is not lost.              *)
LEMMA StutterLogged ==
  ASSUME Sheltered, Logged, LoseKeymapLog \/ UNCHANGED vars
  PROVE  Logged'
<1>1. UNCHANGED <<disk, files, keymap, wal, manifest, stones, writer, replayed, truncPending,
                  pc, call, job>>
  BY DEF LoseKeymapLog, Fault, Sheltered, vars, disks, memory, control
<1>2. /\ \A k, p : (Live(p, k)' <=> Live(p, k)) /\ (OnDisk(p, k)' <=> OnDisk(p, k))
      /\ (Replaying' <=> Replaying) /\ Taken' = Taken /\ (Unopened' <=> Unopened)
      /\ (Settled' <=> Settled) /\ (Serving' <=> Serving)
  BY <1>1 DEF Live, FlushedAt, BufferedAt, OnDisk, SavedAt, Replaying, Taken, Unopened, Settled,
              Serving
<1>3. CallsRun' /\ ReplayKept' /\ LogOrdered' /\ IndexedMapped'
  BY <1>1, <1>2 DEF Logged, CallsRun, ReplayKept, LogOrdered, IndexedMapped
<1>4. FirstAddsNew' /\ PendingAddsNew' /\ AddsNew'
  BY <1>1, <1>2 DEF Logged, FirstAddsNew, PendingAddsNew, AddsNew
<1>5. PutInMapped' /\ UnloggedMapped'
  BY <1>1, <1>2 DEF Logged, PutInMapped, UnloggedMapped
<1>6. NothingRises'
  BY <1>1, <1>2 DEF Logged, NothingRises
<1> QED
  BY <1>3, <1>4, <1>5, <1>6 DEF Logged

(* Every step.                                                             *)
LEMMA NextLogged ==
  ASSUME Sheltered, Durable, Inv, Content, Unique, Logged, ListedOnDisk,
         Inv', Content', Unique', [Next]_vars
  PROVE  Logged'
<1>1. CASE CallOnKey \/ CallFlush \/ CallMaintain
  BY <1>1, InvokeLogged DEF CallOnKey, CallFlush, CallMaintain, Ops
<1>2. CASE CallCompact \/ Crash \/ LoseKeymapLog \/ UNCHANGED vars
  BY <1>2, CallCompactLogged, CrashLogged, StutterLogged
<1>3. CASE Updating \/ Deleting
  BY <1>3, IndexDocumentLogged, LogLogged, BuryLogged, UnmapLogged DEF Updating, Deleting
<1>4. CASE Flushing
  BY <1>4, WriteSegmentLogged, RegisterSegmentLogged, StartNewWriterLogged, TruncateWalLogged
     DEF Flushing
<1>5. CASE Compacting
  BY <1>5, MergingLogged, RepointLogged, UnlistLogged, SwapLogged, DropInputsLogged DEF Compacting
<1>6. CASE Opening
  BY <1>6, LoadingLogged, RebuildLogged, ReplayRecordLogged, EndReplayLogged DEF Opening
<1> QED
  BY <1>1, <1>2, <1>3, <1>4, <1>5, <1>6 DEF Next, Work

-----------------------------------------------------------------------------
(* The saved list                                                          *)

(* A list that has just been saved has everything.                         *)
LEMMA SavedListed ==
  ASSUME Range(manifest'.segs) \subseteq Range(disk'.segs)
  PROVE  ListedOnDisk'
BY DEF ListedOnDisk, OnDisk, SavedAt

(* Files that are in neither list do not matter.                           *)
LEMMA CalmListed ==
  ASSUME ListedOnDisk, Unopened => Unopened',
         disk'.segs = disk.segs, manifest'.segs = manifest.segs,
         \A g \in Range(disk.segs) \cup Range(manifest.segs) : files'[g] = files[g]
  PROVE  ListedOnDisk'
<1> SUFFICES ASSUME ~Unopened', NEW k \in Keys, NEW p \in Place,
                    SavedAt(p, k, Range(manifest'.segs), files')
             PROVE  \E q \in Place : /\ SavedAt(q, k, Range(disk'.segs), files')
                                     /\ q = p \/ q.gen \notin Range(manifest'.segs)
  BY DEF ListedOnDisk, OnDisk
<1>1. SavedAt(p, k, Range(manifest.segs), files)
  BY DEF SavedAt
<1>2. PICK q \in Place : OnDisk(q, k) /\ (q = p \/ q.gen \notin Range(manifest.segs))
  BY <1>1 DEF ListedOnDisk
<1> QED
  BY <1>2 DEF OnDisk, SavedAt

(* A tombstone is set in the file of a listed segment.                     *)
LEMMA BuryListed ==
  ASSUME Sheltered, Inv, Content, Unique, ListedOnDisk, TombstoneOld \/ TombstoneDeleted
  PROVE  ListedOnDisk'
<1> USE DEF TombstoneOld, TombstoneDeleted
<1>1. pc = "tombstone" /\ UNCHANGED <<disk, manifest>>
  OBVIOUS
<1>2. call.old \in Place
  BY DEF Content, PlacesKept
<1>3. \A g \in DOMAIN files :
        \/ files'[g] = files[g]
        \/ /\ g \in Range(manifest.segs) /\ files'[g].docs = files[g].docs
           /\ files[g].del \subseteq files'[g].del
  <2>1. CASE call.op = "update" /\ call.old = NoPlace
    BY <2>1
  <2>2. CASE ~(call.op = "update" /\ call.old = NoPlace)
    <3>1. PICK ok \in BOOLEAN : Tombstone(call.old, ok)
      BY <2>2
    <3> HIDE DEF TombstoneOld, TombstoneDeleted
    <3> QED
      BY <1>1, <1>2, <3>1, TombstoneBuries
  <2> QED
    BY <2>1, <2>2
<1> HIDE DEF TombstoneOld, TombstoneDeleted
<1>4. Range(disk.segs) \cup Range(manifest.segs) \subseteq DOMAIN files
  BY DEF Inv, Listed
<1> SUFFICES ASSUME NEW k \in Keys, NEW p \in Place, SavedAt(p, k, Range(manifest.segs), files')
             PROVE  \E q \in Place : /\ SavedAt(q, k, Range(disk.segs), files')
                                     /\ q = p \/ q.gen \notin Range(manifest.segs)
  BY <1>1 DEF ListedOnDisk, OnDisk
<1>5. SavedAt(p, k, Range(manifest.segs), files)
  BY <1>3, <1>4 DEF SavedAt
<1>6. PICK q \in Place : OnDisk(q, k) /\ (q = p \/ q.gen \notin Range(manifest.segs))
  BY <1>1, <1>5 DEF ListedOnDisk, Unopened
<1>7. SavedAt(q, k, Range(disk.segs), files')
  <2>1. CASE q = p
    BY <1>6, <2>1 DEF OnDisk, SavedAt
  <2>2. CASE q.gen \notin Range(manifest.segs)
    BY <1>3, <1>4, <1>6, <2>2 DEF OnDisk, SavedAt
  <2> QED
    BY <1>6, <2>1, <2>2
<1> QED
  BY <1>6, <1>7

(* The inputs of a swap that is not saved are still in the saved list.     *)
LEMMA SwapListed ==
  ASSUME Inv, Unique, Logged, ListedOnDisk, Unlist \/ Swap
  PROVE  ListedOnDisk'
<1>1. pc = "unlist" /\ UNCHANGED files
  BY DEF Unlist, Swap, disks
<1>2. CASE Unlist
  <2>1. UNCHANGED disk /\ Range(manifest'.segs) \subseteq Range(manifest.segs)
    BY <1>2, UnlistShrinks DEF Unlist, disks
  <2> SUFFICES ASSUME NEW k \in Keys, NEW p \in Place, SavedAt(p, k, Range(manifest'.segs), files)
               PROVE  \E q \in Place : OnDisk(q, k) /\ (q = p \/ q.gen \notin Range(manifest'.segs))
    BY <1>1, <2>1 DEF ListedOnDisk, OnDisk
  <2>2. SavedAt(p, k, Range(manifest.segs), files)
    BY <2>1 DEF SavedAt
  <2> QED
    BY <1>1, <2>1, <2>2 DEF ListedOnDisk, Unopened
<1>3. CASE Swap
  <2>1. Range(manifest'.segs) = Range(manifest.segs) \cup {job.out}
    <3>1. manifest.segs \in Seq(Nat) /\ job.out \in Nat
      BY DEF Inv, Shapes, CatalogueTypeOK, Catalogue
    <3>2. manifest'.segs = Append(manifest.segs, job.out)
      BY <1>3 DEF Swap, Inv, Shapes, CatalogueTypeOK, Catalogue
    <3> QED
      BY <3>1, <3>2, AppendRange
  <2>2. CASE disk' = manifest'
    BY <2>2, SavedListed
  <2>3. CASE disk' = disk
    <3> SUFFICES ASSUME NEW k \in Keys, NEW p \in Place, SavedAt(p, k, Range(manifest'.segs), files)
                 PROVE  \E q \in Place : OnDisk(q, k) /\ (q = p \/ q.gen \notin Range(manifest'.segs))
      BY <1>1, <2>3 DEF ListedOnDisk, OnDisk
    <3>1. job.out \notin Range(disk.segs) /\ job.out \notin Range(job.inputs)
      BY <1>1 DEF Inv, OutputApart
    <3>2. CASE p.gen = job.out
      <4>1. PICK q \in Place : q.gen \in Range(job.inputs) /\ OnDisk(q, k)
        BY <1>1, <3>2 DEF Logged, NothingRises, SavedAt
      <4>2. q.gen \notin Range(manifest.segs)
        <5>1. Range(job.left) = {}
          BY <1>3 DEF Swap, Range
        <5> QED
          BY <1>1, <4>1, <5>1 DEF Inv, InputsApart
      <4> QED
        BY <2>1, <3>1, <4>1, <4>2
    <3>3. CASE p.gen \in Range(manifest.segs)
      <4>1. SavedAt(p, k, Range(manifest.segs), files)
        BY <3>3 DEF SavedAt
      <4>2. PICK q \in Place : OnDisk(q, k) /\ (q = p \/ q.gen \notin Range(manifest.segs))
        BY <1>1, <4>1 DEF ListedOnDisk, Unopened
      <4>3. q.gen # job.out
        BY <3>1, <4>2 DEF OnDisk, SavedAt
      <4> QED
        BY <2>1, <4>2, <4>3
    <3> QED
      BY <2>1, <3>2, <3>3 DEF SavedAt
  <2> QED
    BY <1>3, <2>2, <2>3 DEF Swap
<1> QED
  BY <1>2, <1>3

(* Files are written, deleted and given up that are in neither list.       *)
LEMMA CompactingListed ==
  ASSUME Inv, Content, ListedOnDisk,
         Maintain \/ TakeOutput \/ Merge \/ Mark \/ Repoint \/ DropInputs \/ Unmark
  PROVE  ListedOnDisk'
<1>1. manifest'.segs = manifest.segs
  BY GenerationsAreNumbers DEF Maintain, TakeOutput, Merge, Mark, Repoint, DropInputs, Unmark,
     memory, Step, Inv, Shapes, CatalogueTypeOK, Catalogue
<1>2. CASE disk' = manifest'
  BY <1>2, SavedListed
<1>3. CASE disk' = disk
  <2>1. /\ Range(disk.segs) \cup Range(manifest.segs) \subseteq DOMAIN files
        /\ pc \in {"merge", "mark", "repoint"} =>
             job.out \notin Range(disk.segs) \cup Range(manifest.segs)
        /\ pc = "dropInputs" =>
             \A g \in Range(job.inputs) : g \notin Range(disk.segs) \cup Range(manifest.segs)
    BY DEF Inv, Listed, OutputApart, InputsApart
  <2>2. \/ files' = files
        \/ pc = "merge" /\ files' = Put(files, job.out, [docs |-> Merged(job.inputs), del |-> {}])
        \/ pc \in {"mark", "repoint"} /\ files' = Restrict(files, DOMAIN files \ {job.out})
        \/ pc = "dropInputs" /\ files' = Restrict(files, DOMAIN files \ Range(job.inputs))
    BY DEF Maintain, TakeOutput, Merge, Mark, Repoint, DropInputs, Unmark, disks
  <2>3. \A g \in Range(disk.segs) \cup Range(manifest.segs) : files'[g] = files[g]
    BY <2>1, <2>2 DEF Put, Restrict
  <2>4. ~Unopened
    BY DEF Maintain, TakeOutput, Merge, Mark, Repoint, DropInputs, Unmark, Unopened
  <2> QED
    BY <1>1, <1>3, <2>3, <2>4, CalmListed
<1> QED
  BY <1>2, <1>3 DEF Maintain, TakeOutput, Merge, Mark, Repoint, DropInputs, Unmark, disks

(* Every step: a flush and a reopening save what they list.                *)
LEMMA NextListed ==
  ASSUME Sheltered, Durable, Inv, Content, Unique, Logged, ListedOnDisk, [Next]_vars
  PROVE  ListedOnDisk'
<1>1. CASE UNCHANGED <<disk, files, manifest>> /\ (Unopened => Unopened')
  BY <1>1, CalmListed
<1>2. CASE CallOnKey \/ CallFlush \/ CallMaintain \/ CallCompact
  <2>1. UNCHANGED <<disk, files, manifest>> /\ ~Unopened
    BY <1>2 DEF CallOnKey, CallFlush, CallMaintain, CallCompact, Invoke, Unopened, disks, memory
  <2> QED
    BY <1>1, <2>1
<1>3. CASE UNCHANGED vars \/ LoseKeymapLog
  BY <1>1, <1>3 DEF vars, LoseKeymapLog, disks, memory, control, Unopened
<1>4. CASE Updating \/ Deleting
  <2>1. CASE TombstoneOld \/ TombstoneDeleted
    BY <2>1, BuryListed
  <2>2. CASE IndexDocument \/ LogAdd \/ LogUpdate \/ Unmap \/ LogDelete
    <3>1. UNCHANGED <<disk, files, manifest>> /\ ~Unopened
      BY <2>2 DEF IndexDocument, LogAdd, LogUpdate, Unmap, LogDelete, Unopened, memory
    <3> QED
      BY <1>1, <3>1
  <2> QED
    BY <1>4, <2>1, <2>2 DEF Updating, Deleting
<1>5. CASE Flushing
  <2>1. CASE RegisterSegment \/ StartNewWriter
    <3>1. \/ disk' = manifest'
          \/ UNCHANGED <<disk, files, manifest>> /\ pc = "register"
      BY <2>1 DEF RegisterSegment, StartNewWriter, Fault, Sheltered
    <3> QED
      BY <1>1, <3>1, SavedListed DEF Unopened
  <2>2. CASE TruncateWal
    BY <1>1, <2>2 DEF TruncateWal, Unopened
  <2>3. CASE WriteSegment
    <3>1. /\ UNCHANGED <<disk, manifest>> /\ ~Unopened
          /\ files' = files \/ files' = Put(files, writer.gen, [docs |-> writer.docs, del |-> writer.del])
      BY <2>3 DEF WriteSegment, Unopened, memory
    <3>2. writer.gen \notin Range(disk.segs) \cup Range(manifest.segs)
      BY DEF Inv, WriterApart
    <3>3. Range(disk.segs) \cup Range(manifest.segs) \subseteq DOMAIN files
      BY DEF Inv, Listed
    <3> QED
      BY <3>1, <3>2, <3>3, CalmListed DEF Put
  <2> QED
    BY <1>5, <2>1, <2>2, <2>3 DEF Flushing
<1>6. CASE Compacting
  BY <1>6, CompactingListed, SwapListed DEF Compacting
<1>7. CASE Opening
  <2>1. CASE ReplayRecord \/ EndReplay
    BY <1>1, <2>1 DEF ReplayRecord, EndReplay, Unopened, disks
  <2>2. CASE Unopened'
    BY <2>2 DEF ListedOnDisk
  <2>3. ReplayRecord \/ EndReplay \/ Unopened'
    <3>1. CASE Sweep \/ RetainGenerations
      <4>1. pc = "retain" => call.op = "open"
        BY DEF Logged, CallsRun
      <4> QED
        BY <3>1, <4>1 DEF Sweep, RetainGenerations, Step, Goto, Unopened
    <3>2. CASE Open \/ RebuildKeymap \/ SaveStones \/ OpenUnmark
      BY <3>2 DEF Open, RebuildKeymap, SaveStones, OpenUnmark, Step, Goto, Enter, Unopened, NoCall
    <3> QED
      BY <1>7, <3>1, <3>2 DEF Opening
  <2> QED
    BY <2>1, <2>2, <2>3
<1>8. CASE Crash
  BY <1>8 DEF Crash, ListedOnDisk, Unopened
<1> QED
  BY <1>2, <1>3, <1>4, <1>5, <1>6, <1>7, <1>8 DEF Next, Work

-----------------------------------------------------------------------------
(* The theorems                                                            *)

(* What the log has to say, or that it says nothing.                       *)
Covered == IF Durable THEN Logged /\ ListedOnDisk ELSE wal = <<>>

(* The client has read no key that is torn.                                *)
Kept == Inv /\ Content /\ Unique /\ Rested /\ Covered /\ OneCopyPerKey

(* Without durability nothing is logged.                                   *)
LEMMA NextUnwritten ==
  ASSUME ~Durable, wal = <<>>, [Next]_vars
  PROVE  wal' = <<>>
<1>1. CASE CallOnKey \/ CallFlush \/ CallMaintain \/ CallCompact \/ Crash \/ LoseKeymapLog
  BY <1>1 DEF CallOnKey, CallFlush, CallMaintain, Invoke, CallCompact, Crash, LoseKeymapLog, disks
<1>2. CASE Updating \/ Deleting
  BY <1>2 DEF Updating, Deleting, IndexDocument, LogAdd, LogUpdate, TombstoneOld,
              TombstoneDeleted, Unmap, LogDelete
<1>3. CASE Flushing
  BY <1>3 DEF Flushing, WriteSegment, RegisterSegment, StartNewWriter, TruncateWal
<1>4. CASE Compacting
  BY <1>4 DEF Compacting, Maintain, TakeOutput, Merge, Mark, Repoint, Unlist, Swap, DropInputs,
              Unmark, disks
<1>5. CASE Opening
  BY <1>5 DEF Opening, Open, Sweep, RetainGenerations, RebuildKeymap, SaveStones, OpenUnmark,
              ReplayRecord, EndReplay, disks
<1>6. CASE UNCHANGED vars
  BY <1>6 DEF vars, disks
<1> QED
  BY <1>1, <1>2, <1>3, <1>4, <1>5, <1>6 DEF Next, Work

(* A key of which the one copy is where the keymap says is not torn.       *)
LEMMA SingleIsSeen ==
  Inv /\ Content /\ Unique /\ Rested =>
    (pc = "ready" => \A k \in Keys : Observed[k] # Torn)
<1> SUFFICES ASSUME Inv, Content, Unique, Rested, pc = "ready", NEW k \in Keys
             PROVE  Observed[k] # Torn
  OBVIOUS
<1>1. \A p \in Place : Live(p, k) => p = keymap[k]
  BY DEF Unique, SingleCopy, Loading, HalfUpdated, Rested
<1>2. Copies(k) = {} \/ Copies(k) = {keymap[k]}
  BY <1>1, CopiesAreLive
<1>3. CASE Copies(k) = {}
  BY <1>3, ViewsAssumption DEF Observed
<1>4. CASE Copies(k) = {keymap[k]}
  <2>1. VersionAt(keymap[k]) \in Nat
    BY <1>4, VersionsAreNumbers
  <2> QED
    BY <1>4, <2>1, ViewsAssumption DEF Observed
<1> QED
  BY <1>2, <1>3, <1>4

(* Every step, when the process is sheltered.                              *)
LEMMA NextKept == ASSUME Sheltered, Kept, [Next]_vars PROVE Kept'
<1> USE DEF Kept
<1>1. Inv' /\ Content'
  BY NextInv, NextContent
<1>2. Rested'
  BY NextRested DEF Rested, NoCall
<1>3. Unique'
  <2>1. ReplayRecord /\ pc' = "index" /\ call'.op = "add" => \A p \in Place : ~Live(p, call'.key)
    <3>1. CASE Durable
      BY <3>1, ReplayedAddsNew DEF Covered
    <3>2. CASE ~Durable
      BY <3>2 DEF Covered, ReplayRecord
    <3> QED
      BY <3>1, <3>2
  <2> QED
    BY <2>1, NextUnique
<1>4. Covered'
  <2>1. CASE Durable
    BY <1>1, <1>3, <2>1, NextLogged, NextListed DEF Covered
  <2>2. CASE ~Durable
    BY <2>2, NextUnwritten DEF Covered
  <2> QED
    BY <2>1, <2>2
<1>5. OneCopyPerKey'
  <2>1. (Inv /\ Content /\ Unique /\ Rested)' =>
          (pc = "ready" => \A k \in Keys : Observed[k] # Torn)'
    BY SingleIsSeen, PTL
  <2>2. view' = view \/ (pc' = "ready" /\ view' = Observed')
    BY NextView
  <2> QED
    BY <1>1, <1>2, <1>3, <2>1, <2>2 DEF OneCopyPerKey
<1> QED
  BY <1>1, <1>2, <1>3, <1>4, <1>5

(* The copies, the keymap, the lists and the log fit in every reachable    *)
(* state, when the process is sheltered.                                   *)
THEOREM KeptInvariance == ASSUME Sheltered PROVE Spec => []Kept
<1>1. Init => Kept
  <2> SUFFICES ASSUME Init PROVE Kept
    OBVIOUS
  <2>1. Rested /\ Covered
    BY InitLogged DEF Init, Rested, Covered, ListedOnDisk, Unopened
  <2>2. OneCopyPerKey
    BY ViewsAssumption DEF Init, OneCopyPerKey
  <2> QED
    BY <2>1, <2>2, InitInv, InitContent, InitUnique DEF Kept
<1>2. ASSUME Kept, [Next]_vars PROVE Kept'
  BY <1>2, NextKept
<1> QED
  BY <1>1, <1>2, PTL DEF Spec

(* Each document that compact() is about to repoint is the copy that the   *)
(* keymap names, at the version it has, in one of the merged segments: for *)
(* any segments, merge order, tombstones, calls and sheltered crashes.     *)
THEOREM MergedDocsAlwaysCurrent == ASSUME Sheltered PROVE Spec => []MergedDocsAreCurrent
<1>1. Kept => MergedDocsAreCurrent
  BY DEF Kept, Unique, OutputCurrent, MergedDocsAreCurrent
<1> QED
  BY <1>1, KeptInvariance, PTL

(* Whenever a call or open() returns, each key has at most one live copy   *)
(* in the segments and the memory segment, and the keymap names it.        *)
THEOREM AlwaysOneCopyPerKey == ASSUME Sheltered PROVE Spec => []OneCopyPerKey
<1>1. Kept => OneCopyPerKey
  BY DEF Kept
<1> QED
  BY <1>1, KeptInvariance, PTL

-----------------------------------------------------------------------------
(* What the client has read, as against what may come to be served         *)

(* The document is the one the client has read, or that of call i.         *)
Current(doc, v, i) == doc.ver = v[doc.key] \/ (doc.key = i.key /\ doc.ver = i.ver)

(* All that is alive in the segments S is current.                         *)
AllCurrent(S, st, f, v, i) ==
  \A g \in S : \A d \in DOMAIN f[g].docs \ st[g] : Current(f[g].docs[d], v, i)

(* All of it that is alive on disk.                                        *)
SavedCurrent(S, f, v, i) ==
  \A g \in S : \A d \in DOMAIN f[g].docs \ f[g].del : Current(f[g].docs[d], v, i)

(* The documents in memory, on disk, in the memory segment and in what a   *)
(* compaction has merged, and the one that is about to be indexed.         *)
Seen(v, i) ==
  /\ AllCurrent(Range(manifest.segs), stones, files, v, i)
  /\ SavedCurrent(Range(disk.segs), files, v, i)
  /\ \A d \in DOMAIN writer.docs \ writer.del : Current(writer.docs[d], v, i)
  /\ pc \in {"mark", "repoint", "unlist"} =>
       \A d \in DOMAIN files[job.out].docs : Current(files[job.out].docs[d], v, i)
  /\ pc = "index" => call.key = i.key /\ call.ver = i.ver

(* Where the "compacting" marker is, as long as swaps are saved.           *)
Marked ==
  /\ marker => pc \in {"down", "sweep", "rebuild", "saveStones", "openUnmark", "repoint",
                       "unlist", "dropInputs", "unmark"}
  /\ marker /\ pc = "sweep" => call.op = "rebuild"

(* When the index is ready the client has read it as it is.                *)
Recent == Seen(view, inflight) /\ (pc = "ready" => view = Observed)

(* Steps by which documents only go.                                       *)
LEMMA SeenShrinks ==
  ASSUME NEW v, NEW i, Seen(v, i), UNCHANGED writer,
         Range(disk'.segs) \subseteq Range(disk.segs),
         Range(manifest'.segs) \subseteq Range(manifest.segs),
         \A g \in Range(disk'.segs) :
           files'[g].docs = files[g].docs /\ files[g].del \subseteq files'[g].del,
         \A g \in Range(manifest'.segs) :
           files'[g].docs = files[g].docs /\ stones[g] \subseteq stones'[g],
         pc' \in {"mark", "repoint", "unlist"} =>
           /\ pc \in {"mark", "repoint", "unlist"} /\ job'.out = job.out
           /\ files'[job.out].docs = files[job.out].docs,
         pc' = "index" => call'.key = i.key /\ call'.ver = i.ver
  PROVE  Seen(v, i)'
<1>1. AllCurrent(Range(manifest'.segs), stones', files', v, i)
  BY DEF Seen, AllCurrent
<1>2. SavedCurrent(Range(disk'.segs), files', v, i)
  BY DEF Seen, SavedCurrent
<1> QED
  BY <1>1, <1>2 DEF Seen

(* Steps that touch no document.                                           *)
LEMMA SeenStays ==
  ASSUME NEW v, NEW i, Seen(v, i), UNCHANGED <<disk, files, manifest, stones, writer>>,
         pc' \notin {"mark", "repoint", "unlist"},
         pc' = "index" => call'.key = i.key /\ call'.ver = i.ver
  PROVE  Seen(v, i)'
  BY SeenShrinks

(* In what the index serves, the tombstones on disk are those in memory.   *)
LEMMA SavedIsServed ==
  ASSUME Inv, Content, Unique, pc \notin {"down", "saveStones"}, NEW v, NEW i, Seen(v, i)
  PROVE  SavedCurrent(Range(manifest.segs), files, v, i)
<1>1. \A g \in Range(manifest.segs) : files[g].del = stones[g]
  BY DEF Unique, StonesSaved, Content, Stored
<1> QED
  BY <1>1 DEF Seen, AllCurrent, SavedCurrent

-----------------------------------------------------------------------------
(* The calls                                                               *)

(* The document that is indexed is that of the call in flight.             *)
LEMMA IndexDocumentSeen ==
  ASSUME Inv, Content, NEW v, NEW i, Seen(v, i), IndexDocument PROVE Seen(v, i)'
<1> USE DEF IndexDocument, Step, Goto, budget
<1> DEFINE doc == [key |-> call.key, ver |-> call.ver]
           n == Len(writer.docs)
<1>1. UNCHANGED <<disk, files, manifest, stones>> /\ pc = "index" /\ pc' = "logAdd"
  OBVIOUS
<1>2. call.key \in Keys
  BY DEF Inv, CallsNamed
<1>3. writer'.del = writer.del /\ writer'.docs = Append(writer.docs, doc)
  BY DEF Inv, Shapes
<1>4. /\ n \in Nat /\ DOMAIN writer.docs = 1 .. n /\ DOMAIN writer'.docs = 1 .. n + 1
      /\ writer'.docs[n + 1] = doc /\ \A m \in 1 .. n : writer'.docs[m] = writer.docs[m]
  <2>1. writer.docs \in Seq(Doc) /\ doc \in Doc
    BY <1>2 DEF Content, Stored, Doc, Inv, Shapes, CatalogueTypeOK
  <2> QED
    BY <1>3, <2>1, AppendProperties, LenProperties
<1>5. Current(doc, v, i)
  BY <1>1 DEF Seen, Current
<1> HIDE DEF IndexDocument, n, doc
<1>6. ASSUME NEW d \in DOMAIN writer'.docs \ writer'.del
      PROVE  Current(writer'.docs[d], v, i)
  <2>1. CASE d = n + 1
    BY <1>4, <1>5, <2>1
  <2>2. CASE d \in 1 .. n
    BY <1>3, <1>4, <1>6, <2>2 DEF Seen
  <2> QED
    BY <1>4, <2>1, <2>2
<1> QED
  BY <1>1, <1>6 DEF Seen

(* A tombstone brings nothing back, on disk or in memory.                  *)
LEMMA TombstoneSeen ==
  ASSUME Inv, Content, NEW v, NEW i, Seen(v, i), NEW ok \in BOOLEAN, Tombstone(call.old, ok),
         UNCHANGED <<disk, manifest>>,
         pc' \notin {"mark", "repoint", "unlist", "index"}
  PROVE  Seen(v, i)'
<1> DEFINE p == call.old
<1>1. CASE p.gen # 0 /\ p.gen = writer.gen
  <2>1. UNCHANGED <<files, stones>> /\ writer'.docs = writer.docs /\ writer.del \subseteq writer'.del
    BY <1>1 DEF Tombstone, Inv, Shapes
  <2> QED
    BY <2>1 DEF Seen, AllCurrent, SavedCurrent
<1>2. CASE ~(p.gen # 0 /\ p.gen = writer.gen) /\ p.gen \in Range(manifest.segs)
  <2>1. /\ UNCHANGED writer
        /\ stones' = [stones EXCEPT ![p.gen] = stones[p.gen] \cup {p.docid}]
        /\ \/ files' = [files EXCEPT ![p.gen].del = stones[p.gen] \cup {p.docid}]
           \/ UNCHANGED files
    BY <1>2 DEF Tombstone
  <2>2. /\ p.gen \in DOMAIN stones /\ p.gen \in DOMAIN files
        /\ \A g \in DOMAIN files : files[g] \in Segment
        /\ Range(manifest.segs) \subseteq DOMAIN files /\ Range(disk.segs) \subseteq DOMAIN files
        /\ Range(manifest.segs) \subseteq DOMAIN stones
    BY <1>2 DEF Content, Stored, Inv, Listed
  <2>3. \A g \in DOMAIN stones : stones[g] \subseteq stones'[g]
    BY <2>1, <2>2
  <2>4. \A g \in DOMAIN files : files'[g].docs = files[g].docs
    <3>1. CASE UNCHANGED files
      BY <3>1
    <3>2. CASE files' = [files EXCEPT ![p.gen].del = stones[p.gen] \cup {p.docid}]
      <4>1. files' = [files EXCEPT ![p.gen] = [files[p.gen] EXCEPT !.del = stones[p.gen] \cup {p.docid}]]
        BY <3>2
      <4>2. \A g \in DOMAIN files :
              files'[g] = IF g = p.gen THEN [files[p.gen] EXCEPT !.del = stones[p.gen] \cup {p.docid}]
                          ELSE files[g]
        BY <2>2, <4>1
      <4> QED
        BY <2>2, <4>2 DEF Segment
    <3> QED
      BY <2>1, <3>1, <3>2
  <2>5. AllCurrent(Range(manifest'.segs), stones', files', v, i)
    BY <2>2, <2>3, <2>4 DEF Seen, AllCurrent
  <2>6. SavedCurrent(Range(disk'.segs), files', v, i)
    <3> SUFFICES ASSUME NEW g \in Range(disk.segs), NEW d \in DOMAIN files'[g].docs \ files'[g].del
                 PROVE  Current(files'[g].docs[d], v, i)
      BY DEF SavedCurrent
    <3>1. CASE files'[g].del = files[g].del
      BY <2>2, <2>4, <3>1 DEF Seen, SavedCurrent
    <3>2. CASE g = p.gen /\ files'[g].del = stones[p.gen] \cup {p.docid}
      BY <1>2, <2>2, <2>4, <3>2 DEF Seen, AllCurrent
    <3>3. files'[g].del = files[g].del \/ (g = p.gen /\ files'[g].del = stones[p.gen] \cup {p.docid})
      BY <2>1, <2>2 DEF Segment
    <3> QED
      BY <3>1, <3>2, <3>3
  <2> QED
    BY <2>1, <2>5, <2>6 DEF Seen
<1>3. CASE ~(p.gen # 0 /\ p.gen = writer.gen) /\ p.gen \notin Range(manifest.segs)
  <2>1. UNCHANGED <<files, stones, writer>>
    BY <1>3 DEF Tombstone
  <2> QED
    BY <2>1, SeenStays
<1> QED
  BY <1>1, <1>2, <1>3

(* Adding, updating and deleting.                                          *)
LEMMA CallSeen ==
  ASSUME Inv, Content, NEW v, NEW i, Seen(v, i), Updating \/ Deleting PROVE Seen(v, i)'
<1> USE DEF Step, Goto, AfterAdd, Return
<1>1. CASE LogAdd \/ LogUpdate \/ Unmap \/ LogDelete
  <2>1. /\ UNCHANGED <<disk, files, manifest, stones, writer>>
        /\ pc' \notin {"mark", "repoint", "unlist", "index"}
    BY <1>1 DEF LogAdd, LogUpdate, Unmap, LogDelete, memory
  <2> QED
    BY <2>1, SeenStays
<1>2. CASE TombstoneOld
  <2>1. UNCHANGED <<disk, manifest>> /\ pc' \notin {"mark", "repoint", "unlist", "index"}
    BY <1>2 DEF TombstoneOld
  <2>2. UNCHANGED <<files, stones, writer>> \/ \E ok \in BOOLEAN : Tombstone(call.old, ok)
    BY <1>2 DEF TombstoneOld
  <2> QED
    BY <2>1, <2>2, TombstoneSeen, SeenStays
<1>3. CASE TombstoneDeleted
  <2>1. UNCHANGED <<disk, manifest>> /\ pc' \notin {"mark", "repoint", "unlist", "index"}
    BY <1>3 DEF TombstoneDeleted
  <2>2. \E ok \in BOOLEAN : Tombstone(call.old, ok)
    BY <1>3 DEF TombstoneDeleted
  <2> QED
    BY <2>1, <2>2, TombstoneSeen
<1> QED
  BY <1>1, <1>2, <1>3, IndexDocumentSeen DEF Updating, Deleting

-----------------------------------------------------------------------------
(* flush()                                                                 *)

(* The file of the memory segment is in no list.                           *)
LEMMA WriteSegmentSeen ==
  ASSUME Inv, NEW v, NEW i, Seen(v, i), WriteSegment PROVE Seen(v, i)'
<1>1. /\ UNCHANGED <<disk, manifest, stones, writer>>
      /\ pc' \notin {"mark", "repoint", "unlist", "index"}
      /\ \A g : g # writer.gen /\ g \in DOMAIN files => files'[g] = files[g]
  BY DEF WriteSegment, Step, Goto, AfterFlush, AfterAdd, Return, memory, Put
<1>2. \A g \in Range(disk.segs) \cup Range(manifest.segs) : files'[g] = files[g]
  BY <1>1 DEF Inv, Listed, WriterApart
<1> QED
  BY <1>1, <1>2, SeenShrinks

(* The segment that is listed has the documents of the memory segment.     *)
LEMMA RegisterSegmentSeen ==
  ASSUME Inv, Content, Unique, NEW v, NEW i, Seen(v, i), RegisterSegment PROVE Seen(v, i)'
<1> USE DEF RegisterSegment, Goto
<1>1. /\ pc = "register" /\ writer' = NoWriter /\ UNCHANGED files
      /\ pc' \notin {"mark", "repoint", "unlist", "index"}
      /\ disk' = disk \/ disk' = manifest'
  BY DEF AfterFlush, AfterAdd, Return
<1> HIDE DEF RegisterSegment
<1>2. /\ files[writer.gen].docs = writer.docs /\ files[writer.gen].del = writer.del
      /\ \A g \in Range(manifest.segs) : g \in DOMAIN stones /\ g # writer.gen
      /\ \A g \in DOMAIN stones : files[g].del = stones[g]
  BY <1>1 DEF Content, WriterUnopened, Stored, Inv, WriterApart, Unique, StonesSaved
<1>3. \A g \in Range(manifest'.segs) :
        /\ g = writer.gen \/ g \in Range(manifest.segs)
        /\ stones'[g] = files[g].del
        /\ g # writer.gen => stones'[g] = stones[g]
  <2>1. UNCHANGED <<manifest, stones>> \/
              /\ Range(manifest'.segs) = Range(manifest.segs) \cup {writer.gen}
              /\ \A g \in DOMAIN stones' :
                   IF g = writer.gen THEN stones'[g] = files[g].del
                   ELSE g \in DOMAIN stones /\ stones'[g] = stones[g]
    BY RegisteredLive
  <2>2. CASE UNCHANGED <<manifest, stones>>
    BY <1>2, <2>2
  <2>3. CASE /\ Range(manifest'.segs) = Range(manifest.segs) \cup {writer.gen}
             /\ \A g \in DOMAIN stones' :
                   IF g = writer.gen THEN stones'[g] = files[g].del
                   ELSE g \in DOMAIN stones /\ stones'[g] = stones[g]
    <3>1. Range(manifest'.segs) \subseteq DOMAIN stones'
      <4>1. Content'
        BY RegisterSegmentInv, RegisterSegmentContent
      <4> QED
        BY <4>1 DEF Content, Stored
    <3> QED
      BY <1>2, <2>3, <3>1
  <2> QED
    BY <2>1, <2>2, <2>3
<1>4. AllCurrent(Range(manifest'.segs), stones', files', v, i)
  BY <1>1, <1>2, <1>3 DEF Seen, AllCurrent
<1>5. SavedCurrent(Range(disk'.segs), files', v, i)
  <2>1. CASE disk' = disk
    BY <1>1, <2>1 DEF Seen, SavedCurrent
  <2>2. CASE disk' = manifest'
    <3>1. Range(disk'.segs) = Range(manifest'.segs)
      BY <2>2
    <3> QED
      BY <1>1, <1>3, <1>4, <3>1 DEF AllCurrent, SavedCurrent
  <2> QED
    BY <1>1, <2>1, <2>2
<1> QED
  BY <1>1, <1>4, <1>5 DEF Seen, NoWriter

(* The new memory segment is empty; what is listed is saved again.         *)
LEMMA StartNewWriterSeen ==
  ASSUME ~AutoMaintain, Inv, Content, Unique, NEW v, NEW i, Seen(v, i), StartNewWriter
  PROVE  Seen(v, i)'
<1>1. /\ pc = "newWriter" /\ UNCHANGED <<files, stones>>
      /\ pc' \notin {"mark", "repoint", "unlist", "index"}
      /\ disk' = disk \/ disk' = manifest'
      /\ writer' = writer \/ writer'.docs = <<>>
  BY DEF StartNewWriter, Goto, AfterFlush, AfterAdd, Return
<1>2. manifest'.segs = manifest.segs
  BY GenerationsAreNumbers DEF StartNewWriter, Inv, Shapes, CatalogueTypeOK, Catalogue
<1>3. SavedCurrent(Range(manifest.segs), files, v, i)
  BY <1>1, SavedIsServed
<1>4. disk'.segs = disk.segs \/ disk'.segs = manifest.segs
  BY <1>1, <1>2
<1> QED
  BY <1>1, <1>2, <1>3, <1>4 DEF Seen

-----------------------------------------------------------------------------
(* maintain() and compact()                                                *)

(* So is the list when the output gets its number.                         *)
LEMMA TakeOutputSeen ==
  ASSUME Inv, Content, Unique, NEW v, NEW i, Seen(v, i), TakeOutput PROVE Seen(v, i)'
<1>1. /\ pc = "takeOutput" /\ UNCHANGED <<files, stones, writer>>
      /\ pc' \notin {"mark", "repoint", "unlist", "index"}
      /\ disk' = disk \/ disk' = manifest'
  BY DEF TakeOutput, Enter, Goto, CompactFailed, Return
<1>2. manifest'.segs = manifest.segs
  BY DEF TakeOutput, Inv, Shapes, CatalogueTypeOK, Catalogue
<1>3. SavedCurrent(Range(manifest.segs), files, v, i)
  BY <1>1, SavedIsServed
<1> QED
  BY <1>1, <1>2, <1>3 DEF Seen

(* Each merged document is a copy of one that is served.                   *)
LEMMA MergeSeen ==
  ASSUME Inv, Content, NEW v, NEW i, Seen(v, i), Merge PROVE Seen(v, i)'
<1>1. /\ pc = "merge" /\ UNCHANGED <<disk, manifest, stones, writer>>
      /\ \/ /\ files' = Put(files, job.out, [docs |-> Merged(job.inputs), del |-> {}])
            /\ pc' = "mark" /\ UNCHANGED job
         \/ UNCHANGED files /\ pc' \notin {"mark", "repoint", "unlist", "index"}
  BY DEF Merge, memory, Goto, CompactFailed, Return
<1>2. CASE UNCHANGED files /\ pc' \notin {"mark", "repoint", "unlist", "index"}
  BY <1>1, <1>2, SeenStays
<1>3. CASE /\ files' = Put(files, job.out, [docs |-> Merged(job.inputs), del |-> {}])
           /\ pc' = "mark" /\ UNCHANGED job
  <2> DEFINE docs == Merged(job.inputs)
  <2>1. /\ files'[job.out].docs = docs
        /\ \A g \in DOMAIN files : g # job.out => files'[g] = files[g]
    BY <1>3 DEF Put
  <2>2. \A g \in Range(disk.segs) \cup Range(manifest.segs) : files'[g] = files[g]
    BY <1>1, <2>1 DEF Inv, Listed, OutputApart
  <2>3. /\ job.inputs \in Seq(Nat) /\ IsInjective(job.inputs)
        /\ Range(job.inputs) \subseteq Range(manifest.segs)
        /\ \A g \in Range(job.inputs) : files[g].docs \in Seq(Doc)
    BY <1>1 DEF Content, OutputUnopened, Stored, Segment, Inv, Listed, Shapes, CatalogueTypeOK
  <2>4. docs \in Seq(Doc) /\ \E gen, docid : Sources(job.inputs, gen, docid)
    BY <2>3, MergedTraced
  <2>5. PICK gen, docid : Sources(job.inputs, gen, docid)
    BY <2>4
  <2>6. \A d \in DOMAIN docs : /\ gen[d] \in Range(job.inputs) /\ docid[d] \in LiveIn(gen[d])
                               /\ docs[d] = files[gen[d]].docs[docid[d]]
    BY <2>4, <2>5, LenProperties DEF Sources
  <2> HIDE DEF docs
  <2>7. \A d \in DOMAIN docs : Current(docs[d], v, i)
    BY <2>3, <2>6 DEF Seen, AllCurrent, LiveIn
  <2>8. AllCurrent(Range(manifest'.segs), stones', files', v, i)
    BY <1>1, <2>2 DEF Seen, AllCurrent
  <2>9. SavedCurrent(Range(disk'.segs), files', v, i)
    BY <1>1, <2>2 DEF Seen, SavedCurrent
  <2> QED
    BY <1>1, <1>3, <2>1, <2>7, <2>8, <2>9 DEF Seen
<1> QED
  BY <1>1, <1>2, <1>3

(* The marker is no document; an output given up is in no list.            *)
LEMMA MarkSeen ==
  ASSUME Inv, NEW v, NEW i, Seen(v, i), Mark PROVE Seen(v, i)'
<1>1. /\ pc = "mark" /\ UNCHANGED <<disk, manifest, stones, writer>>
      /\ \/ UNCHANGED files /\ pc' = "repoint" /\ UNCHANGED job
         \/ /\ files' = Restrict(files, DOMAIN files \ {job.out})
            /\ pc' \notin {"mark", "repoint", "unlist", "index"}
  BY DEF Mark, memory, Goto, CompactFailed, Return
<1>2. \A g \in Range(disk.segs) \cup Range(manifest.segs) : files'[g] = files[g]
  BY <1>1 DEF Inv, Listed, OutputApart, Restrict
<1> QED
  BY <1>1, <1>2, SeenShrinks

(* The keymap may point where it will: what is served is the same.         *)
LEMMA RepointSeen ==
  ASSUME Inv, Content, NEW v, NEW i, Seen(v, i), Repoint PROVE Seen(v, i)'
<1>1. /\ pc = "repoint" /\ UNCHANGED <<disk, manifest, writer>>
      /\ \/ UNCHANGED files /\ stones' = Put(stones, job.out, {}) /\ pc' = "unlist" /\ UNCHANGED job
         \/ /\ files' = Restrict(files, DOMAIN files \ {job.out}) /\ UNCHANGED stones
            /\ pc' \notin {"mark", "repoint", "unlist", "index"}
  BY DEF Repoint, Goto, CompactFailed, Return
<1>2. \A g \in Range(disk.segs) \cup Range(manifest.segs) : files'[g] = files[g]
  BY <1>1 DEF Inv, Listed, OutputApart, Restrict
<1>3. \A g \in Range(manifest.segs) : stones'[g] = stones[g]
  BY <1>1 DEF Inv, OutputApart, Content, Stored, Put
<1> QED
  BY <1>1, <1>2, <1>3, SeenShrinks

(* The output's documents are listed, in memory and on disk alike.         *)
LEMMA SwapSeen ==
  ASSUME "swap" \notin FaultIn, Inv, Content, Unique, NEW v, NEW i, Seen(v, i), Swap
  PROVE  Seen(v, i)'
<1>1. /\ pc = "unlist" /\ job.left = <<>> /\ disk' = manifest' /\ UNCHANGED <<files, writer>>
      /\ stones' = Restrict(stones, DOMAIN stones \ Range(job.inputs))
      /\ pc' = "dropInputs"
  BY DEF Swap, Fault, Goto
<1>2. Range(manifest'.segs) = Range(manifest.segs) \cup {job.out}
  <2>1. manifest.segs \in Seq(Nat) /\ job.out \in Nat
    BY DEF Inv, Shapes, CatalogueTypeOK, Catalogue
  <2>2. manifest'.segs = Append(manifest.segs, job.out)
    BY DEF Swap, Inv, Shapes, CatalogueTypeOK, Catalogue
  <2> QED
    BY <2>1, <2>2, AppendRange
<1>3. \A g \in Range(manifest.segs) : g \in DOMAIN stones /\ stones'[g] = stones[g]
  <2>1. Range(job.left) = {}
    BY <1>1 DEF Range
  <2>2. \A g \in Range(manifest.segs) : g \in DOMAIN stones /\ g \notin Range(job.inputs)
    BY <1>1, <2>1 DEF Inv, InputsApart, Content, Stored
  <2> QED
    BY <1>1, <2>2 DEF Restrict
<1>4. \A d \in DOMAIN files[job.out].docs : Current(files[job.out].docs[d], v, i)
  BY <1>1 DEF Seen
<1>5. AllCurrent(Range(manifest'.segs), stones', files', v, i)
  BY <1>1, <1>2, <1>3, <1>4 DEF Seen, AllCurrent
<1>6. SavedCurrent(Range(manifest.segs), files, v, i)
  BY <1>1, SavedIsServed
<1>7. SavedCurrent(Range(disk'.segs), files', v, i)
  BY <1>1, <1>2, <1>4, <1>6 DEF SavedCurrent
<1> QED
  BY <1>1, <1>5, <1>7 DEF Seen

(* maintain() and compact().                                               *)
LEMMA CompactingSeen ==
  ASSUME "swap" \notin FaultIn, Inv, Content, Unique, NEW v, NEW i, Seen(v, i), Compacting
  PROVE  Seen(v, i)'
<1>1. CASE Maintain \/ Unmark
  <2>1. /\ UNCHANGED <<disk, files, manifest, stones, writer>>
        /\ pc' \notin {"mark", "repoint", "unlist", "index"}
    BY <1>1 DEF Maintain, EndMaintain, Unmark, Step, Goto, Enter, AfterCompact, Return, disks, memory
  <2> QED
    BY <2>1, SeenStays
<1>2. CASE Unlist
  <2>1. /\ pc = "unlist" /\ pc' = "unlist" /\ job'.out = job.out
        /\ UNCHANGED <<disk, files, stones, writer>>
    BY <1>2 DEF Unlist, Enter, Inv, Shapes, CatalogueTypeOK, disks
  <2>2. Range(manifest'.segs) \subseteq Range(manifest.segs)
    BY <1>2, UnlistShrinks
  <2> QED
    BY <2>1, <2>2, SeenShrinks
<1>3. CASE DropInputs
  <2>1. /\ pc = "dropInputs" /\ pc' = "unmark" /\ UNCHANGED <<disk, manifest, stones, writer>>
        /\ files' = Restrict(files, DOMAIN files \ Range(job.inputs))
    BY <1>3 DEF DropInputs, Step, Goto, memory
  <2>2. \A g \in Range(disk.segs) \cup Range(manifest.segs) : files'[g] = files[g]
    BY <2>1 DEF Inv, Listed, InputsApart, Restrict
  <2> QED
    BY <2>1, <2>2, SeenShrinks
<1> QED
  BY <1>1, <1>2, <1>3, TakeOutputSeen, MergeSeen, MarkSeen, RepointSeen, SwapSeen DEF Compacting

-----------------------------------------------------------------------------
(* open()                                                                  *)

(* What open() loads was on disk.                                          *)
LEMMA OpenSeen ==
  ASSUME Content, NEW v, NEW i, Seen(v, i), Open PROVE Seen(v, i)'
<1>1. /\ pc = "down" /\ pc' = "sweep" /\ manifest' = disk /\ UNCHANGED <<disk, files, writer>>
      /\ stones' = [g \in Range(disk.segs) |-> files[g].del]
  BY DEF Open, Enter
<1>2. AllCurrent(Range(manifest'.segs), stones', files', v, i)
  BY <1>1 DEF Seen, AllCurrent, SavedCurrent
<1> QED
  BY <1>1, <1>2 DEF Seen

(* Tombstones reach the disk, some or all.                                 *)
LEMMA SaveStonesSeen ==
  ASSUME Inv, Content, Unique, NEW v, NEW i, Seen(v, i), SaveStones PROVE Seen(v, i)'
<1>1. /\ pc = "saveStones" /\ pc' \in {"openUnmark", "down"}
      /\ UNCHANGED <<disk, manifest, stones, writer>>
      /\ DOMAIN files' = DOMAIN files
      /\ \A g \in DOMAIN files :
           files'[g] = files[g] \/ files'[g] = [files[g] EXCEPT !.del = stones[g]]
  BY DEF SaveStones, Goto, memory
<1>2. disk.segs = manifest.segs
  BY <1>1 DEF Unique, ListSaved, Synced
<1>3. \A g \in Range(manifest.segs) :
        /\ files'[g].docs = files[g].docs
        /\ files'[g].del = files[g].del \/ files'[g].del = stones[g]
  <2>1. \A g \in Range(manifest.segs) : g \in DOMAIN files /\ files[g] \in Segment
    BY DEF Content, Stored, Inv, Listed
  <2> QED
    BY <1>1, <2>1 DEF Segment
<1>4. AllCurrent(Range(manifest'.segs), stones', files', v, i)
  BY <1>1, <1>3 DEF Seen, AllCurrent
<1>5. SavedCurrent(Range(disk'.segs), files', v, i)
  BY <1>1, <1>2, <1>3 DEF Seen, AllCurrent, SavedCurrent
<1> QED
  BY <1>1, <1>4, <1>5 DEF Seen

(* open(), with no log to replay.                                          *)
LEMMA OpeningSeen ==
  ASSUME Inv, Content, Unique, wal = <<>>, NEW v, NEW i, Seen(v, i), Opening PROVE Seen(v, i)'
<1>1. CASE Sweep
  <2>1. /\ pc = "sweep" /\ pc' \in {"rebuild", "retain"} /\ UNCHANGED <<disk, manifest, stones, writer>>
        /\ files' = Restrict(files, DOMAIN files \cap Range(manifest.segs))
    BY <1>1 DEF Sweep, Step, Goto, memory
  <2>2. disk.segs = manifest.segs /\ Range(manifest.segs) \subseteq DOMAIN files
    BY <2>1 DEF Unique, ListSaved, Synced, Inv, Listed
  <2>3. \A g \in Range(manifest.segs) : files'[g] = files[g]
    BY <2>1, <2>2 DEF Restrict
  <2> QED
    BY <2>1, <2>2, <2>3, SeenShrinks
<1>2. CASE RebuildKeymap
  <2>1. /\ pc' = "saveStones" /\ UNCHANGED <<disk, files, manifest, writer>>
        /\ \A g \in DOMAIN stones : stones[g] \subseteq stones'[g]
    BY <1>2 DEF RebuildKeymap, Step, Goto
  <2>2. Range(manifest.segs) \subseteq DOMAIN stones
    BY DEF Content, Stored
  <2> QED
    BY <2>1, <2>2, SeenShrinks
<1>3. CASE RetainGenerations \/ OpenUnmark \/ EndReplay
  <2>1. /\ UNCHANGED <<disk, files, manifest, stones, writer>>
        /\ pc' \notin {"mark", "repoint", "unlist", "index"}
    BY <1>3 DEF RetainGenerations, OpenUnmark, EndReplay, Step, Goto, Enter, memory
  <2> QED
    BY <2>1, SeenStays
<1>4. ~ReplayRecord
  BY DEF ReplayRecord
<1> QED
  BY <1>1, <1>2, <1>3, <1>4, OpenSeen, SaveStonesSeen DEF Opening

-----------------------------------------------------------------------------
(* Every step                                                              *)

(* Every step but the calls.                                               *)
LEMMA NextSeen ==
  ASSUME Sheltered, ~Durable, "swap" \notin FaultIn, Kept, NEW v, NEW i, Seen(v, i),
         Next, pc # "ready" \/ pc' = "down"
  PROVE  Seen(v, i)'
<1> USE DEF Kept
<1>1. wal = <<>>
  BY DEF Covered
<1>2. CASE CallOnKey \/ CallFlush \/ CallMaintain \/ CallCompact
  BY <1>2 DEF CallOnKey, CallFlush, CallMaintain, Invoke, CallCompact
<1>3. CASE Crash
  <2>1. /\ pc' = "down" /\ UNCHANGED <<disk, files>>
        /\ manifest'.segs = <<>> /\ writer' = NoWriter
    BY <1>3 DEF Crash, disks
  <2>2. Range(<<>>) = {}
    BY DEF Range
  <2> QED
    BY <2>1, <2>2 DEF Seen, AllCurrent, NoWriter
<1>4. CASE LoseKeymapLog
  BY <1>4, SeenStays DEF LoseKeymapLog, memory, control
<1>5. CASE TruncateWal
  <2>1. /\ UNCHANGED <<disk, files, manifest, stones, writer>>
        /\ pc' \notin {"mark", "repoint", "unlist", "index"}
    BY <1>5 DEF TruncateWal, Goto, AfterFlush, AfterAdd, Return
  <2> QED
    BY <2>1, SeenStays
<1>6. CASE Flushing /\ ~TruncateWal
  BY <1>6, WriteSegmentSeen, RegisterSegmentSeen, StartNewWriterSeen DEF Flushing, Sheltered
<1>7. CASE Updating \/ Deleting
  BY <1>7, CallSeen
<1>8. CASE Compacting
  BY <1>8, CompactingSeen
<1>9. CASE Opening
  BY <1>1, <1>9, OpeningSeen
<1> QED
  BY <1>2, <1>3, <1>4, <1>5, <1>6, <1>7, <1>8, <1>9 DEF Next, Work

(* A swap that is saved leaves no marker behind.                           *)
LEMMA NextMarked ==
  ASSUME "swap" \notin FaultIn, Marked, [Next]_vars
  PROVE  Marked'
<1> USE DEF Marked, Goto, Enter, Step
<1>1. CASE CallOnKey \/ CallFlush \/ CallMaintain \/ CallCompact \/ Crash \/ LoseKeymapLog
  BY <1>1 DEF CallOnKey, CallFlush, CallMaintain, Invoke, CallCompact, Crash, LoseKeymapLog, disks, control
<1>2. CASE Updating \/ Deleting
  BY <1>2 DEF Updating, Deleting, IndexDocument, LogAdd, LogUpdate, TombstoneOld,
              TombstoneDeleted, Unmap, LogDelete
<1>3. CASE Flushing
  BY <1>3 DEF Flushing, WriteSegment, RegisterSegment, StartNewWriter, TruncateWal
<1>4. CASE Compacting
  BY <1>4 DEF Compacting, Maintain, TakeOutput, Merge, Mark, Repoint, Unlist, Swap, DropInputs,
              Unmark, Fault, disks
<1>5. CASE Opening
  BY <1>5 DEF Opening, Open, Sweep, RetainGenerations, RebuildKeymap, SaveStones, OpenUnmark,
              ReplayRecord, EndReplay, NoCall, disks
<1>6. CASE UNCHANGED vars
  BY <1>6 DEF vars, disks, control
<1> QED
  BY <1>1, <1>2, <1>3, <1>4, <1>5, <1>6 DEF Next, Work

(* The client reads whenever the index becomes ready, and a call that has  *)
(* started is the one in flight.                                           *)
LEMMA NextRead ==
  ASSUME Next
  PROVE  \/ pc # "ready" /\ pc' = "ready" /\ view' = Observed'
         \/ pc' # "ready" /\ (pc # "ready" \/ pc' = "down") /\ UNCHANGED <<view, inflight>>
         \/ /\ pc = "ready" /\ pc' \notin {"ready", "mark", "repoint", "unlist"}
            /\ UNCHANGED <<disk, files, manifest, stones, writer, view>>
            /\ pc' = "index" => call'.key = inflight'.key /\ call'.ver = inflight'.ver
<1> USE DEF Goto, Enter, Step
<1>1. CASE CallOnKey \/ CallFlush \/ CallMaintain \/ CallCompact
  BY <1>1 DEF CallOnKey, CallFlush, CallMaintain, Invoke, CallCompact, Call, disks, memory
<1>2. CASE Crash \/ LoseKeymapLog
  BY <1>2 DEF Crash, LoseKeymapLog, control, client
<1>3. CASE Updating \/ Deleting
  BY <1>3 DEF Updating, Deleting, IndexDocument, LogAdd, LogUpdate, TombstoneOld,
              TombstoneDeleted, Unmap, LogDelete
<1>4. CASE Flushing
  BY <1>4 DEF Flushing, WriteSegment, RegisterSegment, StartNewWriter, TruncateWal
<1>5. CASE Compacting
  BY <1>5 DEF Compacting, Maintain, EndMaintain, TakeOutput, Merge, Mark, Repoint, Unlist,
              Swap, DropInputs, Unmark
<1>6. CASE Opening
  BY <1>6 DEF Opening, Open, Sweep, RetainGenerations, RebuildKeymap, SaveStones, OpenUnmark,
              ReplayRecord, EndReplay
<1> QED
  BY <1>1, <1>2, <1>3, <1>4, <1>5, <1>6 DEF Next, Work

(* A document that is alive has the version its place has.                 *)
LEMMA LiveVersions ==
  ASSUME Inv, Content, Unique, Rested, pc = "ready"
  PROVE  /\ \A g \in Range(manifest.segs) : \A d \in DOMAIN files[g].docs \ stones[g] :
              files[g].docs[d].ver = Observed[files[g].docs[d].key]
         /\ \A d \in DOMAIN writer.docs \ writer.del :
              writer.docs[d].ver = Observed[writer.docs[d].key]
<1>1. ASSUME NEW k \in Keys, NEW p \in Place, Live(p, k)
      PROVE  Observed[k] = VersionAt(p)
  <2>1. \A q \in Place : Live(q, k) => q = keymap[k]
    BY DEF Unique, SingleCopy, Loading, HalfUpdated, Rested
  <2>2. Copies(k) = {keymap[k]} /\ p = keymap[k]
    BY <1>1, <2>1, CopiesAreLive
  <2> QED
    BY <2>2 DEF Observed
<1>2. ASSUME NEW g \in Range(manifest.segs), NEW d \in DOMAIN files[g].docs \ stones[g]
      PROVE  files[g].docs[d].ver = Observed[files[g].docs[d].key]
  <2> DEFINE p == [gen |-> g, docid |-> d]
             k == files[g].docs[d].key
  <2>1. g \in DOMAIN files /\ g \in Nat /\ g # writer.gen
    BY DEF Inv, Listed, WriterApart, Shapes, CatalogueTypeOK
  <2>2. files[g].docs \in Seq(Doc)
    BY <2>1 DEF Content, Stored, Segment
  <2>3. d \in Nat /\ k \in Keys
    <3>1. d \in 1 .. Len(files[g].docs) /\ Len(files[g].docs) \in Nat
      BY <2>2, LenProperties
    <3>2. files[g].docs[d] \in Doc
      BY <2>2, <3>1, ElementOfSeq
    <3> QED
      BY <3>1, <3>2 DEF Doc
  <2>4. Live(p, k)
    BY DEF Live, FlushedAt
  <2>5. Observed[k] = VersionAt(p)
    BY <1>1, <2>1, <2>3, <2>4 DEF Place
  <2> QED
    BY <2>1, <2>5 DEF VersionAt
<1>3. ASSUME NEW d \in DOMAIN writer.docs \ writer.del
      PROVE  writer.docs[d].ver = Observed[writer.docs[d].key]
  <2> DEFINE p == [gen |-> writer.gen, docid |-> d]
             k == writer.docs[d].key
  <2>1. writer.docs \in Seq(Doc) /\ writer.gen \in Nat
    BY GenerationsAreNumbers DEF Content, Stored
  <2>2. d \in Nat /\ k \in Keys
    <3>1. d \in 1 .. Len(writer.docs) /\ Len(writer.docs) \in Nat
      BY <2>1, LenProperties
    <3>2. writer.docs[d] \in Doc
      BY <2>1, <3>1, ElementOfSeq
    <3> QED
      BY <3>1, <3>2 DEF Doc
  <2>3. Live(p, k)
    BY DEF Live, BufferedAt
  <2>4. Observed[k] = VersionAt(p)
    BY <1>1, <2>1, <2>2, <2>3 DEF Place
  <2> QED
    BY <2>4 DEF VersionAt
<1> QED
  BY <1>2, <1>3

(* Whatever call is next, all that is alive is as observed.                *)
AsObserved == \A j : Seen(Observed, j)

(* When the index is ready this is so, on disk too.                        *)
LEMMA ReadyIsCurrent ==
  (Inv /\ Content /\ Unique /\ Rested /\ Marked) => (pc = "ready" => AsObserved)
<1> SUFFICES ASSUME Inv, Content, Unique, Rested, Marked, pc = "ready", NEW i
             PROVE  Seen(Observed, i)
  BY DEF AsObserved
<1>1. Range(disk.segs) \subseteq Range(manifest.segs)
  BY DEF Marked, Unique, ListSaved
<1>2. \A g \in Range(manifest.segs) : files[g].del = stones[g]
  BY DEF Unique, StonesSaved, Content, Stored
<1>3. AllCurrent(Range(manifest.segs), stones, files, Observed, i)
  BY LiveVersions DEF AllCurrent, Current
<1>4. SavedCurrent(Range(disk.segs), files, Observed, i)
  BY <1>1, <1>2, <1>3 DEF AllCurrent, SavedCurrent
<1>5. \A d \in DOMAIN writer.docs \ writer.del : Current(writer.docs[d], Observed, i)
  BY LiveVersions DEF Current
<1> QED
  BY <1>3, <1>4, <1>5 DEF Seen

(* What the client reads was seen.                                         *)
LEMMA ObservedSeen ==
  ASSUME NEW v, NEW i
  PROVE  (Inv /\ Content /\ Unique /\ Rested /\ Seen(v, i)) =>
           (pc = "ready" =>
              \A k \in Keys : Observed[k] \in {v[k], Absent} \cup {w \in {i.ver} : i.key = k})
<1> SUFFICES ASSUME Inv, Content, Unique, Rested, Seen(v, i), pc = "ready", NEW k \in Keys
             PROVE  Observed[k] \in {v[k], Absent} \cup {w \in {i.ver} : i.key = k}
  OBVIOUS
<1>1. CASE Copies(k) = {}
  BY <1>1 DEF Observed
<1>2. CASE Copies(k) # {}
  <2>1. PICK p \in Place : Live(p, k)
    BY <1>2, CopiesAreLive
  <2>2. CASE FlushedAt(p, k, Range(manifest.segs), stones, files)
    <3>1. /\ p.gen \in Range(manifest.segs) /\ p.docid \in DOMAIN files[p.gen].docs \ stones[p.gen]
          /\ files[p.gen].docs[p.docid].key = k
      BY <2>2 DEF FlushedAt
    <3>2. files[p.gen].docs[p.docid].ver = Observed[k]
      BY <3>1, LiveVersions
    <3>3. Current(files[p.gen].docs[p.docid], v, i)
      BY <3>1 DEF Seen, AllCurrent
    <3> QED
      BY <3>1, <3>2, <3>3 DEF Current
  <2>3. CASE BufferedAt(p, k, writer)
    <3>1. p.docid \in DOMAIN writer.docs \ writer.del /\ writer.docs[p.docid].key = k
      BY <2>3 DEF BufferedAt
    <3>2. writer.docs[p.docid].ver = Observed[k]
      BY <3>1, LiveVersions
    <3>3. Current(writer.docs[p.docid], v, i)
      BY <3>1 DEF Seen
    <3> QED
      BY <3>1, <3>2, <3>3 DEF Current
  <2> QED
    BY <2>1, <2>2, <2>3 DEF Live
<1> QED
  BY <1>1, <1>2

-----------------------------------------------------------------------------
(* The theorem                                                             *)

(* The client's reading is never older than what it may come to read.      *)
LEMMA NextRecent ==
  ASSUME Sheltered, ~Durable, "swap" \notin FaultIn, Kept, Marked, Recent, [Next]_vars,
         Kept', Marked'
  PROVE  /\ Recent'
         /\ \A k \in Keys :
              view'[k] \in {view[k], Absent} \cup {w \in {inflight.ver} : inflight.key = k}
<1>1. CASE UNCHANGED vars
  <2>1. /\ UNCHANGED <<disk, files, keymap, manifest, stones, writer, pc, call, job, inflight, view>>
    BY <1>1 DEF vars, disks, memory, control, client
  <2>2. Observed' = Observed
    BY <2>1 DEF Observed, Copies, FlushedCopies, BufferedCopies, LiveIn, LiveInWriter, VersionAt
  <2> QED
    BY <2>1, <2>2 DEF Recent, Seen, AllCurrent, SavedCurrent
<1>2. CASE Next /\ pc # "ready" /\ pc' = "ready" /\ view' = Observed'
  <2>1. PICK v, i : v = view /\ i = inflight
    OBVIOUS
  <2>2. Seen(v, i)'
    BY <1>2, <2>1, NextSeen DEF Recent
  <2>3. (Inv /\ Content /\ Unique /\ Rested /\ Marked)' => (pc = "ready" => AsObserved)'
    BY ReadyIsCurrent, PTL
  <2>4. (Inv /\ Content /\ Unique /\ Rested /\ Seen(v, i))' =>
          (pc = "ready" =>
             \A k \in Keys : Observed[k] \in {v[k], Absent} \cup {w \in {i.ver} : i.key = k})'
    BY ObservedSeen, PTL
  <2>5. AsObserved'
    BY <1>2, <2>3 DEF Kept
  <2>6. \A k \in Keys : Observed'[k] \in {v[k], Absent} \cup {w \in {i.ver} : i.key = k}
    BY <1>2, <2>2, <2>4 DEF Kept
  <2>7. Recent'
    BY <1>2, <2>5 DEF Recent, Seen, AsObserved
  <2> QED
    BY <1>2, <2>1, <2>6, <2>7
<1>3. CASE Next /\ pc' # "ready" /\ (pc # "ready" \/ pc' = "down") /\ UNCHANGED <<view, inflight>>
  <2>1. PICK v, i : v = view /\ i = inflight
    OBVIOUS
  <2>2. Seen(v, i)'
    BY <1>3, <2>1, NextSeen DEF Recent
  <2> QED
    BY <1>3, <2>1, <2>2 DEF Recent, Seen
<1>4. CASE /\ pc = "ready" /\ pc' \notin {"ready", "mark", "repoint", "unlist"}
           /\ UNCHANGED <<disk, files, manifest, stones, writer, view>>
           /\ pc' = "index" => call'.key = inflight'.key /\ call'.ver = inflight'.ver
  <2>1. PICK v, i : v = view /\ i = inflight'
    OBVIOUS
  <2>2. Seen(v, i)
    BY <1>4, <2>1, ReadyIsCurrent DEF Recent, Kept, AsObserved
  <2>3. Seen(v, i)'
    BY <1>4, <2>1, <2>2, SeenStays
  <2> QED
    BY <1>4, <2>1, <2>3 DEF Recent, Seen
<1> QED
  BY <1>1, <1>2, <1>3, <1>4, NextRead

(* A crash may cost a key its document, but no version comes back: for any *)
(* segments, merges and faults, with the log off, if swaps are saved.      *)
THEOREM NeverResurrects ==
  ASSUME Sheltered, ~Durable, "swap" \notin FaultIn PROVE Spec => NoResurrection
<1>1. Init => Marked /\ Recent
  <2> SUFFICES ASSUME Init PROVE Marked /\ Recent
    OBVIOUS
  <2>1. Range(<<>>) = {}
    BY DEF Range
  <2> QED
    BY <2>1 DEF Init, Marked, Recent, Seen, AllCurrent, SavedCurrent, NoWriter
<1>2. Kept /\ Marked /\ Recent /\ [Next]_vars /\ Kept' =>
        /\ Marked' /\ Recent'
        /\ [\A k \in Keys :
              view'[k] \in {view[k], Absent} \cup {v \in {inflight.ver} : inflight.key = k}]_vars
  BY NextMarked, NextRecent
<1> QED
  BY <1>1, <1>2, KeptInvariance, PTL DEF Spec, NoResurrection

-----------------------------------------------------------------------------
(* What the client is promised                                             *)

(* What StoreSpec needs on top: a segment that has just been written opens. *)
Opens == "openSegment" \notin FaultIn

(* Where a served copy may be: once a compaction has repointed the keys,   *)
(* in its output and not in its inputs, which are about to be unlisted.    *)
ServedSegs ==
  IF pc = "unlist" THEN (Range(manifest.segs) \ Range(job.inputs)) \cup {job.out}
  ELSE Range(manifest.segs)

Serves(p, k) == FlushedAt(p, k, ServedSegs, stones, files) \/ BufferedAt(p, k, writer)

(* The index serves version v of key k, or no document for v = Absent.     *)
Shows(k, v) ==
  /\ \A p \in Place : Serves(p, k) => VersionAt(p) = v
  /\ (\A p \in Place : ~Serves(p, k)) => v = Absent

(* So do the saved segments.                                               *)
Keeps(k, v) ==
  /\ \A p \in Place : OnDisk(p, k) => files[p.gen].docs[p.docid].ver = v
  /\ (\A p \in Place : ~OnDisk(p, k)) => v = Absent

(* What record r makes of its key.                                         *)
Value(r) == IF r.op = "delete" THEN Absent ELSE r.ver

(* The ith record is the last of key k.                                    *)
LastOf(i, k) == wal[i].key = k /\ \A j \in i + 1 .. Len(wal) : wal[j].key # k

(* A crash now, with the recovery after it, leaves version v of key k.     *)
Recovers(k, v) ==
  IF Recorded(k, wal) THEN \A i \in 1 .. Len(wal) : LastOf(i, k) => v = Value(wal[i]) ELSE Keeps(k, v)

(* What the client may find under k when its call returns or is cut off.   *)
Owed(k) == {view[k], Store!Apply(inflight, view)[k]}

(* The call by key that runs has not had its effect yet,                   *)
Undone ==
  \/ call.op \in {"add", "update"} /\ pc = "index"
  \/ call.op = "delete" /\ pc = "tombstone"

(* or has had it and is not recorded.                                      *)
Recording(k) ==
  /\ k = call.key
  /\ \/ call.op = "add" /\ pc = "logAdd"
     \/ call.op = "update" /\ pc \in {"logAdd", "flush", "register", "logUpdate"}
     \/ call.op = "delete" /\ pc \in {"unmap", "logDelete"}

(* What the client would read now.                                         *)
Now == IF Undone THEN view ELSE Store!Apply(inflight, view)

(* The new copy of an update is there.                                     *)
Latest ==
  LET p == keymap[call.key] IN
  Serves(p, call.key) /\ VersionAt(p) = call.ver /\ p # call.old

(* The client's side of the control state.                                 *)
ClientKept ==
  /\ view = [k \in Keys |-> view[k]]
  /\ inflight.op \in {"add", "update", "delete"} => inflight.key \in Keys
  /\ opening <=> Unopened \/ Replaying
  /\ opening => ~exposed
  /\ pc = "ready" => inflight = Idle
  /\ ~opening /\ pc # "ready" => inflight = [op |-> call.op, key |-> call.key, ver |-> call.ver]
  /\ Replaying /\ pc # "replay" => call.ver = wal[replayed - 1].ver

(* The memory segment has nothing that is not in the log.                  *)
WriterKept ==
  /\ Unopened \/ pc = "newWriter" \/ writer.gen # 0
  /\ pc = "truncate" => writer.docs = <<>>
  /\ ~exposed /\ ~truncPending =>
       \A d \in DOMAIN writer.docs :
         Recorded(writer.docs[d].key, wal) \/ Recording(writer.docs[d].key)

(* An update is recorded before the copy it replaces is buried.            *)
UpdateRecorded == pc = "tombstone" /\ call.op = "update" => Recorded(call.key, wal)

(* A merge leaves no live document of its inputs out, and no other segment *)
(* is unlisted.                                                            *)
OutputWhole ==
  /\ pc \in {"mark", "repoint"} =>
       \A k \in Keys, p \in Place :
         FlushedAt(p, k, Range(job.inputs), stones, files) =>
           \E d \in DOMAIN files[job.out].docs : files[job.out].docs[d].key = k
  /\ pc \in {"takeOutput", "merge", "mark", "repoint", "unlist"} =>
       Range(job.left) \subseteq Range(job.inputs)

(* Between calls the index serves what the client has read, and within one *)
(* what it is about to read.                                               *)
RunShows ==
  ~opening =>
    \A k \in Keys : IF HalfUpdated /\ k = call.key THEN Latest ELSE Shows(k, Now[k])

(* A crash leaves that, too.                                               *)
RunRecovers ==
  ~opening /\ Settled /\ ~exposed =>
    \A k \in Keys :
      IF Recording(k) THEN call.op # "update" => Recovers(k, view[k]) \/ Recovers(k, Now[k])
      ELSE Recovers(k, Now[k])

(* While it is down, and as long as the replay has not flushed, the disk   *)
(* has what is owed.                                                       *)
DownRecovers ==
  opening /\ Settled => \A k \in Keys : \E v \in Owed(k) : Recovers(k, v)

(* A rebuild takes no key's last copy.                                     *)
RebuildKeeps ==
  pc = "saveStones" =>
    \A k \in Keys : (\E p \in Place : OnDisk(p, k)) => \E p \in Place : Serves(p, k)

(* The records say what is owed, and what they say of a key is served once *)
(* the last one about it has been replayed.                                *)
ReplayShows ==
  Replaying =>
    \A k \in Keys :
      /\ \A i \in 1 .. Len(wal) : LastOf(i, k) => Value(wal[i]) \in Owed(k)
      /\ (\A i \in replayed .. Len(wal) : wal[i].key # k) /\ ~(Undone /\ k = call.key) =>
           IF HalfUpdated /\ k = call.key THEN Latest
           ELSE \E v \in Owed(k) : Shows(k, v) /\ (Settled => Recovers(k, v))

Promised ==
  /\ ClientKept /\ WriterKept /\ UpdateRecorded /\ OutputWhole
  /\ RunShows /\ RunRecovers /\ DownRecovers /\ RebuildKeeps /\ ReplayShows

-----------------------------------------------------------------------------
(* A merge is complete *)

(* Each element of the first m sequences of s is one of f.                 *)
Gathers(f, s, m) ==
  \A i \in 1 .. m : \A n \in 1 .. Len(s[i]) : \E d \in 1 .. Len(f) : f[d] = s[i][n]

(* The next sequence is gathered with the others.                          *)
LEMMA GatherNext ==
  ASSUME NEW T, NEW s \in Seq(Seq(T)), NEW m \in Nat, m + 1 \in 1 .. Len(s),
         NEW f \in Seq(T), Gathers(f, s, m)
  PROVE  f \o s[m + 1] \in Seq(T) /\ Gathers(f \o s[m + 1], s, m + 1)
<1> DEFINE t == s[m + 1]
           h == f \o t
           lf == Len(f)
           lt == Len(t)
<1>1. t \in Seq(T)
  BY ElementOfSeq
<1>2. /\ h \in Seq(T) /\ Len(h) = lf + lt
      /\ \A d \in 1 .. lf + lt : h[d] = IF d <= lf THEN f[d] ELSE t[d - lf]
  BY <1>1, ConcatProperties
<1>3. lf \in Nat /\ lt \in Nat
  BY <1>1, LenProperties
<1> HIDE DEF h
<1>4. ASSUME NEW d \in 1 .. lf
      PROVE  d \in 1 .. lf + lt /\ h[d] = f[d]
  BY <1>2, <1>3
<1>5. ASSUME NEW n \in 1 .. lt
      PROVE  lf + n \in 1 .. lf + lt /\ h[lf + n] = t[n]
  <2> HIDE DEF lf, lt, t
  <2>1. lf + n \in 1 .. lf + lt /\ ~(lf + n <= lf) /\ (lf + n) - lf = n
    BY <1>3
  <2> QED
    BY <1>2, <2>1
<1> HIDE DEF lf, lt, t
<1>6. ASSUME NEW i \in 1 .. m + 1, NEW n \in 1 .. Len(s[i])
      PROVE  \E d \in 1 .. Len(h) : h[d] = s[i][n]
  <2>1. CASE i = m + 1
    <3>1. s[i] = t /\ n \in 1 .. lt
      BY <2>1, <1>6 DEF t, lt
    <3> QED
      BY <3>1, <1>2, <1>5
  <2>2. CASE i # m + 1
    <3>1. i \in 1 .. m
      BY <2>2, <1>6
    <3>2. PICK d \in 1 .. lf : f[d] = s[i][n]
      BY <3>1, <1>6 DEF Gathers, lf
    <3> QED
      BY <3>2, <1>2, <1>4
  <2> QED
    BY <2>1, <2>2
<1>7. Gathers(h, s, m + 1)
  BY <1>6 DEF Gathers
<1> QED
  BY <1>2, <1>7 DEF h, t

(* Flattening loses no element.                                            *)
LEMMA FlattenGathers ==
  ASSUME NEW T, NEW s \in Seq(Seq(T))
  PROVE  FlattenSeq(s) \in Seq(T) /\ Gathers(FlattenSeq(s), s, Len(s))
<1> DEFINE k == Len(s)
           h == Flattening(s)
           Good(m) == h[m] \in Seq(T) /\ Gathers(h[m], s, m)
           Bad == {m \in 1 .. k : ~Good(m)}
<1>1. k \in Nat
  BY LenProperties
<1>2. CASE k = 0
  <2>1. s = <<>> /\ FlattenSeq(s) = <<>>
    BY <1>2, FlattenUnfolded, EmptySeq
  <2>2. Gathers(<<>>, s, k)
    BY <1>2 DEF Gathers
  <2> QED
    BY <2>1, <2>2, EmptySeq
<1>3. CASE k # 0
  <2>1. h = [i \in 1 .. k |-> IF i = 1 THEN s[i] ELSE h[i - 1] \o s[i]]
    BY <1>1, FlatteningExists DEF Flattens
  <2>2. FlattenSeq(s) = h[k] /\ k \in 1 .. k /\ 1 \in 1 .. k
    BY <1>1, <1>3, FlattenUnfolded
  <2> HIDE DEF h
  <2>3. Good(1)
    <3>1. h[1] = s[1] /\ s[1] \in Seq(T)
      BY <2>1, <2>2, ElementOfSeq
    <3>2. Gathers(s[1], s, 1)
      BY DEF Gathers
    <3> QED
      BY <3>1, <3>2
  <2>4. ASSUME NEW m \in Nat, m \in 1 .. k, m + 1 \in 1 .. k, Good(m)
        PROVE  Good(m + 1)
    <3>1. m + 1 # 1 /\ (m + 1) - 1 = m
      BY <2>4
    <3>2. h[m + 1] = h[m] \o s[m + 1]
      BY <2>1, <2>4, <3>1
    <3> QED
      BY <2>4, <3>2, GatherNext
  <2>5. SUFFICES ASSUME Bad # {} PROVE FALSE
    BY <2>2
  <2> HIDE DEF Good
  <2>6. PICK m \in Bad : \A l \in Bad : m <= l
    <3>1. Bad \subseteq Nat
      BY <1>1
    <3> HIDE DEF Bad
    <3> QED
      BY <2>5, <3>1, SmallestNat
  <2>7. m \in 1 .. k /\ ~Good(m) /\ m # 1
    BY <2>3
  <2>8. /\ m - 1 \in Nat /\ m - 1 \in 1 .. k /\ (m - 1) + 1 = m /\ (m - 1) + 1 \in 1 .. k
        /\ ~(m <= m - 1)
    BY <1>1, <2>7
  <2>9. Good(m - 1)
    <3>1. m - 1 \notin Bad
      <4> HIDE DEF Bad
      <4> QED
        BY <2>6, <2>8
    <3> QED
      BY <2>8, <3>1
  <2>10. Good((m - 1) + 1)
    BY <2>4, <2>8, <2>9
  <2> QED
    BY <2>7, <2>8, <2>10
<1> QED
  BY <1>2, <1>3

(* Every live document of a segment is listed.                             *)
LEMMA LiveDocsComplete ==
  ASSUME NEW g, files[g].docs \in Seq(Doc)
  PROVE  \A e \in LiveIn(g) : \E n \in 1 .. Len(LiveDocs(g)) : LiveDocs(g)[n] = files[g].docs[e]
<1> DEFINE docs == files[g].docs
           n == Len(docs)
           ids == CHOOSE s \in SetToSeqs(LiveIn(g)) :
                    \A i, j \in DOMAIN s : i < j => s[i] < s[j]
           c == Cardinality(LiveIn(g))
<1>1. n \in Nat /\ DOMAIN docs = 1 .. n /\ \A d \in 1 .. n : docs[d] \in Doc
  BY LenProperties, ElementOfSeq
<1>2. LiveIn(g) \in SUBSET (1 .. n)
  BY <1>1 DEF LiveIn
<1>3. IsFiniteSet(LiveIn(g)) /\ c \in Nat
  <2>1. IsFiniteSet(1 .. n)
    BY <1>1, FS_Interval
  <2> QED
    BY <1>2, <2>1, FS_Subset, FS_CardinalityType
<1> HIDE DEF n
<1>4. \E s \in SetToSeqs(LiveIn(g)) : \A i, j \in DOMAIN s : i < j => s[i] < s[j]
  BY <1>1, <1>2, IncreasingOrder DEF Increasing
<1>5. ids \in SetToSeqs(LiveIn(g))
  BY <1>4
<1>6. LiveDocs(g) = [k \in DOMAIN ids |-> docs[ids[k]]]
  BY DEF LiveDocs
<1> HIDE DEF ids, c
<1>7. ids \in [1 .. c -> LiveIn(g)] /\ \A i, j \in 1 .. c : i # j => ids[i] # ids[j]
  BY <1>5 DEF SetToSeqs, c
<1>8. ids \in Surjection(1 .. c, LiveIn(g))
  <2>1. ids \in Injection(1 .. c, LiveIn(g))
    BY <1>7 DEF Injection, IsInjective
  <2>2. Cardinality(1 .. c) = c
    BY <1>3, FS_Interval
  <2> QED
    BY <1>3, <2>1, <2>2, FS_Injection DEF c
<1>9. LiveDocs(g) \in [1 .. c -> Doc]
  <2>1. \A k \in 1 .. c : docs[ids[k]] \in Doc
    BY <1>1, <1>2, <1>7
  <2> QED
    BY <1>6, <1>7, <2>1
<1>10. Len(LiveDocs(g)) = c
  BY <1>3, <1>9, FunctionsAreSeqs
<1> SUFFICES ASSUME NEW e \in LiveIn(g)
             PROVE  \E k \in 1 .. c : LiveDocs(g)[k] = docs[e]
  BY <1>10
<1>11. PICK k \in 1 .. c : ids[k] = e
  BY <1>8 DEF Surjection
<1> QED
  BY <1>6, <1>7, <1>11

(* A merge copies every live document of its inputs.                       *)
LEMMA MergedComplete ==
  ASSUME NEW gens \in Seq(Nat), \A g \in Range(gens) : files[g].docs \in Seq(Doc),
         NEW g \in Range(gens), NEW e \in LiveIn(g)
  PROVE  \E d \in DOMAIN Merged(gens) : Merged(gens)[d] = files[g].docs[e]
<1> DEFINE s == [i \in DOMAIN gens |-> LiveDocs(gens[i])]
           f == FlattenSeq(s)
<1>1. Len(gens) \in Nat /\ DOMAIN gens = 1 .. Len(gens)
  BY LenProperties
<1>2. \A i \in 1 .. Len(gens) : gens[i] \in Range(gens) /\ LiveDocs(gens[i]) \in Seq(Doc)
  BY <1>1, LiveDocsListed DEF Range
<1>3. s \in Seq(Seq(Doc)) /\ Len(s) = Len(gens)
      /\ \A i \in 1 .. Len(gens) : s[i] = LiveDocs(gens[i])
  <2>1. s \in [1 .. Len(gens) -> Seq(Doc)]
    BY <1>1, <1>2
  <2>2. \A i \in 1 .. Len(gens) : s[i] = LiveDocs(gens[i])
    BY <1>1
  <2> HIDE DEF s
  <2> QED
    BY <1>1, <2>1, <2>2, FunctionsAreSeqs
<1>4. Merged(gens) = f
  BY DEF Merged
<1> HIDE DEF s
<1>5. f \in Seq(Doc) /\ Gathers(f, s, Len(s))
  BY <1>3, FlattenGathers
<1>6. DOMAIN f = 1 .. Len(f)
  BY <1>5, LenProperties
<1> HIDE DEF f
<1>7. PICK i \in 1 .. Len(gens) : gens[i] = g
  BY <1>1 DEF Range
<1>8. PICK n \in 1 .. Len(LiveDocs(g)) : LiveDocs(g)[n] = files[g].docs[e]
  BY LiveDocsComplete
<1>9. PICK d \in 1 .. Len(f) : f[d] = s[i][n]
  BY <1>3, <1>5, <1>7, <1>8 DEF Gathers
<1> QED
  BY <1>3, <1>4, <1>6, <1>7, <1>8, <1>9

-----------------------------------------------------------------------------
(* What a step does to what is served, and saved *)

(* The served copies of k are where they were, with the versions they had. *)
ServedAsBefore(k) ==
  \A p \in Place :
    /\ Serves(p, k)' <=> Serves(p, k)
    /\ Serves(p, k) => VersionAt(p)' = VersionAt(p)

(* So are the saved ones.                                                  *)
SavedAsBefore(k) ==
  \A p \in Place :
    /\ OnDisk(p, k)' <=> OnDisk(p, k)
    /\ OnDisk(p, k) => files'[p.gen].docs[p.docid].ver = files[p.gen].docs[p.docid].ver

(* What was served of k is served, wherever the copy is now.               *)
StillShows(k) == \A v : Shows(k, v) => Shows(k, v)'

StillRecovers(k) == \A v : Recovers(k, v) => Recovers(k, v)'

(* Outside a swap every live copy is served, and no other.                 *)
LEMMA ServedIsLive ==
  ASSUME pc # "unlist"
  PROVE  \A k, p : Serves(p, k) <=> Live(p, k)
  BY DEF Serves, ServedSegs, Live

(* A copy that stays shows the same.                                       *)
LEMMA ShowsCarried ==
  ASSUME NEW k, ServedAsBefore(k)
  PROVE  StillShows(k)
<1> SUFFICES ASSUME NEW v, Shows(k, v) PROVE Shows(k, v)'
  BY DEF StillShows
<1> QED
  BY DEF ServedAsBefore, Shows

(* A saved one recovers the same, if the log does.                         *)
LEMMA RecoversCarried ==
  ASSUME NEW k, wal' = wal, SavedAsBefore(k) \/ Recorded(k, wal)
  PROVE  StillRecovers(k)
<1> SUFFICES ASSUME NEW v, Recovers(k, v) PROVE Recovers(k, v)'
  BY DEF StillRecovers
<1>1. CASE Recorded(k, wal)
  BY <1>1 DEF Recovers, LastOf
<1>2. CASE ~Recorded(k, wal)
  BY <1>2 DEF Recovers, SavedAsBefore, Keeps
<1> QED
  BY <1>1, <1>2

(* Files that are not listed do not matter to what is served,              *)
LEMMA CalmServed ==
  ASSUME pc # "unlist", pc' # "unlist", manifest'.segs = manifest.segs, UNCHANGED <<stones, writer>>,
         \A g \in Range(manifest.segs) : files'[g].docs = files[g].docs
  PROVE  \A k : ServedAsBefore(k)
<1> SUFFICES ASSUME NEW k, NEW p \in Place
             PROVE  /\ Live(p, k)' <=> Live(p, k)
                    /\ Live(p, k) => VersionAt(p)' = VersionAt(p)
  BY ServedIsLive DEF Serves, ServedSegs, Live, ServedAsBefore
<1>1. Live(p, k)' <=> Live(p, k)
  BY DEF Live, FlushedAt, BufferedAt
<1>2. ASSUME Live(p, k) PROVE VersionAt(p)' = VersionAt(p)
  BY <1>2 DEF Live, FlushedAt, BufferedAt, VersionAt
<1> QED
  BY <1>1, <1>2

(* nor to what is saved.                                                   *)
LEMMA CalmSaved ==
  ASSUME disk'.segs = disk.segs, \A g \in Range(disk.segs) : files'[g] = files[g]
  PROVE  \A k : SavedAsBefore(k)
  BY DEF SavedAsBefore, OnDisk, SavedAt

(* One more record says what its key is recovered as, and nothing of the   *)
(* others.                                                                 *)
LEMMA RecordRecovers ==
  ASSUME Inv, NEW r \in Record, wal' = Append(wal, r), \A k : SavedAsBefore(k)
  PROVE  /\ Recovers(r.key, Value(r))'
         /\ \A k : k # r.key => StillRecovers(k)
<1> DEFINE n == Len(wal)
<1>1. /\ n \in Nat /\ Len(wal') = n + 1 /\ wal'[n + 1] = r
      /\ \A i \in 1 .. n : wal'[i] = wal[i]
  BY LogOfRecords, AppendProperties
<1> HIDE DEF n
<1>2. Recovers(r.key, Value(r))'
  <2>1. n + 1 \in 1 .. n + 1 /\ \A i \in 1 .. n + 1 : i # n + 1 => n + 1 \in i + 1 .. n + 1
    BY <1>1
  <2>2. Recorded(r.key, wal)'
    BY <1>1, <2>1 DEF Recorded
  <2>3. \A i \in 1 .. Len(wal') : LastOf(i, r.key)' => i = n + 1
    BY <1>1, <2>1 DEF LastOf
  <2> QED
    BY <1>1, <2>2, <2>3 DEF Recovers
<1>3. ASSUME NEW k, k # r.key PROVE StillRecovers(k)
  <2>1. Recorded(k, wal)' <=> Recorded(k, wal)
    <3>1. \A i \in 1 .. n + 1 : i \in 1 .. n \/ i = n + 1
      BY <1>1
    <3>2. \A i \in 1 .. n : i \in 1 .. n + 1
      BY <1>1
    <3> QED
      BY <1>1, <1>3, <3>1, <3>2 DEF Recorded, n
  <2>2. \A i \in 1 .. Len(wal') : LastOf(i, k)' => i \in 1 .. n /\ LastOf(i, k) /\ wal'[i] = wal[i]
    <3> SUFFICES ASSUME NEW i \in 1 .. n + 1, LastOf(i, k)'
                 PROVE  i \in 1 .. n /\ LastOf(i, k) /\ wal'[i] = wal[i]
      BY <1>1
    <3>1. i \in 1 .. n
      BY <1>1, <1>3 DEF LastOf
    <3>2. \A j \in i + 1 .. n : j \in i + 1 .. n + 1 /\ j \in 1 .. n
      BY <1>1, <3>1
    <3> QED
      BY <1>1, <3>1, <3>2 DEF LastOf, n
  <2> SUFFICES ASSUME NEW v, Recovers(k, v) PROVE Recovers(k, v)'
    BY DEF StillRecovers
  <2>3. CASE Recorded(k, wal)
    BY <2>1, <2>2, <2>3 DEF Recovers, n
  <2>4. CASE ~Recorded(k, wal)
    BY <2>1, <2>4 DEF Recovers, SavedAsBefore, Keeps
  <2> QED
    BY <2>3, <2>4
<1> QED
  BY <1>2, <1>3

-----------------------------------------------------------------------------
(* add_document(), update_document(), delete_document()                    *)

(* The document that is indexed is served where the keymap now says; of    *)
(* other keys nothing is new.                                              *)
LEMMA IndexServed ==
  ASSUME Inv, Content, Unique, IndexDocument
  PROVE  /\ \A k \in Keys : k # call.key => ServedAsBefore(k)
         /\ Latest'
         /\ call.op = "add" => Shows(call.key, call.ver)'
<1> USE DEF IndexDocument, Step, Goto, budget
<1> DEFINE doc == [key |-> call.key, ver |-> call.ver]
<1>1. UNCHANGED <<files, manifest, stones, call>> /\ pc = "index" /\ pc' = "logAdd"
  OBVIOUS
<1>n. PICK n : n = Len(writer.docs)
  OBVIOUS
<1>new. PICK new : new = [gen |-> writer.gen, docid |-> n + 1]
  OBVIOUS
<1>2. call.key \in Keys /\ writer.gen \in Nat /\ writer.gen \notin Range(manifest.segs)
  BY DEF Inv, CallsNamed, WriterApart, Shapes, CatalogueTypeOK
<1>3. /\ writer'.gen = writer.gen /\ writer'.del = writer.del
      /\ writer'.docs = Append(writer.docs, doc)
  BY DEF Inv, Shapes
<1>4. /\ n \in Nat /\ DOMAIN writer.docs = 1 .. n /\ DOMAIN writer'.docs = 1 .. n + 1
      /\ writer'.docs[n + 1] = doc /\ \A i \in 1 .. n : writer'.docs[i] = writer.docs[i]
  <2>1. writer.docs \in Seq(Doc) /\ doc \in Doc
    BY <1>2 DEF Content, Stored, Doc, Inv, Shapes, CatalogueTypeOK
  <2> QED
    BY <1>3, <1>n, <2>1, AppendProperties, LenProperties
<1>5. keymap'[call.key] = new
  BY <1>2, <1>n, <1>new DEF Inv, Shapes, CatalogueTypeOK
<1>6. n + 1 \in 1 .. n + 1 /\ n + 1 \notin 1 .. n /\ \A i \in 1 .. n + 1 : i \in 1 .. n \/ i = n + 1
  BY <1>4
<1>7. n + 1 \notin writer.del
  BY <1>4, <1>6 DEF Content, Stored
<1>8. new \in Place
  BY <1>2, <1>4, <1>new DEF Place
<1>9. /\ \A k, p : Serves(p, k) <=> Live(p, k)
      /\ \A k, p : Serves(p, k)' <=> Live(p, k)'
  BY <1>1 DEF Serves, ServedSegs, Live
<1> HIDE DEF IndexDocument
<1>10. ASSUME NEW k \in Keys, NEW p \in Place
       PROVE  /\ Live(p, k)' <=> Live(p, k) \/ (k = call.key /\ p = new)
              /\ Live(p, k) => VersionAt(p)' = VersionAt(p)
  <2>1. p = new <=> p.gen = writer.gen /\ p.docid = n + 1
    BY <1>new DEF Place
  <2>2. FlushedAt(p, k, Range(manifest.segs), stones, files)' <=> FlushedAt(p, k, Range(manifest.segs), stones, files)
    BY <1>1 DEF FlushedAt
  <2>3. BufferedAt(p, k, writer') <=> BufferedAt(p, k, writer) \/ (k = call.key /\ p = new)
    <3>1. CASE p.docid = n + 1
      BY <1>3, <1>4, <1>6, <1>7, <2>1, <3>1 DEF BufferedAt
    <3>2. CASE p.docid # n + 1
      BY <1>3, <1>4, <1>6, <2>1, <3>2 DEF BufferedAt
    <3> QED
      BY <3>1, <3>2
  <2>4. ASSUME FlushedAt(p, k, Range(manifest.segs), stones, files) PROVE VersionAt(p)' = VersionAt(p)
    BY <1>1, <1>2, <1>3, <2>4 DEF FlushedAt, VersionAt
  <2>5. ASSUME BufferedAt(p, k, writer) PROVE VersionAt(p)' = VersionAt(p)
    BY <1>3, <1>4, <2>5 DEF BufferedAt, VersionAt
  <2> QED
    BY <2>2, <2>3, <2>4, <2>5 DEF Live
<1>11. \A k \in Keys : k # call.key => ServedAsBefore(k)
  BY <1>9, <1>10 DEF ServedAsBefore
<1>12. VersionAt(new)' = call.ver
  BY <1>3, <1>4, <1>new DEF VersionAt
<1>13. Latest'
  <2>1. Live(new, call.key)'
    BY <1>1, <1>2, <1>8, <1>10
  <2>2. new # call.old
    <3>1. new.gen # 0
      BY <1>1, <1>new DEF Inv, WriterApart
    <3> QED
      BY <1>4, <1>6, <1>new, <3>1 DEF Content, PlacesKept, Names
  <2>3. Serves(new, call.key)'
    BY <1>9, <2>1
  <2> QED
    BY <1>1, <1>5, <1>12, <2>2, <2>3 DEF Latest
<1>14. ASSUME call.op = "add"
       PROVE  Shows(call.key, call.ver)'
  <2>1. \A p \in Place : ~Live(p, call.key)
    BY <1>1, <1>14 DEF Unique, KeyLookedUp
  <2>2. \A p \in Place : Serves(p, call.key)' <=> p = new
    BY <1>1, <1>2, <1>9, <1>10, <2>1
  <2> QED
    BY <1>1, <1>8, <1>12, <2>2 DEF Shows
<1> QED
  BY <1>11, <1>13, <1>14

(* A tombstone is set for the place it is meant for, in memory and on disk. *)
LEMMA TombstoneServed ==
  ASSUME Sheltered, Inv, Content, Unique, pc = "tombstone", call.key \in Keys,
         NEW ok \in BOOLEAN, Tombstone(call.old, ok), UNCHANGED <<disk, manifest>>, pc' # "unlist"
  PROVE  /\ \A k, p : p \in Place => (Serves(p, k)' <=> Serves(p, k) /\ p # call.old)
         /\ \A k, p : p \in Place => (OnDisk(p, k)' => OnDisk(p, k))
         /\ \A k, p : p \in Place => (OnDisk(p, k) => OnDisk(p, k)' \/ p = call.old)
         /\ \A k, p : Serves(p, k) => VersionAt(p)' = VersionAt(p)
         /\ \A k, p : OnDisk(p, k) =>
              files'[p.gen].docs[p.docid].ver = files[p.gen].docs[p.docid].ver
         /\ \A k \in Keys : k # call.key => ServedAsBefore(k) /\ SavedAsBefore(k)
<1> DEFINE q == call.old
<1>1. q \in Place /\ Names(q, call.key, writer, files)
  BY DEF Content, PlacesKept
<1>2. /\ \A k, p : p \in Place => (Live(p, k)' <=> Live(p, k) /\ p # q)
      /\ \A k, p : p \in Place => (OnDisk(p, k)' => OnDisk(p, k))
      /\ \A g \in DOMAIN files : files'[g].docs = files[g].docs
  BY <1>1, TombstoneBuries
<1>3. /\ \A k, p : Serves(p, k) <=> Live(p, k)
      /\ \A k, p : Serves(p, k)' <=> Live(p, k)'
  BY DEF Serves, ServedSegs, Live
<1>4. /\ Range(manifest.segs) \subseteq DOMAIN files /\ Range(disk.segs) \subseteq DOMAIN files
      /\ writer.gen \notin Range(disk.segs)
  BY DEF Inv, Listed, WriterApart
<1>5. writer'.gen = writer.gen /\ writer'.docs = writer.docs
  BY TombstoneContent
<1>6. \A k, p : Live(p, k) => VersionAt(p)' = VersionAt(p)
  BY <1>2, <1>4, <1>5 DEF Live, FlushedAt, BufferedAt, VersionAt
<1>7. \A k, p : OnDisk(p, k) =>
        files'[p.gen].docs[p.docid].ver = files[p.gen].docs[p.docid].ver
  BY <1>2, <1>4 DEF OnDisk, SavedAt
<1>8. \A k, p : p \in Place => (OnDisk(p, k) => OnDisk(p, k)' \/ p = q)
  <2> SUFFICES ASSUME NEW k, NEW p \in Place, OnDisk(p, k), p # q
               PROVE  OnDisk(p, k)'
    OBVIOUS
  <2>1. p.gen = q.gen => p.docid # q.docid
    BY <1>1 DEF Place
  <2>2. p.gen \in DOMAIN files /\ files[p.gen] \in Segment
    BY <1>4 DEF OnDisk, SavedAt, Content, Stored
  <2>3. files'[p.gen] = files[p.gen] \/
          (p.gen = q.gen /\ files'[p.gen].docs = files[p.gen].docs
             /\ files'[p.gen].del \subseteq files[p.gen].del \cup {q.docid})
    <3>1. CASE UNCHANGED files
      BY <3>1
    <3>2. CASE /\ q.gen \in Range(manifest.segs)
               /\ files' = [files EXCEPT ![q.gen].del = stones[q.gen] \cup {q.docid}]
      <4>1. stones[q.gen] = files[q.gen].del
        BY <3>2 DEF Unique, StonesSaved, Content, Stored
      <4> QED
        BY <2>2, <3>2, <4>1 DEF Segment
    <3> QED
      BY <3>1, <3>2 DEF Tombstone
  <2> QED
    BY <2>1, <2>3 DEF OnDisk, SavedAt
<1>9. ASSUME NEW k \in Keys, k # call.key
      PROVE  ~Live(q, k) /\ ~OnDisk(q, k)
  <2>1. q.gen = writer.gen /\ BufferedAt(q, k, writer) => q.gen # 0
    <3>1. writer.gen = 0 => DOMAIN writer.docs = {}
      BY DEF Inv, WriterApart
    <3> QED
      BY <3>1 DEF BufferedAt
  <2> QED
    BY <1>1, <1>4, <1>9, <2>1 DEF Live, FlushedAt, BufferedAt, OnDisk, SavedAt, Names
<1>10. ASSUME NEW k \in Keys, k # call.key
       PROVE  ServedAsBefore(k) /\ SavedAsBefore(k)
  <2>1. ServedAsBefore(k)
    BY <1>2, <1>3, <1>6, <1>9, <1>10 DEF ServedAsBefore
  <2>2. SavedAsBefore(k)
    BY <1>2, <1>7, <1>8, <1>9, <1>10 DEF SavedAsBefore
  <2> QED
    BY <2>1, <2>2
<1> QED
  BY <1>2, <1>3, <1>6, <1>7, <1>8, <1>10

(* An update leaves the new copy.                                          *)
LEMMA TombstoneOldServed ==
  ASSUME Sheltered, Inv, Content, Unique, TombstoneOld, Latest
  PROVE  /\ \A k \in Keys : k # call.key => ServedAsBefore(k) /\ SavedAsBefore(k)
         /\ \A k, v : k = call.key /\ v = call.ver => Shows(k, v)'
<1> PICK key, q, n : key = call.key /\ q = call.old /\ n = keymap[call.key]
  OBVIOUS
<1>1. /\ pc = "tombstone" /\ call.op = "update" /\ pc' \in {"replay", "ready"}
      /\ UNCHANGED <<disk, manifest, keymap>>
  BY DEF TombstoneOld, Goto, Return
<1>2. key \in Keys
  BY <1>1 DEF Inv, CallsNamed
<1>3. n \in Place /\ q \in Place
  BY <1>2 DEF Content, PlacesKept
<1>4. Serves(n, key) /\ VersionAt(n) = call.ver /\ n # q
  BY DEF Latest
<1>5. \A p \in Place : Serves(p, key) => p = n \/ p = q
  BY <1>1, <1>2, ServedIsLive DEF Unique, SingleCopy, Loading
<1>6. CASE q = NoPlace
  <2>1. UNCHANGED <<files, stones, writer>>
    BY <1>6 DEF TombstoneOld
  <2>2. \A k : ServedAsBefore(k) /\ SavedAsBefore(k)
    BY <1>1, <2>1, CalmServed, CalmSaved
  <2>3. ~Serves(q, key)
    BY <1>1, <1>6, NoPlaceIsDead, ServedIsLive
  <2>4. Shows(key, call.ver)
    BY <1>3, <1>4, <1>5, <2>3 DEF Shows
  <2> QED
    BY <2>2, <2>4, ShowsCarried DEF StillShows
<1>7. CASE q # NoPlace
  <2>1. PICK ok \in BOOLEAN : Tombstone(call.old, ok)
    BY <1>7 DEF TombstoneOld
  <2>2. /\ \A p \in Place : Serves(p, key)' <=> Serves(p, key) /\ p # q
        /\ \A p : Serves(p, key) => VersionAt(p)' = VersionAt(p)
        /\ \A k \in Keys : k # call.key => ServedAsBefore(k) /\ SavedAsBefore(k)
    BY <1>1, <1>2, <2>1, TombstoneServed
  <2>3. \A p \in Place : Serves(p, key)' <=> p = n
    BY <1>3, <1>4, <1>5, <2>2
  <2>4. VersionAt(n)' = call.ver
    BY <1>4, <2>2
  <2>5. ASSUME NEW v, v = call.ver PROVE Shows(key, v)'
    BY <1>3, <2>3, <2>4, <2>5 DEF Shows
  <2> QED
    BY <2>2, <2>5
<1> QED
  BY <1>6, <1>7

(* A deleted key is not served any more, nor is it if there was nothing to *)
(* delete; what is saved of it is still saved, or gone.                    *)
LEMMA TombstoneDeletedServed ==
  ASSUME Sheltered, Inv, Content, Unique, TombstoneDeleted
  PROVE  /\ \A k \in Keys : k # call.key => ServedAsBefore(k) /\ SavedAsBefore(k)
         /\ \A k : k = call.key => Shows(k, Absent)'
         /\ \A k, v : k = call.key /\ Keeps(k, v) => Keeps(k, v)' \/ Keeps(k, Absent)'
<1> PICK key, q : key = call.key /\ q = call.old
  OBVIOUS
<1>1. /\ pc = "tombstone" /\ call.op = "delete" /\ pc' \in {"unmap", "replay", "ready"}
      /\ UNCHANGED <<disk, manifest, keymap>>
  BY DEF TombstoneDeleted, Goto, Return
<1>2. key \in Keys
  BY <1>1 DEF Inv, CallsNamed
<1>3. PICK ok \in BOOLEAN : Tombstone(call.old, ok)
  BY DEF TombstoneDeleted
<1>4. /\ \A p \in Place : Serves(p, key)' <=> Serves(p, key) /\ p # q
      /\ \A p \in Place : OnDisk(p, key)' => OnDisk(p, key)
      /\ \A p : OnDisk(p, key) =>
           files'[p.gen].docs[p.docid].ver = files[p.gen].docs[p.docid].ver
      /\ \A k \in Keys : k # call.key => ServedAsBefore(k) /\ SavedAsBefore(k)
  BY <1>1, <1>2, <1>3, TombstoneServed
<1>5. \A p \in Place : Serves(p, key) => p = q
  BY <1>1, <1>2, ServedIsLive DEF Unique, SingleCopy, KeyLookedUp, Loading, HalfUpdated
<1>6. Shows(key, Absent)'
  BY <1>4, <1>5 DEF Shows
<1>7. ASSUME NEW v, Keeps(key, v)
      PROVE  Keeps(key, v)' \/ Keeps(key, Absent)'
  <2>1. \A p \in Place : OnDisk(p, key)' => files'[p.gen].docs[p.docid].ver = v
    BY <1>4, <1>7 DEF Keeps
  <2>2. CASE \E p \in Place : OnDisk(p, key)'
    BY <2>1, <2>2 DEF Keeps
  <2>3. CASE \A p \in Place : ~OnDisk(p, key)'
    BY <2>3 DEF Keeps
  <2> QED
    BY <2>2, <2>3
<1> QED
  BY <1>4, <1>6, <1>7

-----------------------------------------------------------------------------
(* flush()                                                                 *)

(* The new segment serves what the memory segment served.                  *)
LEMMA RegisterServed ==
  ASSUME Sheltered, Durable, Opens, Inv, Content, RegisterSegment
  PROVE  /\ \A k : ServedAsBefore(k)
         /\ pc' = "newWriter" /\ writer' = NoWriter
         /\ UNCHANGED <<files, keymap, wal, truncPending, replayed, exposed,
                        view, inflight, opening, call, job>>
<1>1. /\ pc = "register" /\ pc' = "newWriter" /\ writer' = NoWriter
      /\ UNCHANGED <<files, keymap, wal, truncPending, replayed, exposed,
                     view, inflight, opening, call, job>>
      /\ manifest' = [manifest EXCEPT !.segs = Append(@, writer.gen)]
      /\ stones' = Put(stones, writer.gen, writer.del)
  BY DEF RegisterSegment, Goto, Fault, Sheltered, Opens
<1>2. Range(manifest'.segs) = Range(manifest.segs) \cup {writer.gen}
  <2>1. manifest.segs \in Seq(Nat) /\ writer.gen \in Nat
    BY GenerationsAreNumbers
  <2>2. manifest'.segs = Append(manifest.segs, writer.gen)
    BY <1>1 DEF Inv, Shapes, CatalogueTypeOK, Catalogue
  <2> QED
    BY <2>1, <2>2, AppendRange
<1>3. /\ stones'[writer.gen] = writer.del
      /\ \A g \in DOMAIN stones : g # writer.gen => stones'[g] = stones[g]
  BY <1>1 DEF Put
<1>4. files[writer.gen].docs = writer.docs
  BY <1>1 DEF Content, WriterUnopened
<1>5. \A g \in Range(manifest.segs) : g \in DOMAIN stones /\ g # writer.gen /\ g # 0
  BY NoPlaceIsNowhere DEF Inv, WriterApart, Content, Stored, Listed
<1>6. writer.gen # 0
  BY <1>1, NoPlaceIsNowhere DEF Inv, WriterApart
<1>7. ASSUME NEW k, NEW p \in Place
      PROVE  /\ Live(p, k)' <=> Live(p, k)
             /\ Live(p, k) => VersionAt(p)' = VersionAt(p)
  <2>1. ~BufferedAt(p, k, writer')
    BY <1>1 DEF BufferedAt, NoWriter
  <2>2. writer'.gen = 0
    BY <1>1 DEF NoWriter
  <2>3. CASE p.gen = writer.gen
    <3>1. Live(p, k)' <=> Live(p, k)
      BY <1>1, <1>2, <1>3, <1>4, <1>5, <2>1, <2>3 DEF Live, FlushedAt, BufferedAt
    <3>2. VersionAt(p)' = VersionAt(p)
      BY <1>1, <1>4, <1>6, <2>2, <2>3 DEF VersionAt
    <3> QED
      BY <3>1, <3>2
  <2>4. CASE p.gen # writer.gen
    <3>1. Live(p, k)' <=> Live(p, k)
      BY <1>1, <1>2, <1>3, <1>5, <2>1, <2>4 DEF Live, FlushedAt, BufferedAt
    <3>2. Live(p, k) => VersionAt(p)' = VersionAt(p)
      BY <1>1, <1>5, <2>2, <2>4 DEF VersionAt, Live, FlushedAt, BufferedAt
    <3> QED
      BY <3>1, <3>2
  <2> QED
    BY <2>3, <2>4
<1>8. \A k : ServedAsBefore(k)
  BY <1>1, <1>7 DEF Serves, ServedSegs, Live, ServedAsBefore
<1> QED
  BY <1>1, <1>8

(* An empty memory segment takes nothing from what is served.              *)
LEMMA StartNewWriterServed ==
  ASSUME Sheltered, Durable, Inv, Content, Unique, StartNewWriter
  PROVE  /\ \A k : ServedAsBefore(k) /\ SavedAsBefore(k)
         /\ pc' = IF call.op = "open" THEN "replay" ELSE "truncate"
         /\ replayed' = IF call.op = "open" THEN 1 ELSE replayed
         /\ writer' = [gen |-> manifest.gen, docs |-> <<>>, del |-> {}]
         /\ UNCHANGED <<files, keymap, wal, truncPending, exposed, stones,
                        view, inflight, opening, call, job>>
<1>1. /\ pc = "newWriter" /\ disk' = manifest'
      /\ pc' = IF call.op = "open" THEN "replay" ELSE "truncate"
      /\ replayed' = IF call.op = "open" THEN 1 ELSE replayed
      /\ writer' = [gen |-> manifest.gen, docs |-> <<>>, del |-> {}]
      /\ UNCHANGED <<files, keymap, wal, truncPending, exposed, stones,
                     view, inflight, opening, call, job>>
      /\ manifest' = [manifest EXCEPT !.gen = @ + 1]
  BY DEF StartNewWriter, Goto, Fault, Sheltered
<1>2. manifest'.segs = manifest.segs /\ disk.segs = manifest.segs
  BY <1>1 DEF Inv, Shapes, CatalogueTypeOK, Catalogue, Unique, ListSaved, Synced
<1>3. writer = NoWriter
  BY <1>1 DEF Content, Reopened
<1>4. \A k, p : ~BufferedAt(p, k, writer) /\ ~BufferedAt(p, k, writer')
  BY <1>1, <1>3 DEF BufferedAt, NoWriter
<1>5. \A g \in Range(manifest.segs) : g # manifest.gen /\ g # 0
  <2>1. \A g \in Range(manifest.segs) : 0 < g /\ g < disk.gen /\ g \in Nat
    BY DEF Inv, Numbered, Listed, Shapes, CatalogueTypeOK
  <2>2. disk.gen <= manifest.gen /\ disk.gen \in Nat /\ manifest.gen \in Nat
    BY <1>1, GenerationsAreNumbers DEF Inv, Numbered
  <2> QED
    BY <2>1, <2>2
<1>6. ASSUME NEW k, NEW p \in Place
      PROVE  /\ Live(p, k)' <=> Live(p, k)
             /\ Live(p, k) => VersionAt(p)' = VersionAt(p)
  <2>1. Live(p, k)' <=> Live(p, k)
    BY <1>1, <1>2, <1>4 DEF Live, FlushedAt
  <2>2. writer.gen = 0 /\ writer'.gen = manifest.gen
    BY <1>1, <1>3 DEF NoWriter
  <2>3. Live(p, k) => p.gen # 0 /\ p.gen # manifest.gen
    BY <1>4, <1>5 DEF Live, FlushedAt
  <2> QED
    BY <1>1, <2>1, <2>2, <2>3 DEF VersionAt
<1>7. \A k : ServedAsBefore(k)
  BY <1>1, <1>6 DEF Serves, ServedSegs, Live, ServedAsBefore
<1>8. \A k : SavedAsBefore(k)
  BY <1>1, <1>2, CalmSaved
<1> QED
  BY <1>1, <1>7, <1>8

-----------------------------------------------------------------------------
(* compact()                                                               *)

(* Unlisting a generation takes no other from the list.                    *)
LEMMA WithoutKeeps ==
  ASSUME NEW s \in Seq(Nat), NEW g \in Nat
  PROVE  Range(s) \ {g} \subseteq Range(Without(s, g))
<1>1. CASE ~\E i \in DOMAIN s : s[i] = g
  BY <1>1 DEF Without
<1>2. CASE \E i \in DOMAIN s : s[i] = g
  <2> DEFINE at == CHOOSE i \in DOMAIN s : s[i] = g
             n  == Len(s)
             l  == SubSeq(s, 1, at - 1)
             r  == SubSeq(s, at + 1, n)
  <2>1. n \in Nat /\ DOMAIN s = 1 .. n /\ \A i \in 1 .. n : s[i] \in Nat
    BY LenProperties, ElementOfSeq
  <2>2. at \in 1 .. n /\ s[at] = g
    BY <1>2, <2>1
  <2>3. Without(s, g) = l \o r
    BY <1>2 DEF Without, RemoveAt
  <2> HIDE DEF at, n
  <2>4. /\ l \in Seq(Nat) /\ Len(l) = at - 1
        /\ \A i \in 1 .. at - 1 : l[i] = s[i]
    <3>1. 1 \in Int /\ at - 1 \in Int /\ \A i \in 1 .. at - 1 : s[i] \in Nat
      BY <2>1, <2>2
    <3>2. /\ l \in Seq(Nat) /\ Len(l) = IF 1 <= at - 1 THEN at - 1 - 1 + 1 ELSE 0
          /\ \A i \in 1 .. at - 1 - 1 + 1 : l[i] = s[1 + i - 1]
      BY ONLY <3>1, SubSeqProperties
    <3> QED
      BY <2>1, <2>2, <3>2
  <2>5. /\ r \in Seq(Nat) /\ Len(r) = n - at
        /\ \A i \in 1 .. n - at : r[i] = s[at + i]
    <3>1. at + 1 \in Int /\ n \in Int /\ \A i \in at + 1 .. n : s[i] \in Nat
      BY <2>1, <2>2
    <3>2. /\ r \in Seq(Nat)
          /\ Len(r) = IF at + 1 <= n THEN n - (at + 1) + 1 ELSE 0
          /\ \A i \in 1 .. n - (at + 1) + 1 : r[i] = s[at + 1 + i - 1]
      BY ONLY <3>1, SubSeqProperties
    <3> QED
      BY <2>1, <2>2, <3>2
  <2> HIDE DEF l, r
  <2>6. Range(s) \ {g} \subseteq Range(l) \cup Range(r)
    <3> SUFFICES ASSUME NEW i \in 1 .. n, s[i] # g
                 PROVE  s[i] \in Range(l) \cup Range(r)
      BY <2>1 DEF Range
    <3>1. DOMAIN l = 1 .. at - 1 /\ DOMAIN r = 1 .. n - at
      BY <2>4, <2>5, LenProperties
    <3>2. CASE i < at
      <4>1. i \in 1 .. at - 1
        BY <2>1, <2>2, <3>2
      <4> QED
        BY <2>4, <3>1, <4>1 DEF Range
    <3>3. CASE ~(i < at)
      <4>1. i - at \in 1 .. n - at /\ at + (i - at) = i
        BY <2>1, <2>2, <3>3
      <4> QED
        BY <2>5, <3>1, <4>1 DEF Range
    <3> QED
      BY <3>2, <3>3
  <2>7. Range(l \o r) = Range(l) \cup Range(r)
    BY <2>4, <2>5, RangeConcatenation
  <2> QED
    BY <2>3, <2>6, <2>7
<1> QED
  BY <1>1, <1>2

(* Steps that move no document.                                            *)
LEMMA QuietServed ==
  ASSUME UNCHANGED <<disk, files, manifest, stones, writer>>, pc # "unlist", pc' # "unlist"
  PROVE  \A k : ServedAsBefore(k) /\ SavedAsBefore(k)
  BY CalmServed, CalmSaved

(* Files that are written or deleted are in neither list.                  *)
LEMMA UnlistedServed ==
  ASSUME Inv, Content, WriteSegment \/ Maintain \/ Merge \/ Mark \/ DropInputs \/ Unmark
  PROVE  /\ \A k : ServedAsBefore(k) /\ SavedAsBefore(k)
         /\ pc' # "unlist"
         /\ UNCHANGED <<disk, manifest, stones, writer, keymap, wal, truncPending, replayed, exposed>>
<1> DEFINE calm == /\ pc # "unlist" /\ pc' # "unlist"
                   /\ UNCHANGED <<disk, manifest, stones, writer, keymap, wal, truncPending,
                                  replayed, exposed>>
                   /\ \A g \in Range(disk.segs) \cup Range(manifest.segs) : files'[g] = files[g]
<1>1. SUFFICES calm
  <2>1. calm => \A k : ServedAsBefore(k) /\ SavedAsBefore(k)
    BY CalmServed, CalmSaved
  <2> HIDE DEF calm
  <2> SUFFICES calm => pc' # "unlist" /\ UNCHANGED <<disk, manifest, stones, writer, keymap, wal,
                                                    truncPending, replayed, exposed>>
    BY <1>1, <2>1
  <2> QED
    BY DEF calm
<1>2. CASE WriteSegment
  <2>1. writer.gen \notin Range(disk.segs) \cup Range(manifest.segs)
    BY DEF Inv, WriterApart
  <2>2. Range(disk.segs) \cup Range(manifest.segs) \subseteq DOMAIN files
    BY DEF Inv, Listed
  <2> QED
    BY <1>2, <2>1, <2>2 DEF WriteSegment, Step, Goto, AfterFlush, AfterAdd, Return, Put, memory, budget
<1>3. CASE Maintain \/ Unmark
  BY <1>3 DEF Maintain, Unmark, EndMaintain, Step, Goto, Enter, AfterCompact, Return, disks, memory, budget
<1>4. CASE Merge
  <2>1. job.out \notin Range(disk.segs) \cup Range(manifest.segs)
    BY <1>4 DEF Merge, Inv, OutputApart
  <2>2. Range(disk.segs) \cup Range(manifest.segs) \subseteq DOMAIN files
    BY DEF Inv, Listed
  <2>3. pc = "merge" /\ pc' # "unlist"
    BY <1>4 DEF Merge, Goto, CompactFailed, Return
  <2> QED
    BY <1>4, <2>1, <2>2, <2>3 DEF Merge, Put, memory
<1>5. CASE Mark
  <2>1. job.out \notin Range(disk.segs) \cup Range(manifest.segs)
    BY <1>5 DEF Mark, Inv, OutputApart
  <2>2. Range(disk.segs) \cup Range(manifest.segs) \subseteq DOMAIN files
    BY DEF Inv, Listed
  <2>3. pc = "mark" /\ pc' # "unlist"
    BY <1>5 DEF Mark, Goto, CompactFailed, Return
  <2> QED
    BY <1>5, <2>1, <2>2, <2>3 DEF Mark, Restrict, memory
<1>6. CASE DropInputs
  <2>1. \A g \in Range(job.inputs) : g \notin Range(disk.segs) \cup Range(manifest.segs)
    BY <1>6 DEF DropInputs, Inv, InputsApart
  <2>2. Range(disk.segs) \cup Range(manifest.segs) \subseteq DOMAIN files
    BY DEF Inv, Listed
  <2> QED
    BY <1>6, <2>1, <2>2 DEF DropInputs, Step, Goto, Restrict, memory, budget
<1> QED
  BY <1>2, <1>3, <1>4, <1>5, <1>6

(* The output has every live document of the inputs.                       *)
LEMMA MergeWhole == ASSUME Inv, Content, OutputWhole, Merge PROVE OutputWhole'
<1>1. /\ pc = "merge"
      /\ pc' = "mark" \/ pc' \notin {"takeOutput", "merge", "mark", "repoint", "unlist"}
      /\ pc' = "mark" => /\ files' = Put(files, job.out, [docs |-> Merged(job.inputs), del |-> {}])
                         /\ UNCHANGED <<job, stones>>
  BY DEF Merge, Goto, CompactFailed, Return, memory
<1>2. /\ job.inputs \in Seq(Nat) /\ job.out \notin Range(job.inputs)
      /\ \A g \in Range(job.inputs) : g \in DOMAIN files /\ files[g].docs \in Seq(Doc)
  <2>1. job.inputs \in Seq(Nat) /\ job.out \notin Range(job.inputs)
    BY <1>1 DEF Inv, Shapes, CatalogueTypeOK, OutputApart
  <2>2. \A g \in Range(job.inputs) : g \in DOMAIN files
    BY <1>1 DEF Inv, Listed, Content, OutputUnopened
  <2> QED
    BY <2>1, <2>2 DEF Content, Stored, Segment
<1>3. ASSUME pc' = "mark", NEW k \in Keys, NEW p \in Place,
             FlushedAt(p, k, Range(job.inputs), stones, files)'
      PROVE  (\E d \in DOMAIN files[job.out].docs : files[job.out].docs[d].key = k)'
  <2>1. p.gen \in Range(job.inputs) /\ p.docid \in LiveIn(p.gen) /\ files[p.gen].docs[p.docid].key = k
    BY <1>1, <1>2, <1>3 DEF FlushedAt, Put, LiveIn
  <2>2. PICK d \in DOMAIN Merged(job.inputs) : Merged(job.inputs)[d] = files[p.gen].docs[p.docid]
    BY <1>2, <2>1, MergedComplete
  <2>3. files'[job'.out].docs = Merged(job.inputs)
    BY <1>1, <1>3 DEF Put
  <2> QED
    BY <2>1, <2>2, <2>3
<1> QED
  BY <1>1, <1>3 DEF OutputWhole

(* A key whose copy was merged is served from the output, at the version   *)
(* it had; the others are left where they are.                             *)
LEMMA RepointShows ==
  ASSUME Inv, Content, Unique, Logged, OutputWhole, Repoint, pc' = "unlist"
  PROVE  \A k \in Keys : StillShows(k)
<1> DEFINE docs == files[job.out].docs
           segs == Range(manifest.segs)
           ins  == Range(job.inputs)
<1>1. /\ pc = "repoint" /\ stones' = Put(stones, job.out, {})
      /\ UNCHANGED <<disk, files, manifest, writer, job>>
  BY DEF Repoint, Goto, CompactFailed, Return
<1>2. /\ job.out # writer.gen /\ job.out \notin segs /\ job.out \notin ins /\ writer.gen \notin ins
      /\ segs \subseteq DOMAIN stones /\ job.out \in Nat
      /\ docs \in Seq(Doc)
  BY <1>1 DEF Inv, OutputApart, Unique, OutputCurrent, Content, Stored, Segment, Shapes, CatalogueTypeOK
<1>3. ~HalfUpdated /\ ~Loading
  BY <1>1 DEF Unique, OutputCurrent, Compacts, HalfUpdated, Loading
<1>4. \A k \in Keys, p \in Place : Live(p, k) => p = keymap[k]
  BY <1>1, <1>3 DEF Unique, SingleCopy
<1>5. \A k, p : Serves(p, k) <=> Live(p, k)
  BY <1>1, ServedIsLive
<1>6. \A k, p : Serves(p, k)' <=> \/ FlushedAt(p, k, segs \ ins, stones, files)
                                  \/ p.gen = job.out /\ p.docid \in DOMAIN docs /\ docs[p.docid].key = k
                                  \/ BufferedAt(p, k, writer)
  BY <1>1, <1>2 DEF Serves, ServedSegs, FlushedAt, Put
<1>7. \A k, p : FlushedAt(p, k, segs \ ins, stones, files) \/ BufferedAt(p, k, writer) => Live(p, k)
  BY DEF FlushedAt, Live
<1>8. \A p : VersionAt(p)' = VersionAt(p)
  BY <1>1 DEF VersionAt
<1> HIDE DEF docs, segs, ins
<1> SUFFICES ASSUME NEW k \in Keys, NEW v, Shows(k, v) PROVE Shows(k, v)'
  BY DEF StillShows
<1>9. CASE \E d \in DOMAIN docs : docs[d].key = k
  <2>1. PICK d \in DOMAIN docs : docs[d].key = k
    BY <1>9
  <2>2. /\ keymap[k].gen \in ins
        /\ \A e \in DOMAIN docs : docs[e].key = k => VersionAt(keymap[k]) = docs[e].ver
    BY <1>1, <2>1 DEF Unique, OutputCurrent, docs, ins
  <2>3. Live(keymap[k], k)
    <3>1. PICK p \in Place : OnDisk(p, k)
      BY <1>1, <2>1 DEF Logged, NothingRises, docs
    <3>2. Live(p, k)
      BY <1>1, <3>1, SavedIsLive DEF Unique, ListSaved, Synced
    <3> QED
      BY <1>4, <3>2
  <2>4. keymap[k] \in Place
    BY DEF Content, PlacesKept
  <2>5. v = VersionAt(keymap[k])
    BY <1>5, <2>3, <2>4 DEF Shows
  <2>6. ASSUME NEW p \in Place, Serves(p, k)'
        PROVE  VersionAt(p)' = v
    <3>1. ~FlushedAt(p, k, segs \ ins, stones, files) /\ ~BufferedAt(p, k, writer)
      BY <1>2, <1>4, <1>7, <2>2 DEF FlushedAt, BufferedAt
    <3>2. p.gen = job.out /\ p.docid \in DOMAIN docs /\ docs[p.docid].key = k
      BY <1>6, <2>6, <3>1
    <3>3. VersionAt(p)' = docs[p.docid].ver
      BY <1>1, <1>2, <3>2 DEF VersionAt, docs
    <3> QED
      BY <2>2, <2>5, <3>2, <3>3
  <2>7. \E p \in Place : Serves(p, k)'
    <3>1. [gen |-> job.out, docid |-> d] \in Place
      BY <1>2, <2>1, ElementOfSeq, LenProperties DEF Place
    <3> QED
      BY <1>6, <2>1, <3>1
  <2> QED
    BY <2>6, <2>7 DEF Shows
<1>10. CASE \A d \in DOMAIN docs : docs[d].key # k
  <2>1. \A p \in Place : ~FlushedAt(p, k, ins, stones, files)
    BY <1>1, <1>10 DEF OutputWhole, docs, ins
  <2>2. \A p \in Place : FlushedAt(p, k, segs, stones, files) => FlushedAt(p, k, segs \ ins, stones, files)
    BY <2>1 DEF FlushedAt
  <2>3. \A p \in Place : Serves(p, k)' <=> Serves(p, k)
    BY <1>5, <1>6, <1>7, <1>10, <2>2 DEF Live, segs
  <2> QED
    BY <1>8, <2>3 DEF Shows
<1> QED
  BY <1>9, <1>10

(* If the output does not open, nothing has happened.                      *)
LEMMA RepointFailedServed ==
  ASSUME Inv, Content, Repoint, pc' # "unlist"
  PROVE  \A k : ServedAsBefore(k) /\ SavedAsBefore(k)
<1>1. /\ pc = "repoint" /\ UNCHANGED <<disk, manifest, stones, writer>>
      /\ files' = Restrict(files, DOMAIN files \ {job.out})
  BY DEF Repoint, Goto
<1>2. job.out \notin Range(disk.segs) \cup Range(manifest.segs)
  BY <1>1 DEF Inv, OutputApart
<1>3. Range(disk.segs) \cup Range(manifest.segs) \subseteq DOMAIN files
  BY DEF Inv, Listed
<1>4. \A g \in Range(disk.segs) \cup Range(manifest.segs) : files'[g] = files[g]
  BY <1>1, <1>2, <1>3 DEF Restrict
<1> QED
  BY <1>1, <1>4, CalmServed, CalmSaved

(* The inputs that are unlisted were not served any more.                  *)
LEMMA UnlistServed ==
  ASSUME Inv, OutputWhole, Unlist
  PROVE  \A k : ServedAsBefore(k) /\ SavedAsBefore(k)
<1> DEFINE h == Head(job.left)
<1>1. /\ pc = "unlist" /\ pc' = "unlist" /\ job.left # <<>>
      /\ manifest' = [manifest EXCEPT !.segs = Without(@, h)]
      /\ UNCHANGED <<disk, files, stones, writer>>
      /\ job' = [job EXCEPT !.left = Tail(@)]
  BY DEF Unlist, Enter, disks
<1>2. /\ manifest'.segs = Without(manifest.segs, h)
      /\ job'.inputs = job.inputs /\ job'.out = job.out
  BY <1>1 DEF Inv, Shapes, CatalogueTypeOK, Catalogue
<1>3. job.left \in Seq(Nat) /\ manifest.segs \in Seq(Nat) /\ IsInjective(manifest.segs)
  BY GenerationsAreNumbers DEF Inv, Shapes, CatalogueTypeOK, Listed
<1>4. h \in Nat /\ h \in Range(job.left)
  BY <1>1, <1>3, HeadTailProperties, LenProperties, EmptySeq DEF Range
<1>5. h \in Range(job.inputs)
  BY <1>1, <1>4 DEF OutputWhole
<1> HIDE DEF h
<1>6. Range(manifest'.segs) = Range(manifest.segs) \ {h}
  BY <1>2, <1>3, <1>4, WithoutKeeps, WithoutShrinks
<1>7. ServedSegs' = ServedSegs
  BY <1>1, <1>2, <1>5, <1>6 DEF ServedSegs
<1>8. \A k : ServedAsBefore(k)
  BY <1>1, <1>7 DEF ServedAsBefore, Serves, FlushedAt, BufferedAt, VersionAt
<1> QED
  BY <1>1, <1>8, CalmSaved

(* The output that is listed was served already.                           *)
LEMMA SwapServed ==
  ASSUME Inv, Content, Swap
  PROVE  /\ \A k : ServedAsBefore(k)
         /\ (disk' = manifest' /\ pc' = "dropInputs") \/ \A k : SavedAsBefore(k)
         /\ pc = "unlist" /\ pc' \in {"dropInputs", "replay", "ready", "truncate"}
         /\ UNCHANGED <<files, writer, keymap, wal, truncPending, replayed, exposed>>
<1>1. /\ pc = "unlist" /\ pc' \in {"dropInputs", "replay", "ready", "truncate"} /\ job.left = <<>>
      /\ manifest' = [manifest EXCEPT !.segs = Append(@, job.out)]
      /\ stones' = Restrict(stones, DOMAIN stones \ Range(job.inputs))
      /\ UNCHANGED <<files, writer, keymap, wal, truncPending, replayed, exposed>>
      /\ (disk' = manifest' /\ pc' = "dropInputs") \/ UNCHANGED disk
  BY DEF Swap, Goto, CompactFailed, Return
<1>2. manifest'.segs = Append(manifest.segs, job.out)
  BY <1>1 DEF Inv, Shapes, CatalogueTypeOK, Catalogue
<1>3. Range(manifest'.segs) = Range(manifest.segs) \cup {job.out}
  BY <1>2, AppendRange, GenerationsAreNumbers DEF Inv, Shapes, CatalogueTypeOK
<1>4. Range(manifest.segs) \cap Range(job.inputs) = {}
  <2>1. \A g : g \notin Range(job.left)
    BY <1>1, EmptySeq DEF Range
  <2>2. \A g \in Range(job.inputs) : g \notin Range(manifest.segs)
    BY <1>1, <2>1 DEF Inv, InputsApart
  <2> QED
    BY <2>2
<1>5. /\ job.out \notin Range(job.inputs) /\ job.out \in DOMAIN stones
      /\ Range(manifest.segs) \subseteq DOMAIN stones
  BY <1>1 DEF Inv, OutputApart, Content, OutputUnopened, Stored
<1>6. ServedSegs' = ServedSegs /\ ServedSegs = Range(manifest.segs) \cup {job.out}
  BY <1>1, <1>3, <1>4 DEF ServedSegs
<1>7. \A g \in ServedSegs : stones'[g] = stones[g]
  BY <1>1, <1>4, <1>5, <1>6 DEF Restrict
<1>8. \A k : ServedAsBefore(k)
  BY <1>1, <1>6, <1>7 DEF ServedAsBefore, Serves, FlushedAt, BufferedAt, VersionAt
<1>9. UNCHANGED disk => \A k : SavedAsBefore(k)
  BY <1>1, CalmSaved
<1> QED
  BY <1>1, <1>8, <1>9

(* Taking a number for the output lists nothing.                           *)
LEMMA TakeOutputServed ==
  ASSUME Inv, TakeOutput
  PROVE  /\ \A k : ServedAsBefore(k)
         /\ (disk' = manifest' /\ pc' = "merge") \/ \A k : SavedAsBefore(k)
         /\ pc = "takeOutput" /\ pc' \in {"merge", "replay", "ready", "truncate"}
         /\ UNCHANGED <<files, writer, keymap, wal, truncPending, replayed, exposed>>
<1>1. /\ pc = "takeOutput" /\ pc' \in {"merge", "replay", "ready", "truncate"}
      /\ manifest' = [manifest EXCEPT !.gen = @ + 1]
      /\ UNCHANGED <<files, stones, writer, keymap, wal, truncPending, replayed, exposed>>
      /\ (disk' = manifest' /\ pc' = "merge") \/ UNCHANGED disk
  BY DEF TakeOutput, Goto, Enter, CompactFailed, Return
<1>2. manifest'.segs = manifest.segs
  BY <1>1 DEF Inv, Shapes, CatalogueTypeOK, Catalogue
<1>3. \A k : ServedAsBefore(k)
  BY <1>1, <1>2, CalmServed
<1>4. UNCHANGED disk => \A k : SavedAsBefore(k)
  BY <1>1, CalmSaved
<1> QED
  BY <1>1, <1>3, <1>4

-----------------------------------------------------------------------------
(* What is served, and read                                                *)

(* Where the saved list is up to date, a key without a copy in memory is   *)
(* served as it is saved.                                                  *)
LEMMA SyncedKeeps ==
  (Inv /\ Content /\ Unique) =>
    (pc \notin {"down", "saveStones", "unlist"} /\ disk.segs = manifest.segs =>
       \A k : (\A p \in Place : ~BufferedAt(p, k, writer)) => \A v : Shows(k, v) <=> Keeps(k, v))
<1> SUFFICES ASSUME Inv, Content, Unique, pc \notin {"down", "saveStones", "unlist"},
                    disk.segs = manifest.segs, NEW k, \A p \in Place : ~BufferedAt(p, k, writer)
             PROVE  \A v : Shows(k, v) <=> Keeps(k, v)
  OBVIOUS
<1>1. \A g \in Range(disk.segs) : files[g].del = stones[g] /\ g # writer.gen
  BY DEF Content, Stored, Unique, StonesSaved, Inv, WriterApart
<1>2. \A p \in Place : Serves(p, k) <=> OnDisk(p, k)
  BY <1>1 DEF Serves, ServedSegs, FlushedAt, OnDisk, SavedAt
<1>3. \A p \in Place : OnDisk(p, k) => VersionAt(p) = files[p.gen].docs[p.docid].ver
  BY <1>1 DEF OnDisk, SavedAt, VersionAt
<1> QED
  BY <1>2, <1>3 DEF Shows, Keeps

(* What is served when the index is ready is what the client reads.        *)
LEMMA ShownIsObserved ==
  (Inv /\ Content /\ Unique /\ Rested) =>
    (pc = "ready" => \A k \in Keys : \A v : Shows(k, v) => Observed[k] = v)
<1> SUFFICES ASSUME Inv, Content, Unique, Rested, pc = "ready", NEW k \in Keys, NEW v, Shows(k, v)
             PROVE  Observed[k] = v
  OBVIOUS
<1>1. \A p \in Place : Live(p, k) => p = keymap[k]
  BY DEF Rested, Unique, SingleCopy, Loading, HalfUpdated
<1>2. Copies(k) \subseteq Place /\ \A p \in Place : p \in Copies(k) <=> Serves(p, k)
  BY CopiesAreLive, ServedIsLive
<1>3. CASE Copies(k) = {}
  BY <1>2, <1>3 DEF Shows, Observed
<1>4. CASE Copies(k) # {}
  <2>1. Copies(k) = {keymap[k]}
    BY <1>1, <1>2, <1>4, ServedIsLive
  <2>2. VersionAt(keymap[k]) = v
    BY <1>2, <2>1 DEF Shows
  <2> QED
    BY <1>4, <2>1, <2>2 DEF Observed
<1> QED
  BY <1>3, <1>4

(* So a step that arrives there with m served makes m what has been read,  *)
(* and one that does not keeps the promise if m is what it goes for.       *)
LEMMA RunStep ==
  ASSUME NEW m, m = [k \in Keys |-> m[k]], Inv', Content', Unique', Rested', ~opening',
         \/ pc' = "ready" /\ view' = Observed' /\ inflight' = Idle /\ call' = NoCall
         \/ pc' # "ready" /\ Now' = m,
         \A k \in Keys : IF HalfUpdated' /\ k = call'.key THEN Latest' ELSE Shows(k, m[k])',
         Settled' /\ ~exposed' =>
           \A k \in Keys :
             IF Recording(k)'
             THEN call'.op # "update" => Recovers(k, view[k])' \/ Recovers(k, m[k])'
             ELSE Recovers(k, m[k])'
  PROVE  RunShows' /\ RunRecovers' /\ (pc' = "ready" => view' = m)
<1>1. CASE pc' # "ready"
  <2>1. Now' = m
    BY <1>1
  <2>2. RunShows'
    BY <2>1 DEF RunShows
  <2>3. RunRecovers'
    BY <2>1 DEF RunRecovers
  <2> QED
    BY <1>1, <2>2, <2>3
<1>2. CASE pc' = "ready" /\ view' = Observed' /\ inflight' = Idle /\ call' = NoCall
  <2>1. ~HalfUpdated' /\ ~Undone' /\ \A k : ~Recording(k)'
    BY <1>2 DEF HalfUpdated, Undone, Recording, NoCall
  <2>2. \A k \in Keys : Observed'[k] = m[k]
    <3>1. \A k \in Keys : \A v : Shows(k, v)' => Observed'[k] = v
      <4>1. (Inv /\ Content /\ Unique /\ Rested)' =>
              (pc = "ready" => \A k \in Keys : \A v : Shows(k, v) => Observed[k] = v)'
        BY ShownIsObserved, PTL
      <4> QED
        BY <1>2, <4>1
    <3> QED
      BY <2>1, <3>1
  <2>3. view' = m
    <3>1. view' = [k \in Keys |-> Observed'[k]]
      BY <1>2 DEF Observed
    <3> QED
      BY <2>2, <3>1
  <2>4. Now' = m
    BY <1>2, <2>1, <2>3 DEF Now, Store!Apply, Idle
  <2> QED
    BY <2>1, <2>3, <2>4 DEF RunShows, RunRecovers
<1> QED
  BY <1>1, <1>2

(* The steps of the calls, and of the replay that makes them again, run on *)
(* or arrive.                                                              *)
LEMMA WorkGoes ==
  ASSUME Updating \/ Deleting \/ Flushing \/ Compacting
  PROVE  /\ pc \notin {"ready", "down", "replay"}
         /\ \/ /\ pc' = "ready" /\ view' = Observed' /\ inflight' = Idle /\ opening' = FALSE
               /\ call' = NoCall
            \/ pc' # "ready" /\ UNCHANGED <<view, inflight, opening, call>>
<1>1. CASE Updating
  BY <1>1 DEF Updating, IndexDocument, LogAdd, LogUpdate, TombstoneOld, Step, Goto
<1>2. CASE Deleting
  BY <1>2 DEF Deleting, TombstoneDeleted, Unmap, LogDelete, Step, Goto
<1>3. CASE Flushing
  BY <1>3 DEF Flushing, WriteSegment, RegisterSegment, StartNewWriter, TruncateWal, Step, Goto
<1>4. CASE Compacting
  <2>1. CASE Maintain \/ TakeOutput \/ Unlist
    BY <2>1 DEF Maintain, TakeOutput, Unlist, EndMaintain, Step, Goto, Enter
  <2>2. CASE Merge \/ Mark \/ Repoint
    BY <2>2 DEF Merge, Mark, Repoint, Goto
  <2>3. CASE Swap \/ DropInputs \/ Unmark
    BY <2>3 DEF Swap, DropInputs, Unmark, Step, Goto
  <2> QED
    BY <1>4, <2>1, <2>2, <2>3 DEF Compacting
<1> QED
  BY <1>1, <1>2, <1>3, <1>4

(* The new copy of an update stays the latest.                             *)
LEMMA LatestStays ==
  ASSUME Content, call.key \in Keys, Latest, UNCHANGED <<keymap, call>>, ServedAsBefore(call.key)
  PROVE  Latest'
<1>1. keymap[call.key] \in Place
  BY DEF Content, PlacesKept
<1> QED
  BY <1>1 DEF Latest, ServedAsBefore

-----------------------------------------------------------------------------
(* The client's side                                                       *)

(* A call that runs leaves the record it replays, and the rest of the      *)
(* session's state, as it is.                                              *)
LEMMA WorkStays ==
  ASSUME Sheltered, Durable, Opens, Inv, Unique, Logged,
         \/ Updating \/ Deleting \/ Compacting \/ WriteSegment \/ RegisterSegment \/ TruncateWal
         \/ StartNewWriter /\ call.op # "open"
  PROVE  /\ ~Unopened /\ ~Unopened' /\ pc' # "down"
         /\ UNCHANGED replayed /\ (Replaying => wal' = wal) /\ (exposed' => exposed)
         /\ (truncPending => truncPending')
<1>1. CASE Updating
  <2>1. pc \in {"index", "logAdd", "logUpdate", "tombstone"}
    BY <1>1 DEF Updating, IndexDocument, LogAdd, LogUpdate, TombstoneOld
  <2>2. pc' \in {"logAdd", "flush", "logUpdate", "tombstone", "replay", "ready"}
    BY <1>1 DEF Updating, IndexDocument, LogAdd, LogUpdate, TombstoneOld, Step, Goto, AfterAdd, Return
  <2>3. UNCHANGED <<replayed, exposed, truncPending>> /\ (Replaying => wal' = wal)
    BY <1>1 DEF Updating, IndexDocument, LogAdd, LogUpdate, TombstoneOld, Step, memory, budget
  <2> QED
    BY <2>1, <2>2, <2>3 DEF Unopened
<1>2. CASE Deleting
  <2>1. pc \in {"tombstone", "unmap", "logDelete"}
    BY <1>2 DEF Deleting, TombstoneDeleted, Unmap, LogDelete
  <2>2. pc' \in {"unmap", "logDelete", "replay", "ready"}
    BY <1>2 DEF Deleting, TombstoneDeleted, Unmap, LogDelete, Step, Goto, Return
  <2>3. UNCHANGED <<replayed, exposed, truncPending>> /\ (Replaying => wal' = wal)
    BY <1>2 DEF Deleting, TombstoneDeleted, Unmap, LogDelete, Step, memory, budget
  <2> QED
    BY <2>1, <2>2, <2>3 DEF Unopened
<1>3. CASE Compacting
  <2>1. pc \in Compacts
    BY <1>3 DEF Compacting, Maintain, TakeOutput, Merge, Mark, Repoint, Unlist, Swap, DropInputs,
                Unmark, Compacts
  <2>2. UNCHANGED <<replayed, exposed, truncPending, wal>>
    BY <1>3 DEF Compacting, Maintain, TakeOutput, Merge, Mark, Repoint, Unlist, Swap, DropInputs,
                Unmark, Step, memory, disks, budget
  <2>3. pc' \in Compacts \cup {"truncate", "replay", "ready"}
    <3>1. CASE Maintain \/ TakeOutput \/ Unlist \/ DropInputs \/ Unmark
      BY <3>1 DEF Maintain, TakeOutput, Unlist, DropInputs, Unmark, EndMaintain, Step, Goto, Enter,
                  AfterCompact, CompactFailed, Return, Compacts
    <3>2. CASE Merge \/ Mark \/ Repoint \/ Swap
      BY <3>2 DEF Merge, Mark, Repoint, Swap, Goto, CompactFailed, Return, Compacts
    <3> QED
      BY <1>3, <3>1, <3>2 DEF Compacting
  <2> QED
    BY <2>1, <2>2, <2>3 DEF Unopened, Compacts
<1>4. CASE WriteSegment
  BY <1>4 DEF WriteSegment, Step, Goto, AfterFlush, AfterAdd, Return, memory, budget, Unopened
<1>5. CASE RegisterSegment
  <2>1. pc = "register" /\ pc' = "newWriter" /\ UNCHANGED call
    BY <1>5 DEF RegisterSegment, Goto, Fault, Sheltered, Opens
  <2>2. UNCHANGED <<replayed, truncPending, exposed, wal>>
    BY <1>5 DEF RegisterSegment
  <2>3. call.op # "open"
    BY <2>1 DEF Logged, CallsRun
  <2> QED
    BY <2>1, <2>2, <2>3 DEF Unopened
<1>6. CASE TruncateWal
  BY <1>6 DEF TruncateWal, Goto, AfterFlush, AfterAdd, Return, Unopened
<1>7. CASE StartNewWriter /\ call.op # "open"
  BY <1>7 DEF StartNewWriter, Goto, Fault, Sheltered, Unopened
<1> QED
  BY <1>1, <1>2, <1>3, <1>4, <1>5, <1>6, <1>7

(* What the client knows follows the calls,                                *)
LEMMA WorkClient ==
  ASSUME Sheltered, Durable, Opens, Inv, Unique, Logged, Logged', ClientKept,
         \/ Updating \/ Deleting \/ Compacting \/ WriteSegment \/ RegisterSegment \/ TruncateWal
         \/ StartNewWriter /\ call.op # "open"
  PROVE  ClientKept'
<1>1. /\ ~Unopened /\ ~Unopened' /\ pc' # "down"
      /\ UNCHANGED replayed /\ (Replaying => wal' = wal) /\ (exposed' => exposed)
  BY WorkStays
<1>2. /\ pc \notin {"ready", "down", "replay"}
      /\ \/ /\ pc' = "ready" /\ view' = Observed' /\ inflight' = Idle /\ opening' = FALSE
            /\ call' = NoCall
         \/ pc' # "ready" /\ UNCHANGED <<view, inflight, opening, call>>
  BY WorkGoes DEF Flushing
<1>3. pc' = "ready" => ~Replaying'
  BY DEF Logged, ReplayKept
<1>4. view' = [k \in Keys |-> view'[k]]
  BY <1>2 DEF ClientKept, Observed
<1>5. CASE pc' = "ready"
  BY <1>1, <1>2, <1>3, <1>4, <1>5 DEF ClientKept, Replaying, Idle
<1>6. CASE pc' # "ready"
  BY <1>1, <1>2, <1>4, <1>6 DEF ClientKept, Replaying
<1> QED
  BY <1>5, <1>6

(* and the steps of open(),                                                *)
LEMMA OpeningClient ==
  ASSUME Sheltered, Durable, Inv, Logged, Logged', ClientKept,
         \/ Open \/ Sweep \/ RetainGenerations \/ RebuildKeymap \/ SaveStones \/ OpenUnmark
         \/ StartNewWriter /\ call.op = "open"
         \/ ReplayRecord \/ EndReplay
  PROVE  ClientKept'
<1>1. CASE Open \/ Sweep \/ RetainGenerations \/ RebuildKeymap \/ SaveStones \/ OpenUnmark
  <2>1. Unopened /\ pc' \in {"down", "sweep", "retain", "rebuild", "saveStones", "openUnmark", "newWriter"}
        /\ (pc' = "newWriter" => call'.op = "open")
    BY <1>1 DEF Open, Sweep, RetainGenerations, RebuildKeymap, SaveStones, OpenUnmark, Step, Goto,
                Enter, Unopened, Logged, CallsRun, NoCall
  <2>2. UNCHANGED <<view, inflight, opening, exposed, replayed>>
    BY <1>1 DEF Open, Sweep, RetainGenerations, RebuildKeymap, SaveStones, OpenUnmark, Step, Goto,
                Enter, memory, budget
  <2>3. ~Replaying
    BY <2>1 DEF Logged, ReplayKept
  <2> QED
    BY <2>1, <2>2, <2>3 DEF ClientKept, Unopened, Replaying
<1>2. CASE StartNewWriter /\ call.op = "open"
  <2>1. pc = "newWriter" /\ pc' = "replay" /\ replayed' = 1 /\ UNCHANGED <<view, inflight, opening, exposed>>
    BY <1>2 DEF StartNewWriter, Goto, Fault, Sheltered
  <2> QED
    BY <1>2, <2>1 DEF ClientKept, Unopened, Replaying
<1>3. CASE ReplayRecord
  <2>1. /\ pc = "replay" /\ pc' \in {"replay", "index", "tombstone"} /\ replayed' = replayed + 1
        /\ UNCHANGED <<wal, view, inflight, opening, exposed>> /\ call'.ver = wal[replayed].ver
    BY <1>3 DEF ReplayRecord, Enter, Call, disks, budget
  <2>2. replayed \in Nat /\ replayed > 0
    BY <2>1, LogOfRecords DEF Logged, ReplayKept, Replaying
  <2>3. replayed' - 1 = replayed /\ replayed' > 0
    BY <2>1, <2>2
  <2>4. ~Unopened'
    BY <2>1 DEF Unopened
  <2>5. opening /\ ~exposed
    BY <2>2 DEF ClientKept, Replaying
  <2> QED
    BY <2>1, <2>3, <2>4, <2>5 DEF ClientKept, Replaying
<1>4. CASE EndReplay
  <2>1. /\ pc' = "ready" /\ replayed' = 0 /\ view' = Observed' /\ inflight' = Idle /\ opening' = FALSE
    BY <1>4 DEF EndReplay, Goto
  <2>2. view' = [k \in Keys |-> view'[k]]
    BY <2>1 DEF Observed
  <2> QED
    BY <2>1, <2>2 DEF ClientKept, Replaying, Unopened, Idle
<1> QED
  BY <1>1, <1>2, <1>3, <1>4

(* A crash strikes in no window in which the log says less, or more, than  *)
(* the segments.                                                           *)
LEMMA CrashSettled ==
  ASSUME Sheltered, Durable, Inv, Logged, Crash
  PROVE  ~exposed /\ ~HalfUpdated /\ Settled
<1>1. Window \notin {"updating", "replaying", "exposed", "flushed"}
  BY DEF Crash, Sheltered
<1>2. ~truncPending /\ ~HalfUpdated /\ ~FlushedUnlogged /\ ~exposed
  BY <1>1 DEF Window, FlushedUnlogged, HalfUpdated
<1> QED
  BY <1>2 DEF Settled, HalfUpdated, FlushedUnlogged, Logged, CallsRun

(* and the client's own, and a crash.                                      *)
LEMMA CallerClient ==
  ASSUME Sheltered, Durable, Inv, Unique, Logged, ClientKept,
         \/ CallOnKey \/ CallFlush \/ CallMaintain \/ CallCompact \/ Crash \/ LoseKeymapLog
         \/ UNCHANGED vars
  PROVE  ClientKept'
<1>1. ASSUME NEW op \in Ops \ {"compact"}, NEW k \in Keys \cup {Absent},
             op \in {"add", "update", "delete"} => k \in Keys, Invoke(op, k)
      PROVE  ClientKept'
  <2>1. /\ pc = "ready" /\ pc' \in {"index", "tombstone", "flush", "maintain"}
        /\ inflight' = [op |-> op, key |-> k, ver |-> inflight'.ver]
        /\ inflight' = [op |-> call'.op, key |-> call'.key, ver |-> call'.ver]
        /\ UNCHANGED <<view, opening, exposed, replayed>>
    BY <1>1 DEF Invoke, Call, memory, budget, Ops
  <2>2. ~Replaying /\ ~Unopened /\ ~Unopened'
    BY <2>1 DEF Logged, ReplayKept, Unopened
  <2> QED
    BY <1>1, <2>1, <2>2 DEF ClientKept, Replaying
<1>2. CASE CallOnKey \/ CallFlush \/ CallMaintain
  <2>1. CASE CallOnKey
    BY <1>1, <2>1 DEF CallOnKey, Ops
  <2>2. CASE CallFlush \/ CallMaintain
    BY <1>1, <2>2 DEF CallFlush, CallMaintain, Ops
  <2> QED
    BY <1>2, <2>1, <2>2
<1>3. CASE CallCompact
  <2>1. /\ pc = "ready" /\ pc' = "takeOutput"
        /\ inflight' = [op |-> "compact", key |-> Absent, ver |-> 0]
        /\ call'.op = "compact" /\ call'.key = Absent /\ call'.ver = 0
        /\ UNCHANGED <<view, opening, exposed, replayed>>
    BY <1>3 DEF CallCompact, Idle, NoCall, memory, budget
  <2>2. ~Replaying /\ ~Unopened /\ ~Unopened'
    BY <2>1 DEF Logged, ReplayKept, Unopened
  <2> QED
    BY <2>1, <2>2 DEF ClientKept, Replaying
<1>4. CASE Crash
  <2>1. pc' = "down" /\ opening' = TRUE /\ replayed' = 0 /\ UNCHANGED <<view, inflight, exposed>>
    BY <1>4 DEF Crash
  <2>2. ~exposed
    BY <1>4, CrashSettled
  <2> QED
    BY <2>1, <2>2 DEF ClientKept, Unopened, Replaying
<1>5. CASE LoseKeymapLog \/ UNCHANGED vars
  <2>1. ~LoseKeymapLog
    BY DEF LoseKeymapLog, Fault, Sheltered
  <2>2. UNCHANGED <<pc, call, view, inflight, opening, exposed, replayed, wal>>
    BY <1>5, <2>1 DEF vars, disks, memory, control, client, budget
  <2> QED
    BY <2>2 DEF ClientKept, Unopened, Replaying
<1> QED
  BY <1>2, <1>3, <1>4, <1>5

-----------------------------------------------------------------------------
(* The memory segment and the log                                          *)

(* The records that were there are there when one more is written.         *)
LEMMA RecordedGrows ==
  ASSUME Inv, NEW r \in Record, wal' = Append(wal, r)
  PROVE  Recorded(r.key, wal') /\ \A k : Recorded(k, wal) => Recorded(k, wal')
<1>1. Len(wal) \in Nat /\ Len(wal') = Len(wal) + 1 /\ wal'[Len(wal) + 1] = r
      /\ \A i \in 1 .. Len(wal) : wal'[i] = wal[i]
  BY LogOfRecords, AppendProperties
<1>2. Len(wal) + 1 \in 1 .. Len(wal') /\ \A i \in 1 .. Len(wal) : i \in 1 .. Len(wal')
  BY <1>1
<1> QED
  BY <1>1, <1>2 DEF Recorded

(* The record that is replayed is of the key of the call.                  *)
LEMMA ReplayedRecorded ==
  ASSUME Inv, Logged, Replaying, pc # "replay"
  PROVE  Recorded(call.key, wal)
<1>1. replayed > 1 /\ replayed <= Len(wal) + 1 /\ wal[replayed - 1].key = call.key
  BY DEF Logged, ReplayKept
<1>2. replayed - 1 \in 1 .. Len(wal)
  BY <1>1, LogOfRecords
<1> QED
  BY <1>1, <1>2 DEF Recorded

(* An empty memory segment keeps nothing from the log.                     *)
LEMMA WriterEmpty ==
  ASSUME writer'.docs = <<>>, Unopened' \/ pc' = "newWriter" \/ writer'.gen # 0
  PROVE  WriterKept'
  BY DEF WriterKept

(* One that stays as it is does so when the records stay.                  *)
LEMMA WriterStays ==
  ASSUME WriterKept, UNCHANGED <<writer.gen, writer.docs>>,
         Unopened' \/ pc' = "newWriter" \/ (~Unopened /\ pc # "newWriter"), pc' # "truncate",
         exposed => exposed', truncPending => truncPending',
         \A k : Recorded(k, wal) \/ Recording(k) => Recorded(k, wal') \/ Recording(k)'
  PROVE  WriterKept'
<1>1. Unopened' \/ pc' = "newWriter" \/ writer'.gen # 0
  BY DEF WriterKept
<1>2. ASSUME ~exposed', ~truncPending', NEW d \in DOMAIN writer'.docs
      PROVE  Recorded(writer'.docs[d].key, wal') \/ Recording(writer.docs[d].key)'
  <2>1. Recorded(writer.docs[d].key, wal) \/ Recording(writer.docs[d].key)
    BY <1>2 DEF WriterKept
  <2>2. PICK k : k = writer.docs[d].key
    OBVIOUS
  <2>3. Recorded(k, wal') \/ Recording(k)'
    BY <2>1, <2>2
  <2> QED
    BY <2>2, <2>3 DEF Recording
<1> QED
  BY <1>1, <1>2 DEF WriterKept

(* A document is indexed for a call that is about to record it.            *)
LEMMA IndexWriter ==
  ASSUME Inv, Content, Logged, WriterKept, IndexDocument
  PROVE  WriterKept'
<1>1. /\ pc = "index" /\ pc' = "logAdd" /\ UNCHANGED <<call, wal, exposed, truncPending, replayed>>
      /\ call.op \in {"add", "update"}
  BY DEF IndexDocument, Step, Goto, budget, Inv, CallsNamed
<1>2. /\ writer'.gen = writer.gen
      /\ writer'.docs = Append(writer.docs, [key |-> call.key, ver |-> call.ver])
  BY DEF IndexDocument, Inv, Shapes
<1>3. writer.docs \in Seq(Doc) /\ [key |-> call.key, ver |-> call.ver] \in Doc
  BY <1>1 DEF Content, Stored, Doc, Inv, Shapes, CatalogueTypeOK, CallsNamed
<1>4. \A d \in DOMAIN writer'.docs :
        \/ d \in DOMAIN writer.docs /\ writer'.docs[d] = writer.docs[d]
        \/ writer'.docs[d] = [key |-> call.key, ver |-> call.ver]
  <2>1. /\ Len(writer'.docs) = Len(writer.docs) + 1 /\ Len(writer.docs) \in Nat
        /\ DOMAIN writer.docs = 1 .. Len(writer.docs) /\ DOMAIN writer'.docs = 1 .. Len(writer'.docs)
        /\ writer'.docs[Len(writer.docs) + 1] = [key |-> call.key, ver |-> call.ver]
        /\ \A i \in 1 .. Len(writer.docs) : writer'.docs[i] = writer.docs[i]
    BY <1>2, <1>3, AppendProperties, LenProperties
  <2> QED
    BY <2>1
<1>5. \A k : ~Recording(k)
  BY <1>1 DEF Recording
<1>6. Recording(call.key)'
  BY <1>1 DEF Recording
<1>7. ASSUME ~exposed', ~truncPending', NEW d \in DOMAIN writer'.docs
      PROVE  Recorded(writer'.docs[d].key, wal') \/ Recording(writer.docs[d].key)'
  <2>1. CASE d \in DOMAIN writer.docs /\ writer'.docs[d] = writer.docs[d]
    <3>1. Recorded(writer.docs[d].key, wal)
      BY <1>1, <1>5, <1>7, <2>1 DEF WriterKept
    <3> QED
      BY <1>1, <2>1, <3>1
  <2>2. CASE writer'.docs[d] = [key |-> call.key, ver |-> call.ver]
    BY <1>1, <2>2 DEF Recording
  <2> QED
    BY <1>4, <1>7, <2>1, <2>2
<1>8. writer'.gen # 0 /\ pc' # "truncate"
  BY <1>1, <1>2 DEF Inv, WriterApart
<1> QED
  BY <1>7, <1>8 DEF WriterKept

(* Its record is written before the call is over.                          *)
LEMMA LogWriter ==
  ASSUME Durable, Inv, Logged, WriterKept, LogAdd \/ LogUpdate \/ LogDelete
  PROVE  WriterKept'
<1>1. /\ UNCHANGED <<writer, exposed, truncPending, replayed>>
      /\ ~Unopened /\ pc # "newWriter" /\ pc \notin {"replay", "ready"} /\ pc' # "truncate"
  BY DEF LogAdd, LogUpdate, LogDelete, Step, Goto, AfterAdd, Return, memory, budget, Unopened
<1>2. CASE LogAdd /\ call.op = "update"
  <2>1. pc = "logAdd" /\ wal' = wal /\ pc' \in {"flush", "logUpdate"} /\ UNCHANGED call
    BY <1>2 DEF LogAdd, Step, Goto, AfterAdd
  <2>2. \A k : Recording(k) => Recording(k)'
    BY <1>2, <2>1 DEF Recording
  <2> QED
    BY <1>1, <2>1, <2>2, WriterStays
<1>3. CASE ~(LogAdd /\ call.op = "update")
  <2>1. \A k : Recording(k) => k = call.key
    BY DEF Recording
  <2>2. call.key \in Keys /\ call.ver \in Nat
    BY DEF LogAdd, LogUpdate, LogDelete, Inv, CallsNamed, Logged, CallsRun, Shapes, CatalogueTypeOK
  <2>3. CASE Replaying
    <3>1. wal' = wal
      BY <2>3 DEF LogAdd, LogUpdate, LogDelete
    <3>2. Recorded(call.key, wal)
      BY <1>1, <2>3, ReplayedRecorded
    <3> QED
      BY <1>1, <2>1, <3>1, <3>2, WriterStays
  <2>4. CASE ~Replaying
    <3>1. PICK r \in Record : r.key = call.key /\ wal' = Append(wal, r)
      <4>1. /\ [op |-> "add", key |-> call.key, ver |-> call.ver] \in Record
            /\ [op |-> "update", key |-> call.key, ver |-> call.ver] \in Record
            /\ [op |-> "delete", key |-> call.key, ver |-> 0] \in Record
        BY <2>2 DEF Record
      <4>2. LogAdd => call.op = "add"
        BY <1>3 DEF LogAdd, Logged, CallsRun
      <4> QED
        BY <2>4, <4>1, <4>2 DEF LogAdd, LogUpdate, LogDelete
    <3>2. Recorded(call.key, wal') /\ \A k : Recorded(k, wal) => Recorded(k, wal')
      BY <3>1, RecordedGrows
    <3> QED
      BY <1>1, <2>1, <3>2, WriterStays
  <2> QED
    BY <2>3, <2>4
<1> QED
  BY <1>2, <1>3

(* The other steps of a call leave the documents, or there are none.       *)
LEMMA WorkWriter ==
  ASSUME Sheltered, Durable, Opens, Inv, Content, Unique, Logged, WriterKept,
         \/ TombstoneOld \/ TombstoneDeleted \/ Unmap
         \/ WriteSegment \/ RegisterSegment \/ StartNewWriter \/ TruncateWal
         \/ Compacting
  PROVE  WriterKept'
<1>1. CASE TombstoneOld \/ TombstoneDeleted
  <2>1. /\ pc = "tombstone" /\ UNCHANGED <<wal, exposed, truncPending>>
        /\ pc' \in {"unmap", "replay", "ready"}
    BY <1>1 DEF TombstoneOld, TombstoneDeleted, Goto, Return
  <2>2. writer'.gen = writer.gen /\ writer'.docs = writer.docs
    <3>1. CASE UNCHANGED writer
      BY <3>1
    <3>2. CASE \E ok \in BOOLEAN : Tombstone(call.old, ok) /\ UNCHANGED manifest
      BY <3>2, TombstoneContent
    <3> QED
      BY <1>1, <3>1, <3>2 DEF TombstoneOld, TombstoneDeleted
  <2>3. \A k : ~Recording(k)
    BY <1>1 DEF Recording, TombstoneOld, TombstoneDeleted
  <2> QED
    BY <2>1, <2>2, <2>3, WriterStays DEF Unopened
<1>2. CASE Unmap
  <2>1. /\ pc = "unmap" /\ pc' = "logDelete" /\ UNCHANGED <<writer, wal, exposed, truncPending, call>>
    BY <1>2 DEF Unmap, Step, Goto, memory, budget
  <2>2. \A k : Recording(k) => Recording(k)'
    BY <2>1 DEF Recording
  <2> QED
    BY <2>1, <2>2, WriterStays DEF Unopened
<1>3. CASE WriteSegment
  <2>1. /\ pc = "flush" /\ UNCHANGED <<writer, wal, exposed, truncPending>>
        /\ pc' \in {"register", "logUpdate", "replay", "ready"}
        /\ call.op = "update" => pc' \in {"register", "logUpdate"} /\ UNCHANGED call
    BY <1>3 DEF WriteSegment, Step, Goto, AfterFlush, AfterAdd, Return, memory, budget
  <2>2. \A k : Recording(k) => Recording(k)'
    BY <2>1 DEF Recording
  <2> QED
    BY <2>1, <2>2, WriterStays DEF Unopened
<1>4. CASE RegisterSegment
  BY <1>4, RegisterServed, WriterEmpty DEF NoWriter
<1>5. CASE StartNewWriter
  <2>1. writer'.docs = <<>> /\ writer'.gen = manifest.gen
    BY <1>5, StartNewWriterServed
  <2>2. manifest.gen # 0
    <3>1. disk.gen <= manifest.gen
      BY <1>5 DEF StartNewWriter, Inv, Numbered
    <3> QED
      BY <3>1, GenerationsAreNumbers
  <2> QED
    BY <2>1, <2>2, WriterEmpty
<1>6. CASE TruncateWal
  <2>1. pc = "truncate" /\ UNCHANGED writer
    BY <1>6 DEF TruncateWal
  <2>2. writer.docs = <<>> /\ writer.gen # 0
    BY <2>1 DEF WriterKept, Unopened
  <2> QED
    BY <2>1, <2>2, WriterEmpty
<1>7. CASE Compacting
  <2>1. pc \in Compacts
    BY <1>7 DEF Compacting, Maintain, TakeOutput, Merge, Mark, Repoint, Unlist, Swap, DropInputs,
                Unmark, Compacts
  <2>2. call.op \in {"maintain", "compact"}
    BY <2>1, NoReplayCompacts
  <2>3. UNCHANGED <<writer, exposed, truncPending, wal>>
    BY <1>7 DEF Compacting, Maintain, TakeOutput, Merge, Mark, Repoint, Unlist, Swap, DropInputs,
                Unmark, Step, memory, disks, budget
  <2>4. pc' # "truncate"
    <3>1. CASE Maintain \/ TakeOutput \/ Unlist \/ DropInputs \/ Unmark
      BY <2>2, <3>1 DEF Maintain, TakeOutput, Unlist, DropInputs, Unmark, EndMaintain, Step, Goto,
                  Enter, AfterCompact, CompactFailed, Return, Unique, OutputCurrent
    <3>2. CASE Merge \/ Mark \/ Repoint \/ Swap
      BY <2>2, <3>2 DEF Merge, Mark, Repoint, Swap, Goto, CompactFailed, Return
    <3> QED
      BY <1>7, <3>1, <3>2 DEF Compacting
  <2>5. \A k : ~Recording(k)
    BY <2>2 DEF Recording
  <2> QED
    BY <2>1, <2>3, <2>4, <2>5, WriterStays DEF Compacts, Unopened
<1> QED
  BY <1>1, <1>2, <1>3, <1>4, <1>5, <1>6, <1>7

(* Between calls nothing is being recorded.                                *)
LEMMA RestWriter ==
  ASSUME Sheltered, Inv, Content, Unique, Rested, Logged, WriterKept,
         \/ Open \/ Sweep \/ RetainGenerations \/ RebuildKeymap \/ SaveStones \/ OpenUnmark
         \/ ReplayRecord \/ EndReplay
         \/ CallOnKey \/ CallFlush \/ CallMaintain \/ CallCompact
         \/ Crash \/ LoseKeymapLog \/ UNCHANGED vars
  PROVE  WriterKept'
<1>1. CASE Open \/ Sweep \/ RetainGenerations \/ RebuildKeymap \/ SaveStones \/ OpenUnmark
  <2>1. pc \in {"down", "sweep", "retain", "rebuild", "saveStones", "openUnmark"} /\ UNCHANGED writer
        /\ (Unopened' \/ pc' = "newWriter")
    BY <1>1 DEF Open, Sweep, RetainGenerations, RebuildKeymap, SaveStones, OpenUnmark, Step, Goto,
                Enter, memory, Unopened
  <2>2. writer = NoWriter
    BY <2>1 DEF Content, Reopened
  <2> QED
    BY <2>1, <2>2, WriterEmpty DEF NoWriter
<1>2. CASE ReplayRecord
  <2>1. pc = "replay" /\ pc' \in {"replay", "index", "tombstone"}
        /\ UNCHANGED <<writer, wal, exposed, truncPending>>
    BY <1>2 DEF ReplayRecord, Enter, disks, budget
  <2>2. \A k : ~Recording(k)
    BY <2>1 DEF Recording
  <2> QED
    BY <2>1, <2>2, WriterStays DEF Unopened
<1>3. CASE EndReplay
  <2>1. /\ pc = "replay" /\ pc' = "ready" /\ UNCHANGED writer /\ exposed' = (exposed \/ truncPending)
        /\ ~truncPending => wal' = wal
    BY <1>3 DEF EndReplay, Goto
  <2>2. \A k : ~Recording(k)
    BY <2>1 DEF Recording
  <2> QED
    BY <2>1, <2>2 DEF WriterKept, Unopened
<1>4. CASE CallOnKey \/ CallFlush \/ CallMaintain \/ CallCompact
  <2>1. pc = "ready" /\ pc' \in {"index", "tombstone", "flush", "maintain", "takeOutput"}
        /\ UNCHANGED <<writer, wal, exposed, truncPending>>
    BY <1>4 DEF CallOnKey, CallFlush, CallMaintain, CallCompact, Invoke, memory, disks, budget
  <2>2. \A k : ~Recording(k)
    BY <2>1 DEF Recording, Rested
  <2> QED
    BY <2>1, <2>2, WriterStays DEF Unopened
<1>5. CASE Crash
  BY <1>5, WriterEmpty DEF Crash, NoWriter, Unopened
<1>6. CASE LoseKeymapLog \/ UNCHANGED vars
  <2>1. ~LoseKeymapLog
    BY DEF LoseKeymapLog, Fault, Sheltered
  <2>2. UNCHANGED <<pc, call, writer, wal, exposed, truncPending>>
    BY <1>6, <2>1 DEF vars, disks, memory, control, budget
  <2> QED
    BY <2>2 DEF WriterKept, Unopened, Recording
<1> QED
  BY <1>1, <1>2, <1>3, <1>4, <1>5, <1>6

-----------------------------------------------------------------------------
(* The output of a merge, and a rebuild                                    *)

(* A compaction takes its inputs one by one, and its output is whole.      *)
LEMMA NextWhole == ASSUME Inv, Content, OutputWhole, [Next]_vars PROVE OutputWhole'
<1> DEFINE Swapping == {"takeOutput", "merge", "mark", "repoint", "unlist"}
<1>1. CASE pc' \notin Swapping
  BY <1>1 DEF OutputWhole
<1>2. CASE Maintain \/ CallCompact
  <2>1. pc' \in Swapping => pc' = "takeOutput" /\ job'.left = job'.inputs
    BY <1>2 DEF Maintain, CallCompact, EndMaintain, Goto, Enter, Return
  <2> QED
    BY <1>1, <2>1 DEF OutputWhole
<1>3. CASE TakeOutput \/ Repoint
  <2>1. pc' \in Swapping => /\ pc \in Swapping /\ pc' \in {"merge", "unlist"}
                            /\ job'.left = job.left /\ job'.inputs = job.inputs
    BY <1>3 DEF TakeOutput, Repoint, Goto, Enter, CompactFailed, Return, Inv, Shapes, CatalogueTypeOK
  <2> QED
    BY <1>1, <2>1 DEF OutputWhole
<1>4. CASE Merge
  BY <1>4, MergeWhole
<1>5. CASE Mark
  <2>1. pc' \in Swapping => /\ pc = "mark" /\ pc' = "repoint" /\ UNCHANGED <<job, files, stones>>
    BY <1>5 DEF Mark, Goto, CompactFailed, Return, memory
  <2> QED
    BY <1>1, <2>1 DEF OutputWhole, FlushedAt
<1>6. CASE Unlist
  <2>1. /\ pc = "unlist" /\ pc' = "unlist" /\ job.left \in Seq(Nat) /\ job.left # <<>>
        /\ job'.inputs = job.inputs /\ job'.left = Tail(job.left)
    BY <1>6 DEF Unlist, Enter, Inv, Shapes, CatalogueTypeOK
  <2>2. Range(Tail(job.left)) \subseteq Range(job.left)
    BY <2>1, HeadTailProperties, LenProperties DEF Range
  <2> QED
    BY <2>1, <2>2 DEF OutputWhole
<1>7. CASE Swap \/ DropInputs \/ Unmark
  BY <1>1, <1>7 DEF Swap, DropInputs, Unmark, Step, Goto, AfterCompact, CompactFailed, Return
<1>8. CASE Updating \/ Deleting
  <2>1. pc' \in {"logAdd", "flush", "logUpdate", "tombstone", "unmap", "logDelete", "replay", "ready"}
    BY <1>8 DEF Updating, Deleting, IndexDocument, LogAdd, LogUpdate, TombstoneOld, TombstoneDeleted,
                Unmap, LogDelete, Step, Goto, AfterAdd, Return
  <2> QED
    BY <1>1, <2>1
<1>9. CASE Flushing
  <2>1. pc' \notin Swapping
    BY <1>9 DEF Flushing, WriteSegment, RegisterSegment, StartNewWriter, TruncateWal, Step, Goto,
                AfterFlush, AfterAdd, Return
  <2> QED
    BY <1>1, <2>1
<1>10. CASE Opening
  <2>1. pc' \notin Swapping
    BY <1>10 DEF Opening, Open, Sweep, RetainGenerations, RebuildKeymap, SaveStones, OpenUnmark,
                 ReplayRecord, EndReplay, Step, Goto, Enter
  <2> QED
    BY <1>1, <2>1
<1>11. CASE CallOnKey \/ CallFlush \/ CallMaintain
  <2>1. \A op \in Ops \ {"compact"} : \A k : Invoke(op, k) => pc' \notin Swapping
    BY DEF Invoke, Ops
  <2>2. pc' \notin Swapping
    BY <1>11, <2>1 DEF CallOnKey, CallFlush, CallMaintain, Ops
  <2> QED
    BY <1>1, <2>2
<1>12. CASE Crash
  BY <1>1, <1>12 DEF Crash
<1>13. CASE LoseKeymapLog \/ UNCHANGED vars
  <2>1. UNCHANGED <<pc, job, files, stones>>
    BY <1>13 DEF LoseKeymapLog, vars, disks, memory, control
  <2> QED
    BY <2>1 DEF OutputWhole, FlushedAt
<1> QED
  BY <1>2, <1>3, <1>4, <1>5, <1>6, <1>7, <1>8, <1>9, <1>10, <1>11, <1>12, <1>13
     DEF Next, Work, Compacting

(* Of the copies of a key the rebuild leaves the last.                     *)
LEMMA RebuiltServed ==
  ASSUME Inv, Content, Unique, RebuildKeymap
  PROVE  RebuildKeeps'
<1>1. /\ pc = "rebuild" /\ pc' = "saveStones" /\ UNCHANGED <<disk, files, manifest, writer>>
  BY DEF RebuildKeymap, Step, Goto
<1>2. PICK last \in LastCopies : stones' = [g \in DOMAIN stones |-> stones[g] \cup Superseded(g, last)]
  BY DEF RebuildKeymap
<1>3. /\ disk.segs = manifest.segs /\ \A k : \A p \in Place : p \in Copies(k) <=> Live(p, k)
      /\ \A k : Copies(k) \subseteq Place
  BY <1>1, CopiesAreLive DEF Unique, ListSaved, Synced
<1>4. \A k, p : ~BufferedAt(p, k, writer)
  BY <1>1 DEF Content, Reopened, BufferedAt, NoWriter
<1>5. ASSUME NEW k \in Keys, NEW p \in Place, OnDisk(p, k)'
      PROVE  \E q \in Place : Serves(q, k)'
  <2>1. p \in Copies(k)
    <3>1. OnDisk(p, k)
      BY <1>1, <1>5 DEF OnDisk, SavedAt
    <3>2. Live(p, k)
      BY <1>1, <1>3, <3>1, SavedIsLive
    <3> QED
      BY <1>3, <3>2
  <2>2. last[k] \in Copies(k)
    BY <2>1 DEF LastCopies
  <2>3. PICK q \in Place : q = last[k]
    BY <1>3, <2>2
  <2>4. FlushedAt(q, k, Range(manifest.segs), stones, files)
    BY <1>3, <1>4, <2>2, <2>3 DEF Live
  <2>5. q.docid \notin Superseded(q.gen, last)
    <3> SUFFICES ASSUME NEW j \in Keys, NEW r \in Copies(j) \ {last[j]}, r.gen = q.gen, r.docid = q.docid
                 PROVE  FALSE
      BY DEF Superseded
    <3>1. r = q
      BY <1>3 DEF Place
    <3>2. Live(r, j)
      BY <1>3
    <3>3. FlushedAt(q, j, Range(manifest.segs), stones, files)
      BY <1>4, <3>1, <3>2 DEF Live
    <3>4. j = k
      BY <2>4, <3>3 DEF FlushedAt
    <3> QED
      BY <2>3, <3>1, <3>4
  <2>6. q.gen \in DOMAIN stones
    BY <2>4 DEF FlushedAt, Content, Stored
  <2>7. FlushedAt(q, k, Range(manifest.segs), stones, files)'
    BY <1>1, <1>2, <2>4, <2>5, <2>6 DEF FlushedAt
  <2> QED
    BY <1>1, <2>7 DEF Serves, ServedSegs
<1> QED
  BY <1>5 DEF RebuildKeeps

(* No other step gets there.                                               *)
LEMMA NextRebuilt == ASSUME Inv, Content, Unique, Sheltered, RebuildKeeps, [Next]_vars PROVE RebuildKeeps'
<1>1. CASE pc' # "saveStones"
  BY <1>1 DEF RebuildKeeps
<1>2. CASE RebuildKeymap
  BY <1>2, RebuiltServed
<1>3. CASE UNCHANGED vars
  BY <1>3 DEF RebuildKeeps, Serves, ServedSegs, FlushedAt, BufferedAt, OnDisk, SavedAt,
              vars, disks, memory, control
<1>4. CASE Next /\ pc' = "saveStones"
  <2>1. ~Updating /\ ~Deleting /\ ~Flushing /\ ~Compacting
    <3>1. CASE Updating \/ Deleting
      BY <1>4, <3>1 DEF Updating, Deleting, IndexDocument, LogAdd, LogUpdate, TombstoneOld,
                  TombstoneDeleted, Unmap, LogDelete, Step, Goto, AfterAdd, Return
    <3>2. CASE Flushing
      BY <1>4, <3>2 DEF Flushing, WriteSegment, RegisterSegment, StartNewWriter, TruncateWal, Step, Goto,
                  AfterFlush, AfterAdd, Return
    <3>3. CASE Maintain \/ TakeOutput \/ Unlist \/ DropInputs \/ Unmark
      BY <1>4, <3>3 DEF Maintain, TakeOutput, Unlist, DropInputs, Unmark, EndMaintain, Step, Goto,
                  Enter, AfterCompact, CompactFailed, Return
    <3>4. CASE Merge \/ Mark \/ Repoint \/ Swap
      BY <1>4, <3>4 DEF Merge, Mark, Repoint, Swap, Goto, CompactFailed, Return
    <3> QED
      BY <3>1, <3>2, <3>3, <3>4 DEF Compacting
  <2>2. ~CallOnKey /\ ~CallFlush /\ ~CallMaintain /\ ~CallCompact /\ ~Crash /\ ~LoseKeymapLog
    <3>1. \A op \in Ops \ {"compact"} : \A k : ~Invoke(op, k)
      BY <1>4 DEF Invoke, Ops
    <3>2. ~CallOnKey /\ ~CallFlush /\ ~CallMaintain
      BY <3>1 DEF CallOnKey, CallFlush, CallMaintain, Ops
    <3> QED
      BY <1>4, <3>2 DEF CallCompact, Crash, LoseKeymapLog, control
  <2>3. RebuildKeymap
    BY <1>4, <2>1, <2>2 DEF Next, Work, Opening, Open, Sweep, RetainGenerations, SaveStones, OpenUnmark,
                            ReplayRecord, EndReplay, Step, Goto, Enter
  <2> QED
    BY <1>2, <2>3
<1> QED
  BY <1>1, <1>2, <1>3, <1>4

-----------------------------------------------------------------------------
(* The calls, and their replay                                             *)

(* The record of an update is there when its old copy is buried.           *)
LEMMA NextUpdateRecorded ==
  ASSUME Sheltered, Durable, Inv, Logged, UpdateRecorded, [Next]_vars
  PROVE  UpdateRecorded'
<1>1. CASE ~(pc' = "tombstone" /\ call'.op = "update")
  BY <1>1 DEF UpdateRecorded
<1>2. CASE LogUpdate
  <2>1. pc = "logUpdate" /\ UNCHANGED call /\ call.op = "update"
    BY <1>2 DEF LogUpdate, Step, Goto, Logged, CallsRun
  <2>2. CASE Replaying
    <3>1. wal' = wal
      BY <1>2, <2>2 DEF LogUpdate
    <3>2. Recorded(call.key, wal)
      BY <2>1, <2>2, ReplayedRecorded
    <3> QED
      BY <2>1, <3>1, <3>2 DEF UpdateRecorded
  <2>3. CASE ~Replaying
    <3>1. [op |-> "update", key |-> call.key, ver |-> call.ver] \in Record
      BY <2>1 DEF Record, Inv, CallsNamed, Shapes, CatalogueTypeOK
    <3>2. wal' = Append(wal, [op |-> "update", key |-> call.key, ver |-> call.ver])
      BY <1>2, <2>3 DEF LogUpdate
    <3>3. Recorded([op |-> "update", key |-> call.key, ver |-> call.ver].key, wal')
      BY <3>1, <3>2, RecordedGrows
    <3> QED
      BY <2>1, <3>3 DEF UpdateRecorded
  <2> QED
    BY <2>2, <2>3
<1>3. CASE UNCHANGED vars
  BY <1>3 DEF UpdateRecorded, Recorded, vars, disks, control
<1>4. CASE Next /\ pc' = "tombstone" /\ call'.op = "update"
  <2>1. CASE Updating \/ Deleting
    <3>1. LogUpdate
      BY <1>4, <2>1 DEF Updating, Deleting, IndexDocument, LogAdd, TombstoneOld, TombstoneDeleted,
                        Unmap, LogDelete, Step, Goto, AfterAdd, Return
    <3> QED
      BY <1>2, <3>1
  <2>2. ~Flushing
    BY <1>4 DEF Flushing, WriteSegment, RegisterSegment, StartNewWriter, TruncateWal, Step, Goto,
                AfterFlush, AfterAdd, Return
  <2>3. ~Compacting
    <3>1. CASE Maintain \/ TakeOutput \/ Unlist \/ DropInputs \/ Unmark
      BY <1>4, <3>1 DEF Maintain, TakeOutput, Unlist, DropInputs, Unmark, EndMaintain, Step, Goto,
                  Enter, AfterCompact, CompactFailed, Return
    <3>2. CASE Merge \/ Mark \/ Repoint \/ Swap
      BY <1>4, <3>2 DEF Merge, Mark, Repoint, Swap, Goto, CompactFailed, Return
    <3> QED
      BY <3>1, <3>2 DEF Compacting
  <2>4. ~Opening
    <3>1. ~ReplayRecord
      <4> SUFFICES ASSUME ReplayRecord PROVE FALSE
        OBVIOUS
      <4>1. call'.op = wal[replayed].op
        BY DEF ReplayRecord, Call
      <4>2. pc' # "tombstone"
        BY <1>4, <4>1 DEF ReplayRecord, Enter
      <4> QED
        BY <1>4, <4>2
    <3> QED
      BY <1>4, <3>1 DEF Opening, Open, Sweep, RetainGenerations, RebuildKeymap, SaveStones, OpenUnmark,
                 EndReplay, Step, Goto, Enter
  <2>5. ~CallOnKey /\ ~CallFlush /\ ~CallMaintain /\ ~CallCompact /\ ~Crash /\ ~LoseKeymapLog
    <3>1. \A op \in Ops \ {"compact"} : \A k : ~Invoke(op, k)
      BY <1>4 DEF Invoke, Ops, Call
    <3>2. ~CallOnKey /\ ~CallFlush /\ ~CallMaintain
      BY <3>1 DEF CallOnKey, CallFlush, CallMaintain, Ops
    <3> QED
      BY <1>4, <3>2 DEF CallCompact, Crash, LoseKeymapLog, Fault, Sheltered
  <2> QED
    BY <1>4, <2>1, <2>2, <2>3, <2>4, <2>5 DEF Next, Work
<1> QED
  BY <1>1, <1>3, <1>4

(* The steps of a call that move no key's copy.                            *)
CalmCall ==
  \/ LogAdd \/ LogUpdate \/ Unmap \/ LogDelete
  \/ WriteSegment \/ RegisterSegment \/ TruncateWal
  \/ StartNewWriter /\ call.op # "open"

(* They serve every copy as it was.                                       *)
LEMMA CalmCallServed ==
  ASSUME Sheltered, Durable, Opens, Inv, Content, Unique, Logged, CalmCall
  PROVE  /\ \A k : ServedAsBefore(k)
         /\ ~Undone /\ ~Undone'
         /\ HalfUpdated => HalfUpdated' /\ UNCHANGED <<call, keymap>>
<1>1. CASE LogAdd \/ LogUpdate \/ Unmap \/ LogDelete
  <2>1. /\ pc \in {"logAdd", "logUpdate", "unmap", "logDelete"}
        /\ pc' \in {"flush", "logUpdate", "tombstone", "logDelete", "replay", "ready"}
        /\ pc' = "tombstone" => call.op = "update" /\ UNCHANGED call
        /\ UNCHANGED <<disk, files, manifest, stones, writer>>
        /\ call.op = "update" =>
             /\ pc' \in {"flush", "logUpdate", "tombstone"}
             /\ UNCHANGED <<call, keymap>>
    BY <1>1 DEF LogAdd, LogUpdate, Unmap, LogDelete, Step, Goto, AfterAdd, Return, memory,
                Inv, CallsNamed, Logged, CallsRun
  <2>2. \A k : ServedAsBefore(k)
    BY <2>1, QuietServed
  <2> QED
    BY <2>1, <2>2 DEF Undone, HalfUpdated
<1>2. CASE WriteSegment
  <2>1. /\ pc = "flush" /\ pc' \in {"register", "logUpdate", "replay", "ready"}
        /\ call.op = "update" => pc' \in {"register", "logUpdate"} /\ UNCHANGED call
        /\ UNCHANGED keymap
    BY <1>2 DEF WriteSegment, Step, Goto, AfterFlush, AfterAdd, Return
  <2> QED
    BY <1>2, <2>1, UnlistedServed DEF Undone, HalfUpdated
<1>3. CASE RegisterSegment
  <2>1. pc = "register"
    BY <1>3 DEF RegisterSegment
  <2> QED
    BY <1>3, <2>1, RegisterServed DEF Undone, HalfUpdated
<1>4. CASE StartNewWriter /\ call.op # "open"
  <2>1. pc = "newWriter"
    BY <1>4 DEF StartNewWriter
  <2> QED
    BY <1>4, <2>1, StartNewWriterServed DEF Undone, HalfUpdated
<1>5. CASE TruncateWal
  <2>1. /\ pc = "truncate" /\ pc' \in {"logUpdate", "replay", "ready"}
        /\ call.op = "update" => pc' = "logUpdate" /\ UNCHANGED call
        /\ UNCHANGED <<disk, files, manifest, stones, writer, keymap>>
    BY <1>5 DEF TruncateWal, Goto, AfterFlush, AfterAdd, Return
  <2>2. \A k : ServedAsBefore(k)
    BY <2>1, QuietServed
  <2> QED
    BY <2>1, <2>2 DEF Undone, HalfUpdated
<1> QED
  BY <1>1, <1>2, <1>3, <1>4, <1>5 DEF CalmCall

-----------------------------------------------------------------------------
(* The calls between open() and a crash                                    *)

(* What a call makes of the client's reading is a reading.                 *)
LEMMA AppliedIsView ==
  ASSUME Inv, ClientKept
  PROVE  /\ Store!Apply(inflight, view) = [k \in Keys |-> Store!Apply(inflight, view)[k]]
         /\ Now = [k \in Keys |-> Now[k]]
<1>1. view = [k \in Keys |-> view[k]]
  BY DEF ClientKept
<1>2. Store!Apply(inflight, view) = [k \in Keys |-> Store!Apply(inflight, view)[k]]
  <2>1. inflight.op \in Ops \cup {"none"}
    BY DEF Inv, Shapes, CatalogueTypeOK
  <2>2. CASE inflight.op \in {"add", "update"}
    <3>1. Store!Apply(inflight, view) = [view EXCEPT ![inflight.key] = inflight.ver]
      BY <2>2 DEF Store!Apply
    <3> QED
      BY <1>1, <3>1
  <2>3. CASE inflight.op = "delete"
    <3>1. Store!Apply(inflight, view) = [view EXCEPT ![inflight.key] = Absent]
      BY <2>3 DEF Store!Apply
    <3> QED
      BY <1>1, <3>1
  <2>4. CASE inflight.op \notin {"add", "update", "delete"}
    <3>1. Store!Apply(inflight, view) = view
      BY <2>4 DEF Store!Apply
    <3> QED
      BY <1>1, <3>1
  <2> QED
    BY <2>2, <2>3, <2>4
<1> QED
  BY <1>1, <1>2 DEF Now

(* A running index replays nothing, and its calls are the client's.        *)
LEMMA RunningCall ==
  ASSUME Inv, Logged, ClientKept, ~opening
  PROVE  /\ ~Replaying /\ ~Unopened
         /\ pc # "ready" => inflight = [op |-> call.op, key |-> call.key, ver |-> call.ver]
  BY DEF ClientKept

(* Where the steps that move no copy start and end.                        *)
LEMMA CalmCallGoes ==
  ASSUME CalmCall
  PROVE  /\ pc \in {"logAdd", "logUpdate", "unmap", "logDelete", "flush", "register", "newWriter",
                    "truncate"}
         /\ \/ /\ pc' = "ready" /\ view' = Observed' /\ inflight' = Idle /\ opening' = FALSE
               /\ call' = NoCall
            \/ pc' # "ready" /\ UNCHANGED <<view, inflight, opening, call>>
<1>1. Updating \/ Deleting \/ Flushing \/ Compacting
  BY DEF CalmCall, Updating, Deleting, Flushing
<1>2. pc \in {"logAdd", "logUpdate", "unmap", "logDelete", "flush", "register", "newWriter", "truncate"}
  BY DEF CalmCall, LogAdd, LogUpdate, Unmap, LogDelete, WriteSegment, RegisterSegment,
         StartNewWriter, TruncateWal
<1> QED
  BY <1>1, <1>2, WorkGoes

(* They serve what was served.                                             *)
LEMMA CalmCallShows ==
  ASSUME Sheltered, Durable, Opens, Inv, Content, Unique, Logged, RunShows, ~opening, CalmCall,
         NEW m, m = Now, NEW k \in Keys
  PROVE  IF HalfUpdated' /\ k = call'.key THEN Latest' ELSE Shows(k, m[k])'
<1>1. ServedAsBefore(k) /\ (HalfUpdated => HalfUpdated' /\ UNCHANGED <<call, keymap>>)
  BY CalmCallServed
<1>2. HalfUpdated' => HalfUpdated
  <2>1. pc \notin {"index", "replay"} /\ (call' = NoCall \/ call' = call)
    BY CalmCallGoes
  <2> QED
    BY <2>1 DEF HalfUpdated, NoCall
<1>3. CASE HalfUpdated /\ k = call.key
  <2>1. Latest
    BY <1>3 DEF RunShows
  <2> QED
    BY <1>1, <1>3, <2>1, LatestStays
<1>4. CASE ~(HalfUpdated /\ k = call.key)
  <2>1. Shows(k, m[k])
    BY <1>4 DEF RunShows
  <2>2. Shows(k, m[k])'
    BY <1>1, <2>1, ShowsCarried DEF StillShows
  <2> QED
    BY <1>1, <1>2, <1>4, <2>2
<1> QED
  BY <1>3, <1>4

(* The segments have what is served when the memory segment has nothing.   *)
LEMMA SyncedKeepsNext ==
  ASSUME Inv', Content', Unique', pc' \notin {"down", "saveStones", "unlist"},
         disk'.segs = manifest'.segs
  PROVE  \A k : (\A p \in Place : ~BufferedAt(p, k, writer')) =>
           \A v : Shows(k, v)' <=> Keeps(k, v)'
<1>1. (Inv /\ Content /\ Unique)' =>
        (pc \notin {"down", "saveStones", "unlist"} /\ disk.segs = manifest.segs =>
           \A k : (\A p \in Place : ~BufferedAt(p, k, writer)) => \A v : Shows(k, v) <=> Keeps(k, v))'
  BY SyncedKeeps, PTL
<1> QED
  BY <1>1

(* A record that is written says what the call was for.                    *)
LEMMA RecordedNow ==
  ASSUME Durable, Inv, Logged, ClientKept, ~opening,
         (LogAdd /\ call.op = "add") \/ LogUpdate \/ LogDelete
  PROVE  /\ \E r \in Record : r.key = call.key /\ Value(r) = Now[call.key] /\ wal' = Append(wal, r)
         /\ call.key \in Keys
         /\ UNCHANGED <<disk, files, exposed, truncPending>>
         /\ pc \in {"logAdd", "logUpdate", "logDelete"} /\ pc' \in {"flush", "tombstone", "ready"}
<1>1. /\ ~Replaying /\ pc # "ready" /\ call.key \in Keys /\ ~Undone
      /\ inflight = [op |-> call.op, key |-> call.key, ver |-> call.ver]
      /\ view = [k \in Keys |-> view[k]] /\ call.ver \in Nat
      /\ pc \in {"logAdd", "logUpdate", "logDelete"}
      /\ UNCHANGED <<disk, files, exposed, truncPending>>
  BY RunningCall DEF LogAdd, LogUpdate, LogDelete, Inv, CallsNamed, Logged, CallsRun, Undone, Shapes,
                     CatalogueTypeOK, ClientKept, Step, budget, memory
<1>2. CASE LogAdd /\ call.op = "add"
  <2>1. PICK r : r = [op |-> "add", key |-> call.key, ver |-> call.ver]
    OBVIOUS
  <2>2. r \in Record /\ wal' = Append(wal, r) /\ r.key = call.key /\ Value(r) = call.ver
    BY <1>1, <1>2, <2>1 DEF Record, LogAdd, Value
  <2>3. Now[call.key] = call.ver
    BY <1>1, <1>2 DEF Now, Store!Apply
  <2>4. pc' \in {"flush", "ready"}
    BY <1>1, <1>2 DEF LogAdd, Step, Goto, AfterAdd, Return
  <2> QED
    BY <1>1, <2>2, <2>3, <2>4
<1>3. CASE LogUpdate
  <2>1. PICK r : r = [op |-> "update", key |-> call.key, ver |-> call.ver]
    OBVIOUS
  <2>2. r \in Record /\ wal' = Append(wal, r) /\ r.key = call.key /\ Value(r) = call.ver
    BY <1>1, <1>3, <2>1 DEF Record, LogUpdate, Value
  <2>3. Now[call.key] = call.ver
    <3>1. call.op = "update"
      BY <1>3 DEF LogUpdate, Logged, CallsRun
    <3> QED
      BY <1>1, <3>1 DEF Now, Store!Apply
  <2>4. pc' = "tombstone"
    BY <1>3 DEF LogUpdate, Step, Goto
  <2> QED
    BY <1>1, <2>2, <2>3, <2>4
<1>4. CASE LogDelete
  <2>1. PICK r : r = [op |-> "delete", key |-> call.key, ver |-> 0]
    OBVIOUS
  <2>2. r \in Record /\ wal' = Append(wal, r) /\ r.key = call.key /\ Value(r) = Absent
    BY <1>1, <1>4, <2>1 DEF Record, LogDelete, Value
  <2>3. Now[call.key] = Absent
    <3>1. call.op = "delete"
      BY <1>4 DEF LogDelete, Inv, CallsNamed
    <3> QED
      BY <1>1, <3>1 DEF Now, Store!Apply
  <2>4. pc' = "ready"
    BY <1>1, <1>4 DEF LogDelete, Step, Goto, Return
  <2> QED
    BY <1>1, <2>2, <2>3, <2>4
<1> QED
  BY <1>2, <1>3, <1>4

(* They leave to a crash what it would have left, or write it down, or     *)
(* empty the log when the segments have all of it.                         *)
LEMMA CalmCallRecovers ==
  ASSUME Sheltered, Durable, Opens, Inv, Content, Unique, Logged, ClientKept, WriterKept,
         RunShows, RunRecovers, Inv', Content', Unique', ~opening, CalmCall,
         NEW m, m = Now, NEW k \in Keys, Settled', ~exposed'
  PROVE  IF Recording(k)' THEN call'.op # "update" => Recovers(k, view[k])' \/ Recovers(k, m[k])'
         ELSE Recovers(k, m[k])'
<1>a. ~Replaying /\ ((call' = NoCall /\ pc' = "ready") \/ (pc' # "ready" /\ call' = call /\ view' = view))
  BY RunningCall, CalmCallGoes
<1>b. ASSUME StillRecovers(k), Settled, ~exposed, Recording(k)' <=> Recording(k)
      PROVE  IF Recording(k)' THEN call'.op # "update" => Recovers(k, view[k])' \/ Recovers(k, m[k])'
             ELSE Recovers(k, m[k])'
  <2>v. PICK v : v = view
    OBVIOUS
  <2>1. IF Recording(k) THEN call.op # "update" => Recovers(k, v[k]) \/ Recovers(k, m[k])
        ELSE Recovers(k, m[k])
    BY <1>b, <2>v DEF RunRecovers
  <2>2. IF Recording(k) THEN call.op # "update" => Recovers(k, v[k])' \/ Recovers(k, m[k])'
        ELSE Recovers(k, m[k])'
    BY <1>b, <2>1 DEF StillRecovers
  <2>3. Recording(k)' => view' = v /\ call' = call
    BY <1>a, <2>v DEF Recording
  <2> QED
    BY <1>b, <2>2, <2>3
<1>1. CASE (LogAdd /\ call.op # "add") \/ Unmap
  <2>1. /\ UNCHANGED <<disk, files, wal, exposed, truncPending>>
        /\ \/ pc = "logAdd" /\ pc' \in {"flush", "logUpdate"} /\ call' = call /\ call.op = "update"
           \/ pc = "unmap" /\ pc' = "logDelete" /\ call' = call /\ call.op = "delete"
    BY <1>a, <1>1 DEF LogAdd, Unmap, Step, Goto, AfterAdd, budget, memory, Logged, CallsRun,
                      Inv, CallsNamed
  <2>2. StillRecovers(k)
    BY <2>1, CalmSaved, RecoversCarried
  <2>3. Settled /\ ~exposed /\ (Recording(k)' <=> Recording(k))
    BY <2>1 DEF Settled, Recording
  <2> QED
    BY <1>b, <2>2, <2>3
<1>2. CASE (LogAdd /\ call.op = "add") \/ LogUpdate \/ LogDelete
  <2>1. /\ call.key \in Keys
        /\ UNCHANGED <<disk, files, exposed, truncPending>>
        /\ pc \in {"logAdd", "logUpdate", "logDelete"} /\ pc' \in {"flush", "tombstone", "ready"}
    BY <1>2, RecordedNow
  <2>2. PICK r \in Record : r.key = call.key /\ Value(r) = m[call.key] /\ wal' = Append(wal, r)
    BY <1>2, RecordedNow
  <2>3. Recovers(r.key, Value(r))' /\ \A q : q # r.key => StillRecovers(q)
    BY <2>1, <2>2, RecordRecovers, CalmSaved
  <2>4. Settled /\ ~exposed
    BY <2>1 DEF Settled
  <2>5. ~Recording(k)'
    <3>1. (LogAdd /\ call.op = "add") \/ pc' \in {"tombstone", "ready"}
      BY <1>2 , <1>a DEF LogUpdate, LogDelete, Step, Goto, Return
    <3> QED
      BY <1>a, <2>1, <3>1 DEF Recording, NoCall
  <2>6. CASE k = call.key
    <3>q. PICK q, w : q = r.key /\ w = Value(r)
      OBVIOUS
    <3>1. Recovers(q, w)'
      <4>1. \A x, y : x = r.key /\ y = Value(r) => Recovers(x, y)'
        BY <2>3
      <4> QED
        BY <3>q, <4>1
    <3> QED
      BY <2>2, <2>5, <2>6, <3>1, <3>q
  <2>7. CASE k # call.key
    <3>1. ~Recording(k)
      BY <2>7 DEF Recording
    <3>2. Recovers(k, m[k])
      BY <2>4, <3>1 DEF RunRecovers
    <3> QED
      BY <2>2, <2>3, <2>5, <2>7, <3>2 DEF StillRecovers
  <2> QED
    BY <2>6, <2>7
<1>3. CASE WriteSegment
  <2>1. StillRecovers(k) /\ UNCHANGED <<exposed, truncPending>>
    BY <1>3, UnlistedServed, RecoversCarried
  <2>2. pc = "flush" /\ pc' \in {"register", "logUpdate", "ready"}
        /\ (pc' = "logUpdate" => call.op = "update") /\ (pc' = "ready" => call.op # "update")
        /\ (call.op \in {"add", "update", "flush"})
    BY <1>3, <1>a DEF WriteSegment, Step, Goto, AfterFlush, AfterAdd, Return, Logged, CallsRun
  <2>3. Settled /\ ~exposed
    BY <2>1, <2>2 DEF Settled
  <2>4. Recording(k)' <=> Recording(k)
    BY <1>a, <2>2 DEF Recording, NoCall
  <2> QED
    BY <1>b, <2>1, <2>3, <2>4
<1>4. CASE RegisterSegment \/ (StartNewWriter /\ call.op # "open")
  <2>1. pc' \in {"newWriter", "truncate"}
    BY <1>4, RegisterServed, StartNewWriterServed
  <2>2. pc \in {"register", "newWriter"} /\ call.op # "open"
    BY <1>4 DEF RegisterSegment, StartNewWriter, Logged, CallsRun
  <2>3. call' = call
    BY <1>a, <2>1
  <2> QED
    BY <2>1, <2>2, <2>3 DEF Settled
<1>5. CASE TruncateWal
  <2>1. /\ pc = "truncate" /\ pc' \in {"logUpdate", "ready"} /\ (pc' = "logUpdate" => call.op = "update")
        /\ wal' = <<>> /\ UNCHANGED <<disk, manifest, writer>>
    BY <1>5, <1>a DEF TruncateWal, Goto, AfterFlush, AfterAdd, Return
  <2>2. disk'.segs = manifest'.segs /\ writer'.docs = <<>>
    BY <2>1 DEF Unique, ListSaved, Synced, WriterKept
  <2>3. CASE HalfUpdated' /\ k = call'.key
    <3>1. call'.op = "update" /\ pc' = "logUpdate"
      BY <2>1, <2>3, <1>a DEF HalfUpdated, NoCall
    <3> QED
      BY <2>3, <3>1 DEF Recording
  <2>4. CASE ~(HalfUpdated' /\ k = call'.key)
    <3>1. Shows(k, m[k])'
      BY <2>4, CalmCallShows
    <3>2. \A p \in Place : ~BufferedAt(p, k, writer')
      BY <2>2 DEF BufferedAt
    <3>3. \A v : Shows(k, v)' <=> Keeps(k, v)'
      BY <2>1, <2>2, <3>2, SyncedKeepsNext
    <3>4. Recovers(k, m[k])'
      <4>1. ~Recorded(k, wal')
        BY <2>1 DEF Recorded
      <4> QED
        BY <3>1, <3>3, <4>1 DEF Recovers
    <3> QED
      BY <3>4
  <2> QED
    BY <2>3, <2>4
<1> QED
  BY <1>1, <1>2, <1>3, <1>4, <1>5 DEF CalmCall

(* Those steps keep the promise.                                           *)
LEMMA CalmCallRuns ==
  ASSUME Sheltered, Durable, Opens, Inv, Content, Unique, Logged, ClientKept, WriterKept,
         RunShows, RunRecovers, Inv', Content', Unique', Rested', ~opening, CalmCall
  PROVE  RunShows' /\ RunRecovers' /\ (pc' = "ready" => view' = Store!Apply(inflight, view))
<1>m. PICK m : m = Now
  OBVIOUS
<1>1. ~Undone /\ ~Undone'
  BY CalmCallServed
<1>2. m = Store!Apply(inflight, view) /\ m = [k \in Keys |-> m[k]]
  BY <1>m, <1>1, AppliedIsView DEF Now
<1>3. /\ ~opening'
      /\ \/ pc' = "ready" /\ view' = Observed' /\ inflight' = Idle /\ call' = NoCall
         \/ pc' # "ready" /\ UNCHANGED <<view, inflight>>
  <2>1. \/ /\ pc' = "ready" /\ view' = Observed' /\ inflight' = Idle /\ opening' = FALSE
           /\ call' = NoCall
        \/ pc' # "ready" /\ UNCHANGED <<view, inflight, opening, call>>
    BY CalmCallGoes
  <2> HIDE DEF Observed
  <2> QED
    BY <2>1
<1>4. pc' # "ready" => Now' = m
  BY <1>1, <1>2, <1>3 DEF Now
<1>5. \A k \in Keys : IF HalfUpdated' /\ k = call'.key THEN Latest' ELSE Shows(k, m[k])'
  BY <1>m, CalmCallShows
<1>6. Settled' /\ ~exposed' =>
        \A k \in Keys :
          IF Recording(k)' THEN call'.op # "update" => Recovers(k, view[k])' \/ Recovers(k, m[k])'
          ELSE Recovers(k, m[k])'
  BY <1>m, CalmCallRecovers
<1> QED
  BY <1>2, <1>3, <1>4, <1>5, <1>6, RunStep

(* The document that is indexed is what the call was for; a crash still    *)
(* leaves what there was.                                                  *)
LEMMA IndexRuns ==
  ASSUME Inv, Content, Unique, Logged, ClientKept,
         RunShows, RunRecovers, Inv', Content', Unique', Rested', ~opening, IndexDocument
  PROVE  RunShows' /\ RunRecovers' /\ pc' # "ready"
<1>m. PICK m, v : m = Store!Apply(inflight, view) /\ v = view
  OBVIOUS
<1>1. /\ pc = "index" /\ pc' = "logAdd" /\ call.op \in {"add", "update"} /\ call.key \in Keys
      /\ UNCHANGED <<call, view, inflight, opening, disk, files, wal, exposed, truncPending>>
  BY DEF IndexDocument, Step, Goto, budget, Inv, CallsNamed
<1>2. /\ m = [k \in Keys |-> m[k]] /\ m[call.key] = call.ver
      /\ \A k \in Keys : k # call.key => m[k] = v[k]
  BY <1>m, <1>1, AppliedIsView, RunningCall DEF Store!Apply, ClientKept
<1>3. Undone /\ Now = v /\ ~Undone' /\ Now' = m
  BY <1>m, <1>1 DEF Undone, Now
<1>4. \A k \in Keys : IF HalfUpdated' /\ k = call'.key THEN Latest' ELSE Shows(k, m[k])'
  <2> SUFFICES ASSUME NEW k \in Keys
               PROVE  IF HalfUpdated' /\ k = call'.key THEN Latest' ELSE Shows(k, m[k])'
    OBVIOUS
  <2>1. CASE k = call.key
    <3>1. Latest' /\ (call.op = "add" => Shows(call.key, call.ver)')
      BY IndexServed
    <3>2. call.op = "add" => \A q, w : q = call.key /\ w = call.ver => Shows(q, w)'
      BY <1>1, <3>1
    <3>3. call.op # "add" => HalfUpdated'
      BY <1>1 DEF HalfUpdated
    <3> QED
      BY <1>1, <1>2, <2>1, <3>1, <3>2, <3>3
  <2>2. CASE k # call.key
    <3>1. ServedAsBefore(k)
      BY <2>2, IndexServed
    <3>2. Shows(k, m[k])
      BY <1>1, <1>2, <1>3, <2>2 DEF RunShows
    <3>3. Shows(k, m[k])'
      BY <3>1, <3>2, ShowsCarried DEF StillShows
    <3> QED
      BY <1>1, <2>2, <3>3
  <2> QED
    BY <2>1, <2>2
<1>5. ASSUME Settled', ~exposed', NEW k \in Keys
      PROVE  IF Recording(k)' THEN call'.op # "update" => Recovers(k, view[k])' \/ Recovers(k, m[k])'
             ELSE Recovers(k, m[k])'
  <2>1. Settled /\ ~exposed
    BY <1>1, <1>5 DEF Settled
  <2>2. ~Recording(k) /\ (k = call.key <=> Recording(k)')
    BY <1>1 DEF Recording
  <2>3. Recovers(k, v[k])
    BY <1>1, <1>3, <2>1, <2>2 DEF RunRecovers
  <2>4. Recovers(k, v[k])'
    <3>1. StillRecovers(k)
      BY <1>1, CalmSaved, RecoversCarried
    <3> QED
      BY <2>3, <3>1 DEF StillRecovers
  <2>5. view' = v
    BY <1>m, <1>1
  <2> QED
    BY <1>2, <2>2, <2>4, <2>5
<1> QED
  BY <1>1, <1>2, <1>3, <1>4, <1>5, RunStep

(* The old copy of a recorded update is buried.                            *)
LEMMA TombstoneOldRuns ==
  ASSUME Sheltered, Inv, Content, Unique, Logged, ClientKept, UpdateRecorded,
         RunShows, RunRecovers, Inv', Content', Unique', Rested', ~opening, TombstoneOld
  PROVE  RunShows' /\ RunRecovers' /\ pc' = "ready" /\ view' = Store!Apply(inflight, view)
<1>m. PICK m : m = Now
  OBVIOUS
<1>1. /\ pc = "tombstone" /\ pc' = "ready" /\ call.op = "update" /\ call.key \in Keys
      /\ UNCHANGED <<wal, exposed, truncPending>>
      /\ view' = Observed' /\ inflight' = Idle /\ opening' = FALSE /\ call' = NoCall
  BY RunningCall DEF TombstoneOld, Goto, Return, Inv, CallsNamed
<1>2. ~Undone /\ HalfUpdated /\ ~HalfUpdated' /\ \A k : ~Recording(k) /\ ~Recording(k)'
  BY <1>1 DEF Undone, HalfUpdated, Recording, NoCall
<1>3. /\ m = Store!Apply(inflight, view) /\ m = [k \in Keys |-> m[k]] /\ m[call.key] = call.ver
  BY <1>m, <1>1, <1>2, AppliedIsView, RunningCall DEF Now, Store!Apply, ClientKept
<1>4. Latest
  BY <1>1, <1>2 DEF RunShows
<1>5. ASSUME NEW k \in Keys
      PROVE  Shows(k, m[k])'
  <2>1. CASE k = call.key
    BY <1>3, <1>4, <2>1, TombstoneOldServed
  <2>2. CASE k # call.key
    <3>1. Shows(k, m[k])
      BY <1>m, <2>2 DEF RunShows
    <3> QED
      BY <1>4, <2>2, <3>1, TombstoneOldServed, ShowsCarried DEF StillShows
  <2> QED
    BY <2>1, <2>2
<1>6. ASSUME Settled', ~exposed', NEW k \in Keys
      PROVE  Recovers(k, m[k])'
  <2>1. Settled /\ ~exposed
    BY <1>1, <1>6 DEF Settled
  <2>2. Recovers(k, m[k])
    BY <1>m, <1>2, <2>1 DEF RunRecovers
  <2>3. SavedAsBefore(k) \/ Recorded(k, wal)
    BY <1>1, <1>4, TombstoneOldServed DEF UpdateRecorded
  <2> QED
    BY <1>1, <2>2, <2>3, RecoversCarried DEF StillRecovers
<1>7. RunShows' /\ RunRecovers' /\ view' = m
  BY <1>1, <1>2, <1>3, <1>5, <1>6, RunStep
<1> QED
  BY <1>1, <1>3, <1>7

(* A deleted document is gone; a delete that gives up finds none.          *)
LEMMA TombstoneDeletedRuns ==
  ASSUME Sheltered, Inv, Content, Unique, Logged, ClientKept,
         RunShows, RunRecovers, Inv', Content', Unique', Rested', ~opening, TombstoneDeleted
  PROVE  RunShows' /\ RunRecovers' /\ (pc' = "ready" => view' = Store!Apply(inflight, view))
<1>m. PICK m, v : m = Store!Apply(inflight, view) /\ v = view
  OBVIOUS
<1>1. /\ pc = "tombstone" /\ pc' \in {"unmap", "ready"} /\ call.op = "delete" /\ call.key \in Keys
      /\ UNCHANGED <<wal, exposed, truncPending>> /\ opening' = FALSE
      /\ \/ pc' = "ready" /\ view' = Observed' /\ inflight' = Idle /\ call' = NoCall
         \/ pc' = "unmap" /\ UNCHANGED <<view, inflight, call>>
  BY RunningCall DEF TombstoneDeleted, Goto, Return, Inv, CallsNamed
<1>2. /\ m = [k \in Keys |-> m[k]] /\ m[call.key] = Absent
      /\ \A k \in Keys : k # call.key => m[k] = v[k]
  BY <1>m, <1>1, AppliedIsView, RunningCall DEF Store!Apply, ClientKept
<1>3. /\ Undone /\ Now = v /\ ~Undone' /\ (pc' # "ready" => Now' = m)
      /\ ~HalfUpdated /\ ~HalfUpdated' /\ \A k : ~Recording(k)
      /\ \A k : Recording(k)' <=> k = call.key /\ pc' = "unmap"
  BY <1>m, <1>1 DEF Undone, Now, HalfUpdated, Recording, NoCall
<1>4. ASSUME NEW k \in Keys
      PROVE  Shows(k, m[k])'
  <2>1. CASE k = call.key
    BY <1>2, <2>1, TombstoneDeletedServed
  <2>2. CASE k # call.key
    <3>1. Shows(k, m[k])
      BY <1>2, <1>3, <2>2 DEF RunShows
    <3> QED
      BY <2>2, <3>1, TombstoneDeletedServed, ShowsCarried DEF StillShows
  <2> QED
    BY <2>1, <2>2
<1>5. ASSUME Settled', ~exposed', NEW k \in Keys
      PROVE  IF Recording(k)' THEN call'.op # "update" => Recovers(k, view[k])' \/ Recovers(k, m[k])'
             ELSE Recovers(k, m[k])'
  <2>1. Settled /\ ~exposed
    BY <1>1, <1>5 DEF Settled
  <2>2. Recovers(k, v[k])
    BY <1>3, <2>1 DEF RunRecovers
  <2>3. CASE k # call.key
    <3>1. Recovers(k, v[k])'
      BY <1>1, <2>2, <2>3, TombstoneDeletedServed, RecoversCarried DEF StillRecovers
    <3> QED
      BY <1>2, <1>3, <2>3, <3>1
  <2>4. CASE k = call.key /\ pc' = "unmap"
    <3>1. Recovers(k, v[k])' \/ Recovers(k, m[k])'
      <4>1. CASE Recorded(k, wal)
        BY <1>1, <2>2, <4>1, RecoversCarried DEF StillRecovers
      <4>2. CASE ~Recorded(k, wal)
        <5>1. Keeps(k, v[k])
          BY <2>2, <4>2 DEF Recovers
        <5>2. Keeps(k, v[k])' \/ Keeps(k, Absent)'
          BY <2>4, <5>1, TombstoneDeletedServed
        <5>3. ~Recorded(k, wal)'
          BY <1>1, <4>2
        <5> QED
          BY <1>2, <2>4, <5>2, <5>3 DEF Recovers
      <4> QED
        BY <4>1, <4>2
    <3>2. view' = v
      BY <1>m, <1>1, <2>4
    <3> QED
      BY <1>3, <2>4, <3>1, <3>2
  <2>5. CASE k = call.key /\ pc' = "ready"
    <3>1. Tombstone(call.old, FALSE)
      BY <2>5 DEF TombstoneDeleted, Goto
    <3>2. /\ call.old.gen \notin Range(manifest.segs)
          /\ ~(call.old.gen # 0 /\ call.old.gen = writer.gen)
          /\ UNCHANGED <<files, stones, writer>>
      BY <3>1 DEF Tombstone, Fault, Sheltered
    <3>3. \A p \in Place : ~Serves(p, k)
      <4>1. \A p \in Place : Live(p, k) => p = call.old
        BY <1>1, <1>3, <2>5 DEF Unique, SingleCopy, KeyLookedUp, Loading
      <4>2. \A p \in Place : Live(p, k) => p.gen \in Range(manifest.segs) \/ (p.gen = writer.gen /\ p.gen # 0)
        BY DEF Live, FlushedAt, BufferedAt, Inv, WriterApart
      <4> QED
        BY <1>1, <3>2, <4>1, <4>2, ServedIsLive
    <3>4. v[k] = Absent
      <4>1. Shows(k, v[k])
        BY <1>3 DEF RunShows
      <4> QED
        BY <3>3, <4>1 DEF Shows
    <3>5. Recovers(k, v[k])'
      <4>1. UNCHANGED disk
        BY DEF TombstoneDeleted
      <4>2. StillRecovers(k)
        BY <1>1, <3>2, <4>1, CalmSaved, RecoversCarried
      <4> QED
        BY <2>2, <4>2 DEF StillRecovers
    <3> QED
      BY <1>2, <1>3, <2>5, <3>4, <3>5
  <2> QED
    BY <1>1, <2>3, <2>4, <2>5
<1>6. RunShows' /\ RunRecovers' /\ (pc' = "ready" => view' = m)
  <2>1. \A k \in Keys : IF HalfUpdated' /\ k = call'.key THEN Latest' ELSE Shows(k, m[k])'
    BY <1>3, <1>4
  <2> QED
    BY <1>1, <1>2, <1>3, <1>5, <2>1, RunStep
<1> QED
  BY <1>m, <1>6

(* What is served when a compaction goes on was served before; so it is on *)
(* disk, but for a list that is saved with what it has now.                *)
LEMMA CompactingServed ==
  ASSUME Sheltered, Inv, Content, Unique, Logged, OutputWhole, Compacting
  PROVE  /\ \A k \in Keys : StillShows(k)
         /\ \/ \A k \in Keys : SavedAsBefore(k)
            \/ disk' = manifest' /\ pc' \in {"merge", "dropInputs"}
         /\ pc \in Compacts /\ UNCHANGED <<writer, wal, truncPending, exposed>>
<1>1. CASE Maintain \/ Merge \/ Mark \/ DropInputs \/ Unmark
  <2>1. pc \in Compacts
    BY <1>1 DEF Maintain, Merge, Mark, DropInputs, Unmark, Compacts
  <2> QED
    BY <1>1, <2>1, UnlistedServed, ShowsCarried
<1>2. CASE TakeOutput
  BY <1>2, TakeOutputServed, ShowsCarried DEF Compacts
<1>3. CASE Repoint
  <2>1. pc \in Compacts /\ UNCHANGED <<writer, wal, truncPending, exposed, disk>>
    BY <1>3 DEF Repoint, Compacts
  <2>2. CASE pc' = "unlist"
    <3>1. \A k : SavedAsBefore(k)
      <4>1. \A g \in Range(disk.segs) : files'[g] = files[g]
        BY <1>3, <2>2 DEF Repoint, Goto, CompactFailed, Return
      <4> QED
        BY <2>1, <4>1, CalmSaved
    <3> QED
      BY <1>3, <2>1, <2>2, <3>1, RepointShows
  <2>3. CASE pc' # "unlist"
    BY <1>3, <2>1, <2>3, RepointFailedServed, ShowsCarried
  <2> QED
    BY <2>2, <2>3
<1>4. CASE Unlist
  <2>1. pc \in Compacts /\ UNCHANGED <<writer, wal, truncPending, exposed>>
    BY <1>4 DEF Unlist, Compacts, disks, budget
  <2> QED
    BY <1>4, <2>1, UnlistServed, ShowsCarried
<1>5. CASE Swap
  BY <1>5, SwapServed, ShowsCarried DEF Compacts
<1> QED
  BY <1>1, <1>2, <1>3, <1>4, <1>5 DEF Compacting

(* A compaction changes nothing for the client, then or after a crash.     *)
LEMMA CompactingRuns ==
  ASSUME Sheltered, Inv, Content, Unique, Logged, ClientKept, WriterKept, OutputWhole,
         RunShows, RunRecovers, Inv', Content', Unique', Rested', Compacting
  PROVE  RunShows' /\ RunRecovers' /\ (pc' = "ready" => view' = Store!Apply(inflight, view))
<1>m. PICK m : m = view
  OBVIOUS
<1>1. /\ pc \in Compacts /\ call.op \in {"maintain", "compact"}
      /\ ~Replaying /\ ~truncPending /\ ~Unopened /\ ~opening
      /\ UNCHANGED <<writer, wal, truncPending, exposed>>
  BY CompactingServed, NoReplayCompacts DEF ClientKept
<1>2. /\ ~opening'
      /\ \/ pc' = "ready" /\ view' = Observed' /\ inflight' = Idle /\ call' = NoCall
         \/ pc' # "ready" /\ UNCHANGED <<view, inflight, call>>
  <2>1. \/ /\ pc' = "ready" /\ view' = Observed' /\ inflight' = Idle /\ opening' = FALSE
           /\ call' = NoCall
        \/ pc' # "ready" /\ UNCHANGED <<view, inflight, opening, call>>
    BY WorkGoes
  <2> QED
    BY <1>1, <2>1
<1>3. call'.op \in {"maintain", "compact", "none"}
  BY <1>1, <1>2 DEF NoCall
<1>4. /\ ~Undone /\ ~Undone' /\ ~HalfUpdated /\ ~HalfUpdated'
      /\ \A k : ~Recording(k) /\ ~Recording(k)'
  BY <1>1, <1>3 DEF Undone, HalfUpdated, Recording
<1>5. m = Store!Apply(inflight, view) /\ m = Now /\ m = [k \in Keys |-> m[k]]
  <2>1. pc # "ready"
    BY <1>1 DEF Compacts
  <2>2. inflight.op \in {"maintain", "compact"}
    BY <1>1, <2>1, RunningCall
  <2> QED
    BY <1>m, <1>4, <2>2 DEF Now, Store!Apply, ClientKept
<1>6. pc' # "ready" => Now' = m
  <2>1. pc' # "ready" => Store!Apply(inflight', view') = m
    BY <1>2, <1>5
  <2> QED
    BY <1>4, <2>1 DEF Now
<1>7. ASSUME NEW k \in Keys PROVE Shows(k, m[k])'
  <2>1. Shows(k, m[k])
    BY <1>1, <1>4, <1>5 DEF RunShows
  <2> QED
    BY <2>1, CompactingServed DEF StillShows
<1>8. ASSUME Settled', ~exposed', NEW k \in Keys PROVE Recovers(k, m[k])'
  <2>1. Settled /\ ~exposed
    BY <1>1, <1>8 DEF Settled, Compacts
  <2>2. Recovers(k, m[k])
    BY <1>1, <1>4, <1>5, <2>1 DEF RunRecovers
  <2>3. CASE SavedAsBefore(k) \/ Recorded(k, wal)
    BY <1>1, <2>2, <2>3, RecoversCarried DEF StillRecovers
  <2>4. CASE ~SavedAsBefore(k) /\ ~Recorded(k, wal)
    <3>1. disk' = manifest' /\ pc' \in {"merge", "dropInputs"}
      BY <2>4, CompactingServed
    <3>2. \A p \in Place : ~BufferedAt(p, k, writer')
      <4>1. \A d \in DOMAIN writer.docs : writer.docs[d].key # k
        BY <1>1, <1>4, <2>1, <2>4 DEF WriterKept
      <4> QED
        BY <1>1, <4>1 DEF BufferedAt
    <3>3. \A v : Shows(k, v)' <=> Keeps(k, v)'
      BY <3>1, <3>2, SyncedKeepsNext
    <3>4. ~Recorded(k, wal)'
      BY <1>1, <2>4
    <3> QED
      BY <1>7, <3>3, <3>4 DEF Recovers
  <2> QED
    BY <2>3, <2>4
<1>9. RunShows' /\ RunRecovers' /\ (pc' = "ready" => view' = m)
  BY <1>2, <1>4, <1>5, <1>6, <1>7, <1>8, RunStep
<1> QED
  BY <1>5, <1>9

(* A call that starts has changed nothing.                                 *)
LEMMA CallStarts ==
  ASSUME Unique, Rested, Logged, ClientKept, RunShows, RunRecovers,
         Inv', Content', Unique', Rested',
         pc = "ready", pc' \in {"index", "tombstone", "flush", "maintain", "takeOutput"},
         UNCHANGED <<disk, files, manifest, stones, writer, wal, exposed, truncPending, view, opening>>,
         inflight'.op = call'.op, call'.op \in {"add", "update"} <=> pc' = "index",
         call'.op = "delete" <=> pc' = "tombstone"
  PROVE  RunShows' /\ RunRecovers' /\ ~opening /\ inflight = Idle
<1>m. PICK m : m = view
  OBVIOUS
<1>1. ~opening /\ inflight = Idle /\ m = [k \in Keys |-> m[k]]
  BY <1>m DEF ClientKept, Unopened, Logged, ReplayKept
<1>2. /\ ~Undone /\ ~HalfUpdated /\ ~HalfUpdated' /\ \A k : ~Recording(k) /\ ~Recording(k)'
  BY DEF Undone, HalfUpdated, Recording, Rested
<1>3. Now = m
  BY <1>m, <1>1, <1>2 DEF Now, Store!Apply, Idle
<1>4. Now' = m
  <2>1. CASE call'.op \in {"add", "update", "delete"}
    <3>1. Undone'
      BY <2>1 DEF Undone
    <3> QED
      BY <1>m, <3>1 DEF Now
  <2>2. CASE call'.op \notin {"add", "update", "delete"}
    <3>1. Store!Apply(inflight', view') = view'
      BY <2>2 DEF Store!Apply
    <3> QED
      BY <1>m, <3>1 DEF Now
  <2> QED
    BY <2>1, <2>2
<1>5. ASSUME NEW k \in Keys PROVE Shows(k, m[k])'
  <2>1. Shows(k, m[k])
    BY <1>1, <1>2, <1>3 DEF RunShows
  <2> QED
    BY <2>1, QuietServed, ShowsCarried DEF StillShows
<1>6. ASSUME Settled', ~exposed', NEW k \in Keys PROVE Recovers(k, m[k])'
  <2>1. Settled /\ ~exposed
    BY <1>6 DEF Settled
  <2>2. Recovers(k, m[k])
    BY <1>1, <1>2, <1>3, <2>1 DEF RunRecovers
  <2> QED
    BY <2>2, QuietServed, RecoversCarried DEF StillRecovers
<1> QED
  BY <1>1, <1>2, <1>4, <1>5, <1>6, RunStep

(* To the abstract store it is a call that starts, too.                    *)
LEMMA CallRuns ==
  ASSUME Inv, Unique, Rested, Logged, ClientKept, RunShows, RunRecovers,
         Inv', Content', Unique', Rested',
         CallOnKey \/ CallFlush \/ CallMaintain \/ CallCompact
  PROVE  RunShows' /\ RunRecovers' /\ Store!Invoke
<1>1. ASSUME NEW op \in Ops \ {"compact"}, NEW k \in Keys \cup {Absent}, Invoke(op, k)
      PROVE  RunShows' /\ RunRecovers' /\ Store!Invoke
  <2>1. /\ pc = "ready" /\ pc' \in {"index", "tombstone", "flush", "maintain"}
        /\ UNCHANGED <<disk, files, manifest, stones, writer, wal, exposed, truncPending, view, opening>>
        /\ call'.op = op /\ (op \in {"add", "update"} <=> pc' = "index")
        /\ op = "delete" <=> pc' = "tombstone"
    BY <1>1 DEF Invoke, Call, disks, memory, budget, Ops
  <2>2. \E v \in Nat : inflight' = [op |-> op, key |-> k, ver |-> v]
    BY <1>1 DEF Invoke, Inv, Shapes, CatalogueTypeOK
  <2>3. RunShows' /\ RunRecovers' /\ ~opening /\ inflight = Idle
    BY <2>1, <2>2, CallStarts
  <2> QED
    BY <2>1, <2>2, <2>3 DEF Store!Invoke, Store!Idle, Idle, Ops
<1>2. CASE CallOnKey \/ CallFlush \/ CallMaintain
  <2>1. CASE CallOnKey
    BY <1>1, <2>1 DEF CallOnKey, Ops
  <2>2. CASE CallFlush \/ CallMaintain
    BY <1>1, <2>2 DEF CallFlush, CallMaintain, Ops
  <2> QED
    BY <1>2, <2>1, <2>2
<1>3. CASE CallCompact
  <2>1. /\ pc = "ready" /\ pc' = "takeOutput"
        /\ UNCHANGED <<disk, files, manifest, stones, writer, wal, exposed, truncPending, view, opening>>
        /\ call'.op = "compact" /\ inflight' = [op |-> "compact", key |-> Absent, ver |-> 0]
    BY <1>3 DEF CallCompact, Idle, NoCall, disks, memory, budget
  <2>2. RunShows' /\ RunRecovers' /\ ~opening /\ inflight = Idle
    BY <2>1, CallStarts
  <2> QED
    BY <2>1, <2>2 DEF Store!Invoke, Store!Idle, Idle
<1> QED
  BY <1>2, <1>3

-----------------------------------------------------------------------------
(* While the index is down                                                 *)

(* What is owed stays owed, and there, if the log and the segments keep it. *)
LEMMA DownStays ==
  ASSUME DownRecovers, opening, UNCHANGED <<view, inflight>>,
         Settled' => Settled /\ \A k \in Keys : StillRecovers(k)
  PROVE  DownRecovers'
<1> SUFFICES ASSUME Settled' PROVE \A k \in Keys : \E w \in Owed(k)' : Recovers(k, w)'
  BY DEF DownRecovers
<1> SUFFICES ASSUME NEW k \in Keys PROVE \E w \in Owed(k)' : Recovers(k, w)'
  OBVIOUS
<1>1. PICK w \in Owed(k) : Recovers(k, w)
  BY DEF DownRecovers
<1>2. Owed(k)' = Owed(k)
  BY DEF Owed
<1>3. Recovers(k, w)'
  BY <1>1 DEF StillRecovers
<1> QED
  BY <1>1, <1>2, <1>3

(* An update buries no copy of another key.                                *)
LEMMA TombstoneOldOthers ==
  ASSUME Sheltered, Inv, Content, Unique, TombstoneOld
  PROVE  \A k \in Keys : k # call.key => ServedAsBefore(k) /\ SavedAsBefore(k)
<1>1. /\ pc = "tombstone" /\ call.op = "update" /\ UNCHANGED <<disk, manifest>> /\ pc' # "unlist"
  BY DEF TombstoneOld, Goto, Return
<1>2. CASE call.old = NoPlace
  <2>1. UNCHANGED <<files, stones, writer>>
    BY <1>2 DEF TombstoneOld
  <2> QED
    BY <1>1, <2>1, QuietServed
<1>3. CASE call.old # NoPlace
  <2>1. PICK ok \in BOOLEAN : Tombstone(call.old, ok)
    BY <1>3 DEF TombstoneOld
  <2>2. call.key \in Keys
    BY <1>1 DEF Inv, CallsNamed
  <2> QED
    BY <1>1, <2>1, <2>2, TombstoneServed
<1> QED
  BY <1>2, <1>3

(* The calls that the replay makes again change what is saved of their own *)
(* key at most, of which there is a record.                                *)
LEMMA WorkRecovers ==
  ASSUME Sheltered, Durable, Opens, Inv, Content, Unique, Logged, ClientKept, opening',
         \/ Updating \/ Deleting \/ Compacting \/ WriteSegment \/ RegisterSegment \/ TruncateWal
         \/ StartNewWriter /\ call.op # "open"
  PROVE  /\ Replaying /\ opening /\ pc # "replay" /\ ~Compacting
         /\ UNCHANGED <<view, inflight, call, replayed, wal>>
         /\ Settled' => Settled /\ \A k \in Keys : StillRecovers(k)
<1>1. /\ ~Unopened /\ UNCHANGED replayed /\ (Replaying => wal' = wal)
      /\ (truncPending => truncPending')
  BY WorkStays
<1>2. pc # "replay" /\ opening /\ UNCHANGED <<view, inflight, call>>
  <2>1. Updating \/ Deleting \/ Flushing \/ Compacting
    BY DEF Flushing
  <2>2. \/ opening' = FALSE
        \/ UNCHANGED <<view, inflight, opening, call>>
    BY <2>1, WorkGoes
  <2> QED
    BY <2>1, <2>2, WorkGoes
<1>3. Replaying /\ wal' = wal /\ Recorded(call.key, wal)
  BY <1>1, <1>2, ReplayedRecorded DEF ClientKept
<1>4. ~Compacting
  <2> SUFFICES ASSUME Compacting PROVE FALSE
    OBVIOUS
  <2>1. pc \in Compacts
    BY DEF Compacting, Maintain, TakeOutput, Merge, Mark, Repoint, Unlist, Swap, DropInputs, Unmark,
           Compacts
  <2> QED
    BY <1>3, <2>1, NoReplayCompacts
<1>5. ASSUME Settled' PROVE Settled /\ \A k \in Keys : StillRecovers(k)
  <2>1. ~TruncateWal
    BY <1>3, <1>5 DEF TruncateWal, Settled
  <2>2. ~RegisterSegment
    <3> SUFFICES ASSUME RegisterSegment PROVE FALSE
      OBVIOUS
    <3>1. pc' = "newWriter" /\ pc = "register"
      BY RegisterServed DEF RegisterSegment
    <3> QED
      BY <1>2, <1>5, <3>1 DEF Settled, Logged, CallsRun
  <2>3. ~(StartNewWriter /\ call.op # "open")
    <3> SUFFICES ASSUME StartNewWriter, call.op # "open" PROVE FALSE
      OBVIOUS
    <3>1. pc' = "truncate"
      BY StartNewWriterServed
    <3> QED
      BY <1>2, <1>5, <3>1 DEF Settled
  <2>4. Settled
    <3>1. pc \in {"index", "logAdd", "logUpdate", "tombstone", "unmap", "logDelete", "flush"}
      BY <2>1, <2>2, <2>3, <1>4 DEF Updating, Deleting, IndexDocument, LogAdd, LogUpdate,
         TombstoneOld, TombstoneDeleted, Unmap, LogDelete, WriteSegment
    <3> QED
      BY <1>1, <1>5, <3>1 DEF Settled
  <2>5. \A k \in Keys : k # call.key => SavedAsBefore(k)
    <3>1. CASE IndexDocument \/ LogAdd \/ LogUpdate \/ Unmap \/ LogDelete
      <4>1. UNCHANGED <<disk, files>>
        BY <3>1 DEF IndexDocument, LogAdd, LogUpdate, Unmap, LogDelete
      <4> QED
        BY <4>1, CalmSaved
    <3>2. CASE WriteSegment
      BY <3>2, UnlistedServed
    <3>3. CASE TombstoneOld
      BY <3>3, TombstoneOldOthers
    <3>4. CASE TombstoneDeleted
      BY <3>4, TombstoneDeletedServed
    <3> QED
      BY <1>4, <2>1, <2>2, <2>3, <3>1, <3>2, <3>3, <3>4 DEF Updating, Deleting
  <2> QED
    BY <1>3, <2>4, <2>5, RecoversCarried
<1> QED
  BY <1>1, <1>2, <1>3, <1>4, <1>5

(* They keep what is owed.                                                 *)
LEMMA WorkDown ==
  ASSUME Sheltered, Durable, Opens, Inv, Content, Unique, Logged, ClientKept, DownRecovers, opening',
         \/ Updating \/ Deleting \/ Compacting \/ WriteSegment \/ RegisterSegment \/ TruncateWal
         \/ StartNewWriter /\ call.op # "open"
  PROVE  DownRecovers'
  BY WorkRecovers, DownStays

(* Saved tombstones leave each key the copy that the rebuild has kept.     *)
LEMMA SaveStonesRecovers ==
  ASSUME Inv, Content, Unique, Logged, RebuildKeeps, SaveStones, NEW k \in Keys
  PROVE  StillRecovers(k)
<1>1. /\ pc = "saveStones" /\ UNCHANGED <<disk, wal>>
      /\ \A g \in DOMAIN files : /\ files'[g].docs = files[g].docs
                                 /\ files'[g].del = files[g].del \/ files'[g].del = stones[g]
  <2>1. PICK unsaved : files' = [g \in DOMAIN files |->
                                   IF g \in unsaved THEN files[g] ELSE [files[g] EXCEPT !.del = stones[g]]]
    BY DEF SaveStones
  <2>2. \A g \in DOMAIN files : DOMAIN files[g] = {"docs", "del"}
    BY DEF Content, Stored, Segment
  <2>3. \A g \in DOMAIN files :
          files'[g] = files[g] \/ files'[g] = [files[g] EXCEPT !.del = stones[g]]
    BY <2>1
  <2>4. \A g \in DOMAIN files : /\ files'[g].docs = files[g].docs
                                /\ files'[g].del = files[g].del \/ files'[g].del = stones[g]
    BY <2>2, <2>3
  <2> QED
    BY <2>4 DEF SaveStones
<1>2. /\ disk.segs = manifest.segs /\ Range(disk.segs) \subseteq DOMAIN files
      /\ \A g \in Range(disk.segs) : files[g].del \subseteq stones[g]
      /\ writer.docs = <<>>
  BY <1>1 DEF Unique, ListSaved, Synced, Inv, Listed, Logged, NothingRises, Content, Stored, Reopened,
              NoWriter
<1>3. \A p \in Place : OnDisk(p, k)' => OnDisk(p, k)
  BY <1>1, <1>2 DEF OnDisk, SavedAt
<1>4. \A p \in Place : Serves(p, k) => OnDisk(p, k)'
  BY <1>1, <1>2 DEF OnDisk, SavedAt, Serves, ServedSegs, FlushedAt, BufferedAt
<1>5. (\E p \in Place : OnDisk(p, k)) => \E p \in Place : OnDisk(p, k)'
  BY <1>1, <1>4 DEF RebuildKeeps
<1>6. \A p \in Place : OnDisk(p, k) => files'[p.gen].docs = files[p.gen].docs
  BY <1>1, <1>2 DEF OnDisk, SavedAt
<1>7. \A v : Keeps(k, v) => Keeps(k, v)'
  BY <1>3, <1>5, <1>6 DEF Keeps
<1>8. CASE Recorded(k, wal)
  BY <1>1, <1>8, RecoversCarried
<1>9. CASE ~Recorded(k, wal)
  <2>1. ~Recorded(k, wal)'
    BY <1>1, <1>9
  <2> QED
    BY <1>7, <1>9, <2>1 DEF StillRecovers, Recovers
<1> QED
  BY <1>8, <1>9

(* open() takes nothing off the disk that is served.                       *)
LEMMA OpeningDown ==
  ASSUME Sheltered, Durable, Inv, Content, Unique, Logged, ClientKept, RebuildKeeps, DownRecovers,
         \/ Open \/ Sweep \/ RetainGenerations \/ RebuildKeymap \/ SaveStones \/ OpenUnmark
         \/ StartNewWriter /\ call.op = "open"
         \/ ReplayRecord
  PROVE  DownRecovers'
<1>1. CASE Open \/ Sweep \/ RetainGenerations \/ RebuildKeymap \/ OpenUnmark
  <2>1. Unopened /\ UNCHANGED <<view, inflight, disk, wal>>
    BY <1>1 DEF Open, Sweep, RetainGenerations, RebuildKeymap, OpenUnmark, Step, Goto, Enter, Unopened
  <2>2. \A g \in Range(disk.segs) : files'[g] = files[g]
    <3>1. CASE Sweep
      <4>1. manifest = disk /\ Range(disk.segs) \subseteq DOMAIN files
        BY <3>1 DEF Sweep, Inv, Listed
      <4>2. files' = [g \in DOMAIN files \cap Range(manifest.segs) |-> files[g]]
        BY <3>1 DEF Sweep, Restrict
      <4> QED
        BY <4>1, <4>2
    <3>2. CASE Open \/ RetainGenerations \/ RebuildKeymap \/ OpenUnmark
      BY <3>2 DEF Open, RetainGenerations, RebuildKeymap, OpenUnmark
    <3> QED
      BY <1>1, <3>1, <3>2
  <2>3. \A k \in Keys : StillRecovers(k)
    BY <2>1, <2>2, CalmSaved, RecoversCarried
  <2> QED
    BY <2>1, <2>3, UnopenedSettled, DownStays DEF ClientKept
<1>2. CASE SaveStones
  <2>1. Unopened /\ UNCHANGED <<view, inflight>>
    BY <1>2 DEF SaveStones, Goto, Unopened
  <2> QED
    BY <1>2, <2>1, SaveStonesRecovers, UnopenedSettled, DownStays DEF ClientKept
<1>3. CASE StartNewWriter /\ call.op = "open"
  <2>1. Unopened
    BY <1>3 DEF StartNewWriter, Unopened
  <2>2. UNCHANGED <<view, inflight, wal>> /\ \A k : SavedAsBefore(k)
    BY <1>3, StartNewWriterServed
  <2> QED
    BY <2>1, <2>2, RecoversCarried, UnopenedSettled, DownStays DEF ClientKept
<1>4. CASE ReplayRecord
  <2>1. /\ pc = "replay" /\ UNCHANGED <<disk, files, wal, view, inflight, truncPending>>
    BY <1>4 DEF ReplayRecord, Enter, disks
  <2>2. opening /\ (Settled \/ ~Settled')
    BY <2>1 DEF Settled, ClientKept, Logged, ReplayKept
  <2> QED
    BY <2>1, <2>2, CalmSaved, RecoversCarried, DownStays
<1> QED
  BY <1>1, <1>2, <1>3, <1>4

(* A crash finds what the client has read, or was about to read.           *)
LEMMA CrashDown ==
  ASSUME Sheltered, Durable, Inv, Logged, RunRecovers, DownRecovers, Crash
  PROVE  DownRecovers'
<1>1. UNCHANGED <<disk, files, wal, view, inflight>>
  BY DEF Crash, disks
<1>2. ~exposed /\ ~HalfUpdated /\ Settled
  BY CrashSettled
<1>3. \A k \in Keys : \E v \in Owed(k) : Recovers(k, v)
  <2>1. CASE opening
    BY <1>2, <2>1 DEF DownRecovers
  <2>2. CASE ~opening
    <3> SUFFICES ASSUME NEW k \in Keys PROVE \E v \in Owed(k) : Recovers(k, v)
      OBVIOUS
    <3>1. Recovers(k, view[k]) \/ Recovers(k, Now[k])
      BY <1>2, <2>2 DEF RunRecovers, Recording, HalfUpdated
    <3> QED
      BY <3>1 DEF Owed, Now
  <2> QED
    BY <2>1, <2>2
<1>4. \A k \in Keys : StillRecovers(k)
  BY <1>1, CalmSaved, RecoversCarried
<1> SUFFICES ASSUME NEW k \in Keys PROVE \E v \in Owed(k)' : Recovers(k, v)'
  BY DEF DownRecovers
<1>5. PICK v \in Owed(k) : Recovers(k, v)
  BY <1>3
<1>6. Owed(k)' = Owed(k) /\ Recovers(k, v)'
  BY <1>1, <1>4, <1>5 DEF Owed, StillRecovers
<1> QED
  BY <1>5, <1>6

-----------------------------------------------------------------------------
(* The replay                                                              *)

(* What a crash leaves of a key is what the last record about it says.     *)
LEMMA LastRecovers ==
  ASSUME Inv, NEW k, NEW i \in 1 .. Len(wal), LastOf(i, k)
  PROVE  Recovers(k, Value(wal[i]))
<1>1. Recorded(k, wal)
  BY DEF Recorded, LastOf
<1>2. \A j \in 1 .. Len(wal) : LastOf(j, k) => j = i
  <2> SUFFICES ASSUME NEW j \in 1 .. Len(wal), LastOf(j, k) PROVE j = i
    OBVIOUS
  <2>1. Len(wal) \in Nat
    BY LogOfRecords
  <2>2. ~(j < i) /\ ~(i < j)
    BY <2>1 DEF LastOf
  <2> QED
    BY <2>1, <2>2
<1> QED
  BY <1>1, <1>2 DEF Recovers

(* The records say what is owed.                                           *)
RecordsOwed == \A k \in Keys : \A i \in 1 .. Len(wal) : LastOf(i, k) => Value(wal[i]) \in Owed(k)

(* None of those yet to be replayed is of key k.                           *)
Replayed(k) == \A i \in replayed .. Len(wal) : wal[i].key # k

(* What has been replayed of a key is served.                              *)
ServedOwed(k) ==
  IF HalfUpdated /\ k = call.key THEN Latest
  ELSE \E v \in Owed(k) : Shows(k, v) /\ (Settled => Recovers(k, v))

(* The two halves of ReplayShows,                                          *)
LEMMA ReplayShowsParts ==
  ASSUME ReplayShows, Replaying
  PROVE  /\ RecordsOwed
         /\ \A k \in Keys : Replayed(k) /\ ~(Undone /\ k = call.key) => ServedOwed(k)
  BY DEF ReplayShows, RecordsOwed, Replayed, ServedOwed

(* and what they come to.                                                  *)
LEMMA ReplayShowsNext ==
  ASSUME Replaying' =>
           /\ RecordsOwed'
           /\ \A k \in Keys : Replayed(k)' /\ ~(Undone' /\ k = call'.key) => ServedOwed(k)'
  PROVE  ReplayShows'
  BY DEF ReplayShows, RecordsOwed, Replayed, ServedOwed

(* The records stay, and what they are owed to.                            *)
LEMMA RecordsOwedStay ==
  ASSUME RecordsOwed, UNCHANGED <<wal, view, inflight>>
  PROVE  RecordsOwed'
  BY DEF RecordsOwed, LastOf, Owed

(* The call that runs does what the last record about its key says.        *)
LEMMA ReplayedLast ==
  ASSUME Inv, Logged, ClientKept, RecordsOwed, Replaying, pc # "replay", call.key \in Keys,
         Replayed(call.key)
  PROVE  LET v == IF call.op = "delete" THEN Absent ELSE call.ver IN
         v \in Owed(call.key) /\ Recovers(call.key, v)
<1> DEFINE i == replayed - 1
<1>1. /\ i \in 1 .. Len(wal) /\ i + 1 = replayed
      /\ wal[i].op = call.op /\ wal[i].key = call.key /\ wal[i].ver = call.ver
  BY LogOfRecords DEF Logged, ReplayKept, ClientKept
<1> HIDE DEF i
<1>2. LastOf(i, call.key)
  BY <1>1 DEF LastOf, Replayed
<1>3. Value(wal[i]) = IF call.op = "delete" THEN Absent ELSE call.ver
  BY <1>1 DEF Value
<1> QED
  BY <1>1, <1>2, <1>3, LastRecovers DEF RecordsOwed

(* What has been replayed stays served, by a step of another call.         *)
LEMMA ServedOwedStays ==
  ASSUME NEW k \in Keys, ServedOwed(k), ~(HalfUpdated /\ k = call.key), ~(HalfUpdated' /\ k = call'.key),
         UNCHANGED <<view, inflight>>, ServedAsBefore(k), Settled' => Settled /\ StillRecovers(k)
  PROVE  ServedOwed(k)'
<1>1. PICK v \in Owed(k) : Shows(k, v) /\ (Settled => Recovers(k, v))
  BY DEF ServedOwed
<1>2. Shows(k, v)' /\ (Settled' => Recovers(k, v)')
  BY <1>1, ShowsCarried DEF StillShows, StillRecovers
<1>3. v \in Owed(k)'
  BY <1>1 DEF Owed
<1> QED
  BY <1>2, <1>3 DEF ServedOwed

(* open() is about to replay: what has no record is served as it is saved. *)
LEMMA StartReplays ==
  ASSUME Sheltered, Durable, Inv, Content, Unique, Logged, ClientKept, DownRecovers,
         Inv', Content', Unique', Logged', StartNewWriter, call.op = "open"
  PROVE  ReplayShows'
<1>1. /\ pc = "newWriter" /\ Unopened /\ Settled /\ opening
  BY UnopenedSettled DEF StartNewWriter, Unopened, ClientKept
<1>2. /\ pc' = "replay" /\ replayed' = 1 /\ writer'.docs = <<>>
      /\ UNCHANGED <<wal, view, inflight>>
      /\ \A k : SavedAsBefore(k)
  BY StartNewWriterServed
<1>3. RecordsOwed
  BY <1>1 DEF RecordsOwed, DownRecovers, Recovers, Recorded, LastOf
<1>4. ASSUME NEW k \in Keys, Replayed(k)'
      PROVE  ServedOwed(k)'
  <2>1. ~Recorded(k, wal) /\ ~Recorded(k, wal)'
    BY <1>2, <1>4 DEF Recorded, Replayed
  <2>2. PICK v \in Owed(k) : Recovers(k, v)
    BY <1>1 DEF DownRecovers
  <2>3. Recovers(k, v)'
    BY <1>2, <2>2, RecoversCarried DEF StillRecovers
  <2>4. Keeps(k, v)'
    BY <2>1, <2>3 DEF Recovers
  <2>5. disk'.segs = manifest'.segs
    BY <1>2 DEF Logged, ReplayKept, Replaying
  <2>6. \A p \in Place : ~BufferedAt(p, k, writer')
    BY <1>2 DEF BufferedAt
  <2>7. Shows(k, v)'
    <3>1. pc' \notin {"down", "saveStones", "unlist"}
      BY <1>2
    <3>2. \A w : Shows(k, w)' <=> Keeps(k, w)'
      BY <2>5, <2>6, <3>1, SyncedKeepsNext
    <3> QED
      BY <2>4, <3>2
  <2>8. v \in Owed(k)' /\ ~HalfUpdated'
    BY <1>2, <2>2 DEF Owed, HalfUpdated
  <2> QED
    BY <2>3, <2>7, <2>8 DEF ServedOwed
<1>5. RecordsOwed'
  BY <1>2, <1>3, RecordsOwedStay
<1> QED
  BY <1>4, <1>5, ReplayShowsNext

(* A call of the replay, for the keys that it is not about.                *)
LEMMA OthersReplayed ==
  ASSUME NEW k \in Keys, k # call.key, ServedOwed(k), ServedAsBefore(k),
         UNCHANGED <<view, inflight, call>>, Settled' => Settled /\ StillRecovers(k)
  PROVE  ServedOwed(k)'
  BY ServedOwedStays

(* The document that is indexed again is the one that is owed.             *)
LEMMA IndexReplays ==
  ASSUME Inv, Content, Unique, Logged, ClientKept, ReplayShows, Replaying, IndexDocument,
         UNCHANGED <<view, inflight, call>>, NEW k \in Keys, Replayed(k),
         Settled' => Settled /\ StillRecovers(k)
  PROVE  ServedOwed(k)'
<1>1. /\ pc = "index" /\ pc' = "logAdd" /\ call.op \in {"add", "update"} /\ call.key \in Keys
  BY DEF IndexDocument, Step, Goto, Inv, CallsNamed
<1>2. CASE k # call.key
  BY <1>2, ReplayShowsParts, IndexServed, OthersReplayed
<1>3. CASE k = call.key /\ call.op = "update"
  <2>1. Latest' /\ HalfUpdated'
    BY <1>1, <1>3, IndexServed DEF HalfUpdated
  <2> QED
    BY <1>3, <2>1 DEF ServedOwed
<1>4. CASE k = call.key /\ call.op = "add"
  <2>v. PICK v : v = call.ver
    OBVIOUS
  <2>1. v \in Owed(k) /\ Recovers(k, v)
    BY <1>1, <1>4, <2>v, ReplayShowsParts, ReplayedLast
  <2>2. Shows(k, v)'
    <3>1. Shows(call.key, call.ver)'
      BY <1>4, IndexServed
    <3>2. \A q, w : q = call.key /\ w = call.ver => Shows(q, w)'
      BY <3>1
    <3> QED
      BY <1>4, <2>v, <3>2
  <2>3. ~HalfUpdated' /\ v \in Owed(k)' /\ (Settled' => Recovers(k, v)')
    BY <1>4, <2>1 DEF HalfUpdated, Owed, StillRecovers
  <2> QED
    BY <2>2, <2>3 DEF ServedOwed
<1> QED
  BY <1>1, <1>2, <1>3, <1>4

(* The copy that an update leaves is the one that is owed.                 *)
LEMMA TombstoneOldReplays ==
  ASSUME Sheltered, Inv, Content, Unique, Logged, ClientKept, ReplayShows, Replaying, TombstoneOld,
         UNCHANGED <<view, inflight, call>>, NEW k \in Keys, Replayed(k),
         Settled' => Settled /\ StillRecovers(k)
  PROVE  ServedOwed(k)'
<1>1. /\ pc = "tombstone" /\ pc' = "replay" /\ call.op = "update" /\ call.key \in Keys
  BY DEF TombstoneOld, Goto, Return, Inv, CallsNamed
<1>2. ~Undone
  BY <1>1 DEF Undone
<1>3. CASE k # call.key
  BY <1>2, <1>3, ReplayShowsParts, TombstoneOldOthers, OthersReplayed
<1>4. CASE k = call.key
  <2>v. PICK v : v = call.ver
    OBVIOUS
  <2>1. Latest
    <3>1. ServedOwed(k)
      BY <1>2, ReplayShowsParts
    <3> QED
      BY <1>1, <1>4, <3>1 DEF ServedOwed, HalfUpdated
  <2>2. v \in Owed(k) /\ Recovers(k, v)
    BY <1>1, <1>4, <2>v, ReplayShowsParts, ReplayedLast
  <2>3. Shows(k, v)'
    BY <1>4, <2>v, <2>1, TombstoneOldServed
  <2>4. ~HalfUpdated' /\ v \in Owed(k)' /\ (Settled' => Recovers(k, v)')
    BY <1>1, <2>2 DEF HalfUpdated, Owed, StillRecovers
  <2> QED
    BY <2>3, <2>4 DEF ServedOwed
<1> QED
  BY <1>3, <1>4

(* What is deleted again is owed to be gone.                               *)
LEMMA TombstoneDeletedReplays ==
  ASSUME Sheltered, Inv, Content, Unique, Logged, ClientKept, ReplayShows, Replaying, TombstoneDeleted,
         UNCHANGED <<view, inflight, call>>, NEW k \in Keys, Replayed(k),
         Settled' => Settled /\ StillRecovers(k)
  PROVE  ServedOwed(k)'
<1>1. /\ pc = "tombstone" /\ call.op = "delete" /\ call.key \in Keys
  BY DEF TombstoneDeleted, Inv, CallsNamed
<1>2. CASE k # call.key
  BY <1>2, ReplayShowsParts, TombstoneDeletedServed, OthersReplayed
<1>3. CASE k = call.key
  <2>1. Absent \in Owed(k) /\ Recovers(k, Absent)
    BY <1>1, <1>3, ReplayShowsParts, ReplayedLast
  <2>2. Shows(k, Absent)'
    BY <1>3, TombstoneDeletedServed
  <2>3. ~HalfUpdated' /\ Absent \in Owed(k)' /\ (Settled' => Recovers(k, Absent)')
    BY <1>1, <2>1 DEF HalfUpdated, Owed, StillRecovers
  <2> QED
    BY <2>2, <2>3 DEF ServedOwed
<1> QED
  BY <1>2, <1>3

(* The other steps of a call serve what was served.                        *)
LEMMA CalmCallReplays ==
  ASSUME Sheltered, Durable, Opens, Inv, Content, Unique, Logged, ReplayShows, Replaying, CalmCall,
         UNCHANGED <<view, inflight, call>>, NEW k \in Keys, Replayed(k),
         Settled' => Settled /\ StillRecovers(k)
  PROVE  ServedOwed(k)'
<1>1. /\ ServedAsBefore(k) /\ ~Undone
      /\ HalfUpdated => HalfUpdated' /\ UNCHANGED keymap
  BY CalmCallServed
<1>2. HalfUpdated' => HalfUpdated
  <2>1. pc \notin {"index", "replay"}
    BY CalmCallGoes
  <2> QED
    BY <2>1 DEF HalfUpdated
<1>3. ServedOwed(k)
  BY <1>1, ReplayShowsParts
<1>4. CASE HalfUpdated /\ k = call.key
  <2>1. Latest
    BY <1>3, <1>4 DEF ServedOwed
  <2>2. Latest'
    BY <1>1, <1>4, <2>1, LatestStays
  <2> QED
    BY <1>1, <1>4, <2>2 DEF ServedOwed
<1>5. CASE ~(HalfUpdated /\ k = call.key)
  <2>1. ~(HalfUpdated' /\ k = call'.key)
    BY <1>2, <1>5
  <2> QED
    BY <1>1, <1>3, <1>5, <2>1, ServedOwedStays
<1> QED
  BY <1>4, <1>5

(* Each step of the calls that the replay makes again.                     *)
LEMMA WorkReplays ==
  ASSUME Sheltered, Durable, Opens, Inv, Content, Unique, Logged, ClientKept, ReplayShows, opening',
         \/ Updating \/ Deleting \/ Compacting \/ WriteSegment \/ RegisterSegment \/ TruncateWal
         \/ StartNewWriter /\ call.op # "open"
  PROVE  ReplayShows'
<1>1. /\ Replaying /\ ~Compacting /\ UNCHANGED <<view, inflight, call, replayed, wal>>
      /\ Settled' => Settled /\ \A k \in Keys : StillRecovers(k)
  BY WorkRecovers
<1>2. RecordsOwed'
  BY <1>1, ReplayShowsParts, RecordsOwedStay
<1>3. \A k \in Keys : Replayed(k)' => Replayed(k)
  BY <1>1 DEF Replayed
<1>4. ASSUME NEW k \in Keys, Replayed(k)
      PROVE  ServedOwed(k)'
  <2>1. CASE IndexDocument
    BY <1>1, <1>4, <2>1, IndexReplays
  <2>2. CASE TombstoneOld
    BY <1>1, <1>4, <2>2, TombstoneOldReplays
  <2>3. CASE TombstoneDeleted
    BY <1>1, <1>4, <2>3, TombstoneDeletedReplays
  <2>4. CASE CalmCall
    BY <1>1, <1>4, <2>4, CalmCallReplays
  <2> QED
    BY <1>1, <2>1, <2>2, <2>3, <2>4 DEF Updating, Deleting, CalmCall
<1> QED
  BY <1>2, <1>3, <1>4, ReplayShowsNext

(* A record that is taken up leaves what has been replayed; a delete that  *)
(* is passed over finds its key without a copy.                            *)
LEMMA RecordReplays ==
  ASSUME Inv, Content, Unique, Logged, WriterKept, ReplayShows, ReplayRecord
  PROVE  ReplayShows'
<1>r. PICK r : r = wal[replayed]
  OBVIOUS
<1>n. PICK n : n = replayed
  OBVIOUS
<1>1. /\ pc = "replay" /\ replayed \in DOMAIN wal /\ replayed' = replayed + 1
      /\ UNCHANGED <<disk, files, manifest, stones, writer, keymap, wal, view, inflight, truncPending>>
      /\ call' = Call(r.op, r.key, r.ver, keymap[r.key])
      /\ pc' = IF IF r.op \in {"add", "update"} THEN writer.gen # 0 ELSE keymap[r.key] # NoPlace
               THEN IF r.op \in {"add", "update"} THEN "index" ELSE "tombstone"
               ELSE "replay"
  BY <1>r DEF ReplayRecord, Enter, disks
<1>2. /\ n \in 1 .. Len(wal) /\ r \in Record /\ r.key \in Keys /\ r = wal[n] /\ Replaying
      /\ Len(wal) \in Nat
  BY <1>1, <1>n, <1>r, LogOfRecords DEF Replaying
<1>3. call'.op = r.op /\ call'.key = r.key /\ writer.gen # 0
  BY <1>1 DEF Call, WriterKept, Unopened
<1>4. /\ ~HalfUpdated /\ ~HalfUpdated' /\ ~Undone
      /\ pc' # "replay" => Undone'
      /\ pc' = "replay" => r.op = "delete" /\ keymap[r.key] = NoPlace
      /\ pc' \notin {"unlist", "newWriter", "truncate"}
  BY <1>1, <1>2, <1>3 DEF HalfUpdated, Undone, Record
<1>5. ASSUME NEW k \in Keys
      PROVE  ServedAsBefore(k) /\ (Settled' => Settled /\ StillRecovers(k))
  <2>1. ServedAsBefore(k) /\ SavedAsBefore(k)
    BY <1>1, <1>4, QuietServed
  <2>2. Settled' => Settled
    BY <1>1, <1>4 DEF Settled
  <2> QED
    BY <1>1, <2>1, <2>2, RecoversCarried
<1>6. ASSUME NEW k \in Keys, Replayed(k)', ~(Undone' /\ k = call'.key)
      PROVE  ServedOwed(k)'
  <2>1. \A i \in n + 1 .. Len(wal) : wal[i].key # k
    BY <1>1, <1>n, <1>6 DEF Replayed
  <2>2. CASE k # r.key
    <3>1. Replayed(k)
      <4>1. \A i \in n .. Len(wal) : i = n \/ i \in n + 1 .. Len(wal)
        BY <1>2
      <4> QED
        BY <1>n, <1>2, <2>1, <2>2, <4>1 DEF Replayed
    <3>2. ServedOwed(k)
      BY <1>2, <1>4, <3>1, ReplayShowsParts
    <3> QED
      BY <1>1, <1>4, <1>5, <3>2, ServedOwedStays
  <2>3. CASE k = r.key
    <3>1. r.op = "delete" /\ keymap[k] = NoPlace
      BY <1>3, <1>4, <1>6, <2>3
    <3>2. Absent \in Owed(k) /\ Recovers(k, Absent)
      <4>1. LastOf(n, k) /\ Value(wal[n]) = Absent
        BY <1>2, <2>1, <2>3, <3>1 DEF LastOf, Value
      <4> QED
        BY <1>2, <4>1, LastRecovers, ReplayShowsParts DEF RecordsOwed
    <3>3. Shows(k, Absent)
      <4>1. \A p \in Place : ~Live(p, k)
        BY <1>1, <1>4, <3>1, NoPlaceIsDead DEF Unique, SingleCopy, Loading
      <4> QED
        BY <1>1, <4>1, ServedIsLive DEF Shows
    <3>4. ServedOwed(k)
      BY <1>4, <3>2, <3>3 DEF ServedOwed
    <3> QED
      BY <1>1, <1>4, <1>5, <3>4, ServedOwedStays
  <2> QED
    BY <2>2, <2>3
<1>7. RecordsOwed'
  BY <1>1, <1>2, ReplayShowsParts, RecordsOwedStay
<1> QED
  BY <1>6, <1>7, ReplayShowsNext

(* When all is replayed the client finds under each key what is owed: the  *)
(* call that the crash cut off is lost or complete.                        *)
LEMMA EndReplayRuns ==
  ASSUME Inv, Content, Unique, Rested, Logged, ClientKept, ReplayShows,
         Inv', Content', Unique', Rested', EndReplay
  PROVE  RunShows' /\ RunRecovers' /\ Store!Recover
<1>m. PICK m : m = Observed'
  OBVIOUS
<1>1. /\ pc = "replay" /\ pc' = "ready" /\ replayed > Len(wal)
      /\ UNCHANGED <<disk, files, manifest, stones, writer>>
      /\ exposed' = (exposed \/ truncPending) /\ (~truncPending => wal' = wal)
      /\ view' = Observed' /\ inflight' = Idle /\ opening' = FALSE /\ call' = NoCall
  BY DEF EndReplay, Goto
<1>2. Replaying /\ opening /\ exposed \in BOOLEAN /\ truncPending \in BOOLEAN
  BY <1>1 DEF Logged, ReplayKept, ClientKept, Inv, Shapes, CatalogueTypeOK
<1>3. /\ ~HalfUpdated /\ ~HalfUpdated' /\ ~Undone /\ \A k : ~Recording(k)'
  BY <1>1 DEF HalfUpdated, Undone, Recording, NoCall
<1>4. \A k \in Keys : \A v : Shows(k, v)' => Observed'[k] = v
  <2>1. (Inv /\ Content /\ Unique /\ Rested)' =>
          (pc = "ready" => \A k \in Keys : \A v : Shows(k, v) => Observed[k] = v)'
    BY ShownIsObserved, PTL
  <2> QED
    BY <1>1, <2>1
<1>5. \A k \in Keys : ServedAsBefore(k) /\ SavedAsBefore(k)
  BY <1>1, QuietServed
<1>6. ASSUME NEW k \in Keys
      PROVE  m[k] \in Owed(k) /\ Shows(k, m[k])' /\ (Settled' /\ ~exposed' => Recovers(k, m[k])')
  <2>1. Replayed(k)
    <3>1. replayed \in Nat /\ Len(wal) \in Nat
      BY LogOfRecords
    <3> QED
      BY <1>1, <3>1 DEF Replayed
  <2>2. ServedOwed(k)
    BY <1>2, <1>3, <2>1, ReplayShowsParts
  <2>3. PICK v \in Owed(k) : Shows(k, v) /\ (Settled => Recovers(k, v))
    BY <1>3, <2>2 DEF ServedOwed
  <2>4. Shows(k, v)'
    BY <1>5, <2>3, ShowsCarried DEF StillShows
  <2>5. m[k] = v
    BY <1>m, <1>4, <2>4
  <2>6. ASSUME Settled', ~exposed'
        PROVE  Recovers(k, v)'
    <3>1. ~truncPending /\ Settled
      BY <1>1, <1>2, <2>6 DEF Settled
    <3> QED
      BY <1>1, <1>5, <2>3, <3>1, RecoversCarried DEF StillRecovers
  <2> QED
    BY <2>3, <2>4, <2>5, <2>6
<1>7. m = [k \in Keys |-> m[k]]
  BY <1>m DEF Observed
<1>8. RunShows' /\ RunRecovers'
  BY <1>1, <1>3, <1>6, <1>7, RunStep
<1>9. m \in {view, Store!Apply(inflight, view)}
  <2>1. view = [k \in Keys |-> view[k]] /\ (inflight.op \in {"add", "update", "delete"} => inflight.key \in Keys)
    BY DEF ClientKept
  <2>2. CASE inflight.op \in {"add", "update", "delete"}
    <3>a. PICK a : a = Store!Apply(inflight, view)
      OBVIOUS
    <3>1. a = [k \in Keys |-> a[k]] /\ \A k \in Keys : k # inflight.key => a[k] = view[k]
      BY <2>1, <2>2, <3>a DEF Store!Apply
    <3>2. \A k \in Keys : m[k] \in {view[k], a[k]}
      BY <1>6, <3>a DEF Owed
    <3>3. CASE m[inflight.key] = view[inflight.key]
      <4>1. \A k \in Keys : m[k] = view[k]
        BY <3>1, <3>2, <3>3
      <4> QED
        BY <1>7, <2>1, <4>1
    <3>4. CASE m[inflight.key] = a[inflight.key]
      <4>1. \A k \in Keys : m[k] = a[k]
        BY <3>1, <3>2, <3>4
      <4> QED
        BY <1>7, <3>1, <3>a, <4>1
    <3> QED
      BY <2>1, <2>2, <3>2, <3>3, <3>4
  <2>3. CASE inflight.op \notin {"add", "update", "delete"}
    <3>1. Store!Apply(inflight, view) = view
      BY <2>3 DEF Store!Apply
    <3>2. \A k \in Keys : m[k] = view[k]
      BY <1>6, <3>1 DEF Owed
    <3> QED
      BY <1>7, <2>1, <3>2
  <2> QED
    BY <2>2, <2>3
<1>10. Store!Recover
  BY <1>m, <1>1, <1>2, <1>9 DEF Store!Recover, Store!Idle, Idle
<1> QED
  BY <1>8, <1>10

-----------------------------------------------------------------------------
(* Every step                                                              *)

(* A call that runs is one.                                                *)
LEMMA RunningOp ==
  ASSUME Inv, Unique, Logged, ~Unopened, pc \notin {"ready", "replay"}
  PROVE  call.op # "none"
<1>1. pc \in PC
  BY DEF Inv, Shapes, CatalogueTypeOK
<1>2. CASE pc \in Compacts
  BY <1>2 DEF Unique, OutputCurrent
<1>3. CASE pc \in {"index", "logUpdate", "unmap", "logDelete"}
  BY <1>3 DEF Inv, CallsNamed
<1>4. CASE pc \in {"logAdd", "flush", "register", "truncate", "newWriter", "tombstone"}
  BY <1>4 DEF Logged, CallsRun
<1> QED
  BY <1>1, <1>2, <1>3, <1>4 DEF PC, Compacts, Unopened

(* A step of a call is one of the store when the call returns, and none    *)
(* before that.                                                            *)
LEMMA WorkPromised ==
  ASSUME Sheltered, Durable, Opens, Inv, Content, Unique, Rested, Logged, Promised,
         Inv', Content', Unique', Rested', Logged',
         \/ Updating \/ Deleting \/ Compacting \/ WriteSegment \/ RegisterSegment \/ TruncateWal
         \/ StartNewWriter /\ call.op # "open"
  PROVE  /\ RunShows' /\ RunRecovers' /\ DownRecovers' /\ ReplayShows'
         /\ Store!Return \/ UNCHANGED <<view, inflight, opening>>
<1> USE DEF Promised
<1>0. ClientKept'
  BY WorkClient
<1>1. ~Unopened /\ ~Unopened' /\ UNCHANGED replayed
  BY WorkStays
<1>2. /\ pc \notin {"ready", "down", "replay"}
      /\ \/ pc' = "ready" /\ inflight' = Idle /\ opening' = FALSE
         \/ pc' # "ready" /\ UNCHANGED <<view, inflight, opening>>
  <2>1. Updating \/ Deleting \/ Flushing \/ Compacting
    BY DEF Flushing
  <2>2. /\ pc \notin {"ready", "down", "replay"}
        /\ \/ /\ pc' = "ready" /\ view' = Observed' /\ inflight' = Idle /\ opening' = FALSE
              /\ call' = NoCall
           \/ pc' # "ready" /\ UNCHANGED <<view, inflight, opening, call>>
    BY <2>1, WorkGoes
  <2> QED
    BY <2>2
<1>3. opening' <=> opening
  BY <1>0, <1>1 DEF ClientKept, Replaying
<1>4. CASE opening'
  <2>1. RunShows' /\ RunRecovers'
    BY <1>4 DEF RunShows, RunRecovers
  <2> QED
    BY <1>2, <1>4, <2>1, WorkDown, WorkReplays
<1>5. CASE ~opening'
  <2>1. ~Replaying'
    BY <1>0, <1>5 DEF ClientKept
  <2>2. DownRecovers' /\ ReplayShows'
    BY <1>5, <2>1 DEF DownRecovers, ReplayShows
  <2>3. RunShows' /\ RunRecovers' /\ (pc' = "ready" => view' = Store!Apply(inflight, view))
    <3>1. CASE IndexDocument
      BY <1>3, <1>5, <3>1, IndexRuns
    <3>2. CASE TombstoneOld
      BY <1>3, <1>5, <3>2, TombstoneOldRuns
    <3>3. CASE TombstoneDeleted
      BY <1>3, <1>5, <3>3, TombstoneDeletedRuns
    <3>4. CASE Compacting
      BY <3>4, CompactingRuns
    <3>5. CASE CalmCall
      BY <1>3, <1>5, <3>5, CalmCallRuns
    <3> QED
      BY <3>1, <3>2, <3>3, <3>4, <3>5 DEF Updating, Deleting, CalmCall
  <2>4. CASE pc' = "ready"
    <3>1. inflight # Idle
      <4>1. call.op # "none" /\ inflight.op = call.op
        BY <1>1, <1>2, <1>3, <1>5, RunningOp, RunningCall
      <4> QED
        BY <4>1 DEF Idle
    <3> QED
      BY <1>2, <1>3, <1>5, <2>2, <2>3, <2>4, <3>1 DEF Store!Return, Store!Idle, Idle
  <2>5. CASE pc' # "ready"
    BY <1>2, <2>2, <2>3, <2>5
  <2> QED
    BY <2>4, <2>5
<1> QED
  BY <1>4, <1>5

(* open() is no step of the store before it returns.                       *)
LEMMA OpeningPromised ==
  ASSUME Sheltered, Durable, Inv, Content, Unique, Logged, Promised,
         Inv', Content', Unique', Logged',
         \/ Open \/ Sweep \/ RetainGenerations \/ RebuildKeymap \/ SaveStones \/ OpenUnmark
         \/ StartNewWriter /\ call.op = "open"
         \/ ReplayRecord
  PROVE  /\ RunShows' /\ RunRecovers' /\ DownRecovers' /\ ReplayShows'
         /\ UNCHANGED <<view, inflight, opening>>
<1> USE DEF Promised
<1>1. opening /\ UNCHANGED <<view, inflight, opening>>
  <2>1. CASE Open \/ Sweep \/ RetainGenerations \/ RebuildKeymap \/ SaveStones \/ OpenUnmark \/ ReplayRecord
    <3>1. Unopened \/ pc = "replay"
      BY <2>1 DEF Open, Sweep, RetainGenerations, RebuildKeymap, SaveStones, OpenUnmark, ReplayRecord,
                  Unopened
    <3>2. UNCHANGED <<view, inflight, opening>>
      BY <2>1 DEF Open, Sweep, RetainGenerations, RebuildKeymap, SaveStones, OpenUnmark, ReplayRecord,
                  Step, Goto, Enter
    <3> QED
      BY <3>1, <3>2 DEF ClientKept, Logged, ReplayKept
  <2>2. CASE StartNewWriter /\ call.op = "open"
    <3>1. Unopened
      BY <2>2 DEF StartNewWriter, Unopened
    <3> QED
      BY <2>2, <3>1, StartNewWriterServed DEF ClientKept
  <2> QED
    BY <2>1, <2>2
<1>2. RunShows' /\ RunRecovers'
  BY <1>1 DEF RunShows, RunRecovers
<1>3. DownRecovers'
  BY OpeningDown
<1>4. ReplayShows'
  <2>1. CASE Open \/ Sweep \/ RetainGenerations \/ RebuildKeymap \/ SaveStones \/ OpenUnmark
    <3>1. Unopened /\ UNCHANGED replayed
      BY <2>1 DEF Open, Sweep, RetainGenerations, RebuildKeymap, SaveStones, OpenUnmark, memory, Unopened
    <3>2. ~Replaying'
      BY <3>1, UnopenedSettled DEF Replaying
    <3> QED
      BY <3>2 DEF ReplayShows
  <2>2. CASE StartNewWriter /\ call.op = "open"
    BY <2>2, StartReplays
  <2>3. CASE ReplayRecord
    BY <2>3, RecordReplays
  <2> QED
    BY <2>1, <2>2, <2>3
<1> QED
  BY <1>1, <1>2, <1>3, <1>4

(* Nor is a call more to the client than its start.                        *)
LEMMA CallPromised ==
  ASSUME Inv, Unique, Rested, Logged, Promised, Inv', Content', Unique', Rested',
         CallOnKey \/ CallFlush \/ CallMaintain \/ CallCompact
  PROVE  /\ RunShows' /\ RunRecovers' /\ DownRecovers' /\ ReplayShows'
         /\ Store!Invoke
<1> USE DEF Promised
<1>1. RunShows' /\ RunRecovers' /\ Store!Invoke
  BY CallRuns
<1>2. pc = "ready" /\ UNCHANGED <<replayed, opening>>
  BY DEF CallOnKey, CallFlush, CallMaintain, CallCompact, Invoke, memory
<1>3. ~opening' /\ ~Replaying'
  BY <1>2 DEF ClientKept, Logged, ReplayKept, Unopened, Replaying
<1> QED
  BY <1>1, <1>3 DEF DownRecovers, ReplayShows

(* A crash of the index that runs is one of the store.                     *)
LEMMA CrashPromised ==
  ASSUME Sheltered, Durable, Inv, Logged, Promised, Crash
  PROVE  /\ RunShows' /\ RunRecovers' /\ DownRecovers' /\ ReplayShows'
         /\ Store!Crash \/ UNCHANGED <<view, inflight, opening>>
<1> USE DEF Promised
<1>1. opening' = TRUE /\ replayed' = 0 /\ UNCHANGED <<view, inflight>>
  BY DEF Crash
<1>2. RunShows' /\ RunRecovers' /\ ReplayShows'
  BY <1>1 DEF RunShows, RunRecovers, ReplayShows, Replaying
<1>3. DownRecovers'
  BY CrashDown
<1>4. opening \in BOOLEAN
  BY DEF Inv, Shapes, CatalogueTypeOK
<1> QED
  BY <1>1, <1>2, <1>3, <1>4 DEF Store!Crash

(* A step that changes nothing.                                            *)
LEMMA StutterPromised ==
  ASSUME Promised, UNCHANGED vars
  PROVE  Promised'
<1>1. UNCHANGED <<disk, files, keymap, wal, manifest, stones, writer, replayed, truncPending,
                  pc, call, job, inflight, opening, view, exposed>>
  BY DEF vars, disks, memory, control, client, budget
<1>2. ClientKept' /\ WriterKept' /\ UpdateRecorded'
  BY <1>1 DEF Promised, ClientKept, Unopened, Replaying, WriterKept, Recorded, Recording, UpdateRecorded
<1>3. OutputWhole'
  BY <1>1 DEF Promised, OutputWhole, FlushedAt
<1>4. \A k, v : Shows(k, v)' <=> Shows(k, v)
  BY <1>1 DEF Shows, Serves, ServedSegs, FlushedAt, BufferedAt, VersionAt
<1>5. \A k, v : Recovers(k, v)' <=> Recovers(k, v)
  BY <1>1 DEF Recovers, Recorded, LastOf, Keeps, OnDisk, SavedAt
<1>6. /\ (HalfUpdated' <=> HalfUpdated) /\ (Latest' <=> Latest) /\ (Settled' <=> Settled)
      /\ (Undone' <=> Undone) /\ Now' = Now /\ Replaying' = Replaying
      /\ \A k : (Recording(k)' <=> Recording(k)) /\ Owed(k)' = Owed(k)
  BY <1>1 DEF HalfUpdated, Latest, Serves, ServedSegs, FlushedAt, BufferedAt, VersionAt, Settled,
              Undone, Now, Recording, Owed, Replaying
<1>7. RunShows'
  BY <1>1, <1>4, <1>6 DEF Promised, RunShows
<1>8. RunRecovers'
  <2>v. PICK v, n : v = view /\ n = Now
    OBVIOUS
  <2>1. ~opening /\ Settled /\ ~exposed =>
          \A k \in Keys :
            IF Recording(k) THEN call.op # "update" => Recovers(k, v[k])' \/ Recovers(k, n[k])'
            ELSE Recovers(k, n[k])'
    BY <2>v, <1>5 DEF Promised, RunRecovers
  <2>2. v = view' /\ n = Now'
    BY <1>1, <1>6, <2>v
  <2> QED
    BY <1>1, <1>6, <2>1, <2>2 DEF RunRecovers
<1>9. DownRecovers'
  BY <1>1, <1>5, <1>6 DEF Promised, DownRecovers
<1>10. RebuildKeeps'
  BY <1>1 DEF Promised, RebuildKeeps, OnDisk, SavedAt, Serves, ServedSegs, FlushedAt, BufferedAt
<1>11. ReplayShows'
  BY <1>1, <1>4, <1>5, <1>6 DEF Promised, ReplayShows, LastOf
<1> QED
  BY <1>2, <1>3, <1>7, <1>8, <1>9, <1>10, <1>11 DEF Promised

(* Nothing has been promised before the first open().                      *)
LEMMA InitPromised == Init => Promised /\ Store!Init
<1> SUFFICES ASSUME Init PROVE Promised /\ Store!Init
  OBVIOUS
<1>1. /\ pc = "down" /\ opening = TRUE /\ replayed = 0 /\ inflight = Idle /\ exposed = FALSE
      /\ wal = <<>> /\ disk = [gen |-> 1, segs |-> <<>>] /\ writer = NoWriter
      /\ view = [k \in Keys |-> Absent]
  BY DEF Init
<1>2. ClientKept
  BY <1>1 DEF ClientKept, Unopened, Replaying, Idle
<1>3. WriterKept
  BY <1>1 DEF WriterKept, Unopened, NoWriter
<1>4. UpdateRecorded /\ OutputWhole /\ RunShows /\ RunRecovers /\ RebuildKeeps /\ ReplayShows
  BY <1>1 DEF UpdateRecorded, OutputWhole, RunShows, RunRecovers, RebuildKeeps, ReplayShows, Replaying
<1>5. DownRecovers
  <2>1. \A k, p : ~OnDisk(p, k)
    BY <1>1 DEF OnDisk, SavedAt, Range
  <2>2. \A k : ~Recorded(k, wal)
    BY <1>1 DEF Recorded
  <2>3. \A k : Recovers(k, Absent)
    BY <2>1, <2>2 DEF Recovers, Keeps
  <2>4. \A k \in Keys : Absent \in Owed(k)
    BY <1>1 DEF Owed
  <2> QED
    BY <2>3, <2>4 DEF DownRecovers
<1>6. Store!Init
  BY <1>1 DEF Store!Init, Idle, Store!Idle
<1> QED
  BY <1>2, <1>3, <1>4, <1>5, <1>6 DEF Promised

(* The parts of the promise about one piece of the state each.             *)
LEMMA NextPromisedAside ==
  ASSUME Sheltered, Durable, Opens, Kept, Promised, [Next]_vars, Kept'
  PROVE  ClientKept' /\ WriterKept' /\ UpdateRecorded' /\ OutputWhole' /\ RebuildKeeps'
<1> USE DEF Promised
<1>0. /\ Inv /\ Content /\ Unique /\ Rested /\ Logged
      /\ Inv' /\ Content' /\ Unique' /\ Rested' /\ Logged'
  BY DEF Kept, Covered
<1>1. UpdateRecorded' /\ OutputWhole' /\ RebuildKeeps'
  BY <1>0, NextUpdateRecorded, NextWhole, NextRebuilt
<1>2. CASE Updating \/ Deleting
  BY <1>0, <1>1, <1>2, WorkClient, IndexWriter, LogWriter, WorkWriter DEF Updating, Deleting
<1>3. CASE Flushing
  <2>1. ClientKept'
    BY <1>0, <1>3, WorkClient, OpeningClient DEF Flushing
  <2>2. WriterKept'
    BY <1>0, <1>3, WorkWriter DEF Flushing
  <2> QED
    BY <1>1, <2>1, <2>2
<1>4. CASE Compacting
  BY <1>0, <1>1, <1>4, WorkClient, WorkWriter
<1>5. CASE Opening
  BY <1>0, <1>1, <1>5, OpeningClient, RestWriter DEF Opening
<1>6. CASE CallOnKey \/ CallFlush \/ CallMaintain \/ CallCompact \/ Crash \/ LoseKeymapLog
           \/ UNCHANGED vars
  BY <1>0, <1>1, <1>6, CallerClient, RestWriter
<1> QED
  BY <1>2, <1>3, <1>4, <1>5, <1>6 DEF Next, Work

(* A step keeps what is promised, and is one of the store or none to it.   *)
LEMMA NextPromised ==
  ASSUME Sheltered, Durable, Opens, Kept, Promised, [Next]_vars, Kept'
  PROVE  Promised' /\ [Store!Next]_(Store!storeVars)
<1>0. /\ Inv /\ Content /\ Unique /\ Rested /\ Logged
      /\ Inv' /\ Content' /\ Unique' /\ Rested' /\ Logged'
  BY DEF Kept, Covered
<1>1. ClientKept' /\ WriterKept' /\ UpdateRecorded' /\ OutputWhole' /\ RebuildKeeps'
  BY NextPromisedAside
<1> DEFINE Shown == RunShows' /\ RunRecovers' /\ DownRecovers' /\ ReplayShows'
<1> SUFFICES Shown /\ [Store!Next]_(Store!storeVars)
  BY <1>1 DEF Promised
<1>2. CASE \/ Updating \/ Deleting \/ Compacting \/ WriteSegment \/ RegisterSegment \/ TruncateWal
           \/ StartNewWriter /\ call.op # "open"
  <2>1. Shown /\ (Store!Return \/ UNCHANGED <<view, inflight, opening>>)
    BY <1>0, <1>2, WorkPromised
  <2> QED
    BY <2>1 DEF Store!Next, Store!storeVars
<1>3. CASE \/ Open \/ Sweep \/ RetainGenerations \/ RebuildKeymap \/ SaveStones \/ OpenUnmark
           \/ StartNewWriter /\ call.op = "open"
           \/ ReplayRecord
  <2>1. Shown /\ UNCHANGED <<view, inflight, opening>>
    BY <1>0, <1>3, OpeningPromised
  <2> QED
    BY <2>1 DEF Store!storeVars
<1>4. CASE EndReplay
  <2>1. RunShows' /\ RunRecovers' /\ Store!Recover
    BY <1>0, <1>4, EndReplayRuns DEF Promised
  <2>2. opening' = FALSE /\ replayed' = 0
    BY <1>4 DEF EndReplay, Goto
  <2>3. DownRecovers' /\ ReplayShows'
    BY <2>2 DEF DownRecovers, ReplayShows, Replaying
  <2> QED
    BY <2>1, <2>3 DEF Store!Next
<1>5. CASE CallOnKey \/ CallFlush \/ CallMaintain \/ CallCompact
  <2>1. Shown /\ Store!Invoke
    BY <1>0, <1>5, CallPromised
  <2> QED
    BY <2>1 DEF Store!Next
<1>6. CASE Crash
  <2>1. Shown /\ (Store!Crash \/ UNCHANGED <<view, inflight, opening>>)
    BY <1>0, <1>6, CrashPromised
  <2> QED
    BY <2>1 DEF Store!Next, Store!storeVars
<1>7. ~LoseKeymapLog
  BY DEF Sheltered, LoseKeymapLog, Fault
<1>8. CASE UNCHANGED vars
  <2>1. Promised'
    BY <1>8, StutterPromised
  <2> QED
    BY <1>8, <2>1 DEF Promised, vars, client, control, Store!storeVars
<1> QED
  BY <1>2, <1>3, <1>4, <1>5, <1>6, <1>7, <1>8 DEF Next, Work, Flushing, Opening

(* With the write-ahead log on, what a caller sees of the index is a map   *)
(* from keys to documents: each call takes effect completely, a crash      *)
(* loses no call that had returned, and the one it interrupts is then lost *)
(* or complete - for any keys, segments, merges, calls and crashes, when   *)
(* the process is sheltered and a segment just written opens.              *)
THEOREM ImplementsStore ==
  ASSUME Sheltered, Durable, Opens
  PROVE  Spec => StoreSpec
<1>1. Init => Promised /\ Store!Init
  BY InitPromised
<1>2. ASSUME Kept, Promised, [Next]_vars, Kept' PROVE Promised' /\ [Store!Next]_(Store!storeVars)
  BY <1>2, NextPromised
<1>3. Spec => []Kept
  BY KeptInvariance
<1> QED
  BY <1>1, <1>2, <1>3, PTL DEF Spec, StoreSpec, Store!Spec
=============================================================================
