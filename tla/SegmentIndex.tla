---------------------------- MODULE SegmentIndex ----------------------------
(***************************************************************************)
(* The growable index of atire/atire_segment_index*.cpp: documents are     *)
(* indexed by an in-memory writer, flushed as immutable segments that a    *)
(* manifest lists, superseded by tombstones, found by key through a keymap *)
(* kept in a log, merged by compaction, and (in durable mode) recovered    *)
(* from a write-ahead log.                                                 *)
(*                                                                         *)
(* One call runs at a time.  pc walks through its durable effects in the   *)
(* order of the code, one step per effect, so that a crash can strike      *)
(* between any two of them; everything not on disk is then gone.           *)
(***************************************************************************)
EXTENDS Integers, Sequences, FiniteSets, SequencesExt

CONSTANTS
  Keys,             \* external document keys
  Absent, Torn,     \* views of a key: no live copy / copies that disagree
  Thresholds,       \* values of flush_after_documents a session may choose
  MergeFactor,      \* merge_factor
  RatioNum, RatioDen, \* tombstone_compact_ratio, as a fraction
  TierBase,         \* the base of the size tiers (10 in tier_of())
  MaintainCap,      \* iterations of one maintain() (10)
  Durable,          \* set_durable()
  AutoMaintain,     \* set_auto_maintain()
  CallOps,          \* the calls the client makes
  CrashIn,          \* the windows in which the process may be killed
  FaultIn,          \* the writes that may fail
  MaxCalls, MaxCrashes, MaxFaults   \* bounds

ASSUME SizesAssumption ==
  /\ Thresholds \subseteq Nat
  /\ MergeFactor \in Nat /\ TierBase \in Nat \ {0, 1} /\ MaintainCap \in Nat
  /\ RatioNum \in Nat /\ RatioDen \in Nat \ {0}
  /\ MaxCalls \in Nat /\ MaxCrashes \in Nat /\ MaxFaults \in Nat

ASSUME ModesAssumption == Durable \in BOOLEAN /\ AutoMaintain \in BOOLEAN

ASSUME ViewsAssumption == Torn \notin Nat \cup {Absent}

VARIABLES
  \* ---- on disk
  disk,       \* the saved manifest: next generation, listed generations
  files,      \* files[g]: segment g's documents and its .del bitmap
  keymap,     \* the image of keymap.log (and the map in memory: every change is logged at once)
  logThere,   \* keymap.log exists
  marker,     \* the "compacting" marker exists
  wal,        \* wal.log
  \* ---- in memory
  manifest,   \* the loaded manifest; its list is also segments[]
  stones,     \* stones[g]: the tombstones of open segment g
  writer,     \* the memory segment; generation 0 when there is none
  threshold,  \* flush_after_documents in this session
  replayed,   \* 0, or 1 + the records of wal already replayed
  truncPending, \* wal_truncate_pending
  pc, call,   \* the procedure that runs, and its argument
  job,        \* the compaction that runs
  \* ---- what the client knows
  inflight,   \* its call that has not returned
  opening,    \* the index is down or being opened
  view,       \* what it read when the index was last ready
  exposed,    \* a deferred truncation emptied the log; no flush has completed since
  calls, crashes, faults   \* counters for the bounds

disks   == <<disk, files, keymap, logThere, marker, wal>>
memory  == <<manifest, stones, writer, threshold, replayed, truncPending>>
control == <<pc, call, job>>
client  == <<inflight, opening, view, calls>>
budget  == <<exposed, crashes, faults>>
vars    == <<disks, memory, control, client, budget>>

-----------------------------------------------------------------------------
(* Values *)

NoPlace  == [gen |-> 0, docid |-> 0]
NoWriter == [gen |-> 0, docs |-> <<>>, del |-> {}]
Idle     == [op |-> "none", key |-> Absent, ver |-> 0]
NoCall   == [op |-> "none", key |-> Absent, ver |-> 0, old |-> NoPlace]
NoJob    == [inputs |-> <<>>, left |-> <<>>, out |-> 0, round |-> 0]

Call(op, k, v, old) == [op |-> op, key |-> k, ver |-> v, old |-> old]

Place == [gen : Nat, docid : Nat]
Doc   == [key : Keys, ver : Nat]

Put(f, x, v) == [y \in DOMAIN f \cup {x} |-> IF y = x THEN v ELSE f[y]]

(* Where the list has generation g.                                        *)
Position(g) == CHOOSE i \in DOMAIN manifest.segs : manifest.segs[i] = g

(* Dropping one generation of the list, the others keep their order.       *)
Without(s, g) ==
  IF \E i \in DOMAIN s : s[i] = g
  THEN RemoveAt(s, CHOOSE i \in DOMAIN s : s[i] = g)
  ELSE s

-----------------------------------------------------------------------------
(* What the open index serves *)

LiveIn(g) == DOMAIN files[g].docs \ stones[g]

LiveInWriter == DOMAIN writer.docs \ writer.del

(* The places of the live copies of a key; search() finds each of them.    *)
FlushedCopies(g, k) ==
  {[gen |-> g, docid |-> d] : d \in {e \in LiveIn(g) : files[g].docs[e].key = k}}

BufferedCopies(k) ==
  {[gen |-> writer.gen, docid |-> d] : d \in {e \in LiveInWriter : writer.docs[e].key = k}}

Copies(k) ==
  (UNION {FlushedCopies(g, k) : g \in Range(manifest.segs)}) \cup BufferedCopies(k)

VersionAt(p) ==
  IF p.gen = writer.gen THEN writer.docs[p.docid].ver ELSE files[p.gen].docs[p.docid].ver

(* A key has one meaning when it has no live copy, or one that the keymap  *)
(* names: get, update and delete by key then act on what search() shows.   *)
Observed ==
  [k \in Keys |->
     IF Copies(k) = {} THEN Absent
     ELSE IF Copies(k) = {keymap[k]} THEN VersionAt(keymap[k])
     ELSE Torn]

-----------------------------------------------------------------------------
(* Control *)

Replaying == replayed > 0

(* The end of a call: the next log record while replaying, else the client *)
Return == IF Replaying THEN "replay" ELSE "ready"

(* What runs next in update_document() / add_document() once the inner     *)
(* add and its auto-flush are over, and after flush().                     *)
AfterAdd   == IF call.op = "update" THEN "logUpdate" ELSE Return
AfterFlush == IF call.op \in {"add", "update"} THEN AfterAdd ELSE Return

(* The step to p.  Arriving at "ready" ends the call or the open(), and    *)
(* the client reads the index.  Every other variable Observed reads must   *)
(* be primed before.                                                       *)
Goto(p) ==
  /\ pc' = p
  /\ IF p = "ready"
     THEN /\ view' = Observed' /\ inflight' = Idle /\ opening' = FALSE
          /\ call' = NoCall /\ job' = NoJob
     ELSE UNCHANGED <<view, inflight, opening, call, job>>

Step(to) == Goto(to) /\ UNCHANGED <<calls, budget>>

(* The step to p of a procedure that changes its own argument.             *)
Enter(p) == pc' = p /\ UNCHANGED <<view, inflight, opening>>

(* A write that fails, once of the MaxFaults times it may.                 *)
Fault(site) ==
  /\ site \in FaultIn /\ faults < MaxFaults
  /\ faults' = faults + 1

-----------------------------------------------------------------------------
(* The client's calls *)

(* A call starts.  A key is only added when the index does not know it     *)
(* (updating is the upsert); without a writer add and update return -1.    *)
Invoke(op, k) ==
  /\ pc = "ready" /\ calls < MaxCalls /\ op \in CallOps
  /\ op = "add" => keymap[k] = NoPlace
  /\ op \in {"add", "update"} => writer.gen # 0
  /\ op = "delete" => keymap[k] # NoPlace
  /\ calls' = calls + 1
  /\ LET v == IF op \in {"add", "update"} THEN calls + 1 ELSE 0 IN
       /\ call' = Call(op, k, v, IF k \in Keys THEN keymap[k] ELSE NoPlace)
       /\ inflight' = [op |-> op, key |-> k, ver |-> v]
  /\ pc' = CASE op \in {"add", "update"} -> "index"
             [] op = "delete"            -> "tombstone"
             [] op = "flush"             -> "flush"
             [] op = "maintain"          -> "maintain"
  /\ UNCHANGED <<disks, memory, job, opening, view, budget>>

CallOnKey == \E op \in {"add", "update", "delete"}, k \in Keys : Invoke(op, k)
CallFlush == Invoke("flush", Absent)
CallMaintain == Invoke("maintain", Absent)

(* compact() takes any distinct open segments, in the order given.         *)
CallCompact ==
  /\ pc = "ready" /\ calls < MaxCalls /\ "compact" \in CallOps
  /\ calls' = calls + 1
  /\ \E S \in SUBSET Range(manifest.segs) \ {{}} :
       \E gens \in SetToSeqs(S) :
         job' = [inputs |-> gens, left |-> gens, out |-> 0, round |-> 0]
  /\ call' = [NoCall EXCEPT !.op = "compact"]
  /\ inflight' = [Idle EXCEPT !.op = "compact"]
  /\ pc' = "takeOutput"
  /\ UNCHANGED <<disks, memory, opening, view, budget>>

-----------------------------------------------------------------------------
(* add_document(), update_document(), delete_document() *)

(* Mutant: the docid is taken one too high.                                *)
IndexDocumentOffByOne ==
  /\ pc = "index"
  /\ writer' = [writer EXCEPT !.docs = Append(@, [key |-> call.key, ver |-> call.ver])]
  /\ keymap' = [keymap EXCEPT ![call.key] =
                  [gen |-> writer.gen, docid |-> Len(writer.docs) + 2]]
  /\ UNCHANGED <<disk, files, logThere, marker, wal>>
  /\ UNCHANGED <<manifest, stones, threshold, replayed, truncPending>>
  /\ Step("logAdd")

(* The writer indexes the document and the keymap moves to the new copy.   *)
IndexDocument ==
  /\ pc = "index"
  /\ writer' = [writer EXCEPT !.docs = Append(@, [key |-> call.key, ver |-> call.ver])]
  /\ keymap' = [keymap EXCEPT ![call.key] =
                  [gen |-> writer.gen, docid |-> Len(writer.docs) + 1]]
  /\ UNCHANGED <<disk, files, logThere, marker, wal>>
  /\ UNCHANGED <<manifest, stones, threshold, replayed, truncPending>>
  /\ Step("logAdd")

(* The 'A' record (an update logs its own), then the auto-flush.           *)
LogAdd ==
  /\ pc = "logAdd"
  /\ wal' = IF Durable /\ ~Replaying /\ call.op = "add"
            THEN Append(wal, [op |-> "add", key |-> call.key, ver |-> call.ver])
            ELSE wal
  /\ UNCHANGED <<disk, files, keymap, logThere, marker, memory>>
  /\ LET full == threshold > 0 /\ Len(writer.docs) >= threshold
         next == IF full THEN "flush" ELSE AfterAdd IN
       Step(next)

LogUpdate ==
  /\ pc = "logUpdate"
  /\ wal' = IF Durable /\ ~Replaying
            THEN Append(wal, [op |-> "update", key |-> call.key, ver |-> call.ver])
            ELSE wal
  /\ UNCHANGED <<disk, files, keymap, logThere, marker, memory>>
  /\ Step("tombstone")

(* Mutant: the bit of a disk segment is set in memory only.                *)
TombstoneUnsaved(p, ok) ==
  /\ ok
  /\ IF p.gen # 0 /\ p.gen = writer.gen
     THEN writer' = [writer EXCEPT !.del = @ \cup {p.docid}] /\ UNCHANGED stones
     ELSE stones' = [stones EXCEPT ![p.gen] = @ \cup {p.docid}] /\ UNCHANGED writer
  /\ UNCHANGED <<files, faults>>

(* tombstone(): a bit in memory for the writer, a saved .del file for a    *)
(* disk segment, an error for a generation that is not open.               *)
Tombstone(p, ok) ==
  IF p.gen # 0 /\ p.gen = writer.gen
  THEN /\ writer' = [writer EXCEPT !.del = @ \cup {p.docid}]
       /\ ok /\ UNCHANGED <<files, stones, faults>>
  ELSE IF p.gen \in Range(manifest.segs)
  THEN LET bits == stones[p.gen] \cup {p.docid} IN
       /\ stones' = [stones EXCEPT ![p.gen] = bits]
       /\ UNCHANGED writer
       /\ \/ ok /\ files' = [files EXCEPT ![p.gen].del = bits] /\ UNCHANGED faults
          \/ ~ok /\ UNCHANGED files /\ Fault("tombstone")
  ELSE ~ok /\ UNCHANGED <<files, stones, writer, faults>>

(* update_document() ignores whether the old copy could be tombstoned.     *)
TombstoneOld ==
  /\ pc = "tombstone" /\ call.op = "update"
  /\ IF call.old = NoPlace THEN UNCHANGED <<files, stones, writer, faults>>
     ELSE \E ok \in BOOLEAN : Tombstone(call.old, ok)
  /\ UNCHANGED <<disk, keymap, logThere, marker, wal>>
  /\ UNCHANGED <<manifest, threshold, replayed, truncPending, calls, exposed, crashes>>
  /\ Goto(Return)

(* delete_document() gives up when the tombstone was not saved.            *)
TombstoneDeleted ==
  /\ pc = "tombstone" /\ call.op = "delete"
  /\ \E ok \in BOOLEAN :
       /\ Tombstone(call.old, ok)
       /\ UNCHANGED <<disk, keymap, logThere, marker, wal>>
       /\ UNCHANGED <<manifest, threshold, replayed, truncPending, calls, exposed, crashes>>
       /\ Goto(IF ok THEN "unmap" ELSE Return)

Unmap ==
  /\ pc = "unmap"
  /\ keymap' = [keymap EXCEPT ![call.key] = NoPlace]
  /\ UNCHANGED <<disk, files, logThere, marker, wal, memory>>
  /\ Step("logDelete")

(* Mutant: a delete leaves no record.                                      *)
LogDeleteForgotten ==
  /\ pc = "logDelete"
  /\ UNCHANGED <<disks, memory>>
  /\ Step(Return)

LogDelete ==
  /\ pc = "logDelete"
  /\ wal' = IF Durable /\ ~Replaying
            THEN Append(wal, [op |-> "delete", key |-> call.key, ver |-> 0])
            ELSE wal
  /\ UNCHANGED <<disk, files, keymap, logThere, marker, memory>>
  /\ Step(Return)

-----------------------------------------------------------------------------
(* flush() *)

(* Mutant: the result of finish() is ignored, the file may not be there.   *)
WriteSegmentUnchecked ==
  /\ pc = "flush"
  /\ UNCHANGED <<disks, memory>>
  /\ Step(IF writer.docs = <<>> THEN AfterFlush ELSE "register")

(* The segment's files, complete, before anything refers to them.  With    *)
(* nothing indexed (or no writer) there is nothing to do.                  *)
WriteSegment ==
  /\ pc = "flush"
  /\ UNCHANGED <<disk, keymap, logThere, marker, wal, memory>>
  /\ IF writer.docs = <<>>
     THEN UNCHANGED files /\ Step(AfterFlush)
     ELSE /\ files' = Put(files, writer.gen, [docs |-> writer.docs, del |-> writer.del])
          /\ Step("register")

(* The writer is gone, the segment is opened and then listed: durable when *)
(* the manifest is saved, searchable in this session even if it is not.    *)
RegisterSegment ==
  /\ pc = "register"
  /\ writer' = NoWriter
  /\ UNCHANGED <<files, keymap, logThere, marker, wal>>
  /\ UNCHANGED <<threshold, replayed, truncPending, calls, exposed, crashes>>
  /\ \/ /\ UNCHANGED <<disk, manifest, stones>> /\ Fault("openSegment")
        /\ Goto(AfterFlush)
     \/ /\ manifest' = [manifest EXCEPT !.segs = Append(@, writer.gen)]
        /\ stones' = Put(stones, writer.gen, writer.del)
        /\ \/ disk' = manifest' /\ UNCHANGED faults /\ Goto("newWriter")
           \/ UNCHANGED disk /\ Fault("register") /\ Goto(AfterFlush)

(* Mutant: the generation is used before the manifest is saved.            *)
StartNewWriterUnsaved ==
  /\ pc = "newWriter"
  /\ manifest' = [manifest EXCEPT !.gen = @ + 1]
  /\ writer' = [gen |-> manifest.gen, docs |-> <<>>, del |-> {}]
  /\ UNCHANGED <<disks, stones, threshold, replayed, truncPending>>
  /\ Step(IF call.op = "open" THEN "ready" ELSE "truncate")

(* start_new_writer(): the generation is burnt on disk, then used.  In     *)
(* open() it is the last step before the replay.                           *)
StartNewWriter ==
  /\ pc = "newWriter"
  /\ manifest' = [manifest EXCEPT !.gen = @ + 1]
  /\ UNCHANGED <<files, keymap, logThere, marker, wal>>
  /\ UNCHANGED <<stones, threshold, truncPending, calls, exposed, crashes>>
  /\ \/ /\ disk' = manifest' /\ UNCHANGED faults
        /\ writer' = [gen |-> manifest.gen, docs |-> <<>>, del |-> {}]
        /\ LET starting == call.op = "open"
               next == CASE starting /\ Durable      -> "replay"
                         [] starting /\ ~Durable     -> "ready"
                         [] ~starting /\ AutoMaintain -> "maintain"
                         [] OTHER                    -> "truncate" IN
             /\ replayed' = IF next = "replay" THEN 1 ELSE replayed
             /\ Goto(next)
     \/ /\ UNCHANGED <<disk, writer, replayed>> /\ Fault("newWriter")
        /\ IF call.op = "open"
           THEN Goto("down")
           ELSE Goto(AfterFlush)

(* The log is emptied: its records are in the segment.  While the log is   *)
(* being replayed this is put off to the end of the replay.                *)
TruncateWal ==
  /\ pc = "truncate"
  /\ wal' = IF Replaying THEN wal ELSE <<>>
  /\ truncPending' = (truncPending \/ (Replaying /\ Durable))
  /\ UNCHANGED <<disk, files, keymap, logThere, marker>>
  /\ exposed' = (exposed /\ Replaying)
  /\ UNCHANGED <<manifest, stones, writer, threshold, replayed, calls, crashes, faults>>
  /\ Goto(AfterFlush)

-----------------------------------------------------------------------------
(* maintain() and compact() *)

Tombs(g)     == Cardinality(stones[g])
Docs(g)      == Len(files[g].docs)
LiveCount(g) == Docs(g) - Tombs(g)

(* tier_of(): the number of digits of n.                                   *)
Tier(n) ==
  CHOOSE t \in 1 .. n + 1 :
    /\ n < TierBase ^ t
    /\ t = 1 \/ TierBase ^ (t - 1) <= n

SameTier(g) == {h \in Range(manifest.segs) : Tier(LiveCount(h)) = Tier(LiveCount(g))}

(* All the members of the first tier that has merge_factor of them.        *)
TierCandidates ==
  LET crowded == {g \in Range(manifest.segs) : Cardinality(SameTier(g)) >= MergeFactor} IN
  UNION {SameTier(g) : g \in {h \in crowded : \A c \in crowded : Position(h) <= Position(c)}}

OverDeleted(g) == Docs(g) > 0 /\ Tombs(g) * RatioDen > RatioNum * Docs(g)

(* Mutant: over-deleted segments are left alone.                           *)
CandidatesByTierOnly == TierCandidates

Candidates == TierCandidates \cup {g \in Range(manifest.segs) : OverDeleted(g)}

(* They are merged in list order, those of the tier first.                 *)
Rank(g) == Position(g) + (IF g \in TierCandidates THEN 0 ELSE Len(manifest.segs))

Ranked(gens) == \A i, j \in DOMAIN gens : i < j => Rank(gens[i]) < Rank(gens[j])

(* maintain() is over: flush() goes on, or the client's call returns.      *)
EndMaintain ==
  IF call.op = "maintain" THEN Goto(Return)
  ELSE Enter("truncate") /\ job' = NoJob /\ UNCHANGED call

(* One iteration of maintain(): merge the candidates, or stop.             *)
Maintain ==
  /\ pc = "maintain"
  /\ UNCHANGED <<disks, memory, calls, budget>>
  /\ \/ /\ job.round < MaintainCap /\ Candidates # {}
        /\ \E gens \in SetToSeqs(Candidates) :
             /\ Ranked(gens)
             /\ job' = [inputs |-> gens, left |-> gens, out |-> 0, round |-> job.round + 1]
        /\ Enter("takeOutput") /\ UNCHANGED call
     \/ (job.round >= MaintainCap \/ Candidates = {}) /\ EndMaintain

(* compact() succeeded: maintain() looks again.                            *)
AfterCompact == IF call.op = "compact" THEN Return ELSE "maintain"

(* compact() failed, and with it maintain(), which flush() ignores.        *)
CompactFailed == IF call.op \in {"compact", "maintain"} THEN Return ELSE "truncate"

TakeOutput ==
  /\ pc = "takeOutput"
  /\ manifest' = [manifest EXCEPT !.gen = @ + 1]
  /\ UNCHANGED <<files, keymap, logThere, marker, wal>>
  /\ UNCHANGED <<stones, writer, threshold, replayed, truncPending, calls, exposed, crashes>>
  /\ \/ /\ disk' = manifest' /\ UNCHANGED faults
        /\ job' = [job EXCEPT !.out = manifest.gen]
        /\ Enter("merge") /\ UNCHANGED call
     \/ /\ UNCHANGED disk /\ Fault("takeOutput")
        /\ Goto(CompactFailed)

(* The live documents of a segment in docid order: those of the inputs, in *)
(* the order given, are numbered densely in the output.                    *)
LiveDocs(g) ==
  LET ids == CHOOSE s \in SetToSeqs(LiveIn(g)) : \A i, j \in DOMAIN s : i < j => s[i] < s[j] IN
  [n \in DOMAIN ids |-> files[g].docs[ids[n]]]

(* Mutant: the merge does not look at the tombstones.                      *)
MergedWithDead(gens) == FlattenSeq([i \in DOMAIN gens |-> files[gens[i]].docs])

Merged(gens) == FlattenSeq([i \in DOMAIN gens |-> LiveDocs(gens[i])])

Merge ==
  /\ pc = "merge"
  /\ UNCHANGED <<disk, keymap, logThere, marker, wal, memory, calls, exposed, crashes>>
  /\ \/ /\ files' = Put(files, job.out, [docs |-> Merged(job.inputs), del |-> {}])
        /\ UNCHANGED faults /\ Goto("mark")
     \/ UNCHANGED files /\ Fault("merge") /\ Goto(CompactFailed)

(* From here on a crash makes the next open() rebuild the keymap.          *)
Mark ==
  /\ pc = "mark"
  /\ UNCHANGED <<disk, keymap, logThere, wal, memory, calls, exposed, crashes>>
  /\ \/ marker' = TRUE /\ UNCHANGED <<files, faults>> /\ Goto("repoint")
     \/ /\ files' = Restrict(files, DOMAIN files \ {job.out}) /\ UNCHANGED marker
        /\ Fault("mark") /\ Goto(CompactFailed)

(* The output is opened and every key of it repointed, unconditionally, in *)
(* docid order; an output that does not open is given up.                  *)
Repoint ==
  /\ pc = "repoint"
  /\ UNCHANGED <<disk, logThere, wal, manifest, writer, threshold, replayed, truncPending>>
  /\ UNCHANGED <<calls, exposed, crashes>>
  /\ \/ /\ keymap' = [k \in Keys |->
             LET here == {d \in DOMAIN files[job.out].docs : files[job.out].docs[d].key = k} IN
             IF here = {} THEN keymap[k] ELSE [gen |-> job.out, docid |-> Max(here)]]
        /\ stones' = Put(stones, job.out, {})
        /\ UNCHANGED <<files, marker, faults>> /\ Goto("unlist")
     \/ /\ files' = Restrict(files, DOMAIN files \ {job.out}) /\ marker' = FALSE
        /\ UNCHANGED <<keymap, stones>> /\ Fault("openOutput") /\ Goto(CompactFailed)

(* Mutant: the loop over the inputs starts again after each removal.       *)
UnlistRestarted ==
  /\ pc = "unlist" /\ job.left # <<>>
  /\ manifest' = [manifest EXCEPT !.segs = Without(@, Head(job.left))]
  /\ job' = [job EXCEPT !.left = @]
  /\ Enter("unlist")
  /\ UNCHANGED <<disks, stones, writer, threshold, replayed, truncPending, call, calls, budget>>

(* The inputs leave the list one by one, then the output joins it.         *)
Unlist ==
  /\ pc = "unlist" /\ job.left # <<>>
  /\ manifest' = [manifest EXCEPT !.segs = Without(@, Head(job.left))]
  /\ job' = [job EXCEPT !.left = Tail(@)]
  /\ Enter("unlist")
  /\ UNCHANGED <<disks, stones, writer, threshold, replayed, truncPending, call, calls, budget>>

(* The swap.  If the manifest cannot be saved the session goes on with the *)
(* output, the inputs' files and the marker stay for the next open().      *)
Swap ==
  /\ pc = "unlist" /\ job.left = <<>>
  /\ manifest' = [manifest EXCEPT !.segs = Append(@, job.out)]
  /\ stones' = Restrict(stones, DOMAIN stones \ Range(job.inputs))
  /\ UNCHANGED <<files, keymap, logThere, marker, wal>>
  /\ UNCHANGED <<writer, threshold, replayed, truncPending, calls, exposed, crashes>>
  /\ \/ /\ disk' = manifest' /\ UNCHANGED faults /\ Goto("dropInputs")
     \/ /\ UNCHANGED disk /\ Fault("swap") /\ Goto(CompactFailed)

DropInputs ==
  /\ pc = "dropInputs"
  /\ files' = Restrict(files, DOMAIN files \ Range(job.inputs))
  /\ UNCHANGED <<disk, keymap, logThere, marker, wal, memory>>
  /\ Step("unmark")

Unmark ==
  /\ pc = "unmark"
  /\ marker' = FALSE
  /\ UNCHANGED <<disk, files, keymap, logThere, wal, memory>>
  /\ Step(AfterCompact)

-----------------------------------------------------------------------------
(* open() *)

(* The manifest and the keymap log are loaded and the listed segments      *)
(* opened (open() fails when one is missing).  A marker, or no log beside  *)
(* segments, says that the keymap has to be rebuilt; loading creates the   *)
(* log either way.                                                         *)
Open ==
  /\ pc = "down"
  /\ Range(disk.segs) \subseteq DOMAIN files
  /\ manifest' = disk
  /\ stones' = [g \in Range(disk.segs) |-> files[g].del]
  /\ keymap' = IF marker \/ ~logThere THEN [k \in Keys |-> NoPlace] ELSE keymap
  /\ logThere' = TRUE
  /\ threshold' \in Thresholds
  /\ call' = [NoCall EXCEPT !.op = IF marker \/ (~logThere /\ disk.segs # <<>>)
                                   THEN "rebuild" ELSE "open"]
  /\ Enter("sweep")
  /\ UNCHANGED <<disk, files, marker, wal, writer, replayed, truncPending, job, calls, budget>>

(* The orphan sweep: files of generations the manifest does not list.      *)
Sweep ==
  /\ pc = "sweep"
  /\ files' = Restrict(files, DOMAIN files \cap Range(manifest.segs))
  /\ UNCHANGED <<disk, keymap, logThere, marker, wal, memory>>
  /\ Step(IF call.op = "rebuild" THEN "rebuild" ELSE "retain")

(* retain_generations(): entries of generations that were never listed.    *)
RetainGenerations ==
  /\ pc = "retain"
  /\ keymap' = [k \in Keys |-> IF keymap[k].gen \in Range(manifest.segs)
                               THEN keymap[k] ELSE NoPlace]
  /\ UNCHANGED <<disk, files, logThere, marker, wal, memory>>
  /\ Step("newWriter")

(* rebuild_keymap() scans the segments in list order: of several live      *)
(* copies of a key the last one wins and the others get a tombstone.       *)
Before(p, q) ==
  \/ Position(p.gen) < Position(q.gen)
  \/ p.gen = q.gen /\ p.docid < q.docid

LastCopies ==
  {last \in [Keys -> (UNION {Copies(k) : k \in Keys}) \cup {NoPlace}] :
     \A k \in Keys :
       IF Copies(k) = {} THEN last[k] = NoPlace
       ELSE last[k] \in Copies(k) /\ \A p \in Copies(k) : p = last[k] \/ Before(p, last[k])}

(* Mutant: the scan repoints the key and leaves the older copy live.       *)
SupersededForgotten(g, last) == {}

Superseded(g, last) ==
  {p.docid : p \in {q \in UNION {Copies(k) \ {last[k]} : k \in Keys} : q.gen = g}}

RebuildKeymap ==
  /\ pc = "rebuild"
  /\ \E last \in LastCopies :
       /\ keymap' = last
       /\ stones' = [g \in DOMAIN stones |-> stones[g] \cup Superseded(g, last)]
  /\ UNCHANGED <<disk, files, logThere, marker, wal>>
  /\ UNCHANGED <<manifest, writer, threshold, replayed, truncPending>>
  /\ Step("saveStones")

(* Each tombstone file the scan dirtied is saved, failures passed over;    *)
(* open() then fails, with the marker in place, when there was one.        *)
SaveStones ==
  /\ pc = "saveStones"
  /\ \E unsaved \in SUBSET {g \in DOMAIN files : stones[g] # files[g].del} :
       /\ files' = [g \in DOMAIN files |->
                      IF g \in unsaved THEN files[g] ELSE [files[g] EXCEPT !.del = stones[g]]]
       /\ IF unsaved = {} THEN UNCHANGED faults /\ Goto("openUnmark")
          ELSE Fault("saveStones") /\ Goto("down")
  /\ UNCHANGED <<disk, keymap, logThere, marker, wal, memory, calls, exposed, crashes>>

OpenUnmark ==
  /\ pc = "openUnmark" /\ marker' = FALSE
  /\ call' = [NoCall EXCEPT !.op = "open"]
  /\ Enter("newWriter")
  /\ UNCHANGED <<disk, files, keymap, logThere, wal, memory, job, calls, budget>>

(* Mutant: a record that cannot be applied is not stepped over.            *)
ReplayRecordStuck ==
  /\ pc = "replay" /\ replayed \in DOMAIN wal
  /\ LET r == wal[replayed]
         add == r.op \in {"add", "update"}
         runs == IF add THEN writer.gen # 0 ELSE keymap[r.key] # NoPlace IN
       /\ replayed' = IF runs THEN replayed + 1 ELSE replayed
       /\ call' = Call(r.op, r.key, r.ver, keymap[r.key])
       /\ Enter(IF ~runs THEN "replay" ELSE IF add THEN "index" ELSE "tombstone")
  /\ UNCHANGED <<disks, manifest, stones, writer, threshold, truncPending, job, calls, budget>>

(* One record of the log, through the public call that wrote it.  What the *)
(* call returns is ignored.                                                *)
ReplayRecord ==
  /\ pc = "replay" /\ replayed \in DOMAIN wal
  /\ replayed' = replayed + 1
  /\ LET r == wal[replayed]
         add == r.op \in {"add", "update"}
         runs == IF add THEN writer.gen # 0 ELSE keymap[r.key] # NoPlace IN
       /\ call' = Call(r.op, r.key, r.ver, keymap[r.key])
       /\ Enter(IF ~runs THEN "replay" ELSE IF add THEN "index" ELSE "tombstone")
  /\ UNCHANGED <<disks, manifest, stones, writer, threshold, truncPending, job, calls, budget>>

(* The end of the log; the truncation a flush put off is made up for.      *)
EndReplay ==
  /\ pc = "replay" /\ replayed > Len(wal)
  /\ wal' = IF truncPending THEN <<>> ELSE wal
  /\ truncPending' = FALSE
  /\ replayed' = 0
  /\ exposed' = (exposed \/ truncPending)
  /\ UNCHANGED <<disk, files, keymap, logThere, marker, manifest, stones, writer, threshold>>
  /\ UNCHANGED <<calls, crashes, faults>>
  /\ Goto("ready")

-----------------------------------------------------------------------------
(* The environment *)

(* The window the process is in, for the runs that leave one of them out:  *)
(*   "flushed"   a segment is listed on disk and the log still holds its   *)
(*               records;                                                  *)
(*   "updating"  an update has indexed the new copy and not yet recorded   *)
(*               it and buried the old one;                                *)
(*   "replaying" one of the two within the replay of the log, or the       *)
(*               rest of a replay in which a flush happened;               *)
(*   "exposed"   after such a replay, until a flush has completed;         *)
(*   "other"     everywhere else.                                          *)
FlushedUnlogged ==
  /\ call.op \in {"add", "flush"}
  /\ pc \in {"newWriter", "maintain", "takeOutput", "merge", "mark", "repoint",
             "unlist", "dropInputs", "unmark", "truncate"}

HalfUpdated == call.op = "update" /\ pc \notin {"index", "replay"}

Window ==
  CASE truncPending \/ (Replaying /\ (FlushedUnlogged \/ HalfUpdated)) -> "replaying"
    [] exposed                       -> "exposed"
    [] FlushedUnlogged /\ ~Replaying -> "flushed"
    [] HalfUpdated /\ ~Replaying     -> "updating"
    [] OTHER                         -> "other"

(* The process dies, or the index is closed without a flush: the same.     *)
Crash ==
  /\ pc # "down" /\ crashes < MaxCrashes /\ Window \in CrashIn
  /\ crashes' = crashes + 1
  /\ manifest' = [gen |-> 0, segs |-> <<>>] /\ stones' = [g \in {} |-> {}]
  /\ writer' = NoWriter /\ threshold' = 0 /\ replayed' = 0 /\ truncPending' = FALSE
  /\ pc' = "down" /\ call' = NoCall /\ job' = NoJob /\ opening' = TRUE
  /\ UNCHANGED <<disks, inflight, view, calls, exposed, faults>>

(* keymap.log is lost while the index is down; the segments can replace it.*)
LoseKeymapLog ==
  /\ pc = "down" /\ logThere /\ Fault("keymapLog")
  /\ logThere' = FALSE
  /\ keymap' = [k \in Keys |-> NoPlace]
  /\ UNCHANGED <<disk, files, marker, wal, memory, control, client, exposed, crashes>>

-----------------------------------------------------------------------------
Init ==
  /\ disk = [gen |-> 1, segs |-> <<>>]
  /\ files = [g \in {} |-> {}]
  /\ keymap = [k \in Keys |-> NoPlace]
  /\ logThere = FALSE /\ marker = FALSE /\ wal = <<>>
  /\ manifest = [gen |-> 0, segs |-> <<>>] /\ stones = [g \in {} |-> {}]
  /\ writer = NoWriter /\ threshold = 0 /\ replayed = 0 /\ truncPending = FALSE
  /\ pc = "down" /\ call = NoCall /\ job = NoJob
  /\ inflight = Idle /\ opening = TRUE /\ view = [k \in Keys |-> Absent]
  /\ exposed = FALSE /\ calls = 0 /\ crashes = 0 /\ faults = 0

Updating   == IndexDocument \/ LogAdd \/ LogUpdate \/ TombstoneOld
Deleting   == TombstoneDeleted \/ Unmap \/ LogDelete
Flushing   == WriteSegment \/ RegisterSegment \/ StartNewWriter \/ TruncateWal
Compacting == Maintain \/ TakeOutput \/ Merge \/ Mark \/ Repoint \/ Unlist \/ Swap
              \/ DropInputs \/ Unmark
Opening    == Open \/ Sweep \/ RetainGenerations \/ RebuildKeymap \/ SaveStones
              \/ OpenUnmark \/ ReplayRecord \/ EndReplay

(* The steps of the code, as against the client's and the environment's.   *)
Work == Updating \/ Deleting \/ Flushing \/ Compacting \/ Opening

Next ==
  \/ CallOnKey \/ CallFlush \/ CallMaintain \/ CallCompact
  \/ Work
  \/ Crash \/ LoseKeymapLog

Spec == Init /\ [][Next]_vars

-----------------------------------------------------------------------------
(* Types *)

PC == {"down", "sweep", "retain", "rebuild", "saveStones", "openUnmark", "newWriter",
       "replay", "ready", "index", "logAdd", "logUpdate", "tombstone", "unmap",
       "logDelete", "flush", "register", "truncate", "maintain", "takeOutput", "merge",
       "mark", "repoint", "unlist", "dropInputs", "unmark"}

Catalogue == [gen : Nat, segs : Seq(Nat)]
Ops == {"add", "update", "delete", "flush", "maintain", "compact"}
Record == [op : {"add", "update", "delete"}, key : Keys, ver : Nat]

(* The part of the type invariant about generations and control.           *)
CatalogueTypeOK ==
  /\ disk \in Catalogue /\ manifest \in Catalogue
  /\ DOMAIN files \subseteq Nat /\ DOMAIN stones \subseteq Nat
  /\ writer.gen \in Nat
  /\ DOMAIN keymap = Keys /\ \A k \in Keys : keymap[k].gen \in Nat
  /\ logThere \in BOOLEAN /\ marker \in BOOLEAN /\ truncPending \in BOOLEAN
  /\ pc \in PC
  /\ call.op \in Ops \cup {"none", "open", "rebuild"} /\ call.key \in Keys \cup {Absent}
  /\ call.ver \in Nat
  /\ job \in [inputs : Seq(Nat), left : Seq(Nat), out : Nat, round : Nat]
  /\ inflight \in [op : Ops \cup {"none"}, key : Keys \cup {Absent}, ver : Nat]
  /\ opening \in BOOLEAN
  /\ threshold \in Nat /\ replayed \in Nat
  /\ exposed \in BOOLEAN /\ calls \in Nat /\ crashes \in Nat /\ faults \in Nat

(* The part about documents, tombstones and log records.                   *)
ContentTypeOK ==
  /\ \A g \in DOMAIN files : files[g].docs \in Seq(Doc) /\ files[g].del \subseteq Nat
  /\ \A g \in DOMAIN stones : stones[g] \subseteq DOMAIN files[g].docs
  /\ writer.docs \in Seq(Doc) /\ writer.del \subseteq DOMAIN writer.docs
  /\ wal \in Seq(Record)
  /\ keymap \in [Keys -> Place] /\ call.old \in Place
  /\ view \in [Keys -> Nat \cup {Absent, Torn}]

TypeOK == CatalogueTypeOK /\ ContentTypeOK

-----------------------------------------------------------------------------
(* Safety *)

(* The saved manifest never names a segment whose files are not complete   *)
(* on disk: flush() and compact() write before they list and delete after  *)
(* they have unlisted, so that open() never fails.                         *)
ManifestComplete == Range(disk.segs) \subseteq DOMAIN files

(* A generation is burnt in the saved manifest before anything carries its *)
(* number: the next one is unused by every file, list and keymap entry, so *)
(* a stale keymap entry never comes to name a document of a new segment.   *)
GenerationsBurnt ==
  /\ \A g \in DOMAIN files \cup Range(disk.segs) : g < disk.gen
  /\ \A k \in Keys : keymap[k].gen < disk.gen
  /\ writer.gen < disk.gen

(* What the merge writes was current: each document of the output is the   *)
(* copy the keymap named, so that repointing every key is not a change of  *)
(* what the key means (compact(), step 4).                                 *)
MergedDocsAreCurrent ==
  pc = "repoint" =>
    \A d \in DOMAIN files[job.out].docs :
      LET k == files[job.out].docs[d].key IN
        /\ keymap[k].gen \in Range(job.inputs)
        /\ VersionAt(keymap[k]) = files[job.out].docs[d].ver

(* A caller never meets a key with two live copies, or with a live copy    *)
(* that update and delete by key cannot reach.                             *)
OneCopyPerKey == \A k \in Keys : view[k] # Torn

(* In durable mode the index implements the abstract store, through        *)
(* crashes: a call that has returned stays in effect, and the one a crash  *)
(* interrupts is either lost or complete.                                  *)
Store == INSTANCE DurableStore
StoreSpec == Store!Spec

(* A crash may cost a key its document (in relaxed mode, one that was not  *)
(* flushed) but never brings back an older version or a deleted document:  *)
(* a key keeps its version, loses it, or takes that of the call in flight. *)
NoResurrection ==
  [][\A k \in Keys :
       view'[k] \in {view[k], Absent} \cup {v \in {inflight.ver} : inflight.key = k}]_vars

(* rebuild_keymap() leaves one live copy per key, the one the keymap names, *)
(* whatever duplicates the segments held, and has saved its tombstones.    *)
RebuildLeavesOneCopy ==
  pc = "openUnmark" =>
    /\ \A k \in Keys : Observed[k] # Torn
    /\ \A g \in DOMAIN stones : files[g].del = stones[g]

(* maintain() that reports success within its cap left nothing to do: no   *)
(* tier holds merge_factor segments and none is over-deleted.              *)
Quiescent ==
  \A g \in Range(manifest.segs) :
    ~OverDeleted(g) /\ Cardinality(SameTier(g)) < MergeFactor

MaintainQuiesces ==
  [][(pc = "maintain" /\ pc' = "ready" /\ job.round < MaintainCap) => Quiescent]_vars

-----------------------------------------------------------------------------
(* Liveness.  One thread runs a call to its end: nothing else can keep it  *)
(* from its next step.                                                     *)

FairSpec == Spec /\ WF_vars(Work)

(* Every open(), replay and all, returns: the index is ready again.        *)
OpenCompletes == opening ~> ~opening

(* Every call, the flushes and merges it sets off included, returns.       *)
CallsReturn == (inflight # Idle) ~> (inflight = Idle)
=============================================================================
