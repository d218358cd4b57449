---------------------------- MODULE SpoorReindex ----------------------------
(***************************************************************************)
(* spoor keeps a worktree searchable: a search first compares the worktree *)
(* with the manifest of the last run and, if they differ, reindexes        *)
(* (spoor/src/query.js, reindex.js, index.js, manifest.js).  The index,    *)
(* the sidecar that says which chunks a file has in it, and the manifest   *)
(* are saved one after the other, without a common transaction.            *)
(*                                                                         *)
(* A request can end early in any step: an embedding request fails, a file *)
(* has gone, the process is killed.  Files change while it runs.           *)
(*                                                                         *)
(* One request runs at a time: that is assumed of the client.  Nothing in  *)
(* mcp.js keeps a second call from starting at an await of the first, and  *)
(* what two requests in one index do to each other is not represented.     *)
(***************************************************************************)
EXTENDS Integers, Sequences, FiniteSets, SequencesExt

CONSTANTS
  Files, Spans,     \* paths of the worktree; line ranges of chunks
  Shapes,           \* the spans a file can be cut into, in order
  Models, DimOf,    \* embedding models, the dimension of each
  FirstModel,       \* the one configured first
  None,             \* no file, no chunk, no model
  MaxChanges,       \* bound: edits and reconfigurations
  MaxCuts           \* bound: requests cut short

ASSUME SpoorAssumption ==
  /\ Shapes \subseteq Seq(Spans) /\ DimOf \in [Models -> Nat \ {0}]
  /\ FirstModel \in Models /\ MaxChanges \in Nat /\ MaxCuts \in Nat

VARIABLES
  \* ---- the worktree and the environment
  tree,       \* tree[f]: what the file holds
  model,      \* cfg.embedModel
  \* ---- on disk, in the index directory
  mapped,     \* mapped[k]: the live chunk the engine finds by key k
  ghosts,     \* live chunks that no key leads to any more
  dim,        \* the dimension the engine was created with, 0 before
  sidecar,    \* spoor-chunks.json: the spans of each file; empty if absent or cut
  saved,      \* spoor-manifest.json; empty if absent or cut
  \* ---- the request that runs
  pc,
  run,        \* what it has in memory
  \* ---- history and bounds
  hurt,       \* something happened that a later run cannot clean up
  touched,    \* files whose chunks were removed, or are not those of the content
              \* that was hashed, though a manifest vouches or will vouch for them
  back,       \* files that hold what they held before
  edits, cuts, models

disk   == <<mapped, ghosts, dim, sidecar, saved>>
outer  == <<tree, model, edits, models>>
vars   == <<outer, disk, pc, run, hurt, touched, back, cuts>>

-----------------------------------------------------------------------------
(* Values *)

Keys  == Files \X Spans
Chunk == [file : Files, span : Spans, ver : Nat, model : Models]

NoFiles   == [f \in Files |-> None]
NoSpans   == [f \in Files |-> {}]
NoChunks  == [k \in Keys |-> None]
emptyManifest == [files |-> NoFiles, meta |-> None]

ASSUME NoneAssumption == None \notin Chunk

NoRun == [search |-> FALSE, want |-> None, cur |-> NoFiles, remove |-> {}, dirty |-> {},
          rest |-> <<>>, keys |-> NoSpans, writer |-> NoChunks, extra |-> {},
          \* history: what the engine has flushed on its own; the files that will be
          \* touched when the manifest is saved; those edited since the search began
          flushed |-> FALSE, amiss |-> {}, moved |-> {}]

(* The chunks a file is cut into, in order and as a set.                   *)
Cut(f, content, m) ==
  [i \in DOMAIN content.shape |->
     [file |-> f, span |-> content.shape[i], ver |-> content.ver, model |-> m]]

ChunksOf(f, content, m) == Range(Cut(f, content, m))

KeyOf(c) == <<c.file, c.span>>

Live == ghosts \cup ({mapped[k] : k \in Keys} \ {None})

Added(prev, cur)   == {f \in Files : cur[f] # None /\ prev[f] = None}
(* Mutant: a file whose content changed is taken for the one it was.       *)
ChangedNever(prev, cur) == {}
Changed(prev, cur) == {f \in Files : cur[f] # None /\ prev[f] # None /\ prev[f] # cur[f]}
Deleted(prev, cur) == {f \in Files : cur[f] = None /\ prev[f] # None}

isStale == Added(saved.files, tree) \cup Changed(saved.files, tree) \cup Deleted(saved.files, tree) # {}

isCompatible(meta, want) == meta = want

-----------------------------------------------------------------------------
Known(f) == {saved.files[f], run.cur[f]}

Contents(f) == {None} \cup Known(f) \cup [ver : {edits + 1}, shape : Shapes]

(* The worktree changes under the request.  A file may return to what the  *)
(* manifest or the request knows of it; a return to any other content is   *)
(* like a new one, since hashes are compared with these only.              *)

Edit(f, content) ==
  /\ edits + models < MaxChanges
  /\ content # tree[f]
  /\ edits' = edits + 1
  /\ tree' = [tree EXCEPT ![f] = content]
  /\ back' = IF content \in Known(f) THEN back \cup {f} ELSE back \ {f}
  /\ run' = IF run.search THEN [run EXCEPT !.moved = @ \cup {f}] ELSE run
  /\ UNCHANGED <<model, models, disk, pc, hurt, touched, cuts>>

(* The environment variables are read when the process starts.             *)
Reconfigure(m) ==
  /\ pc = "idle" /\ edits + models < MaxChanges /\ m # model
  /\ model' = m /\ models' = models + 1
  /\ UNCHANGED <<tree, edits, disk, pc, run, hurt, touched, back, cuts>>

-----------------------------------------------------------------------------
(* A request: index, or a search, which reindexes when the tree is stale   *)

CallIndex ==
  /\ pc = "idle"
  /\ pc' = "scan" /\ run' = NoRun
  /\ UNCHANGED <<outer, disk, hurt, touched, back, cuts>>

CallSearch ==
  /\ pc = "idle"
  /\ pc' = IF isStale THEN "scan" ELSE "serve"
  /\ run' = [NoRun EXCEPT !.search = TRUE]
  /\ UNCHANGED <<outer, disk, hurt, touched, back, cuts>>

(* The tree is hashed, then the manifest read and compared.  A manifest of *)
(* another model counts as none.                                           *)
ScanAndDiff ==
  /\ pc = "scan"
  /\ LET full == ~isCompatible(saved.meta, model)
         prev == IF full THEN NoFiles ELSE saved.files IN
       /\ run' = [run EXCEPT !.want = model, !.cur = tree,
                    !.remove = Deleted(prev, tree) \cup Changed(prev, tree),
                    !.dirty  = Added(prev, tree) \cup Changed(prev, tree),
                    !.amiss  = touched \ (Added(prev, tree) \cup Changed(prev, tree)
                                            \cup Deleted(prev, tree))]
       /\ hurt' = (hurt \/ (full /\ saved.files # NoFiles))
  /\ pc' = "open"
  /\ UNCHANGED <<outer, disk, touched, back, cuts>>

(* The engine refuses vectors of another dimension than it was created for. *)
OpenRefused ==
  /\ pc = "open" /\ dim \notin {0, DimOf[run.want]}
  /\ pc' = "idle" /\ run' = NoRun
  /\ UNCHANGED <<outer, disk, hurt, touched, back, cuts>>

(* Mutant: the dimension of the existing index is not compared.            *)
openAnyDim ==
  /\ pc = "open"
  /\ dim' = IF dim = 0 THEN DimOf[run.want] ELSE dim
  /\ run' = [run EXCEPT !.keys = sidecar]
  /\ pc' = "remove"
  /\ UNCHANGED <<outer, mapped, ghosts, sidecar, saved, hurt, touched, back, cuts>>

open ==
  /\ pc = "open" /\ dim \in {0, DimOf[run.want]}
  /\ dim' = DimOf[run.want]
  /\ run' = [run EXCEPT !.keys = sidecar]
  /\ pc' = "remove"
  /\ UNCHANGED <<outer, mapped, ghosts, sidecar, saved, hurt, touched, back, cuts>>

(* Mutant: only what has gone is removed, a changed file is appended.      *)
removePathDeletedOnly(f) ==
  /\ pc = "remove" /\ f \in run.remove
  /\ IF f \in run.dirty THEN UNCHANGED mapped
     ELSE mapped' = [k \in Keys |-> IF k[1] = f /\ k[2] \in run.keys[f] THEN None ELSE mapped[k]]
  /\ run' = [run EXCEPT !.remove = @ \ {f}, !.keys[f] = {}]
  /\ touched' = touched \cup {f}
  /\ UNCHANGED <<outer, ghosts, dim, sidecar, saved, pc, hurt, back, cuts>>

(* The chunks the sidecar knows of are deleted, at once on disk; a key the *)
(* engine does not know is passed over.                                    *)
removePath(f) ==
  /\ pc = "remove" /\ f \in run.remove
  /\ mapped' = [k \in Keys |-> IF k[1] = f /\ k[2] \in run.keys[f] THEN None ELSE mapped[k]]
  /\ run' = [run EXCEPT !.remove = @ \ {f}, !.keys[f] = {}]
  /\ touched' = touched \cup {f}
  /\ UNCHANGED <<outer, ghosts, dim, sidecar, saved, pc, hurt, back, cuts>>

Removed ==
  /\ pc = "remove" /\ run.remove = {}
  /\ pc' = "upsert"
  /\ UNCHANGED <<outer, disk, run, hurt, touched, back, cuts>>

(* Mutant: a file without chunks is looked at again and again.             *)
ReadFileStuck(f) ==
  /\ pc = "upsert" /\ run.rest = <<>> /\ f \in run.dirty /\ tree[f] # None
  /\ run' = [run EXCEPT !.dirty = IF tree[f].shape = <<>> THEN @ ELSE @ \ {f},
                         !.rest = Cut(f, tree[f], run.want),
                         !.amiss = IF tree[f] = run.cur[f] THEN @ ELSE @ \cup {f}]
  /\ hurt' = (hurt \/ ~IsInjective(tree[f].shape))
  /\ UNCHANGED <<outer, disk, pc, touched, back, cuts>>

(* The file is read now, whatever was hashed before, and its chunks are    *)
(* embedded.                                                               *)
ReadFile(f) ==
  /\ pc = "upsert" /\ run.rest = <<>> /\ f \in run.dirty /\ tree[f] # None
  /\ run' = [run EXCEPT !.dirty = @ \ {f}, !.rest = Cut(f, tree[f], run.want),
                         !.amiss = IF tree[f] = run.cur[f] THEN @ ELSE @ \cup {f}]
  /\ hurt' = (hurt \/ ~IsInjective(tree[f].shape))
  /\ UNCHANGED <<outer, disk, pc, touched, back, cuts>>

(* The engine's flush() is atomic: its manifest lists the segment or not.  *)
Flushed(writer, extra, onDisk) ==
  /\ mapped' = [k \in Keys |-> IF writer[k] # None THEN writer[k] ELSE onDisk[k]]
  /\ ghosts' = ghosts \cup extra

(* addDocument() takes the key over from the chunk that had it, on disk or *)
(* in the memory segment, and that chunk stays live.  The memory segment   *)
(* is flushed at once when it has grown too large.                         *)
upsert ==
  /\ pc = "upsert" /\ run.rest # <<>>
  /\ LET c == Head(run.rest)
         k == KeyOf(c)
         writer == [run.writer EXCEPT ![k] = c]
         extra  == run.extra \cup ({run.writer[k]} \ {None})
         next   == [run EXCEPT !.rest = Tail(@), !.keys[c.file] = @ \cup {c.span}] IN
       \/ /\ run' = [next EXCEPT !.writer = writer, !.extra = extra]
          /\ mapped' = [mapped EXCEPT ![k] = None]
          /\ ghosts' = ghosts \cup ({mapped[k]} \ {None})
       \/ /\ run' = [next EXCEPT !.writer = NoChunks, !.extra = {}, !.flushed = TRUE]
          /\ Flushed(writer, extra \cup ({mapped[k]} \ {None}), mapped)
  /\ UNCHANGED <<outer, dim, sidecar, saved, pc, hurt, touched, back, cuts>>

(* A file that has gone since the scan: readFile() throws.                 *)
ReadFails ==
  /\ pc = "upsert" /\ run.rest = <<>> /\ \E f \in run.dirty : tree[f] = None
  /\ hurt' = (hurt \/ run.flushed)
  /\ pc' = "idle" /\ run' = NoRun
  /\ UNCHANGED <<outer, disk, touched, back, cuts>>

flush ==
  /\ pc = "upsert" /\ run.dirty = {} /\ run.rest = <<>>
  /\ Flushed(run.writer, run.extra, mapped)
  /\ run' = [run EXCEPT !.writer = NoChunks, !.extra = {}]
  /\ pc' = "truncateSidecar"
  /\ UNCHANGED <<outer, dim, sidecar, saved, hurt, touched, back, cuts>>

(* writeFile() empties the file before it writes.                          *)
TruncateSidecar ==
  /\ pc = "truncateSidecar"
  /\ sidecar' = NoSpans /\ pc' = "writeSidecar"
  /\ UNCHANGED <<outer, mapped, ghosts, dim, saved, run, hurt, touched, back, cuts>>

saveSidecar ==
  /\ pc = "writeSidecar"
  /\ sidecar' = run.keys /\ pc' = "truncateManifest"
  /\ UNCHANGED <<outer, mapped, ghosts, dim, saved, run, hurt, touched, back, cuts>>

TruncateManifest ==
  /\ pc = "truncateManifest"
  /\ saved' = emptyManifest /\ pc' = "writeManifest"
  /\ UNCHANGED <<outer, mapped, ghosts, dim, sidecar, run, hurt, touched, back, cuts>>

(* Mutant: the manifest has the tree as it is now, not as it was hashed.   *)
saveManifestOfNow ==
  /\ pc = "writeManifest"
  /\ saved' = [files |-> tree, meta |-> run.want]
  /\ touched' = run.amiss
  /\ \/ run.search /\ pc' = "serve" /\ UNCHANGED run
     \/ ~run.search /\ pc' = "idle" /\ run' = NoRun
  /\ UNCHANGED <<outer, mapped, ghosts, dim, sidecar, hurt, back, cuts>>

(* The hashes saved are those of the scan.                                 *)
saveManifest ==
  /\ pc = "writeManifest"
  /\ saved' = [files |-> run.cur, meta |-> run.want]
  /\ touched' = run.amiss
  /\ \/ run.search /\ pc' = "serve" /\ UNCHANGED run
     \/ ~run.search /\ pc' = "idle" /\ run' = NoRun
  /\ UNCHANGED <<outer, mapped, ghosts, dim, sidecar, hurt, back, cuts>>

(* The search opens the index of its own and looks through all live chunks *)
(* (or throws, when the tree is empty and there is no manifest yet).       *)
querySearch ==
  /\ pc = "serve"
  /\ pc' = "idle" /\ run' = NoRun
  /\ UNCHANGED <<outer, disk, hurt, touched, back, cuts>>

(* The request ends in the middle.  Once the engine has flushed, on its    *)
(* own or at the end, the sidecar and the manifest are those of another    *)
(* index.                                                                  *)
CutShort ==
  /\ pc # "idle" /\ cuts < MaxCuts
  /\ cuts' = cuts + 1
  /\ hurt' = (hurt \/ (pc = "upsert" /\ run.flushed)
                  \/ pc \in {"truncateSidecar", "writeSidecar", "truncateManifest", "writeManifest"})
  /\ pc' = "idle" /\ run' = NoRun
  /\ UNCHANGED <<outer, disk, touched, back>>

-----------------------------------------------------------------------------
Init ==
  /\ tree = NoFiles /\ model = FirstModel
  /\ mapped = NoChunks /\ ghosts = {} /\ dim = 0
  /\ sidecar = NoSpans /\ saved = emptyManifest
  /\ pc = "idle" /\ run = NoRun
  /\ hurt = FALSE /\ touched = {} /\ back = {}
  /\ edits = 0 /\ cuts = 0 /\ models = 0

reindex ==
  \/ ScanAndDiff \/ OpenRefused \/ open \/ Removed
  \/ \E f \in Files : removePath(f) \/ ReadFile(f)
  \/ ReadFails \/ upsert \/ flush
  \/ TruncateSidecar \/ saveSidecar \/ TruncateManifest \/ saveManifest

Environment ==
  \/ \E f \in Files : \E content \in Contents(f) : Edit(f, content)
  \/ \E m \in Models : Reconfigure(m)
  \/ CallIndex \/ CallSearch \/ CutShort

Next == reindex \/ querySearch \/ Environment

Spec == Init /\ [][Next]_vars

(* A request that has begun goes on: its promises settle.                  *)
FairSpec == Spec /\ WF_vars(reindex \/ querySearch)
-----------------------------------------------------------------------------
(* Properties *)

(* The types of the variables; the vectors of the index have its dimension. *)
TypeOK ==
  /\ tree \in [Files -> {None} \cup [ver : 1..MaxChanges, shape : Shapes]]
  /\ model \in Models /\ dim \in {0} \cup Range(DimOf)
  /\ mapped \in [Keys -> Chunk \cup {None}] /\ ghosts \subseteq Chunk
  /\ \A c \in Live : DimOf[c.model] = dim
  /\ sidecar \in [Files -> SUBSET Spans]
  /\ saved.meta \in Models \cup {None}
  /\ hurt \in BOOLEAN /\ touched \subseteq Files /\ back \subseteq Files

(* The code compares hashes, and cannot tell a file that was never changed *)
(* from one that has come back to what the manifest knows after a request  *)
(* has removed its chunks, or has read something else for them.            *)
Mistaken == touched \cap back

(* reindex(): the manifest is saved last, so it never vouches for a file   *)
(* that is not in the index: whenever it says a file is unchanged, all     *)
(* chunks of the file are found, whatever runs were cut short and wherever,*)
(* and whatever was edited in the middle of them, the mistaken files       *)
(* excepted.                                                               *)
FreshIsCovered ==
  \A f \in Files \ Mistaken : tree[f] # None /\ saved.files[f] = tree[f]
     => \A c \in ChunksOf(f, tree[f], model) : \E d \in Live : d = [c EXCEPT !.model = d.model]

(* querySearch() "just works on a fresh worktree": a search looks through  *)
(* every chunk of every file that was not edited since it was called and   *)
(* is not mistaken.                                                        *)
SearchSeesTree ==
  pc = "serve" =>
    \A f \in Files \ (run.moved \cup Mistaken) : tree[f] # None =>
      \A c \in ChunksOf(f, tree[f], model) : \E d \in Live : d = [c EXCEPT !.model = d.model]

(* reindex.js "replace-not-append": between requests the index has nothing *)
(* but the chunks of the files it vouches for, each found by its key, as   *)
(* long as no run ended between a flush of the engine's and the manifest,  *)
(* no model changed over an index, and no file has two chunks on the same  *)
(* lines.  Of requests that failed earlier than that nothing is left but   *)
(* what they have removed, which a mistaken file lacks.                    *)
UnhurtIsExact ==
  pc = "idle" /\ ~hurt =>
    /\ ghosts = {}
    /\ \A f \in Files \ Mistaken : saved.files[f] = tree[f] =>
         {c \in Live : c.file = f} =
           IF tree[f] = None THEN {} ELSE ChunksOf(f, tree[f], saved.meta)

(* Every request ends: again and again there is none under way.            *)
RequestsEnd == []<>(pc = "idle")
=============================================================================
