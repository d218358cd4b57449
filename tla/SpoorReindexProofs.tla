------------------------- MODULE SpoorReindexProofs -------------------------
(***************************************************************************)
(* Whatever is edited while a request runs, and wherever it ends, the      *)
(* manifest never vouches for a chunk that is not in the index, a search   *)
(* sees every file that nobody touches, and a run that ends early enough   *)
(* leaves nothing behind: for any files, shapes and models and any number  *)
(* of edits, broken requests and reconfigurations, as long as one request  *)
(* runs at a time, and but for the files that come back to a content the   *)
(* manifest still has while their chunks are gone.                         *)
(***************************************************************************)
EXTENDS SpoorReindex, SequenceTheorems, TLAPS

-----------------------------------------------------------------------------
(* The inductive invariant *)

(* What a file was found to hold at some time up to now.                   *)
Seen == {None} \cup [ver : 1 .. edits, shape : Shapes]

Run == [search : BOOLEAN, want : Models \cup {None}, cur : [Files -> Seen],
        remove : SUBSET Files, dirty : SUBSET Files, rest : Seq(Chunk),
        keys : [Files -> SUBSET Spans], writer : [Keys -> Chunk \cup {None}],
        extra : SUBSET Chunk, flushed : BOOLEAN, amiss : SUBSET Files, moved : SUBSET Files]

Reading == pc \in {"open", "remove", "upsert"}
Writing == pc \in {"truncateSidecar", "writeSidecar", "truncateManifest", "writeManifest"}

(* Types, and no content is of a later edit than the last.                 *)
Types ==
  /\ edits \in 0 .. MaxChanges /\ models \in Nat
  /\ tree \in [Files -> Seen]
  /\ saved \in [files : [Files -> Seen], meta : Models \cup {None}]
  /\ run \in Run
  /\ pc \in {"idle", "scan", "serve"} \/ Reading \/ Writing
  /\ pc = "idle" => run = NoRun
  /\ pc = "serve" => run.search
  /\ Reading \/ Writing => run.want \in Models
  /\ Writing => run.dirty = {}
  /\ pc # "upsert" => run.rest = <<>>

(* A chunk is mapped by its own file and span.                             *)
Placed(k, c) == c # None => c.file = k[1] /\ c.span = k[2]

(* What waits in the engine's memory is of the run's model, which is the   *)
(* index's dimension, and its keys lead nowhere yet.                       *)
Buffer ==
  /\ Writing \/ pc \in {"remove", "upsert"} => DimOf[run.want] = dim
  /\ \A k \in Keys : Placed(k, mapped[k]) /\ Placed(k, run.writer[k])
  /\ \A k \in Keys : run.writer[k] # None =>
       pc = "upsert" /\ run.writer[k].model = run.want /\ mapped[k] = None
  /\ \A c \in run.extra : pc = "upsert" /\ c.model = run.want

(* A chunk that was read is of the content that was hashed, unless the     *)
(* file is amiss.                                                          *)
Read ==
  /\ Reading => \A f \in run.dirty : run.cur[f] # None
  /\ \A c \in Range(run.rest) :
       /\ c.model = run.want /\ c.file \notin run.dirty /\ run.cur[c.file] # None
       /\ c.file \notin run.amiss =>
            c.ver = run.cur[c.file].ver /\ c.span \in Range(run.cur[c.file].shape)

Buffered == {run.writer[k] : k \in Keys} \ {None}

(* The chunks in S have all lines of the file.                             *)
Holds(S, f, content) ==
  \A s \in Range(content.shape) : \E d \in S : d.file = f /\ d.span = s /\ d.ver = content.ver

(* What the manifest vouches for is there.                                 *)
Kept ==
  \A f \in Files \ touched : saved.files[f] # None => Holds(Live, f, saved.files[f])

(* So it will be with the next manifest: what the scan found is there or   *)
(* about to be.                                                            *)
Coming ==
  Reading \/ Writing => \A f \in Files \ run.amiss : run.cur[f] # None
      => f \in run.dirty \/ Holds(Live \cup Buffered \cup Range(run.rest), f, run.cur[f])

(* A file whose chunks are not those of this content holds it only when it *)
(* has come back to it.                                                    *)
Returned(f, content) == content # None /\ tree[f] = content => f \in back

OnlyBack ==
  /\ \A f \in touched : Returned(f, saved.files[f])
  /\ Reading \/ Writing => \A f \in run.amiss : Returned(f, run.cur[f])

(* Nothing is removed that the manifest vouches for, or that is not to     *)
(* come back.                                                              *)
Removing ==
  pc \in {"open", "remove"} => \A f \in run.remove :
    /\ saved.files[f] # None /\ Returned(f, saved.files[f])
    /\ run.cur[f] # None => f \in run.dirty

(* A search knows which files the scan did not see as they are now.        *)
Watched ==
  run.search /\ (Reading \/ Writing) => \A f \in Files \ run.moved : run.cur[f] = tree[f]

Served ==
  pc = "serve" =>
    \A f \in Files \ (run.moved \cup Mistaken) : tree[f] # None => Holds(Live, f, tree[f])

(* A chunk with key k belongs to a file of fs, its span is in the sidecar  *)
(* keys, and it is of this content unless the file is in T.                *)
Fits(k, c, fs, keys, m, T) ==
  /\ fs[k[1]] # None /\ k[2] \in keys[k[1]]
  /\ k[1] \notin T =>
       c.ver = fs[k[1]].ver /\ c.model = m /\ k[2] \in Range(fs[k[1]].shape)

(* Until a flush the index agrees with the sidecar and the manifest on     *)
(* disk, once all is removed with those to be written.                     *)
Old == ~Writing /\ ~(pc = "upsert" /\ run.flushed)
New == Writing \/ pc = "upsert"

Agreed ==
  /\ ghosts = {} /\ run.extra = {}
  /\ Old => \A k \in Keys : mapped[k] # None =>
       Fits(k, mapped[k], saved.files, sidecar, saved.meta, touched)
  /\ New => \A k \in Keys :
       /\ mapped[k] # None => Fits(k, mapped[k], run.cur, run.keys, run.want, run.amiss)
       /\ run.writer[k] # None => Fits(k, run.writer[k], run.cur, run.keys, run.want, run.amiss)
  /\ pc \in {"truncateManifest", "writeManifest"} => sidecar = run.keys

(* A run first takes out all of what has changed, and then only puts in    *)
(* what was not there.                                                     *)
Clearing ==
  pc \in {"open", "remove"} =>
    /\ saved.meta = run.want \/ saved.files = NoFiles
    /\ \A f \in run.dirty \cup run.remove : run.cur[f] # saved.files[f]
    /\ \A f \in touched \ run.amiss : saved.files[f] # None => run.cur[f] # saved.files[f]
    /\ pc = "open" => \A f \in Files : saved.files[f] \notin {None, run.cur[f]} => f \in run.remove
    /\ pc = "remove" => \A k \in Keys : mapped[k] # None =>
         /\ saved.files[k[1]] = run.cur[k[1]] \/ k[1] \in run.remove
         /\ k[2] \in run.keys[k[1]]

Filling ==
  pc = "upsert" =>
    /\ \A k \in Keys : mapped[k] # None \/ run.writer[k] # None =>
         k[1] \notin run.dirty /\ \A i \in 1 .. Len(run.rest) : KeyOf(run.rest[i]) # k
    /\ \A i, j \in 1 .. Len(run.rest) : KeyOf(run.rest[i]) = KeyOf(run.rest[j]) => i = j

IInv ==
  /\ TypeOK /\ Types /\ Buffer /\ Read
  /\ Kept /\ Coming /\ OnlyBack /\ Removing /\ Watched /\ Served
  /\ ~hurt => Agreed /\ Clearing /\ Filling

-----------------------------------------------------------------------------
(* What there is to find *)

(* A set that holds all lines of a file has all its chunks.                *)
LEMMA Covers ==
  ASSUME NEW S, S \subseteq Chunk, NEW f, NEW content, NEW m, Holds(S, f, content)
  PROVE  \A c \in ChunksOf(f, content, m) : \E d \in S : d = [c EXCEPT !.model = d.model]
<1> SUFFICES ASSUME NEW s \in Range(content.shape)
             PROVE  \E d \in S : d = [[file |-> f, span |-> s, ver |-> content.ver, model |-> m]
                                        EXCEPT !.model = d.model]
  BY DEF ChunksOf, Cut, Range
<1>1. PICK d \in S : d.file = f /\ d.span = s /\ d.ver = content.ver
  BY DEF Holds
<1>2. d = [file |-> f, span |-> s, ver |-> content.ver, model |-> d.model]
  BY <1>1 DEF Chunk
<1> QED BY <1>2

(* What a set holds, a larger one holds.                                   *)
LEMMA HoldsMore ==
  ASSUME NEW S, NEW T, S \subseteq T, NEW f, NEW content, Holds(S, f, content)
  PROVE  Holds(T, f, content)
BY DEF Holds

(* What lives in the index are chunks.                                     *)
LEMMA LiveIsChunks ==
  ASSUME TypeOK PROVE Live \subseteq Chunk
BY DEF TypeOK, Live

(* The chunks of a content: their spans are those of its shape.            *)
LEMMA CutIs ==
  ASSUME NEW f \in Files, NEW content \in [ver : Nat, shape : Shapes], NEW m \in Models
  PROVE  /\ Cut(f, content, m) \in Seq(Chunk)
         /\ Len(Cut(f, content, m)) = Len(content.shape)
         /\ \A i \in 1 .. Len(content.shape) :
              Cut(f, content, m)[i]
                = [file |-> f, span |-> content.shape[i], ver |-> content.ver, model |-> m]
         /\ ChunksOf(f, content, m)
              = {[file |-> f, span |-> s, ver |-> content.ver, model |-> m] : s \in Range(content.shape)}
<1>1. content.shape \in Seq(Spans) /\ content.ver \in Nat
  BY SpoorAssumption
<1>2. Cut(f, content, m) \in Seq(Chunk)
  <2>1. \A i \in 1 .. Len(content.shape) :
          [file |-> f, span |-> content.shape[i], ver |-> content.ver, model |-> m] \in Chunk
    BY <1>1 DEF Chunk
  <2>2. Len(content.shape) \in Nat /\ DOMAIN content.shape = 1 .. Len(content.shape)
    BY <1>1
  <2> QED BY <2>1, <2>2, SeqDef DEF Cut
<1>3. \A i \in 1 .. Len(content.shape) :
        Cut(f, content, m)[i]
          = [file |-> f, span |-> content.shape[i], ver |-> content.ver, model |-> m]
  BY <1>1 DEF Cut
<1>4. Len(Cut(f, content, m)) = Len(content.shape)
  BY <1>1 DEF Cut
<1> QED BY <1>1, <1>2, <1>3, <1>4 DEF ChunksOf, Cut, Range

(* The first element and the others.                                       *)
LEMMA HeadAndTail ==
  ASSUME NEW S, NEW s \in Seq(S), s # <<>>
  PROVE  /\ Head(s) \in S /\ Tail(s) \in Seq(S)
         /\ Len(s) \in Nat /\ Len(Tail(s)) = Len(s) - 1
         /\ Head(s) = s[1] /\ 1 \in 1 .. Len(s)
         /\ \A i \in 1 .. Len(Tail(s)) : i + 1 \in 2 .. Len(s) /\ Tail(s)[i] = s[i + 1]
         /\ Range(s) = {Head(s)} \cup Range(Tail(s))
<1>1. /\ Head(s) \in S /\ Tail(s) \in Seq(S)
      /\ Len(Tail(s)) = Len(s) - 1
      /\ \A i \in 1 .. Len(Tail(s)) : Tail(s)[i] = s[i + 1]
  BY HeadTailProperties
<1>2. /\ Len(s) \in Nat /\ Len(s) # 0 /\ Head(s) = s[1]
      /\ DOMAIN s = 1 .. Len(s) /\ DOMAIN Tail(s) = 1 .. Len(Tail(s))
  BY <1>1
<1>3. \A i \in 1 .. Len(Tail(s)) : i + 1 \in 2 .. Len(s)
  BY <1>1, <1>2
<1>4. \A i \in 1 .. Len(s) : i = 1 \/ (i - 1 \in 1 .. Len(Tail(s)) /\ s[i] = Tail(s)[i - 1])
  <2> SUFFICES ASSUME NEW i \in 1 .. Len(s), i # 1
               PROVE  i - 1 \in 1 .. Len(Tail(s)) /\ s[i] = Tail(s)[i - 1]
    OBVIOUS
  <2>1. i - 1 \in 1 .. Len(Tail(s)) /\ (i - 1) + 1 = i
    BY <1>1, <1>2
  <2> QED BY <1>1, <2>1
<1>5. Range(s) \subseteq {Head(s)} \cup Range(Tail(s))
  BY <1>2, <1>4 DEF Range
<1>6. Range(Tail(s)) \subseteq Range(s)
  BY <1>1, <1>2, <1>3 DEF Range
<1>7. Head(s) \in Range(s)
  BY <1>2 DEF Range
<1> QED BY <1>1, <1>2, <1>3, <1>5, <1>6, <1>7

(* The types that do not change with the number of edits.                  *)
LEMMA Seens ==
  ASSUME edits \in 0 .. MaxChanges
  PROVE  /\ Seen \subseteq {None} \cup [ver : 1 .. MaxChanges, shape : Shapes]
         /\ NoRun \in Run
         /\ emptyManifest \in [files : [Files -> Seen], meta : Models \cup {None}]
<1>1. MaxChanges \in Nat
  BY SpoorAssumption
<1>2. Seen \subseteq {None} \cup [ver : 1 .. MaxChanges, shape : Shapes]
  BY <1>1 DEF Seen
<1>3. NoFiles \in [Files -> Seen] /\ NoSpans \in [Files -> SUBSET Spans]
      /\ NoChunks \in [Keys -> Chunk \cup {None}] /\ <<>> \in Seq(Chunk)
  BY DEF NoFiles, NoSpans, NoChunks, Seen
<1> QED BY <1>2, <1>3 DEF NoRun, Run, emptyManifest

(* Nothing waits in the memory of a run that has just begun or is over.    *)
LEMMA NoRunHasNothing ==
  /\ NoRun.writer = NoChunks /\ NoRun.extra = {} /\ NoRun.moved = {}
  /\ NoRun.rest = <<>> /\ NoRun.dirty = {} /\ NoRun.flushed = FALSE
  /\ \A k \in Keys : NoChunks[k] = None
  /\ Range(<<>>) = {}
BY DEF NoRun, NoChunks, Range

-----------------------------------------------------------------------------
(* One lemma for each step *)

LEMMA InitInv == Init => IInv
<1> SUFFICES ASSUME Init PROVE IInv
  OBVIOUS
<1> USE DEF Init
<1>1. edits \in 0 .. MaxChanges /\ models \in Nat /\ model \in Models
  BY SpoorAssumption
<1>2. NoFiles \in [Files -> Seen] /\ NoSpans \in [Files -> SUBSET Spans]
      /\ NoChunks \in [Keys -> Chunk \cup {None}]
  BY DEF NoFiles, NoSpans, NoChunks, Seen
<1>3. Live = {}
  BY DEF Live, NoChunks
<1>4. TypeOK
  BY <1>1, <1>2, <1>3, Seens DEF TypeOK, emptyManifest
<1>5. Types
  BY <1>1, <1>2, Seens, NoRunHasNothing DEF Types, Reading, Writing
<1>6. Buffer /\ Read
  BY NoRunHasNothing DEF Buffer, Read, Writing, Reading, Placed
<1>7. Kept /\ Coming /\ OnlyBack /\ Removing /\ Watched /\ Served
  BY DEF Kept, Coming, OnlyBack, Removing, Watched, Served, Reading, Writing, emptyManifest, NoFiles
<1>8. Agreed /\ Clearing /\ Filling
  BY NoRunHasNothing DEF Agreed, Clearing, Filling, New, Writing
<1> QED BY <1>4, <1>5, <1>6, <1>7, <1>8 DEF IInv

(* The request is over, before it has written anything that does not fit.  *)
LEMMA IdleStep ==
  ASSUME IInv, OpenRefused \/ ReadFails \/ querySearch \/ CutShort
  PROVE  IInv'
<1>1. /\ UNCHANGED <<tree, model, edits, models, mapped, ghosts, dim, sidecar, saved, touched, back>>
      /\ pc' = "idle" /\ run' = NoRun
  BY DEF OpenRefused, ReadFails, querySearch, CutShort, outer, disk
<1>0. hurt' \in BOOLEAN /\ (~hurt' => ~hurt /\ Old)
  <2>1. hurt \in BOOLEAN /\ run.flushed \in BOOLEAN
    BY DEF IInv, TypeOK, Types, Run
  <2>2. CASE CutShort
    BY <2>1, <2>2 DEF CutShort, Writing, Old
  <2>3. CASE OpenRefused \/ querySearch
    BY <2>1, <2>3 DEF OpenRefused, querySearch, Writing, Old
  <2>4. CASE ReadFails
    BY <2>1, <2>4 DEF ReadFails, Writing, Old
  <2> QED BY <2>2, <2>3, <2>4
<1>2. UNCHANGED <<Live, Seen>> /\ ~Reading' /\ ~Writing'
  BY <1>1 DEF Live, Seen, Reading, Writing
<1>3. TypeOK'
  BY <1>0, <1>1, <1>2 DEF IInv, TypeOK
<1>4. Types'
  <2>1. NoRun \in Run'
    BY <1>2, Seens DEF IInv, Types, Run
  <2> QED BY <1>1, <1>2, <2>1, NoRunHasNothing DEF IInv, Types
<1>5. Buffer' /\ Read'
  BY <1>1, <1>2, NoRunHasNothing DEF IInv, Buffer, Read, Placed
<1>6. Kept' /\ Coming' /\ OnlyBack' /\ Removing' /\ Watched' /\ Served'
  BY <1>1, <1>2 DEF IInv, Kept, Coming, OnlyBack, Returned, Removing, Watched, Served, Holds
<1>7. ~hurt' => Agreed' /\ Clearing' /\ Filling'
  BY <1>0, <1>1, <1>2, NoRunHasNothing DEF IInv, Agreed, Clearing, Filling, Fits, Old, New
<1> QED BY <1>3, <1>4, <1>5, <1>6, <1>7 DEF IInv

LEMMA ReconfigureStep ==
  ASSUME IInv, NEW m \in Models, Reconfigure(m)
  PROVE  IInv'
<1>1. /\ UNCHANGED <<tree, edits, mapped, ghosts, dim, sidecar, saved, pc, run, hurt, touched, back>>
      /\ model' \in Models /\ models' = models + 1 /\ pc = "idle"
  BY DEF Reconfigure, disk
<1>2. UNCHANGED <<Live, Seen, Reading, Writing>> /\ ~Reading /\ ~Writing
  BY <1>1 DEF Live, Seen, Reading, Writing
<1>3. TypeOK'
  BY <1>1, <1>2 DEF IInv, TypeOK
<1>4. Types'
  <2>1. models' \in Nat
    BY <1>1 DEF IInv, Types
  <2> QED BY <1>1, <1>2, <2>1 DEF IInv, Types, Run
<1>5. Buffer' /\ Read'
  BY <1>1, <1>2 DEF IInv, Buffer, Read, Placed
<1>6. Kept' /\ Coming' /\ OnlyBack' /\ Removing' /\ Watched' /\ Served'
  BY <1>1, <1>2 DEF IInv, Kept, Coming, OnlyBack, Returned, Removing, Watched, Served, Holds
<1>7. ~hurt' => Agreed' /\ Clearing' /\ Filling'
  BY <1>1, <1>2 DEF IInv, Agreed, Clearing, Filling, Fits, Old, New
<1> QED BY <1>3, <1>4, <1>5, <1>6, <1>7 DEF IInv

LEMMA CallStep ==
  ASSUME IInv, CallIndex \/ CallSearch
  PROVE  IInv'
<1>1. /\ UNCHANGED <<tree, model, edits, models, mapped, ghosts, dim, sidecar, saved, hurt, touched, back>>
      /\ pc = "idle" /\ pc' \in {"scan", "serve"}
      /\ pc' = "serve" => ~isStale /\ run' = [NoRun EXCEPT !.search = TRUE]
      /\ run' \in {NoRun, [NoRun EXCEPT !.search = TRUE]}
  BY DEF CallIndex, CallSearch, outer, disk
<1>2. UNCHANGED <<Live, Seen>> /\ ~Reading' /\ ~Writing' /\ ~Writing
  BY <1>1 DEF Live, Seen, Reading, Writing
<1>3. TypeOK'
  BY <1>1, <1>2 DEF IInv, TypeOK
<1>4. run' \in Run' /\ run'.writer = NoChunks /\ run'.extra = {} /\ run'.moved = {}
      /\ run'.rest = <<>> /\ run'.dirty = {} /\ (pc' = "serve" => run'.search)
  <2>1. NoRun \in Run'
    BY <1>2, Seens DEF IInv, Types, Run
  <2>2. [NoRun EXCEPT !.search = TRUE] \in Run'
    BY <2>1 DEF Run
  <2>3. [NoRun EXCEPT !.search = TRUE].search = TRUE
    BY DEF NoRun
  <2>4. pc' = "serve" => run'.search = TRUE
    BY <1>1, <2>3
  <2>6. \A r : r = [NoRun EXCEPT !.search = TRUE]
                => r.writer = NoChunks /\ r.extra = {} /\ r.moved = {} /\ r.rest = <<>> /\ r.dirty = {}
    BY DEF NoRun
  <2>7. CASE run' = NoRun
    BY <2>1, <2>4, <2>7, NoRunHasNothing
  <2>8. CASE run' = [NoRun EXCEPT !.search = TRUE]
    BY <2>2, <2>4, <2>6, <2>8
  <2> QED BY <1>1, <2>7, <2>8
<1>5. Types'
  BY <1>1, <1>2, <1>4 DEF IInv, Types
<1>6. Buffer' /\ Read'
  BY <1>1, <1>2, <1>4, NoRunHasNothing DEF IInv, Buffer, Read, Placed
<1>7. Kept' /\ Coming' /\ OnlyBack' /\ Removing' /\ Watched'
  BY <1>1, <1>2 DEF IInv, Kept, Coming, OnlyBack, Returned, Removing, Watched, Holds
<1>8. Served'
  <2> SUFFICES ASSUME pc' = "serve", NEW f \in Files \ Mistaken, tree[f] # None
               PROVE  Holds(Live, f, tree[f])
    BY <1>1, <1>2, <1>4 DEF Served, Mistaken, Holds
  <2>1. saved.files[f] = tree[f]
    BY <1>1 DEF isStale, Added, Changed
  <2>2. f \notin touched
    BY <2>1 DEF IInv, OnlyBack, Returned, Mistaken
  <2> QED BY <2>1, <2>2 DEF IInv, Kept
<1>9. ~hurt' => Agreed' /\ Clearing' /\ Filling'
  BY <1>1, <1>2, <1>4, NoRunHasNothing DEF IInv, Agreed, Clearing, Filling, Fits, Old, New
<1> QED BY <1>3, <1>5, <1>6, <1>7, <1>8, <1>9 DEF IInv

LEMMA EditStep ==
  ASSUME IInv, NEW f0 \in Files, NEW content \in Contents(f0), Edit(f0, content)
  PROVE  IInv'
<1>1. /\ UNCHANGED <<model, models, mapped, ghosts, dim, sidecar, saved, pc, hurt, touched>>
      /\ edits + models < MaxChanges /\ edits' = edits + 1
      /\ tree' = [tree EXCEPT ![f0] = content]
      /\ back' = IF content \in Known(f0) THEN back \cup {f0} ELSE back \ {f0}
      /\ run' = IF run.search THEN [run EXCEPT !.moved = @ \cup {f0}] ELSE run
  BY DEF Edit, disk
<1>2. /\ edits \in Nat /\ models \in Nat /\ MaxChanges \in Nat
      /\ tree \in [Files -> Seen] /\ run \in Run
      /\ saved.files \in [Files -> Seen] /\ run.cur \in [Files -> Seen] /\ run.search \in BOOLEAN
  BY SpoorAssumption DEF IInv, Types, Run
<1>3. UNCHANGED <<Live, Reading, Writing>>
  BY <1>1 DEF Live, Reading, Writing
<1>4. /\ UNCHANGED <<run.search, run.want, run.cur, run.remove, run.dirty, run.rest, run.keys,
                     run.writer, run.extra, run.flushed, run.amiss>>
      /\ run' \in Run
      /\ run.search => run'.moved = run.moved \cup {f0}
      /\ ~run.search => run' = run
  <2>1. CASE run.search
    BY <1>1, <1>2, <2>1 DEF Run
  <2>2. CASE ~run.search
    BY <1>1, <1>2, <2>2
  <2> QED BY <2>1, <2>2
<1>5. /\ Seen \subseteq Seen' /\ content \in Seen' /\ edits' \in 0 .. MaxChanges
      /\ content \in Seen => content = None \/ content \in Known(f0)
  <2>1. Known(f0) \subseteq Seen
    BY <1>2 DEF Known
  <2>2. Seen \subseteq Seen' /\ edits' \in 0 .. MaxChanges /\ edits' \in 1 .. edits'
    BY <1>1, <1>2 DEF Seen
  <2>3. CASE content \in {None} \cup Known(f0)
    BY <2>1, <2>2, <2>3 DEF Seen
  <2>4. CASE content \in [ver : {edits + 1}, shape : Shapes]
    <3>1. content \in Seen'
      BY <1>1, <2>2, <2>4 DEF Seen
    <3>2. content \in Seen => content = None
      BY <1>2, <2>4 DEF Seen
    <3> QED BY <2>2, <3>1, <3>2
  <2> QED BY <2>2, <2>3, <2>4 DEF Contents
<1>6. /\ tree' \in [Files -> Seen']
      /\ tree'[f0] = content /\ \A f \in Files \ {f0} : tree'[f] = tree[f]
      /\ back' \subseteq Files /\ \A f \in Files \ {f0} : f \in back' <=> f \in back
  BY <1>1, <1>2, <1>5 DEF IInv, TypeOK
<1>7. ASSUME NEW f \in Files, NEW c \in Known(f), Returned(f, c)
      PROVE  c # None /\ tree'[f] = c => f \in back'
  <2>1. CASE f = f0
    <3>1. c \in Seen
      BY <1>2 DEF Known
    <3> QED BY <1>1, <1>5, <1>6, <2>1, <3>1 DEF Returned
  <2>2. CASE f # f0
    BY <1>6, <1>7, <2>2 DEF Returned
  <2> QED BY <2>1, <2>2
<1>8. TypeOK'
  <2>1. tree' \in [Files -> {None} \cup [ver : 1 .. MaxChanges, shape : Shapes]]
    BY <1>5, <1>6, <1>1, <1>2 DEF Seen
  <2> QED BY <1>1, <1>3, <1>6, <2>1 DEF IInv, TypeOK
<1>9. Types'
  <2>1. run' \in Run'
    BY <1>4, <1>5 DEF Run
  <2>2. saved' \in [files : [Files -> Seen'], meta : Models \cup {None}]
    BY <1>1, <1>5 DEF IInv, Types
  <2>3. pc' = "idle" => run' = NoRun
    <3>1. pc = "idle" => run = NoRun /\ ~run.search
      BY DEF IInv, Types, NoRun
    <3> QED BY <3>1, <1>1, <1>4
  <2>4. pc' = "serve" => run'.search
    BY <1>1, <1>4 DEF IInv, Types
  <2> QED BY <1>1, <1>3, <1>4, <1>5, <1>6, <2>1, <2>2, <2>3, <2>4 DEF IInv, Types
<1>10. Buffer' /\ Read'
  BY <1>1, <1>3, <1>4 DEF IInv, Buffer, Read, Placed
<1>11. Kept' /\ Coming'
  BY <1>1, <1>3, <1>4 DEF IInv, Kept, Coming, Holds, Buffered
<1>12. OnlyBack'
  <2>1. touched \subseteq Files /\ run.amiss \subseteq Files
    BY <1>2 DEF IInv, TypeOK, Run
  <2>2. \A f \in touched : saved.files[f] # None /\ tree'[f] = saved.files[f] => f \in back'
    BY <1>7, <2>1 DEF IInv, OnlyBack, Known
  <2>3. Reading \/ Writing =>
          \A f \in run.amiss : run.cur[f] # None /\ tree'[f] = run.cur[f] => f \in back'
    BY <1>7, <2>1 DEF IInv, OnlyBack, Known
  <2> QED BY <1>1, <1>3, <1>4, <2>2, <2>3 DEF OnlyBack, Returned
<1>13. Removing'
  <2> SUFFICES ASSUME pc \in {"open", "remove"}, NEW f \in run.remove
               PROVE  /\ saved.files[f] # None
                      /\ tree'[f] = saved.files[f] => f \in back'
                      /\ run.cur[f] # None => f \in run.dirty
    BY <1>1, <1>4 DEF Removing, Returned
  <2>1. f \in Files
    BY <1>2 DEF Run
  <2> QED BY <2>1, <1>7 DEF IInv, Removing, Known
<1>14. Watched' /\ Served'
  <2>1. run.search => \A f \in Files \ run'.moved :
          f \in Files \ run.moved /\ tree'[f] = tree[f] /\ (f \in Mistaken => f \in Mistaken')
    BY <1>1, <1>4, <1>6 DEF Mistaken
  <2>2. pc = "serve" => run.search
    BY DEF IInv, Types
  <2>3. Watched'
    BY <1>3, <1>4, <2>1 DEF IInv, Watched
  <2>4. Served'
    <3> SUFFICES ASSUME pc = "serve", NEW f \in Files \ (run'.moved \cup Mistaken'), tree'[f] # None
                 PROVE  Holds(Live, f, tree'[f])
      BY <1>1, <1>3 DEF Served, Holds
    <3>1. tree'[f] = tree[f] /\ f \notin run.moved \cup Mistaken
      BY <2>1, <2>2
    <3> QED BY <3>1 DEF IInv, Served
  <2> QED BY <2>3, <2>4
<1>15. ~hurt' => Agreed' /\ Clearing' /\ Filling'
  BY <1>1, <1>3, <1>4 DEF IInv, Agreed, Clearing, Filling, Fits, Old, New
<1> QED BY <1>8, <1>9, <1>10, <1>11, <1>12, <1>13, <1>14, <1>15 DEF IInv

LEMMA ScanStep ==
  ASSUME IInv, ScanAndDiff
  PROVE  IInv'
<1> DEFINE full == ~isCompatible(saved.meta, model)
           prev == IF full THEN NoFiles ELSE saved.files
<1>1. /\ UNCHANGED <<tree, model, edits, models, mapped, ghosts, dim, sidecar, saved, touched, back>>
      /\ pc = "scan" /\ pc' = "open"
      /\ run' = [run EXCEPT !.want = model, !.cur = tree,
                    !.remove = Deleted(prev, tree) \cup Changed(prev, tree),
                    !.dirty  = Added(prev, tree) \cup Changed(prev, tree),
                    !.amiss  = touched \ (Added(prev, tree) \cup Changed(prev, tree)
                                            \cup Deleted(prev, tree))]
      /\ hurt' = (hurt \/ (full /\ saved.files # NoFiles))
  BY DEF ScanAndDiff, outer, disk
<1>2. UNCHANGED <<Live, Seen>> /\ Reading' /\ ~Reading /\ ~Writing /\ ~Writing'
  BY <1>1 DEF Live, Seen, Reading, Writing
<1>3. /\ run \in Run /\ tree \in [Files -> Seen] /\ model \in Models /\ touched \subseteq Files
      /\ saved.files \in [Files -> Seen] /\ prev \in [Files -> Seen] /\ hurt \in BOOLEAN
      /\ run.rest = <<>>
  <2>1. saved.files \in [Files -> Seen] /\ NoFiles \in [Files -> Seen]
    BY DEF IInv, Types, NoFiles, Seen
  <2> QED BY <1>1, <2>1 DEF IInv, Types, TypeOK
<1>4. /\ UNCHANGED <<run.search, run.keys, run.rest, run.writer, run.extra, run.flushed, run.moved>>
      /\ run'.want = model /\ run'.cur = tree
      /\ run'.remove = Deleted(prev, tree) \cup Changed(prev, tree)
      /\ run'.dirty = Added(prev, tree) \cup Changed(prev, tree)
      /\ run'.amiss = touched \ (Added(prev, tree) \cup Changed(prev, tree) \cup Deleted(prev, tree))
      /\ run' \in Run
  <2>1. Deleted(prev, tree) \cup Changed(prev, tree) \subseteq Files
        /\ Added(prev, tree) \cup Changed(prev, tree) \subseteq Files
    BY DEF Deleted, Changed, Added
  <2> HIDE DEF prev, full
  <2> QED BY <1>1, <1>3, <2>1 DEF Run
<1>5. TypeOK'
  <2>1. hurt' \in BOOLEAN
    BY <1>1, <1>3
  <2> QED BY <1>1, <1>2, <2>1 DEF IInv, TypeOK
<1>6. Types'
  <2>1. run' \in Run'
    BY <1>2, <1>4 DEF Run
  <2> QED BY <1>1, <1>2, <1>3, <1>4, <2>1 DEF IInv, Types
<1>7. /\ \A f \in run'.dirty : tree[f] # None /\ tree[f] # prev[f] /\ f \in Files
      /\ \A f \in run'.remove : prev[f] # None /\ tree[f] # prev[f] /\ f \in Files
      /\ \A f \in Files : tree[f] = prev[f] \/ f \in run'.dirty \cup run'.remove
      /\ \A f \in Files : tree[f] # None /\ f \notin run'.dirty => tree[f] = prev[f]
      /\ \A f \in Files : prev[f] # None /\ f \notin run'.remove => tree[f] = prev[f]
      /\ \A f \in run'.amiss : f \in touched /\ tree[f] = prev[f]
      /\ \A f \in touched \ run'.amiss : tree[f] # prev[f]
  BY <1>3, <1>4 DEF Added, Changed, Deleted
<1>8. \A f \in Files : prev[f] # None => prev = saved.files
  BY DEF NoFiles
<1> HIDE DEF prev, full
<1>9. Buffer' /\ Read'
  <2>1. Range(<<>>) = {}
    BY NoRunHasNothing
  <2> QED BY <1>1, <1>2, <1>3, <1>4, <1>7, <2>1 DEF IInv, Buffer, Read, Placed
<1>10. Kept' /\ Watched' /\ Served'
  BY <1>1, <1>2, <1>4 DEF IInv, Kept, Watched, Served, Holds
<1>11. Coming'
  <2> SUFFICES ASSUME NEW f \in Files \ run'.amiss, tree[f] # None, f \notin run'.dirty
               PROVE  Holds(Live, f, tree[f])
    BY <1>1, <1>2, <1>4, HoldsMore DEF Coming, Holds
  <2>1. prev[f] = tree[f] /\ prev = saved.files /\ f \notin touched
    BY <1>7, <1>8
  <2> QED BY <2>1 DEF IInv, Kept
<1>12. OnlyBack'
  <2> SUFFICES ASSUME NEW f \in run'.amiss, tree[f] # None
               PROVE  f \in back
    BY <1>1, <1>2, <1>4 DEF IInv, OnlyBack, Returned
  <2>1. f \in touched /\ prev[f] = tree[f] /\ prev = saved.files
    BY <1>3, <1>7, <1>8
  <2> QED BY <2>1 DEF IInv, OnlyBack, Returned
<1>13. Removing'
  <2> SUFFICES ASSUME NEW f \in run'.remove
               PROVE  /\ saved.files[f] # None /\ tree[f] # saved.files[f]
                      /\ tree[f] # None => f \in run'.dirty
    BY <1>1, <1>4 DEF Removing, Returned
  <2> QED BY <1>7, <1>8
<1>14. ~hurt' => Agreed' /\ Clearing' /\ Filling'
  <2> SUFFICES ASSUME ~hurt' PROVE Agreed' /\ Clearing' /\ Filling'
    OBVIOUS
  <2>1. ~hurt /\ prev = saved.files /\ (saved.meta = model \/ saved.files = NoFiles)
    BY <1>1 DEF isCompatible, prev, full
  <2>2. Agreed'
    BY <1>1, <1>2, <1>4, <2>1 DEF IInv, Agreed, Fits, Old, New
  <2>3. Clearing'
    BY <1>1, <1>4, <1>7, <2>1 DEF Clearing
  <2> QED BY <1>1, <2>2, <2>3 DEF Filling
<1> QED BY <1>5, <1>6, <1>9, <1>10, <1>11, <1>12, <1>13, <1>14 DEF IInv

LEMMA OpenStep ==
  ASSUME IInv, open
  PROVE  IInv'
<1>1. /\ UNCHANGED <<tree, model, edits, models, mapped, ghosts, sidecar, saved, hurt, touched, back>>
      /\ pc = "open" /\ pc' = "remove" /\ dim \in {0, DimOf[run.want]}
      /\ dim' = DimOf[run.want]
      /\ run' = [run EXCEPT !.keys = sidecar]
  BY DEF open, outer
<1>2. UNCHANGED <<Live, Seen>> /\ Reading' /\ Reading /\ ~Writing /\ ~Writing'
  BY <1>1 DEF Live, Seen, Reading, Writing
<1>3. run \in Run /\ run.want \in Models /\ sidecar \in [Files -> SUBSET Spans]
  BY <1>2 DEF IInv, Types, TypeOK
<1>4. /\ UNCHANGED <<run.search, run.want, run.cur, run.remove, run.dirty, run.rest, run.writer,
                     run.extra, run.flushed, run.amiss, run.moved>>
      /\ run'.keys = sidecar /\ run' \in Run
  BY <1>1, <1>3 DEF Run
<1>5. TypeOK'
  <2>1. \A c \in Live : DimOf[c.model] = dim' /\ c \in Chunk
    <3>1. \A c \in Live : c \in Chunk /\ DimOf[c.model] = dim
      BY LiveIsChunks DEF IInv, TypeOK
    <3>2. \A c \in Live : DimOf[c.model] # 0
      BY <3>1, SpoorAssumption DEF Chunk
    <3> QED BY <1>1, <3>1, <3>2
  <2>2. dim' \in Range(DimOf)
    BY <1>1, <1>3, SpoorAssumption DEF Range
  <2> QED BY <1>1, <1>2, <2>1, <2>2 DEF IInv, TypeOK
<1>6. Types'
  <2>1. run' \in Run'
    BY <1>2, <1>4 DEF Run
  <2> QED BY <1>1, <1>2, <1>3, <1>4, <2>1 DEF IInv, Types
<1>7. Buffer' /\ Read'
  BY <1>1, <1>2, <1>4 DEF IInv, Buffer, Read, Placed
<1>8. Kept' /\ Coming' /\ OnlyBack' /\ Removing' /\ Watched' /\ Served'
  BY <1>1, <1>2, <1>4
     DEF IInv, Kept, Coming, OnlyBack, Returned, Removing, Watched, Served, Mistaken, Holds, Buffered
<1>9. ~hurt' => Agreed' /\ Clearing' /\ Filling'
  <2> SUFFICES ASSUME ~hurt PROVE Agreed' /\ Clearing'
    BY <1>1 DEF Filling
  <2>1. Agreed'
    BY <1>1, <1>2, <1>4 DEF IInv, Agreed, Fits, Old, New
  <2>2. ASSUME NEW k \in Keys, mapped[k] # None
        PROVE  /\ saved.files[k[1]] = run.cur[k[1]] \/ k[1] \in run.remove
               /\ k[2] \in sidecar[k[1]]
    <3>1. k[1] \in Files /\ saved.files[k[1]] # None /\ k[2] \in sidecar[k[1]]
      BY <1>1, <1>2, <2>2 DEF IInv, Agreed, Fits, Keys, Old
    <3> QED BY <1>1, <1>2, <3>1 DEF IInv, Clearing
  <2>3. Clearing'
    BY <1>1, <1>2, <1>4, <2>2 DEF IInv, Clearing
  <2> QED BY <2>1, <2>3
<1> QED BY <1>5, <1>6, <1>7, <1>8, <1>9 DEF IInv

LEMMA RemovePathStep ==
  ASSUME IInv, NEW f0 \in Files, removePath(f0)
  PROVE  IInv'
<1>1. /\ UNCHANGED <<tree, model, edits, models, ghosts, dim, sidecar, saved, pc, hurt, back>>
      /\ pc = "remove" /\ f0 \in run.remove
      /\ mapped' = [k \in Keys |-> IF k[1] = f0 /\ k[2] \in run.keys[f0] THEN None ELSE mapped[k]]
      /\ run' = [run EXCEPT !.remove = @ \ {f0}, !.keys[f0] = {}]
      /\ touched' = touched \cup {f0}
  BY DEF removePath, outer
<1>2. UNCHANGED Seen /\ Reading' /\ Reading /\ ~Writing /\ ~Writing'
  BY <1>1 DEF Seen, Reading, Writing
<1>3. run \in Run /\ mapped \in [Keys -> Chunk \cup {None}]
  BY DEF IInv, Types, TypeOK
<1>4. /\ UNCHANGED <<run.search, run.want, run.cur, run.dirty, run.rest, run.writer, run.extra,
                     run.flushed, run.amiss, run.moved>>
      /\ run'.remove = run.remove \ {f0}
      /\ run'.keys = [run.keys EXCEPT ![f0] = {}] /\ run' \in Run
  BY <1>1, <1>3 DEF Run
<1>5. \A k \in Keys : mapped'[k] # None =>
         mapped'[k] = mapped[k] /\ (k[1] = f0 => k[2] \notin run.keys[f0])
  BY <1>1
<1>6. Live' \subseteq Live
  BY <1>1, <1>5 DEF Live
<1>7. \A d \in Live : d.file # f0 => d \in Live'
  <2> SUFFICES ASSUME NEW k \in Keys, mapped[k] # None, mapped[k].file # f0
               PROVE  mapped'[k] = mapped[k]
    BY <1>1 DEF Live
  <2> QED BY <1>1 DEF IInv, Buffer, Placed
<1>8. TypeOK'
  <2>1. mapped' \in [Keys -> Chunk \cup {None}]
    BY <1>1, <1>3
  <2> QED BY <1>1, <1>6, <2>1 DEF IInv, TypeOK
<1>9. Types'
  <2>1. run' \in Run'
    BY <1>2, <1>4 DEF Run
  <2> QED BY <1>1, <1>2, <1>4, <2>1 DEF IInv, Types
<1>10. Buffer' /\ Read'
  BY <1>1, <1>2, <1>4, <1>5 DEF IInv, Buffer, Read, Placed
<1>11. Kept'
  <2> SUFFICES ASSUME NEW f \in Files \ touched, f # f0, saved.files[f] # None
               PROVE  Holds(Live', f, saved.files[f])
    BY <1>1 DEF Kept, Holds
  <2>1. Holds(Live, f, saved.files[f])
    BY DEF IInv, Kept
  <2> QED BY <1>7, <2>1 DEF Holds
<1>12. Coming'
  <2> SUFFICES ASSUME NEW f \in Files \ run.amiss, run.cur[f] # None, f \notin run.dirty
               PROVE  Holds(Live' \cup Buffered \cup Range(run.rest), f, run.cur[f])
    BY <1>1, <1>2, <1>4 DEF Coming, Holds, Buffered
  <2>1. f # f0
    BY <1>1 DEF IInv, Removing
  <2>2. Holds(Live \cup Buffered \cup Range(run.rest), f, run.cur[f])
    BY <1>2 DEF IInv, Coming
  <2> QED BY <1>7, <2>1, <2>2 DEF Holds
<1>13. OnlyBack'
  <2>1. Returned(f0, saved.files[f0])
    BY <1>1 DEF IInv, Removing
  <2> QED BY <1>1, <1>2, <1>4, <2>1 DEF IInv, OnlyBack, Returned
<1>14. Removing' /\ Watched' /\ Served'
  BY <1>1, <1>2, <1>4 DEF IInv, Removing, Returned, Watched, Served
<1>15. ~hurt' => Agreed' /\ Clearing' /\ Filling'
  <2> SUFFICES ASSUME ~hurt PROVE Agreed' /\ Clearing'
    BY <1>1 DEF Filling
  <2>1. Agreed'
    BY <1>1, <1>2, <1>4, <1>5 DEF IInv, Agreed, Fits, Old, New
  <2>2. ASSUME NEW k \in Keys, mapped'[k] # None
        PROVE  /\ saved.files[k[1]] = run.cur[k[1]] \/ k[1] \in run'.remove
               /\ k[2] \in run'.keys[k[1]]
    <3>1. mapped[k] # None /\ (k[1] = f0 => k[2] \notin run.keys[f0]) /\ k[1] \in Files
      BY <1>5, <2>2 DEF Keys
    <3>2. /\ saved.files[k[1]] = run.cur[k[1]] \/ k[1] \in run.remove
          /\ k[2] \in run.keys[k[1]]
      BY <1>1, <1>2, <3>1 DEF IInv, Clearing
    <3> QED BY <1>3, <1>4, <3>1, <3>2 DEF Run
  <2>3. run.cur[f0] # saved.files[f0]
    BY <1>1 DEF IInv, Clearing
  <2>4. \A f \in touched' \ run'.amiss : saved.files[f] # None => run.cur[f] # saved.files[f]
    BY <1>1, <1>4, <2>3 DEF IInv, Clearing
  <2>5. Clearing'
    BY <1>1, <1>2, <1>4, <2>2, <2>4 DEF IInv, Clearing
  <2> QED BY <2>1, <2>5
<1> QED BY <1>8, <1>9, <1>10, <1>11, <1>12, <1>13, <1>14, <1>15 DEF IInv

LEMMA RemovedStep ==
  ASSUME IInv, Removed
  PROVE  IInv'
<1>1. /\ UNCHANGED <<tree, model, edits, models, mapped, ghosts, dim, sidecar, saved, run, hurt,
                     touched, back>>
      /\ pc = "remove" /\ pc' = "upsert" /\ run.remove = {}
  BY DEF Removed, outer, disk
<1>2. UNCHANGED <<Live, Seen, Buffered>> /\ Reading' /\ Reading /\ ~Writing /\ ~Writing'
  BY <1>1 DEF Live, Seen, Reading, Writing, Buffered
<1>3. TypeOK'
  BY <1>1, <1>2 DEF IInv, TypeOK
<1>4. Types'
  BY <1>1, <1>2 DEF IInv, Types, Run
<1>5. Buffer' /\ Read'
  BY <1>1, <1>2 DEF IInv, Buffer, Read, Placed
<1>6. Kept' /\ Coming' /\ OnlyBack' /\ Removing' /\ Watched' /\ Served'
  BY <1>1, <1>2 DEF IInv, Kept, Coming, OnlyBack, Returned, Removing, Watched, Served, Holds
<1>7. ~hurt' => Agreed' /\ Clearing' /\ Filling'
  <2> SUFFICES ASSUME ~hurt PROVE Agreed' /\ Filling'
    BY <1>1 DEF Clearing
  <2>1. (\A k \in Keys : run.writer[k] = None) /\ run.rest = <<>>
    BY <1>1 DEF IInv, Buffer, Types
  <2>2. ASSUME NEW k \in Keys, mapped[k] # None
        PROVE  /\ Fits(k, mapped[k], saved.files, sidecar, saved.meta, touched)
               /\ k[1] \in Files /\ saved.files[k[1]] = run.cur[k[1]] /\ k[2] \in run.keys[k[1]]
    BY <1>1, <1>2, <2>2 DEF IInv, Agreed, Clearing, Old, Keys
  <2>3. ASSUME NEW k \in Keys, mapped[k] # None
        PROVE  Fits(k, mapped[k], run.cur, run.keys, run.want, run.amiss)
    <3>1. k[1] \notin run.amiss => k[1] \notin touched
      BY <1>1, <2>2, <2>3 DEF IInv, Clearing, Fits
    <3>2. saved.meta = run.want
      BY <1>1, <2>2, <2>3 DEF IInv, Clearing, Fits, NoFiles
    <3> QED BY <2>2, <2>3, <3>1, <3>2 DEF Fits
  <2>4. \A k \in Keys : mapped[k] # None => k[1] \notin run.dirty
    BY <1>1, <2>2 DEF IInv, Clearing
  <2>5. Agreed'
    BY <1>1, <1>2, <2>1, <2>2, <2>3 DEF IInv, Agreed, Fits
  <2>6. Filling'
    BY <1>1, <2>1, <2>4 DEF Filling
  <2> QED BY <2>5, <2>6
<1> QED BY <1>3, <1>4, <1>5, <1>6, <1>7 DEF IInv

LEMMA ReadFileStep ==
  ASSUME IInv, NEW f0 \in Files, ReadFile(f0)
  PROVE  IInv'
<1> DEFINE content == tree[f0]
<1>1. /\ UNCHANGED <<tree, model, edits, models, mapped, ghosts, dim, sidecar, saved, pc, touched, back>>
      /\ pc = "upsert" /\ run.rest = <<>> /\ f0 \in run.dirty /\ content # None
      /\ run' = [run EXCEPT !.dirty = @ \ {f0}, !.rest = Cut(f0, content, run.want),
                            !.amiss = IF content = run.cur[f0] THEN @ ELSE @ \cup {f0}]
      /\ hurt' = (hurt \/ ~IsInjective(content.shape))
  BY DEF ReadFile, outer, disk
<1>2. UNCHANGED <<Live, Seen>> /\ Reading' /\ Reading /\ ~Writing /\ ~Writing'
  BY <1>1 DEF Live, Seen, Reading, Writing
<1>3. /\ run \in Run /\ run.want \in Models /\ hurt \in BOOLEAN
      /\ tree \in [Files -> Seen] /\ edits \in 0 .. MaxChanges
  BY <1>2 DEF IInv, Types, TypeOK
<1>4. content \in [ver : Nat, shape : Shapes] /\ content.shape \in Seq(Spans)
  <2>1. content \in [ver : 1 .. edits, shape : Shapes]
    BY <1>1, <1>3 DEF Seen
  <2>2. content \in [ver : Nat, shape : Shapes]
    BY <1>3, <2>1
  <2> QED BY <2>2, SpoorAssumption
<1> HIDE DEF content
<1>5. /\ Cut(f0, content, run.want) \in Seq(Chunk)
      /\ Len(Cut(f0, content, run.want)) = Len(content.shape)
      /\ \A i \in 1 .. Len(content.shape) : Cut(f0, content, run.want)[i]
           = [file |-> f0, span |-> content.shape[i], ver |-> content.ver, model |-> run.want]
      /\ Range(Cut(f0, content, run.want))
           = {[file |-> f0, span |-> s, ver |-> content.ver, model |-> run.want] : s \in Range(content.shape)}
  BY <1>3, <1>4, CutIs DEF ChunksOf
<1>6. /\ UNCHANGED <<run.search, run.want, run.cur, run.remove, run.keys, run.writer,
                     run.extra, run.flushed, run.moved>>
      /\ run'.dirty = run.dirty \ {f0}
      /\ run'.rest = Cut(f0, content, run.want)
      /\ run'.amiss = IF content = run.cur[f0] THEN run.amiss ELSE run.amiss \cup {f0}
      /\ run' \in Run
  BY <1>1, <1>3, <1>5 DEF Run
<1>7. TypeOK'
  <2>1. hurt' \in BOOLEAN
    BY <1>1, <1>3
  <2> QED BY <1>1, <1>2, <2>1 DEF IInv, TypeOK
<1>8. Types'
  <2>1. run' \in Run'
    BY <1>2, <1>6 DEF Run
  <2> QED BY <1>1, <1>2, <1>6, <2>1 DEF IInv, Types
<1>9. Buffer'
  BY <1>1, <1>2, <1>6 DEF IInv, Buffer, Placed
<1>10. Read'
  <2>1. \A f \in run'.dirty : run'.cur[f] # None
    BY <1>2, <1>6 DEF IInv, Read
  <2>2. run.cur[f0] # None
    BY <1>1, <1>2 DEF IInv, Read
  <2>3. \A c \in Range(run'.rest) :
          c.file = f0 /\ c.model = run.want /\ c.ver = content.ver /\ c.span \in Range(content.shape)
    BY <1>5, <1>6
  <2>4. f0 \notin run'.amiss => content = run.cur[f0]
    BY <1>6
  <2> QED BY <1>6, <2>1, <2>2, <2>3, <2>4 DEF Read
<1>11. Kept' /\ Removing' /\ Watched' /\ Served'
  BY <1>1, <1>2, <1>6 DEF IInv, Kept, Removing, Watched, Served, Holds
<1>12. OnlyBack'
  <2>1. \A f \in run'.amiss : f \in run.amiss \/ (f = f0 /\ tree[f] # run.cur[f])
    BY <1>6 DEF content
  <2> QED BY <1>1, <1>2, <1>6, <2>1 DEF IInv, OnlyBack, Returned
<1>13. Coming'
  <2> SUFFICES ASSUME NEW f \in Files \ run'.amiss, run.cur[f] # None, f \notin run'.dirty
               PROVE  Holds(Live \cup Buffered \cup Range(run'.rest), f, run.cur[f])
    BY <1>1, <1>2, <1>6 DEF Coming, Holds, Buffered
  <2>1. CASE f = f0
    <3>1. run.cur[f] = content
      BY <1>6, <2>1
    <3>2. \A s \in Range(content.shape) :
            [file |-> f0, span |-> s, ver |-> content.ver, model |-> run.want] \in Range(run'.rest)
      BY <1>5, <1>6
    <3>3. \A s : /\ [file |-> f0, span |-> s, ver |-> content.ver, model |-> run.want].file = f0
                 /\ [file |-> f0, span |-> s, ver |-> content.ver, model |-> run.want].span = s
                 /\ [file |-> f0, span |-> s, ver |-> content.ver, model |-> run.want].ver = content.ver
      OBVIOUS
    <3> QED BY <2>1, <3>1, <3>2, <3>3 DEF Holds
  <2>2. CASE f # f0
    <3>1. f \in Files \ run.amiss /\ f \notin run.dirty
      BY <1>6, <2>2
    <3>2. Holds(Live \cup Buffered \cup Range(run.rest), f, run.cur[f])
      BY <1>2, <3>1 DEF IInv, Coming
    <3>3. Range(run.rest) = {}
      BY <1>1, NoRunHasNothing
    <3> QED BY <3>2, <3>3 DEF Holds
  <2> QED BY <2>1, <2>2
<1>14. ~hurt' => Agreed' /\ Clearing' /\ Filling'
  <2> SUFFICES ASSUME ~hurt' PROVE Agreed' /\ Filling'
    BY <1>1 DEF Clearing
  <2>1. ~hurt /\ IsInjective(content.shape)
    BY <1>1, <1>3
  <2>2. Agreed'
    BY <1>1, <1>2, <1>6, <2>1 DEF IInv, Agreed, Fits, Old, New
  <2>3. \A k \in Keys : mapped[k] # None \/ run.writer[k] # None => k[1] \notin run.dirty
    BY <1>1, <2>1 DEF IInv, Filling
  <2>4. \A i \in 1 .. Len(run'.rest) : KeyOf(run'.rest[i]) = <<f0, content.shape[i]>>
    <3>1. \A i \in 1 .. Len(run'.rest) :
            run'.rest[i] = [file |-> f0, span |-> content.shape[i], ver |-> content.ver, model |-> run.want]
      BY <1>5, <1>6
    <3>2. \A s \in Spans : KeyOf([file |-> f0, span |-> s, ver |-> content.ver, model |-> run.want])
                             = <<f0, s>>
      BY DEF KeyOf
    <3>3. \A i \in 1 .. Len(run'.rest) : content.shape[i] \in Spans
      BY <1>4, <1>5, <1>6
    <3> QED BY <3>1, <3>2, <3>3
  <2>5. Len(run'.rest) = Len(content.shape) /\ DOMAIN content.shape = 1 .. Len(content.shape)
    BY <1>4, <1>5, <1>6
  <2>6. \A i, j \in 1 .. Len(run'.rest) : KeyOf(run'.rest[i]) = KeyOf(run'.rest[j]) => i = j
    BY <2>1, <2>4, <2>5 DEF IsInjective
  <2>7. \A k \in Keys : mapped[k] # None \/ run.writer[k] # None =>
          k[1] \notin run'.dirty /\ \A i \in 1 .. Len(run'.rest) : KeyOf(run'.rest[i]) # k
    BY <1>1, <1>6, <2>3, <2>4
  <2>8. Filling'
    BY <1>1, <1>6, <2>6, <2>7 DEF Filling
  <2> QED BY <2>2, <2>8
<1> QED BY <1>7, <1>8, <1>9, <1>10, <1>11, <1>12, <1>13, <1>14 DEF IInv

(* One chunk goes into the memory segment, which may be flushed at once.   *)
LEMMA UpsertStep ==
  ASSUME IInv, upsert
  PROVE  IInv'
<1> DEFINE c == Head(run.rest)
           k0 == KeyOf(c)
           writer == [run.writer EXCEPT ![k0] = c]
           extra  == run.extra \cup ({run.writer[k0]} \ {None})
           gone   == {mapped[k0]} \ {None}
           next   == [run EXCEPT !.rest = Tail(@), !.keys[c.file] = @ \cup {c.span}]
           stay   == /\ run' = [next EXCEPT !.writer = writer, !.extra = extra]
                     /\ mapped' = [mapped EXCEPT ![k0] = None]
                     /\ ghosts' = ghosts \cup gone
           full   == /\ run' = [next EXCEPT !.writer = NoChunks, !.extra = {}, !.flushed = TRUE]
                     /\ Flushed(writer, extra \cup gone, mapped)
<1>1. /\ UNCHANGED <<tree, model, edits, models, dim, sidecar, saved, pc, hurt, touched, back>>
      /\ pc = "upsert" /\ run.rest # <<>>
      /\ stay \/ full
  BY DEF upsert, outer
<1>2. UNCHANGED Seen /\ Reading' /\ Reading /\ ~Writing /\ ~Writing'
  BY <1>1 DEF Seen, Reading, Writing
<1>3. /\ run \in Run /\ run.want \in Models /\ mapped \in [Keys -> Chunk \cup {None}]
      /\ ghosts \subseteq Chunk /\ NoChunks \in [Keys -> Chunk \cup {None}]
      /\ run.rest \in Seq(Chunk) /\ run.writer \in [Keys -> Chunk \cup {None}]
      /\ run.keys \in [Files -> SUBSET Spans] /\ run.extra \subseteq Chunk
  BY <1>2 DEF IInv, Types, TypeOK, NoChunks, Run
<1>4. /\ c \in Chunk /\ Tail(run.rest) \in Seq(Chunk)
      /\ Range(run.rest) = {c} \cup Range(Tail(run.rest))
      /\ c = run.rest[1] /\ 1 \in 1 .. Len(run.rest) /\ Len(Tail(run.rest)) = Len(run.rest) - 1
      /\ \A i \in 1 .. Len(Tail(run.rest)) :
           i + 1 \in 2 .. Len(run.rest) /\ Tail(run.rest)[i] = run.rest[i + 1]
      /\ Len(run.rest) \in Nat
  BY <1>1, <1>3, HeadAndTail
<1>5. /\ c.file \in Files /\ c.span \in Spans /\ c # None
      /\ k0 = <<c.file, c.span>> /\ k0 \in Keys /\ k0[1] = c.file /\ k0[2] = c.span
  BY <1>4, NoneAssumption DEF Chunk, KeyOf, Keys
<1>6. /\ c.model = run.want /\ c.file \notin run.dirty /\ run.cur[c.file] # None
      /\ c.file \notin run.amiss =>
           c.ver = run.cur[c.file].ver /\ c.span \in Range(run.cur[c.file].shape)
  BY <1>4 DEF IInv, Read
<1> HIDE DEF c, k0
<1>7. /\ writer \in [Keys -> Chunk \cup {None}] /\ extra \subseteq Chunk /\ gone \subseteq Chunk
      /\ writer[k0] = c /\ \A k \in Keys : k # k0 => writer[k] = run.writer[k]
      /\ \A d \in extra \cup gone : d \in run.extra \/ d = run.writer[k0] \/ d = mapped[k0]
      /\ \A d \in extra \cup gone : d # None
  <2>1. run.writer[k0] \in Chunk \cup {None} /\ mapped[k0] \in Chunk \cup {None}
    BY <1>3, <1>5
  <2>2. writer \in [Keys -> Chunk \cup {None}] /\ writer[k0] = c
        /\ \A k \in Keys : k # k0 => writer[k] = run.writer[k]
    BY <1>3, <1>4, <1>5
  <2> QED BY <1>3, <2>1, <2>2, NoneAssumption
<1>8. /\ UNCHANGED <<run.search, run.want, run.cur, run.remove, run.dirty, run.amiss, run.moved>>
      /\ run'.rest = Tail(run.rest)
      /\ run'.keys = [run.keys EXCEPT ![c.file] = @ \cup {c.span}]
      /\ run' \in Run
      /\ stay => run'.writer = writer /\ run'.extra = extra /\ run'.flushed = run.flushed
      /\ full => run'.writer = NoChunks /\ run'.extra = {} /\ run'.flushed = TRUE
  <2> HIDE DEF writer, extra, gone
  <2>1. next \in Run
    BY <1>3, <1>4, <1>5 DEF Run
  <2>2. /\ next.search = run.search /\ next.want = run.want /\ next.cur = run.cur
        /\ next.remove = run.remove /\ next.dirty = run.dirty /\ next.amiss = run.amiss
        /\ next.moved = run.moved /\ next.flushed = run.flushed
        /\ next.rest = Tail(run.rest)
        /\ next.keys = [run.keys EXCEPT ![c.file] = @ \cup {c.span}]
    BY <1>3 DEF Run
  <2> HIDE DEF next
  <2>3. CASE stay
    <3>1. run' \in Run
      BY <1>7, <2>1, <2>3 DEF Run
    <3>2. run'.writer = writer /\ run'.extra = extra /\ run'.flushed = run.flushed /\ run'.writer # NoChunks
      <4>1. NoChunks[k0] # writer[k0]
        BY <1>5, <1>7 DEF NoChunks
      <4> QED BY <2>1, <2>2, <2>3, <4>1 DEF Run
    <3>3. /\ UNCHANGED <<run.search, run.want, run.cur, run.remove, run.dirty, run.amiss, run.moved>>
          /\ run'.rest = Tail(run.rest)
          /\ run'.keys = [run.keys EXCEPT ![c.file] = @ \cup {c.span}]
      BY <2>1, <2>2, <2>3 DEF Run
    <3>4. ~full
      <4>1. full => run'.writer = NoChunks
        BY <2>1 DEF Run
      <4> QED BY <3>2, <4>1
    <3> HIDE DEF stay, full
    <3> QED BY <3>1, <3>2, <3>3, <3>4
  <2>4. CASE full
    <3>1. run' \in Run
      BY <1>3, <2>1, <2>4 DEF Run
    <3>2. run'.writer = NoChunks /\ run'.extra = {} /\ run'.flushed = TRUE
      BY <2>1, <2>4 DEF Run
    <3>3. /\ UNCHANGED <<run.search, run.want, run.cur, run.remove, run.dirty, run.amiss, run.moved>>
          /\ run'.rest = Tail(run.rest)
          /\ run'.keys = [run.keys EXCEPT ![c.file] = @ \cup {c.span}]
      BY <2>1, <2>2, <2>4 DEF Run
    <3>4. ~stay
      <4>1. stay => run'.writer = writer
        BY <2>1 DEF Run
      <4>2. NoChunks[k0] # writer[k0]
        BY <1>5, <1>7 DEF NoChunks
      <4> QED BY <3>2, <4>1, <4>2
    <3> HIDE DEF stay, full
    <3> QED BY <3>1, <3>2, <3>3, <3>4
  <2> HIDE DEF stay, full
  <2> QED BY <1>1, <2>3, <2>4
<1> HIDE DEF writer, extra, gone, next
<1>9. \A k \in Keys : Placed(k, mapped[k]) /\ Placed(k, run.writer[k])
                      /\ (run.writer[k] # None => mapped[k] = None /\ run.writer[k].model = run.want)
  BY DEF IInv, Buffer
<1>10. \A k \in Keys : writer[k] # None =>
         /\ Placed(k, writer[k]) /\ writer[k].model = run.want
         /\ k # k0 => mapped[k] = None
  BY <1>5, <1>6, <1>7, <1>9 DEF Placed
<1>11. /\ mapped' \in [Keys -> Chunk \cup {None}] /\ ghosts' \subseteq Chunk
       /\ \A k \in Keys : run'.writer[k] # None => run'.writer[k] = writer[k] /\ mapped'[k] = None
       /\ \A k \in Keys : mapped'[k] # None =>
            mapped'[k] = writer[k] \/ (mapped'[k] = mapped[k] /\ k # k0)
       /\ \A k \in Keys : writer[k] # None => run'.writer[k] = writer[k] \/ mapped'[k] = writer[k]
       /\ \A k \in Keys : mapped[k] # None => mapped'[k] = mapped[k] \/ mapped[k] \in ghosts'
       /\ ghosts \subseteq ghosts'
       /\ ghosts' \subseteq ghosts \cup extra \cup gone /\ run'.extra \subseteq extra
       /\ run'.flushed \/ mapped' = [mapped EXCEPT ![k0] = None]
  <2>1. mapped[k0] # None => mapped[k0] \in gone
    BY DEF gone
  <2>2. CASE stay
    <3>1. \A k \in Keys : mapped'[k] = IF k = k0 THEN None ELSE mapped[k]
      BY <1>3, <2>2
    <3>2. mapped' \in [Keys -> Chunk \cup {None}] /\ ghosts' \subseteq Chunk
      BY <1>3, <1>7, <2>2
    <3>3. run'.writer = writer /\ run'.extra = extra /\ ghosts' = ghosts \cup gone
          /\ mapped' = [mapped EXCEPT ![k0] = None]
      BY <1>8, <2>2
    <3> HIDE DEF stay
    <3> QED BY <1>10, <2>1, <3>1, <3>2, <3>3
  <2>3. CASE full
    <3>1. /\ mapped' = [k \in Keys |-> IF writer[k] # None THEN writer[k] ELSE mapped[k]]
          /\ ghosts' = ghosts \cup (extra \cup gone)
      BY <2>3 DEF Flushed
    <3>2. mapped' \in [Keys -> Chunk \cup {None}] /\ ghosts' \subseteq Chunk
      BY <1>3, <1>7, <3>1
    <3>3. /\ \A k \in Keys : run'.writer[k] = None
          /\ run'.extra = {} /\ run'.flushed
      BY <1>8, <2>3, NoRunHasNothing
    <3>4. \A k \in Keys : mapped'[k] = IF writer[k] # None THEN writer[k] ELSE mapped[k]
      BY <3>1
    <3>5. writer[k0] # None
      BY <1>5, <1>7
    <3> HIDE DEF full
    <3>6. \A k \in Keys : mapped[k] # None => mapped'[k] = mapped[k] \/ mapped[k] \in ghosts'
      BY <1>10, <2>1, <3>1, <3>4
    <3> QED BY <1>10, <3>1, <3>2, <3>3, <3>4, <3>5, <3>6
  <2> HIDE DEF stay, full
  <2> QED BY <1>1, <2>2, <2>3
<1> HIDE DEF stay, full
<1>12. /\ Live \subseteq Live'
       /\ \A k \in Keys : writer[k] # None => writer[k] \in Live' \cup Buffered'
       /\ \A d \in Live' : d \in Live \/ (d \in extra) \/ \E k \in Keys : d = writer[k] /\ writer[k] # None
  <2>1. Live \subseteq Live'
    BY <1>11 DEF Live
  <2>2. \A k \in Keys : writer[k] # None => writer[k] \in Live' \cup Buffered'
    BY <1>11 DEF Live, Buffered
  <2>3. gone \subseteq Live
    BY <1>5 DEF gone, Live
  <2>4. \A d \in Live' : d \in Live \/ (d \in extra) \/ \E k \in Keys : d = writer[k] /\ writer[k] # None
    BY <1>11, <2>3 DEF Live
  <2> QED BY <2>1, <2>2, <2>4
<1>13. \A d \in extra : d.model = run.want
  BY <1>5, <1>9 DEF extra, IInv, Buffer
<1>14. TypeOK'
  <2>1. \A d \in Live' : DimOf[d.model] = dim
    <3>1. DimOf[run.want] = dim
      BY <1>1 DEF IInv, Buffer
    <3>2. \A d \in Live : DimOf[d.model] = dim
      BY DEF IInv, TypeOK
    <3> QED BY <1>10, <1>12, <1>13, <3>1, <3>2
  <2> QED BY <1>1, <1>11, <2>1 DEF IInv, TypeOK
<1>15. Types'
  <2>1. run' \in Run'
    BY <1>2, <1>8 DEF Run
  <2> QED BY <1>1, <1>2, <1>8, <2>1 DEF IInv, Types
<1>16. Buffer'
  <2>1. \A k \in Keys : Placed(k, mapped'[k]) /\ Placed(k, run'.writer[k])
    BY <1>9, <1>10, <1>11 DEF Placed
  <2>2. \A k \in Keys : run'.writer[k] # None =>
          run'.writer[k].model = run.want /\ mapped'[k] = None
    BY <1>10, <1>11
  <2>3. \A d \in run'.extra : d.model = run.want
    BY <1>11, <1>13
  <2>4. DimOf[run'.want] = dim'
    BY <1>1, <1>8 DEF IInv, Buffer
  <2> QED BY <1>1, <1>8, <2>1, <2>2, <2>3, <2>4 DEF Buffer
<1>17. Read'
  BY <1>1, <1>2, <1>4, <1>8 DEF IInv, Read
<1>18. Kept'
  BY <1>1, <1>12, HoldsMore DEF IInv, Kept, Holds
<1>19. OnlyBack' /\ Removing' /\ Watched' /\ Served'
  BY <1>1, <1>2, <1>8 DEF IInv, OnlyBack, Returned, Removing, Watched, Served
<1>20. Coming'
  <2> SUFFICES ASSUME NEW f \in Files \ run.amiss, run.cur[f] # None, f \notin run.dirty,
                      NEW s \in Range(run.cur[f].shape)
               PROVE  \E d \in Live' \cup Buffered' \cup Range(Tail(run.rest)) :
                        d.file = f /\ d.span = s /\ d.ver = run.cur[f].ver
    BY <1>1, <1>2, <1>8 DEF Coming, Holds
  <2>1. PICK d \in Live \cup Buffered \cup Range(run.rest) :
          d.file = f /\ d.span = s /\ d.ver = run.cur[f].ver
    BY <1>2 DEF IInv, Coming, Holds
  <2>2. c \in Live' \cup Buffered'
    BY <1>5, <1>7, <1>12
  <2>3. CASE d \in Live \/ d \in Range(Tail(run.rest))
    BY <1>12, <2>1, <2>3
  <2>4. CASE d = c
    BY <2>1, <2>2, <2>4
  <2>5. CASE d \in Buffered
    <3>1. PICK k \in Keys : d = run.writer[k] /\ run.writer[k] # None
      BY <2>5 DEF Buffered
    <3>2. CASE k = k0
      <4>1. c.file = f /\ c.span = s
        BY <1>5, <1>9, <2>1, <3>1, <3>2 DEF Placed
      <4>2. c.ver = run.cur[f].ver
        BY <1>6, <4>1
      <4> QED BY <2>2, <4>1, <4>2
    <3>3. CASE k # k0
      BY <1>7, <1>12, <2>1, <3>1, <3>3
    <3> QED BY <3>2, <3>3
  <2> QED BY <1>4, <2>1, <2>3, <2>4, <2>5
<1>21. ~hurt' => Agreed' /\ Clearing' /\ Filling'
  <2> SUFFICES ASSUME ~hurt PROVE Agreed' /\ Filling'
    BY <1>1 DEF Clearing
  <2>1. mapped[k0] = None /\ run.writer[k0] = None
    BY <1>1, <1>4, <1>5 DEF IInv, Filling, k0, c
  <2>2. /\ extra = {} /\ gone = {} /\ ghosts = {}
        /\ ghosts' = {} /\ run'.extra = {}
    <3>1. extra = {} /\ gone = {} /\ ghosts = {}
      BY <2>1 DEF IInv, Agreed, extra, gone
    <3> QED BY <1>11, <3>1
  <2>3. \A k \in Keys : k[1] \in Files /\ run.keys[k[1]] \subseteq run'.keys[k[1]]
    <3>1. \A k \in Keys : k[1] \in Files
      BY DEF Keys
    <3> QED BY <1>3, <1>5, <1>8, <3>1
  <2>4. k0[2] \in run'.keys[k0[1]]
    BY <1>3, <1>5, <1>8
  <2>5. Fits(k0, c, run.cur, run'.keys, run.want, run.amiss)
    BY <1>5, <1>6, <2>4 DEF Fits
  <2>6. \A k \in Keys : writer[k] # None => Fits(k, writer[k], run.cur, run'.keys, run.want, run.amiss)
    <3> SUFFICES ASSUME NEW k \in Keys, writer[k] # None, k # k0
                 PROVE  Fits(k, writer[k], run.cur, run'.keys, run.want, run.amiss)
      BY <1>7, <2>5
    <3>1. Fits(k, run.writer[k], run.cur, run.keys, run.want, run.amiss)
      BY <1>1, <1>7 DEF IInv, Agreed, New
    <3> QED BY <1>7, <2>3, <3>1 DEF Fits
  <2>7. \A k \in Keys : mapped[k] # None => Fits(k, mapped[k], run.cur, run'.keys, run.want, run.amiss)
    <3> SUFFICES ASSUME NEW k \in Keys, mapped[k] # None
                 PROVE  Fits(k, mapped[k], run.cur, run'.keys, run.want, run.amiss)
      OBVIOUS
    <3>1. Fits(k, mapped[k], run.cur, run.keys, run.want, run.amiss)
      BY <1>1 DEF IInv, Agreed, New
    <3> QED BY <2>3, <3>1 DEF Fits
  <2>8. \A k \in Keys :
          /\ mapped'[k] # None => Fits(k, mapped'[k], run.cur, run'.keys, run.want, run.amiss)
          /\ run'.writer[k] # None => Fits(k, run'.writer[k], run.cur, run'.keys, run.want, run.amiss)
    BY <1>11, <2>6, <2>7
  <2>9. Old' => \A k \in Keys : mapped'[k] # None =>
          Fits(k, mapped'[k], saved.files, sidecar, saved.meta, touched)
    <3> SUFFICES ASSUME Old', NEW k \in Keys, mapped'[k] # None
                 PROVE  Fits(k, mapped'[k], saved.files, sidecar, saved.meta, touched)
      OBVIOUS
    <3>1. ~run'.flushed
      BY <1>1 DEF Old
    <3>2. mapped' = [mapped EXCEPT ![k0] = None] /\ mapped'[k] = mapped[k] /\ mapped[k] # None
      BY <1>3, <1>11, <3>1
    <3>3. ~run.flushed
      BY <1>1, <1>8, <3>1 DEF stay, full
    <3> QED BY <1>1, <1>2, <3>2, <3>3 DEF IInv, Agreed, Old
  <2>10. Agreed'
    BY <1>1, <1>2, <1>8, <2>2, <2>8, <2>9 DEF Agreed, Fits
  <2>11. Filling'
    <3>1. \A i \in 1 .. Len(Tail(run.rest)) :
            i + 1 \in 1 .. Len(run.rest) /\ i + 1 # 1 /\ Tail(run.rest)[i] = run.rest[i + 1]
      BY <1>4
    <3>2. \A i \in 1 .. Len(Tail(run.rest)) : KeyOf(Tail(run.rest)[i]) # k0
      BY <1>1, <1>4, <3>1 DEF IInv, Filling, k0
    <3>3. \A i, j \in 1 .. Len(Tail(run.rest)) :
            KeyOf(Tail(run.rest)[i]) = KeyOf(Tail(run.rest)[j]) => i = j
      <4> SUFFICES ASSUME NEW i \in 1 .. Len(Tail(run.rest)), NEW j \in 1 .. Len(Tail(run.rest)),
                          KeyOf(Tail(run.rest)[i]) = KeyOf(Tail(run.rest)[j])
                   PROVE  i = j
        OBVIOUS
      <4>1. i + 1 = j + 1
        BY <1>1, <3>1 DEF IInv, Filling
      <4> QED BY <1>4, <4>1
    <3>4. \A k \in Keys : mapped[k] # None \/ run.writer[k] # None =>
            k[1] \notin run.dirty
            /\ \A i \in 1 .. Len(Tail(run.rest)) : KeyOf(Tail(run.rest)[i]) # k
      BY <1>1, <3>1 DEF IInv, Filling
    <3>5. k0[1] \notin run.dirty
      BY <1>5, <1>6
    <3>6. \A k \in Keys : mapped'[k] # None \/ run'.writer[k] # None =>
            k = k0 \/ mapped[k] # None \/ run.writer[k] # None
      BY <1>7, <1>11
    <3>7. \A k \in Keys : mapped'[k] # None \/ run'.writer[k] # None =>
            k[1] \notin run.dirty
            /\ \A i \in 1 .. Len(Tail(run.rest)) : KeyOf(Tail(run.rest)[i]) # k
      BY <3>2, <3>4, <3>5, <3>6
    <3>8. run'.dirty = run.dirty /\ run'.rest = Tail(run.rest)
      BY <1>8
    <3> QED BY <3>3, <3>7, <3>8, Zenon DEF Filling
  <2> QED BY <2>10, <2>11
<1> QED BY <1>14, <1>15, <1>16, <1>17, <1>18, <1>19, <1>20, <1>21 DEF IInv

LEMMA FlushStep ==
  ASSUME IInv, flush
  PROVE  IInv'
<1>1. /\ UNCHANGED <<tree, model, edits, models, dim, sidecar, saved, hurt, touched, back>>
      /\ pc = "upsert" /\ pc' = "truncateSidecar" /\ run.dirty = {} /\ run.rest = <<>>
      /\ mapped' = [k \in Keys |-> IF run.writer[k] # None THEN run.writer[k] ELSE mapped[k]]
      /\ ghosts' = ghosts \cup run.extra
      /\ run' = [run EXCEPT !.writer = NoChunks, !.extra = {}]
  BY DEF flush, Flushed, outer
<1>2. UNCHANGED Seen /\ ~Reading' /\ Reading /\ ~Writing /\ Writing'
  BY <1>1 DEF Seen, Reading, Writing
<1>3. /\ run \in Run /\ run.want \in Models /\ mapped \in [Keys -> Chunk \cup {None}]
      /\ ghosts \subseteq Chunk /\ NoChunks \in [Keys -> Chunk \cup {None}]
  BY <1>2 DEF IInv, Types, TypeOK, NoChunks
<1>4. /\ UNCHANGED <<run.search, run.want, run.cur, run.dirty, run.remove, run.rest, run.keys,
                     run.flushed, run.amiss, run.moved>>
      /\ run'.writer = NoChunks /\ run'.extra = {} /\ run' \in Run
  BY <1>1, <1>3 DEF Run
<1>5. \A k \in Keys : /\ run.writer[k] # None => mapped'[k] = run.writer[k] /\ mapped[k] = None
                      /\ run.writer[k] = None => mapped'[k] = mapped[k]
                      /\ run'.writer[k] = None
  BY <1>1, <1>4 DEF IInv, Buffer, NoChunks
<1>6. Live \cup Buffered \subseteq Live' /\ Live' \subseteq Live \cup Buffered \cup run.extra
  <2>1. \A k \in Keys : mapped[k] # None => mapped'[k] = mapped[k]
    BY <1>5
  <2>2. Live \cup Buffered \subseteq Live'
    BY <1>1, <1>5, <2>1 DEF Live, Buffered
  <2>3. Live' \subseteq Live \cup Buffered \cup run.extra
    BY <1>1, <1>5 DEF Live, Buffered
  <2> QED BY <2>2, <2>3
<1>7. TypeOK'
  <2>1. mapped' \in [Keys -> Chunk \cup {None}] /\ ghosts' \subseteq Chunk
    BY <1>1, <1>3 DEF Run
  <2>2. \A c \in Live' : DimOf[c.model] = dim'
    <3>1. DimOf[run.want] = dim
      BY <1>1 DEF IInv, Buffer
    <3>2. \A c \in Buffered \cup run.extra : c.model = run.want
      BY DEF IInv, Buffer, Buffered
    <3>3. \A c \in Live : DimOf[c.model] = dim
      BY DEF IInv, TypeOK
    <3> QED BY <1>1, <1>6, <3>1, <3>2, <3>3
  <2> QED BY <1>1, <2>1, <2>2 DEF IInv, TypeOK
<1>8. Types'
  <2>1. run' \in Run'
    BY <1>2, <1>4 DEF Run
  <2> QED BY <1>1, <1>2, <1>3, <1>4, <2>1 DEF IInv, Types
<1>9. Buffer' /\ Read'
  BY <1>1, <1>2, <1>4, <1>5, NoRunHasNothing DEF IInv, Buffer, Read, Placed
<1>10. Kept'
  BY <1>1, <1>6 DEF IInv, Kept, Holds
<1>11. Coming'
  <2> SUFFICES ASSUME NEW f \in Files \ run.amiss, run.cur[f] # None
               PROVE  Holds(Live', f, run.cur[f])
    BY <1>1, <1>2, <1>4, HoldsMore DEF Coming, Holds
  <2>1. Range(run.rest) = {}
    BY <1>1, NoRunHasNothing
  <2>2. Holds(Live \cup Buffered \cup Range(run.rest), f, run.cur[f])
    BY <1>1, <1>2 DEF IInv, Coming
  <2> QED BY <1>6, <2>1, <2>2 DEF Holds
<1>12. OnlyBack' /\ Removing' /\ Watched' /\ Served'
  BY <1>1, <1>2, <1>4 DEF IInv, OnlyBack, Returned, Removing, Watched, Served
<1>13. ~hurt' => Agreed' /\ Clearing' /\ Filling'
  <2> SUFFICES ASSUME ~hurt PROVE Agreed'
    BY <1>1 DEF Clearing, Filling
  <2>1. \A k \in Keys : mapped'[k] # None =>
          Fits(k, mapped'[k], run.cur, run.keys, run.want, run.amiss)
    BY <1>1, <1>5 DEF IInv, Agreed, New
  <2>2. ghosts' = {} /\ run'.extra = {}
    BY <1>1, <1>4 DEF IInv, Agreed
  <2> QED BY <1>1, <1>2, <1>4, <1>5, <2>1, <2>2 DEF Agreed, Fits, Old
<1> QED BY <1>7, <1>8, <1>9, <1>10, <1>11, <1>12, <1>13 DEF IInv

(* The two files, emptied and then written.                                *)
LEMMA SidecarStep ==
  ASSUME IInv, TruncateSidecar \/ saveSidecar
  PROVE  IInv'
<1>1. /\ UNCHANGED <<tree, model, edits, models, mapped, ghosts, dim, saved, run, hurt, touched, back>>
      /\ pc \in {"truncateSidecar", "writeSidecar"}
      /\ \/ pc' = "writeSidecar" /\ sidecar' = NoSpans
         \/ pc' = "truncateManifest" /\ sidecar' = run.keys
  BY DEF TruncateSidecar, saveSidecar, outer
<1>2. UNCHANGED <<Live, Seen, Buffered>> /\ ~Reading' /\ ~Reading /\ Writing /\ Writing'
  BY <1>1 DEF Live, Seen, Reading, Writing, Buffered
<1>3. TypeOK'
  <2>1. sidecar' \in [Files -> SUBSET Spans]
    BY <1>1 DEF IInv, Types, Run, NoSpans
  <2> QED BY <1>1, <1>2, <2>1 DEF IInv, TypeOK
<1>4. Types'
  BY <1>1, <1>2 DEF IInv, Types, Run
<1>5. Buffer' /\ Read'
  BY <1>1, <1>2 DEF IInv, Buffer, Read, Placed
<1>6. Kept' /\ Coming' /\ OnlyBack' /\ Removing' /\ Watched' /\ Served'
  BY <1>1, <1>2 DEF IInv, Kept, Coming, OnlyBack, Returned, Removing, Watched, Served, Holds
<1>7. ~hurt' => Agreed' /\ Clearing' /\ Filling'
  BY <1>1, <1>2 DEF IInv, Agreed, Clearing, Filling, Fits, Old, New
<1> QED BY <1>3, <1>4, <1>5, <1>6, <1>7 DEF IInv

LEMMA TruncateManifestStep ==
  ASSUME IInv, TruncateManifest
  PROVE  IInv'
<1>1. /\ UNCHANGED <<tree, model, edits, models, mapped, ghosts, dim, sidecar, run, hurt, touched, back>>
      /\ pc = "truncateManifest" /\ pc' = "writeManifest" /\ saved' = emptyManifest
  BY DEF TruncateManifest, outer
<1>2. UNCHANGED <<Live, Seen, Buffered>> /\ ~Reading' /\ ~Reading /\ Writing /\ Writing'
  BY <1>1 DEF Live, Seen, Reading, Writing, Buffered
<1>3. TypeOK'
  BY <1>1, <1>2 DEF IInv, TypeOK, emptyManifest
<1>4. Types'
  <2>1. saved' \in [files : [Files -> Seen], meta : Models \cup {None}]
    BY <1>1, Seens DEF IInv, Types
  <2> QED BY <1>1, <1>2, <2>1 DEF IInv, Types, Run
<1>5. Buffer' /\ Read'
  BY <1>1, <1>2 DEF IInv, Buffer, Read, Placed
<1>6. Kept' /\ OnlyBack'
  <2>1. touched \subseteq Files /\ \A f \in Files : saved'.files[f] = None
    BY <1>1 DEF emptyManifest, NoFiles, IInv, TypeOK
  <2> QED BY <1>1, <1>2, <2>1 DEF IInv, Kept, OnlyBack, Returned
<1>7. Coming' /\ Removing' /\ Watched' /\ Served'
  BY <1>1, <1>2 DEF IInv, Coming, Removing, Watched, Served, Holds
<1>8. ~hurt' => Agreed' /\ Clearing' /\ Filling'
  BY <1>1, <1>2 DEF IInv, Agreed, Clearing, Filling, Fits, Old, New
<1> QED BY <1>3, <1>4, <1>5, <1>6, <1>7, <1>8 DEF IInv

LEMMA SaveManifestStep ==
  ASSUME IInv, saveManifest
  PROVE  IInv'
<1>1. /\ UNCHANGED <<tree, model, edits, models, mapped, ghosts, dim, sidecar, hurt, back>>
      /\ pc = "writeManifest" /\ saved' = [files |-> run.cur, meta |-> run.want]
      /\ touched' = run.amiss
      /\ \/ pc' = "serve" /\ run.search /\ run' = run
         \/ pc' = "idle" /\ run' = NoRun
  BY DEF saveManifest, outer
<1>2. UNCHANGED <<Live, Seen>> /\ ~Reading' /\ ~Reading /\ Writing /\ ~Writing'
  BY <1>1 DEF Live, Seen, Reading, Writing
<1>3. saved'.files = run.cur /\ saved'.meta = run.want
  BY <1>1
<1>4. /\ run \in Run /\ run.want \in Models /\ run.dirty = {} /\ run.rest = <<>>
      /\ run.amiss \subseteq Files
      /\ \A k \in Keys : run.writer[k] = None
  BY <1>1, <1>2 DEF IInv, Types, Buffer, Run
<1>5. /\ run' \in Run /\ run'.rest = <<>>
      /\ \A k \in Keys : run'.writer[k] = None
      /\ run'.extra = {}
  <2>1. run.extra = {}
    BY <1>1 DEF IInv, Buffer
  <2>2. NoRun \in Run
    BY Seens DEF IInv, Types
  <2>3. CASE run' = run
    BY <1>4, <2>1, <2>3
  <2>4. CASE run' = NoRun
    BY <2>2, <2>4, NoRunHasNothing
  <2> QED BY <1>1, <2>3, <2>4
<1>6. TypeOK'
  BY <1>1, <1>2, <1>3, <1>4 DEF IInv, TypeOK
<1>7. Types'
  <2>1. run' \in Run'
    BY <1>2, <1>5 DEF Run
  <2>2. saved' \in [files : [Files -> Seen'], meta : Models \cup {None}]
    BY <1>1, <1>2, <1>4 DEF Run
  <2> QED BY <1>1, <1>2, <1>5, <2>1, <2>2 DEF IInv, Types
<1>8. Buffer' /\ Read'
  BY <1>1, <1>2, <1>5, NoRunHasNothing DEF IInv, Buffer, Read, Placed
<1>9. \A f \in Files \ run.amiss : run.cur[f] # None => Holds(Live, f, run.cur[f])
  <2>1. Buffered = {} /\ Range(run.rest) = {}
    BY <1>4, NoRunHasNothing DEF Buffered
  <2> QED BY <1>2, <1>4, <2>1 DEF IInv, Coming, Holds
<1>10. Kept' /\ OnlyBack'
  BY <1>1, <1>2, <1>3, <1>9 DEF IInv, Kept, OnlyBack, Returned, Holds
<1>11. Coming' /\ Removing' /\ Watched'
  BY <1>1, <1>2 DEF Coming, Removing, Watched
<1>12. Served'
  <2> SUFFICES ASSUME pc' = "serve", NEW f \in Files \ (run'.moved \cup Mistaken'), tree[f] # None
               PROVE  Holds(Live, f, tree[f])
    BY <1>1, <1>2 DEF Served, Holds
  <2>1. run.search /\ run' = run
    BY <1>1
  <2>2. run.cur[f] = tree[f]
    BY <1>2, <2>1 DEF IInv, Watched
  <2>3. f \notin run.amiss
    BY <1>1, <1>2, <2>2 DEF IInv, OnlyBack, Returned, Mistaken
  <2> QED BY <1>9, <2>2, <2>3
<1>13. ~hurt' => Agreed' /\ Clearing' /\ Filling'
  <2> SUFFICES ASSUME ~hurt PROVE Agreed'
    BY <1>1 DEF Clearing, Filling
  <2>1. sidecar = run.keys /\ ghosts = {}
    BY <1>1, <1>2 DEF IInv, Agreed
  <2>2. \A k \in Keys : mapped[k] # None => Fits(k, mapped[k], run.cur, run.keys, run.want, run.amiss)
    BY <1>2 DEF IInv, Agreed, New
  <2> QED BY <1>1, <1>2, <1>3, <1>5, <2>1, <2>2 DEF Agreed, Fits, Old, New
<1> QED BY <1>6, <1>7, <1>8, <1>10, <1>11, <1>12, <1>13 DEF IInv

LEMMA StutterStep ==
  ASSUME IInv, UNCHANGED vars
  PROVE  IInv'
<1>1. UNCHANGED <<tree, model, edits, models, mapped, ghosts, dim, sidecar, saved, pc, run, hurt,
                  touched, back>>
  BY DEF vars, outer, disk
<1>2. UNCHANGED <<Live, Seen, Buffered, Reading, Writing>>
  BY <1>1 DEF Live, Seen, Reading, Writing, Buffered
<1>3. TypeOK' /\ Types' /\ Buffer' /\ Read'
  BY <1>1, <1>2 DEF IInv, TypeOK, Types, Run, Buffer, Read, Placed
<1>4. Kept' /\ Coming' /\ OnlyBack' /\ Removing' /\ Watched' /\ Served'
  BY <1>1, <1>2
     DEF IInv, Kept, Coming, OnlyBack, Returned, Removing, Watched, Served, Mistaken, Holds
<1>5. ~hurt' => Agreed' /\ Clearing' /\ Filling'
  BY <1>1, <1>2 DEF IInv, Agreed, Clearing, Filling, Fits, Old, New
<1> QED BY <1>3, <1>4, <1>5 DEF IInv

LEMMA NextInv == IInv /\ [Next]_vars => IInv'
<1> SUFFICES ASSUME IInv, [Next]_vars PROVE IInv'
  OBVIOUS
<1>1. CASE reindex
  <2>1. CASE ScanAndDiff
    BY <2>1, ScanStep
  <2>2. CASE open
    BY <2>2, OpenStep
  <2>3. CASE Removed
    BY <2>3, RemovedStep
  <2>4. ASSUME NEW f \in Files, removePath(f) \/ ReadFile(f) PROVE IInv'
    BY <2>4, RemovePathStep, ReadFileStep
  <2>5. CASE upsert \/ flush
    BY <2>5, UpsertStep, FlushStep
  <2>6. CASE TruncateSidecar \/ saveSidecar
    BY <2>6, SidecarStep
  <2>7. CASE TruncateManifest \/ saveManifest
    BY <2>7, TruncateManifestStep, SaveManifestStep
  <2>8. CASE OpenRefused \/ ReadFails
    BY <2>8, IdleStep
  <2> QED BY <1>1, <2>1, <2>2, <2>3, <2>4, <2>5, <2>6, <2>7, <2>8 DEF reindex
<1>2. CASE querySearch
  BY <1>2, IdleStep
<1>3. CASE Environment
  BY <1>3, EditStep, ReconfigureStep, CallStep, IdleStep DEF Environment
<1>4. CASE UNCHANGED vars
  BY <1>4, StutterStep
<1> QED BY <1>1, <1>2, <1>3, <1>4 DEF Next

-----------------------------------------------------------------------------
(* The theorems *)

LEMMA Invariance == Spec => []IInv
BY InitInv, NextInv, PTL DEF Spec

(* Whatever is reconfigured, the vectors in the index all have the         *)
(* dimension the index was made for: addDocument() and index.js's check of *)
(* the dimension keep a change of model from mixing two of them.           *)
THEOREM SpoorTypes == Spec => []TypeOK
<1>1. IInv => TypeOK
  BY DEF IInv
<1> QED BY <1>1, Invariance, PTL

(* reindex() saves the manifest last, and hashes before it reads: a file   *)
(* that the manifest says is unchanged has all its chunks in the index,    *)
(* unless it has come back to that content after a request removed them or *)
(* read another.                                                           *)
THEOREM FreshIsAlwaysCovered == Spec => []FreshIsCovered
<1>1. IInv => FreshIsCovered
  <2> SUFFICES ASSUME IInv, NEW f \in Files \ Mistaken, tree[f] # None, saved.files[f] = tree[f]
               PROVE  \A c \in ChunksOf(f, tree[f], model) : \E d \in Live : d = [c EXCEPT !.model = d.model]
    BY DEF FreshIsCovered
  <2>1. f \notin touched
    BY DEF IInv, OnlyBack, Returned, Mistaken
  <2>2. Holds(Live, f, tree[f]) /\ Live \subseteq Chunk
    BY <2>1, LiveIsChunks DEF IInv, Kept
  <2> QED BY <2>2, Covers
<1> QED BY <1>1, Invariance, PTL

(* querySearch() looks through all chunks of every file that stayed as it  *)
(* was since the search was called, whether it had to reindex or not, the  *)
(* files that came back so excepted.                                       *)
THEOREM SearchAlwaysSeesTree == Spec => []SearchSeesTree
<1>1. IInv => SearchSeesTree
  <2> SUFFICES ASSUME IInv, pc = "serve", NEW f \in Files \ (run.moved \cup Mistaken), tree[f] # None
               PROVE  \A c \in ChunksOf(f, tree[f], model) : \E d \in Live : d = [c EXCEPT !.model = d.model]
    BY DEF SearchSeesTree
  <2>1. Holds(Live, f, tree[f]) /\ Live \subseteq Chunk
    BY LiveIsChunks DEF IInv, Served
  <2> QED BY <2>1, Covers
<1> QED BY <1>1, Invariance, PTL

(* "Replace-not-append": a request that ends before the engine's first     *)
(* flush adds nothing to the index, and one that ends after the manifest   *)
(* leaves nothing but the chunks of the files the manifest vouches for.    *)
THEOREM UnhurtIsAlwaysExact == Spec => []UnhurtIsExact
<1>1. IInv => UnhurtIsExact
  <2> SUFFICES ASSUME IInv, pc = "idle", ~hurt
               PROVE  /\ ghosts = {}
                      /\ \A f \in Files \ Mistaken : saved.files[f] = tree[f] =>
                           {c \in Live : c.file = f} =
                             IF tree[f] = None THEN {} ELSE ChunksOf(f, tree[f], saved.meta)
    BY DEF UnhurtIsExact
  <2>1. ghosts = {} /\ \A k \in Keys : mapped[k] # None =>
          Fits(k, mapped[k], saved.files, sidecar, saved.meta, touched)
    BY DEF IInv, Agreed, Old, Writing
  <2> SUFFICES ASSUME NEW f \in Files \ Mistaken, saved.files[f] = tree[f]
               PROVE  {c \in Live : c.file = f} =
                        IF tree[f] = None THEN {} ELSE ChunksOf(f, tree[f], saved.meta)
    BY <2>1
  <2>2. tree[f] # None => f \notin touched
    BY DEF IInv, OnlyBack, Returned, Mistaken
  <2>3. ASSUME NEW c \in Live, c.file = f
        PROVE  /\ tree[f] # None /\ c.span \in Range(tree[f].shape)
               /\ c = [file |-> f, span |-> c.span, ver |-> tree[f].ver, model |-> saved.meta]
    <3>1. PICK k \in Keys : c = mapped[k] /\ mapped[k] # None
      BY <2>1 DEF Live
    <3>2. k[1] = f /\ k[2] = c.span
      BY <2>3, <3>1 DEF IInv, Buffer, Placed
    <3>3. Fits(k, c, saved.files, sidecar, saved.meta, touched)
      BY <2>1, <3>1
    <3>4. c \in Chunk
      BY LiveIsChunks DEF IInv
    <3> QED BY <2>2, <2>3, <3>2, <3>3, <3>4 DEF Fits, Chunk
  <2>4. CASE tree[f] = None
    BY <2>3, <2>4
  <2>5. CASE tree[f] # None
    <3>0. ChunksOf(f, tree[f], saved.meta)
            = {[file |-> f, span |-> s, ver |-> tree[f].ver, model |-> saved.meta] : s \in Range(tree[f].shape)}
      BY DEF ChunksOf, Cut, Range
    <3>1. ASSUME NEW c \in Live, c.file = f PROVE c \in ChunksOf(f, tree[f], saved.meta)
      BY <2>3, <3>0, <3>1
    <3>2. ASSUME NEW s \in Range(tree[f].shape)
          PROVE  [file |-> f, span |-> s, ver |-> tree[f].ver, model |-> saved.meta] \in Live
      <4>1. PICK d \in Live : d.file = f /\ d.span = s
        BY <2>2, <2>5 DEF IInv, Kept, Holds
      <4> QED BY <2>3, <4>1
    <3>3. \A c \in ChunksOf(f, tree[f], saved.meta) : c \in Live /\ c.file = f
      BY <3>0, <3>2
    <3> QED BY <2>5, <3>1, <3>3
  <2> QED BY <2>4, <2>5
<1> QED BY <1>1, Invariance, PTL
=============================================================================
