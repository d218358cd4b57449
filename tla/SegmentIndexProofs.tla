------------------------- MODULE SegmentIndexProofs -------------------------
(***************************************************************************)
(* What SegmentIndex guarantees for every number of keys, calls, crashes   *)
(* and faults, and every mode.  First the bookkeeping of generations,      *)
(* which is what keeps open() from failing and a stale keymap entry from   *)
(* naming a document of a newer segment.  Then what the segments, the      *)
(* keymap and the tombstones say of one another: a tombstone is of a       *)
(* document that exists, a place the keymap names is of the key it names   *)
(* it for, and open(), when it rebuilds the keymap, leaves one live copy   *)
(* per key.                                                                *)
(*                                                                         *)
(* ManifestComplete and GenerationsBurnt are not inductive: whether a step *)
(* keeps them depends on where the compaction that runs has put its output *)
(* and its inputs, and on what the memory segment is about to become.  Inv *)
(* says so, part by part, and is inductive.                                *)
(***************************************************************************)
EXTENDS SegmentIndex, SequenceTheorems, FiniteSetTheorems, TLAPS

-----------------------------------------------------------------------------
(* The inductive invariant                                                 *)

(* The shape of what is not in CatalogueTypeOK.                            *)
Shapes ==
  /\ CatalogueTypeOK
  /\ DOMAIN writer = {"gen", "docs", "del"}
  /\ wal \in Seq(Record)

(* A call by key names its key, and a procedure runs for its own calls.    *)
CallsNamed ==
  /\ call.op \in {"add", "update", "delete"} => call.key \in Keys
  /\ pc \in {"index", "logUpdate"} => call.op \in {"add", "update"}
  /\ pc \in {"unmap", "logDelete"} => call.op = "delete"

(* Everything that exists has a number below the saved next generation,    *)
(* which the loaded manifest is never behind.                              *)
Numbered ==
  /\ \A g \in DOMAIN files : 0 < g /\ g < disk.gen
  /\ \A k \in Keys : keymap[k].gen < disk.gen
  /\ writer.gen < disk.gen
  /\ pc # "down" => disk.gen <= manifest.gen

(* Both lists name complete segments, each once.                           *)
Listed ==
  /\ Range(disk.segs) \subseteq DOMAIN files
  /\ Range(manifest.segs) \subseteq DOMAIN files
  /\ IsInjective(disk.segs) /\ IsInjective(manifest.segs)
  /\ pc = "sweep" => manifest = disk

(* The memory segment is in neither list, and is written before it is      *)
(* registered.                                                             *)
WriterApart ==
  /\ writer.gen \notin Range(disk.segs) \cup Range(manifest.segs)
  /\ (writer.docs # <<>> \/ pc = "index") => writer.gen # 0
  /\ pc = "register" => writer.gen \in DOMAIN files

(* The output of a compaction has a number of its own until the swap.      *)
OutputApart ==
  /\ pc \in {"merge", "mark", "repoint", "unlist"} =>
       /\ 0 < job.out /\ job.out < disk.gen /\ job.out # writer.gen
       /\ job.out \notin Range(disk.segs) \cup Range(manifest.segs) \cup Range(job.inputs)
  /\ pc \in {"mark", "repoint", "unlist"} => job.out \in DOMAIN files

(* The inputs are listed until they are unlisted, and their files deleted  *)
(* only when neither list has them.                                        *)
InputsApart ==
  /\ pc = "takeOutput" => Range(job.inputs) \subseteq DOMAIN files
  /\ pc \in {"takeOutput", "merge", "mark", "repoint", "unlist"} =>
       \A g \in Range(job.inputs) : g \in Range(job.left) \/ g \notin Range(manifest.segs)
  /\ pc = "dropInputs" =>
       \A g \in Range(job.inputs) : g \notin Range(disk.segs) \cup Range(manifest.segs)

Inv ==
  /\ Shapes /\ CallsNamed
  /\ Numbered /\ Listed /\ WriterApart /\ OutputApart /\ InputsApart
-----------------------------------------------------------------------------
(* The list operations of the manifest                                     *)

(* Listing a generation adds it, and no other, to the listed ones.         *)
LEMMA AppendRange ==
  ASSUME NEW s \in Seq(Nat), NEW g \in Nat
  PROVE  /\ Append(s, g) \in Seq(Nat)
         /\ Range(Append(s, g)) = Range(s) \cup {g}
<1>1. /\ Len(s) \in Nat /\ DOMAIN s = 1 .. Len(s)
      /\ Append(s, g) \in Seq(Nat) /\ Len(Append(s, g)) = Len(s) + 1
      /\ \A i \in 1 .. Len(s) : Append(s, g)[i] = s[i]
      /\ Append(s, g)[Len(s) + 1] = g
  BY LenProperties, AppendProperties
<1>2. DOMAIN Append(s, g) = 1 .. Len(s) + 1
  BY <1>1, LenProperties
<1>3. Range(Append(s, g)) \subseteq Range(s) \cup {g}
  BY <1>1, <1>2 DEF Range
<1>4. Range(s) \subseteq Range(Append(s, g)) /\ g \in Range(Append(s, g))
  BY <1>1, <1>2 DEF Range
<1> QED
  BY <1>1, <1>3, <1>4

(* Listing a generation that is not listed keeps the list free of repeats. *)
LEMMA AppendInjects ==
  ASSUME NEW s \in Seq(Nat), IsInjective(s), NEW g \in Nat, g \notin Range(s)
  PROVE  IsInjective(Append(s, g))
<1>1. /\ Len(s) \in Nat /\ DOMAIN s = 1 .. Len(s)
      /\ DOMAIN Append(s, g) = 1 .. Len(s) + 1
      /\ \A i \in 1 .. Len(s) : Append(s, g)[i] = s[i]
      /\ Append(s, g)[Len(s) + 1] = g
  BY LenProperties, AppendProperties
<1> QED
  BY <1>1 DEF IsInjective, Range

(* Unlisting a generation takes it, and no other, from the list.           *)
LEMMA WithoutShrinks ==
  ASSUME NEW s \in Seq(Nat), IsInjective(s), NEW g \in Nat
  PROVE  /\ Without(s, g) \in Seq(Nat)
         /\ IsInjective(Without(s, g))
         /\ Range(Without(s, g)) \subseteq Range(s) \ {g}
<1>1. CASE ~\E i \in DOMAIN s : s[i] = g
  BY <1>1 DEF Without, Range
<1>2. CASE \E i \in DOMAIN s : s[i] = g
  <2> DEFINE at == CHOOSE i \in DOMAIN s : s[i] = g
             n  == Len(s)
             l  == SubSeq(s, 1, at - 1)
             r  == SubSeq(s, at + 1, n)
  <2>1. n \in Nat /\ DOMAIN s = 1 .. n /\ \A i \in 1 .. n : s[i] \in Nat
    BY LenProperties, ElementOfSeq
  <2>2. at \in 1 .. n /\ s[at] = g
    BY <1>2, <2>1
  <2>3. Without(s, g) = l \o r
    BY <1>2 DEF Without, RemoveAt
  <2> HIDE DEF at, n
  <2>4. /\ l \in Seq(Nat) /\ Len(l) = at - 1
        /\ \A i \in 1 .. at - 1 : l[i] = s[i]
    <3>1. 1 \in Int /\ at - 1 \in Int /\ \A i \in 1 .. at - 1 : s[i] \in Nat
      BY <2>1, <2>2
    <3>2. /\ l \in Seq(Nat) /\ Len(l) = IF 1 <= at - 1 THEN at - 1 - 1 + 1 ELSE 0
          /\ \A i \in 1 .. at - 1 - 1 + 1 : l[i] = s[1 + i - 1]
      BY ONLY <3>1, SubSeqProperties
    <3> QED
      BY <2>1, <2>2, <3>2
  <2>5. /\ r \in Seq(Nat) /\ Len(r) = n - at
        /\ \A i \in 1 .. n - at : r[i] = s[at + i]
    <3>1. at + 1 \in Int /\ n \in Int /\ \A i \in at + 1 .. n : s[i] \in Nat
      BY <2>1, <2>2
    <3>2. /\ r \in Seq(Nat)
          /\ Len(r) = IF at + 1 <= n THEN n - (at + 1) + 1 ELSE 0
          /\ \A i \in 1 .. n - (at + 1) + 1 : r[i] = s[at + 1 + i - 1]
      BY ONLY <3>1, SubSeqProperties
    <3> QED
      BY <2>1, <2>2, <3>2
  <2> DEFINE t == l \o r
             from(i) == IF i < at THEN i ELSE i + 1
  <2> HIDE DEF l, r
  <2>6. /\ t \in Seq(Nat) /\ Len(t) = Len(l) + Len(r)
        /\ \A i \in 1 .. Len(l) + Len(r) :
             t[i] = IF i <= Len(l) THEN l[i] ELSE r[i - Len(l)]
    BY <2>4, <2>5, ConcatProperties
  <2> HIDE DEF t
  <2>7. Len(t) = n - 1 /\ DOMAIN t = 1 .. n - 1
    BY <2>1, <2>2, <2>4, <2>5, <2>6, LenProperties
  <2>8. ASSUME NEW i \in 1 .. n - 1
        PROVE  from(i) \in 1 .. n /\ from(i) # at /\ t[i] = s[from(i)]
    <3>1. CASE i < at
      <4>1. i \in 1 .. at - 1 /\ i \in 1 .. Len(l) + Len(r) /\ i <= Len(l)
        BY <2>1, <2>2, <2>4, <2>5, <3>1
      <4>2. t[i] = l[i] /\ l[i] = s[i]
        BY <2>4, <2>6, <4>1
      <4> QED
        BY <2>1, <2>2, <3>1, <4>2
    <3>2. CASE ~(i < at)
      <4>1. /\ i - (at - 1) \in 1 .. n - at /\ i \in 1 .. Len(l) + Len(r) /\ ~(i <= Len(l))
            /\ at + (i - (at - 1)) = i + 1
        BY <2>1, <2>2, <2>4, <2>5, <3>2
      <4>2. t[i] = r[i - Len(l)] /\ i - Len(l) = i - (at - 1)
        BY <2>4, <2>6, <4>1
      <4>3. r[i - (at - 1)] = s[i + 1]
        BY <2>5, <4>1
      <4>4. from(i) = i + 1 /\ i + 1 \in 1 .. n /\ i + 1 # at
        BY <2>1, <2>2, <3>2
      <4>5. t[i] = s[i + 1]
        BY <4>2, <4>3
      <4> QED
        BY ONLY <4>4, <4>5
    <3> QED
      BY <3>1, <3>2
  <2>9. IsInjective(t)
    <3> SUFFICES ASSUME NEW i \in 1 .. n - 1, NEW j \in 1 .. n - 1, t[i] = t[j]
                 PROVE  i = j
      BY <2>7 DEF IsInjective
    <3>1. from(i) = from(j)
      BY <2>1, <2>8 DEF IsInjective
    <3> QED
      BY <2>1, <2>2, <3>1
  <2>10. Range(t) \subseteq Range(s) \ {g}
    <3> SUFFICES ASSUME NEW i \in 1 .. n - 1
                 PROVE  t[i] \in Range(s) /\ t[i] # g
      BY <2>7 DEF Range
    <3> QED
      BY <2>1, <2>2, <2>8 DEF IsInjective, Range
  <2> QED
    BY <2>3, <2>6, <2>9, <2>10 DEF t
<1> QED
  BY <1>1, <1>2

(* What is left to unlist after the first of the inputs.                   *)
LEMMA TailRange ==
  ASSUME NEW s \in Seq(Nat), s # <<>>
  PROVE  /\ Head(s) \in Nat /\ Tail(s) \in Seq(Nat)
         /\ Range(s) \subseteq Range(Tail(s)) \cup {Head(s)}
<1>1. /\ Len(s) \in Nat \ {0} /\ DOMAIN s = 1 .. Len(s)
      /\ Head(s) \in Nat /\ Tail(s) \in Seq(Nat) /\ Len(Tail(s)) = Len(s) - 1
      /\ \A i \in 1 .. Len(Tail(s)) : Tail(s)[i] = s[i + 1]
      /\ DOMAIN Tail(s) = 1 .. Len(Tail(s))
  BY EmptySeq, LenProperties, HeadTailProperties
<1>2. Head(s) = s[1]
  OBVIOUS
<1>3. ASSUME NEW i \in DOMAIN s, i # 1
      PROVE  i - 1 \in DOMAIN Tail(s) /\ Tail(s)[i - 1] = s[i]
  BY <1>1, <1>3
<1> QED
  BY <1>1, <1>2, <1>3 DEF Range

(* A list of generations has finitely many.                                *)
LEMMA RangeIsFinite == ASSUME NEW s \in Seq(Nat) PROVE IsFiniteSet(Range(s))
<1>1. Len(s) \in Nat /\ DOMAIN s = 1 .. Len(s)
  BY LenProperties
<1>2. s \in Surjection(1 .. Len(s), Range(s))
  BY <1>1, LenProperties DEF Surjection, Range
<1> QED
  BY <1>1, <1>2, FS_Interval, FS_Surjection

(* The orders in which the members of a finite set of generations can be   *)
(* taken are sequences of them.                                            *)
LEMMA OrdersAreSeqs ==
  ASSUME NEW s \in Seq(Nat), NEW S \in SUBSET Range(s), NEW gens \in SetToSeqs(S)
  PROVE  gens \in Seq(Nat) /\ Range(gens) \subseteq S
<1>1. IsFiniteSet(Range(s))
  BY RangeIsFinite
<1>2. Cardinality(S) \in Nat
  BY <1>1, FS_Subset, FS_CardinalityType
<1>3. gens \in [1 .. Cardinality(S) -> S]
  BY DEF SetToSeqs
<1>4. S \subseteq Nat
  BY RangeOfSeq
<1>5. gens \in [1 .. Cardinality(S) -> Nat]
  BY <1>3, <1>4
<1>6. gens \in Seq(Nat)
  <2>1. [1 .. Cardinality(S) -> Nat] \in {[1 .. n -> Nat] : n \in Nat}
    BY <1>2
  <2> QED
    BY ONLY <1>5, <2>1, SeqDef, Zenon
<1> QED
  BY <1>3, <1>6 DEF Range

-----------------------------------------------------------------------------
(* The initial states                                                      *)

(* Before the first open() nothing is listed, numbered or on disk.         *)
LEMMA InitInv == Init => Inv
<1> SUFFICES ASSUME Init PROVE Inv
  OBVIOUS
<1> USE DEF Init, NoWriter, NoCall, NoJob, NoPlace, Idle
<1>1. Range(<<>>) = {} /\ IsInjective(<<>>) /\ <<>> \in Seq(Nat) /\ <<>> \in Seq(Record)
  BY DEF Range, IsInjective
<1>2. Shapes
  BY <1>1 DEF Shapes, CatalogueTypeOK, Catalogue, PC, Ops
<1>3. CallsNamed
  BY DEF CallsNamed
<1>4. Numbered /\ WriterApart /\ OutputApart
  BY <1>1 DEF Numbered, WriterApart, OutputApart
<1>5. Listed /\ InputsApart
  BY <1>1 DEF Listed, InputsApart
<1> QED
  BY <1>2, <1>3, <1>4, <1>5 DEF Inv

-----------------------------------------------------------------------------
(* Steps that move no segment                                              *)

(* Where the invariant says more about segments than it says everywhere.   *)
Hot == {"sweep", "register", "takeOutput", "merge", "mark", "repoint", "unlist", "dropInputs"}

(* A step that creates, deletes, lists and numbers nothing, and does not   *)
(* enter a procedure that will, keeps the invariant.                       *)
LEMMA CalmStep ==
  ASSUME Inv, Shapes', CallsNamed',
         UNCHANGED <<disk, manifest>>, DOMAIN files' = DOMAIN files, writer'.gen = writer.gen,
         (writer'.docs # <<>> \/ pc' = "index") => writer.gen # 0,
         \A k \in Keys : keymap'[k].gen < disk.gen,
         pc' \notin Hot, pc = "down" => pc' = "down"
  PROVE  Inv'
<1>1. Numbered'
  BY DEF Inv, Numbered
<1>2. Listed'
  BY DEF Inv, Listed, Hot
<1>3. WriterApart' /\ OutputApart' /\ InputsApart'
  BY DEF Inv, WriterApart, OutputApart, InputsApart, Hot
<1> QED
  BY <1>1, <1>2, <1>3 DEF Inv

(* The generations the control state speaks of are natural numbers.        *)
LEMMA GenerationsAreNumbers ==
  ASSUME Inv
  PROVE  /\ disk.gen \in Nat /\ 0 < disk.gen /\ manifest.gen \in Nat /\ writer.gen \in Nat
         /\ disk.segs \in Seq(Nat) /\ manifest.segs \in Seq(Nat)
  BY DEF Inv, Shapes, CatalogueTypeOK, Catalogue, Numbered

(* What Goto leaves of the control state is well shaped, and names its key. *)
Settles ==
  /\ pc' \in PC
  /\ \/ UNCHANGED <<call, job, inflight, opening>>
     \/ pc' = "ready" /\ call' = NoCall /\ job' = NoJob /\ inflight' = Idle /\ opening' = FALSE

(* A step that moves control and takes no new number keeps the shapes.     *)
LEMMA SettlesShapes ==
  ASSUME Inv, Settles,
         disk' \in Catalogue, manifest' \in Catalogue,
         DOMAIN files' \subseteq Nat, DOMAIN stones' \subseteq Nat,
         writer'.gen \in Nat, DOMAIN writer' = {"gen", "docs", "del"},
         DOMAIN keymap' = Keys, \A k \in Keys : keymap'[k].gen \in Nat,
         logThere' \in BOOLEAN, marker' \in BOOLEAN, truncPending' \in BOOLEAN,
         wal' \in Seq(Record), threshold' \in Nat, replayed' \in Nat,
         exposed' \in BOOLEAN, calls' \in Nat, crashes' \in Nat, faults' \in Nat
  PROVE  Shapes'
<1>1. /\ call'.op \in Ops \cup {"none", "open", "rebuild"}
      /\ call'.key \in Keys \cup {Absent} /\ call'.ver \in Nat
      /\ job' \in [inputs : Seq(Nat), left : Seq(Nat), out : Nat, round : Nat]
      /\ inflight' \in [op : Ops \cup {"none"}, key : Keys \cup {Absent}, ver : Nat]
      /\ opening' \in BOOLEAN
  <2>1. CASE UNCHANGED <<call, job, inflight, opening>>
    BY <2>1 DEF Inv, Shapes, CatalogueTypeOK
  <2>2. CASE call' = NoCall /\ job' = NoJob /\ inflight' = Idle /\ opening' = FALSE
    <3>1. <<>> \in Seq(Nat)
      OBVIOUS
    <3> QED
      BY <2>2, <3>1 DEF NoCall, NoJob, Idle
  <2> QED
    BY <2>1, <2>2 DEF Settles
<1> QED
  BY <1>1 DEF Shapes, CatalogueTypeOK, Settles

(* A tombstone changes the bitmap of a segment, never the set of segments. *)
LEMMA TombstoneKeeps ==
  \A p, ok : (faults \in Nat /\ DOMAIN writer = {"gen", "docs", "del"} /\ Tombstone(p, ok)) =>
    /\ DOMAIN files' = DOMAIN files /\ DOMAIN stones' = DOMAIN stones
    /\ DOMAIN writer' = DOMAIN writer /\ writer'.gen = writer.gen
    /\ writer'.docs = writer.docs /\ faults' \in Nat
  BY DEF Tombstone, Fault

(* add_document(), update_document()                                       *)
LEMMA UpdatingInv == ASSUME Inv, Updating PROVE Inv'
<1> USE DEF Inv, Step, Goto, Return, AfterAdd, Replaying, disks, memory, budget
<1>1. CASE IndexDocument
  <2> USE <1>1 DEF IndexDocument
  <2>1. writer.gen # 0 /\ writer'.gen = writer.gen /\ DOMAIN writer' = DOMAIN writer
    BY DEF WriterApart, Shapes
  <2>2. /\ DOMAIN keymap' = Keys
        /\ \A k \in Keys : keymap'[k].gen \in Nat /\ keymap'[k].gen < disk.gen
    BY DEF Shapes, CatalogueTypeOK, Numbered
  <2>3. Shapes'
    BY <2>1, <2>2 DEF Shapes, CatalogueTypeOK, PC
  <2>4. CallsNamed'
    BY DEF CallsNamed
  <2> QED
    BY <2>1, <2>2, <2>3, <2>4, CalmStep DEF Hot
<1>2. CASE LogAdd
  <2> USE <1>2 DEF LogAdd
  <2>1. call.op = "add" => [op |-> "add", key |-> call.key, ver |-> call.ver] \in Record
    BY DEF Shapes, CatalogueTypeOK, CallsNamed, Record
  <2>2. wal' \in Seq(Record)
    BY <2>1, AppendProperties DEF Shapes
  <2>3. /\ Settles
        /\ pc' \in {"flush", "logUpdate", "replay", "ready"}
        /\ pc' = "logUpdate" => call'.op = "update"
    BY DEF Settles, PC
  <2>4. Shapes'
    BY <2>2, <2>3, SettlesShapes DEF Shapes, CatalogueTypeOK
  <2>5. CallsNamed'
    BY <2>3 DEF CallsNamed, Settles, NoCall
  <2> QED
    BY <2>3, <2>4, <2>5, CalmStep DEF Hot, Numbered, WriterApart
<1>3. CASE LogUpdate
  <2> USE <1>3 DEF LogUpdate
  <2>1. [op |-> "update", key |-> call.key, ver |-> call.ver] \in Record
    BY DEF Shapes, CatalogueTypeOK, CallsNamed, Record
  <2>2. wal' \in Seq(Record)
    BY <2>1, AppendProperties DEF Shapes
  <2>3. Settles /\ pc' = "tombstone"
    BY DEF Settles, PC
  <2>4. Shapes'
    BY <2>2, <2>3, SettlesShapes DEF Shapes, CatalogueTypeOK
  <2>5. CallsNamed'
    BY <2>3 DEF CallsNamed, Settles, NoCall
  <2> QED
    BY <2>3, <2>4, <2>5, CalmStep DEF Hot, Numbered, WriterApart
<1>4. CASE TombstoneOld
  <2> USE <1>4 DEF TombstoneOld
  <2>1. /\ DOMAIN files' = DOMAIN files /\ DOMAIN stones' = DOMAIN stones
        /\ DOMAIN writer' = DOMAIN writer /\ writer'.gen = writer.gen
        /\ writer'.docs = writer.docs /\ faults' \in Nat
    BY TombstoneKeeps DEF Shapes, CatalogueTypeOK
  <2>2. Settles /\ pc' \in {"replay", "ready"}
    BY DEF Settles, PC
  <2>3. Shapes'
    BY <2>1, <2>2, SettlesShapes DEF Shapes, CatalogueTypeOK
  <2>4. CallsNamed'
    BY <2>2 DEF CallsNamed, Settles, NoCall
  <2> QED
    BY <2>1, <2>2, <2>3, <2>4, CalmStep DEF Hot, Numbered, WriterApart
<1> QED
  BY <1>1, <1>2, <1>3, <1>4 DEF Updating

(* delete_document()                                                       *)
LEMMA DeletingInv == ASSUME Inv, Deleting PROVE Inv'
<1> USE DEF Inv, Step, Goto, Return, Replaying, disks, memory, budget
<1>1. CASE TombstoneDeleted
  <2> USE <1>1 DEF TombstoneDeleted
  <2>1. /\ DOMAIN files' = DOMAIN files /\ DOMAIN stones' = DOMAIN stones
        /\ DOMAIN writer' = DOMAIN writer /\ writer'.gen = writer.gen
        /\ writer'.docs = writer.docs /\ faults' \in Nat
    BY TombstoneKeeps DEF Shapes, CatalogueTypeOK
  <2>2. Settles /\ pc' \in {"unmap", "replay", "ready"} /\ (pc' = "unmap" => call' = call)
    BY DEF Settles, PC
  <2>3. Shapes'
    BY <2>1, <2>2, SettlesShapes DEF Shapes, CatalogueTypeOK
  <2>4. CallsNamed'
    BY <2>2 DEF CallsNamed, Settles, NoCall
  <2> QED
    BY <2>1, <2>2, <2>3, <2>4, CalmStep DEF Hot, Numbered, WriterApart
<1>2. CASE Unmap
  <2> USE <1>2 DEF Unmap
  <2>1. /\ DOMAIN keymap' = Keys
        /\ \A k \in Keys : keymap'[k].gen \in Nat /\ keymap'[k].gen < disk.gen
    BY GenerationsAreNumbers DEF Shapes, CatalogueTypeOK, Numbered, NoPlace
  <2>2. Settles /\ pc' = "logDelete" /\ call' = call
    BY DEF Settles, PC
  <2>3. Shapes'
    BY <2>1, <2>2, SettlesShapes DEF Shapes, CatalogueTypeOK
  <2>4. CallsNamed'
    BY <2>2 DEF CallsNamed
  <2> QED
    BY <2>1, <2>2, <2>3, <2>4, CalmStep DEF Hot, WriterApart
<1>3. CASE LogDelete
  <2> USE <1>3 DEF LogDelete
  <2>1. [op |-> "delete", key |-> call.key, ver |-> 0] \in Record
    BY DEF CallsNamed, Record
  <2>2. wal' \in Seq(Record)
    BY <2>1, AppendProperties DEF Shapes
  <2>3. Settles /\ pc' \in {"replay", "ready"}
    BY DEF Settles, PC
  <2>4. Shapes'
    BY <2>2, <2>3, SettlesShapes DEF Shapes, CatalogueTypeOK
  <2>5. CallsNamed'
    BY <2>3 DEF CallsNamed, Settles, NoCall
  <2> QED
    BY <2>3, <2>4, <2>5, CalmStep DEF Hot, Numbered, WriterApart
<1> QED
  BY <1>1, <1>2, <1>3 DEF Deleting

-----------------------------------------------------------------------------
(* flush()                                                                 *)

(* flush() puts the files of the writer's generation on disk.              *)
LEMMA WriteSegmentInv == ASSUME Inv, WriteSegment PROVE Inv'
<1> USE DEF Inv, WriteSegment, Step, Goto, Return, AfterAdd, AfterFlush, Replaying,
            disks, memory, budget
<1>1. /\ Settles /\ pc' \in {"register", "logUpdate", "replay", "ready"}
      /\ pc' = "logUpdate" => call' = call /\ call.op = "update"
  BY DEF Settles, PC
<1>2. CASE writer.docs = <<>>
  <2>1. Shapes'
    BY <1>1, <1>2, SettlesShapes DEF Shapes, CatalogueTypeOK
  <2>2. CallsNamed'
    BY <1>1 DEF CallsNamed, Settles, NoCall
  <2> QED
    BY <1>1, <1>2, <2>1, <2>2, CalmStep DEF Hot, Numbered, WriterApart
<1>3. CASE writer.docs # <<>>
  <2>1. /\ DOMAIN files' = DOMAIN files \cup {writer.gen} /\ pc' = "register"
        /\ writer.gen # 0 /\ UNCHANGED <<call, job>>
    BY <1>3 DEF Put, WriterApart
  <2>2. Shapes'
    BY <1>1, <2>1, SettlesShapes DEF Shapes, CatalogueTypeOK
  <2>3. CallsNamed'
    BY <2>1 DEF CallsNamed
  <2>4. Numbered'
    BY <2>1, GenerationsAreNumbers DEF Numbered
  <2>5. Listed' /\ WriterApart'
    BY <2>1 DEF Listed, WriterApart
  <2>6. OutputApart' /\ InputsApart'
    BY <2>1 DEF OutputApart, InputsApart
  <2> QED
    BY <2>2, <2>3, <2>4, <2>5, <2>6
<1> QED
  BY <1>2, <1>3

(* flush() lists a generation whose files WriteSegment has completed.      *)
LEMMA RegisterSegmentInv == ASSUME Inv, RegisterSegment PROVE Inv'
<1> USE DEF Inv, RegisterSegment, Goto, Return, AfterAdd, AfterFlush, Replaying, NoWriter, Fault
<1>1. /\ Settles /\ pc' \in {"newWriter", "logUpdate", "replay", "ready"}
      /\ pc' = "logUpdate" => call' = call /\ call.op = "update"
      /\ writer'.gen = 0 /\ writer'.docs = <<>> /\ DOMAIN writer' = {"gen", "docs", "del"}
      /\ UNCHANGED <<files, keymap>> /\ faults' \in Nat
  BY DEF Settles, PC, Shapes, CatalogueTypeOK
<1>2. CallsNamed'
  BY <1>1 DEF CallsNamed, Settles, NoCall
<1>3. \/ UNCHANGED <<disk, manifest, stones>>
      \/ /\ manifest' = [manifest EXCEPT !.segs = Append(@, writer.gen)]
         /\ stones' = Put(stones, writer.gen, writer.del)
         /\ disk' \in {disk, manifest'}
  OBVIOUS
<1>4. CASE UNCHANGED <<disk, manifest, stones>>
  <2>1. Shapes'
    BY <1>1, <1>4, SettlesShapes DEF Shapes, CatalogueTypeOK
  <2>2. Numbered' /\ Listed'
    BY <1>1, <1>4, GenerationsAreNumbers DEF Numbered, Listed
  <2>3. WriterApart' /\ OutputApart' /\ InputsApart'
    BY <1>1, <1>4 DEF Numbered, Listed, WriterApart, OutputApart, InputsApart
  <2> QED
    BY <1>2, <2>1, <2>2, <2>3
<1>5. CASE /\ manifest' = [manifest EXCEPT !.segs = Append(@, writer.gen)]
           /\ stones' = Put(stones, writer.gen, writer.del)
           /\ disk' \in {disk, manifest'}
  <2>1. /\ manifest' \in Catalogue /\ manifest'.gen = manifest.gen
        /\ manifest'.segs = Append(manifest.segs, writer.gen)
    BY <1>5, GenerationsAreNumbers, AppendProperties DEF Shapes, CatalogueTypeOK, Catalogue
  <2>2. /\ Range(manifest'.segs) = Range(manifest.segs) \cup {writer.gen}
        /\ IsInjective(manifest'.segs)
    BY <2>1, GenerationsAreNumbers, AppendRange, AppendInjects DEF Listed, WriterApart
  <2>3. DOMAIN stones' \subseteq Nat /\ disk' \in Catalogue
    BY <1>5, <2>1, GenerationsAreNumbers DEF Put, Shapes, CatalogueTypeOK
  <2>4. Shapes'
    BY <1>1, <2>1, <2>3, SettlesShapes DEF Shapes, CatalogueTypeOK
  <2>5. disk.gen <= disk'.gen /\ disk'.gen <= manifest'.gen /\ disk'.gen \in Nat
    <3>1. /\ disk.gen <= manifest.gen /\ disk.gen \in Nat
          /\ manifest.gen \in Nat /\ manifest'.gen = manifest.gen
      BY <2>1, GenerationsAreNumbers DEF Numbered
    <3>2. CASE disk' = disk
      BY ONLY <3>1, <3>2
    <3>3. CASE disk' = manifest'
      BY ONLY <3>1, <3>3
    <3> QED
      BY <1>5, <3>2, <3>3
  <2>6. Numbered'
    <3>1. /\ \A g \in DOMAIN files : g \in Nat /\ 0 < g /\ g < disk.gen
          /\ \A k \in Keys : keymap[k].gen \in Nat /\ keymap[k].gen < disk.gen
          /\ 0 < disk.gen /\ disk.gen \in Nat
      BY GenerationsAreNumbers DEF Numbered, Shapes, CatalogueTypeOK
    <3> QED
      BY ONLY <1>1, <2>5, <3>1 DEF Numbered
  <2>7. Listed'
    BY <1>1, <1>5, <2>2 DEF Listed, WriterApart
  <2>8. WriterApart'
    BY <1>1, <2>7 DEF Numbered, Listed, WriterApart
  <2>9. OutputApart' /\ InputsApart'
    BY <1>1 DEF OutputApart, InputsApart
  <2> QED
    BY <1>2, <2>4, <2>6, <2>7, <2>8, <2>9
<1> QED
  BY <1>3, <1>4, <1>5

(* start_new_writer() saves the manifest before the number is used.        *)
LEMMA StartNewWriterInv == ASSUME Inv, StartNewWriter PROVE Inv'
<1> USE DEF Inv, StartNewWriter, Goto, Return, AfterAdd, AfterFlush, Replaying, Fault
<1>1. /\ manifest' = [manifest EXCEPT !.gen = @ + 1] /\ UNCHANGED <<files, keymap>>
      /\ manifest'.gen = manifest.gen + 1 /\ manifest'.segs = manifest.segs
      /\ manifest' \in Catalogue /\ disk.gen <= manifest.gen
  <2>1. manifest \in Catalogue /\ disk.gen <= manifest.gen
    BY DEF Shapes, CatalogueTypeOK, Numbered
  <2>2. manifest' = [manifest EXCEPT !.gen = @ + 1] /\ UNCHANGED <<files, keymap>>
    OBVIOUS
  <2> QED
    BY ONLY <2>1, <2>2 DEF Catalogue
<1>2. /\ Settles
      /\ pc' \in {"replay", "ready", "maintain", "truncate", "down", "logUpdate"}
      /\ pc' = "logUpdate" => call' = call /\ call.op = "update"
      /\ faults' \in Nat /\ replayed' \in Nat
  BY DEF Settles, PC, Shapes, CatalogueTypeOK
<1>3. CallsNamed'
  BY <1>2 DEF CallsNamed, Settles, NoCall
<1>4. OutputApart' /\ InputsApart'
  BY <1>2 DEF OutputApart, InputsApart
<1>5. \/ disk' = manifest' /\ writer' = [gen |-> manifest.gen, docs |-> <<>>, del |-> {}]
      \/ UNCHANGED <<disk, writer>>
  OBVIOUS
<1>6. CASE disk' = manifest' /\ writer' = [gen |-> manifest.gen, docs |-> <<>>, del |-> {}]
  <2>1. Shapes'
    BY <1>1, <1>2, <1>6, SettlesShapes, GenerationsAreNumbers DEF Shapes, CatalogueTypeOK
  <2>2. Numbered'
    <3>1. /\ \A g \in DOMAIN files : g \in Nat /\ 0 < g /\ g < disk.gen
          /\ \A k \in Keys : keymap[k].gen \in Nat /\ keymap[k].gen < disk.gen
          /\ disk.gen \in Nat /\ manifest.gen \in Nat
      BY GenerationsAreNumbers DEF Numbered, Shapes, CatalogueTypeOK
    <3> QED
      BY ONLY <1>1, <1>6, <3>1 DEF Numbered
  <2>3. Listed'
    BY <1>1, <1>2, <1>6 DEF Listed
  <2>4. WriterApart'
    <3>1. /\ 0 < manifest.gen /\ writer'.gen = manifest.gen /\ writer'.docs = <<>>
          /\ manifest.gen \notin DOMAIN files
      BY <1>1, <1>6, GenerationsAreNumbers DEF Numbered
    <3> QED
      BY <1>1, <1>2, <1>6, <3>1 DEF WriterApart, Listed
  <2> QED
    BY <1>3, <1>4, <2>1, <2>2, <2>3, <2>4
<1>7. CASE UNCHANGED <<disk, writer>>
  <2>1. Shapes'
    BY <1>1, <1>2, <1>7, SettlesShapes DEF Shapes, CatalogueTypeOK
  <2>2. Numbered'
    BY <1>1, <1>7, GenerationsAreNumbers DEF Numbered
  <2>3. Listed' /\ WriterApart'
    BY <1>1, <1>2, <1>7 DEF Listed, WriterApart
  <2> QED
    BY <1>3, <1>4, <2>1, <2>2, <2>3
<1> QED
  BY <1>5, <1>6, <1>7

(* Emptying the log, or putting it off, touches no segment.                *)
LEMMA TruncateWalInv == ASSUME Inv, TruncateWal PROVE Inv'
<1> USE DEF Inv, TruncateWal, Goto, Return, AfterAdd, AfterFlush, Replaying
<1>1. /\ Settles /\ pc' \in {"logUpdate", "replay", "ready"}
      /\ pc' = "logUpdate" => call' = call /\ call.op = "update"
  BY DEF Settles, PC
<1>2. wal' \in Seq(Record) /\ truncPending' \in BOOLEAN /\ exposed' \in BOOLEAN
  BY DEF Shapes, CatalogueTypeOK
<1>3. Shapes'
  BY <1>1, <1>2, SettlesShapes DEF Shapes, CatalogueTypeOK
<1>4. CallsNamed'
  BY <1>1 DEF CallsNamed, Settles, NoCall
<1> QED
  BY <1>1, <1>3, <1>4, CalmStep DEF Hot, Numbered, WriterApart

(* Every step of flush() keeps the invariant.                              *)
LEMMA FlushingInv == ASSUME Inv, Flushing PROVE Inv'
  BY WriteSegmentInv, RegisterSegmentInv, StartNewWriterInv, TruncateWalInv DEF Flushing

-----------------------------------------------------------------------------
(* maintain() and compact()                                                *)

(* maintain() only picks listed segments.                                  *)
LEMMA CandidatesAreListed == Candidates \subseteq Range(manifest.segs)
  BY DEF Candidates, TierCandidates, SameTier

(* maintain() hands compact() listed generations, each once.               *)
LEMMA MaintainInv == ASSUME Inv, Maintain PROVE Inv'
<1> USE DEF Inv, Maintain, disks, memory, budget
<1>1. CASE /\ job.round < MaintainCap /\ Candidates # {}
           /\ \E gens \in SetToSeqs(Candidates) :
                /\ Ranked(gens)
                /\ job' = [inputs |-> gens, left |-> gens, out |-> 0, round |-> job.round + 1]
           /\ Enter("takeOutput") /\ UNCHANGED call
  <2>1. PICK gens \in SetToSeqs(Candidates) :
          job' = [inputs |-> gens, left |-> gens, out |-> 0, round |-> job.round + 1]
    BY <1>1
  <2>2. gens \in Seq(Nat) /\ Range(gens) \subseteq Range(manifest.segs)
    BY OrdersAreSeqs, CandidatesAreListed, GenerationsAreNumbers
  <2>3. /\ pc' = "takeOutput"
        /\ UNCHANGED <<disk, files, keymap, logThere, marker, wal, manifest, stones, writer,
                       threshold, replayed, truncPending, call, inflight, opening, calls,
                       exposed, crashes, faults>>
    BY <1>1 DEF Enter
  <2>4. job' \in [inputs : Seq(Nat), left : Seq(Nat), out : Nat, round : Nat]
    BY <2>1, <2>2 DEF Shapes, CatalogueTypeOK
  <2>5. Shapes'
    BY <2>3, <2>4 DEF Shapes, CatalogueTypeOK, PC
  <2>6. CallsNamed' /\ Numbered' /\ Listed' /\ WriterApart' /\ OutputApart'
    BY <2>3 DEF CallsNamed, Numbered, Listed, WriterApart, OutputApart
  <2>7. InputsApart'
    BY <2>1, <2>2, <2>3 DEF InputsApart, Listed
  <2> QED
    BY <2>5, <2>6, <2>7
<1>2. CASE EndMaintain
  <2>1. /\ pc' \in {"replay", "ready", "truncate"}
        /\ \/ Settles
           \/ UNCHANGED <<call, inflight, opening>> /\ job' = NoJob /\ pc' = "truncate"
    BY <1>2 DEF EndMaintain, Enter, Goto, Return, Settles, PC
  <2>2. Shapes'
    <3>1. CASE Settles
      BY <3>1, SettlesShapes DEF Shapes, CatalogueTypeOK
    <3>2. CASE UNCHANGED <<call, inflight, opening>> /\ job' = NoJob /\ pc' = "truncate"
      <4>1. job' \in [inputs : Seq(Nat), left : Seq(Nat), out : Nat, round : Nat]
        BY <3>2 DEF NoJob
      <4> QED
        BY <3>2, <4>1 DEF Shapes, CatalogueTypeOK, PC
    <3> QED
      BY <2>1, <3>1, <3>2
  <2>3. CallsNamed'
    BY <2>1 DEF CallsNamed, Settles, NoCall
  <2> QED
    BY <2>1, <2>2, <2>3, CalmStep DEF Hot, Numbered, WriterApart
<1> QED
  BY <1>1, <1>2

(* compact() saves the manifest before it uses the output's number.        *)
LEMMA TakeOutputInv == ASSUME Inv, TakeOutput PROVE Inv'
<1> USE DEF Inv, TakeOutput, Fault
<1>1. /\ manifest'.gen = manifest.gen + 1 /\ manifest'.segs = manifest.segs
      /\ manifest' \in Catalogue /\ disk.gen <= manifest.gen
  <2>1. manifest \in Catalogue /\ disk.gen <= manifest.gen
    BY DEF Shapes, CatalogueTypeOK, Numbered
  <2>2. manifest' = [manifest EXCEPT !.gen = @ + 1]
    OBVIOUS
  <2> QED
    BY ONLY <2>1, <2>2 DEF Catalogue
<1>2. /\ \A g \in DOMAIN files : g \in Nat /\ 0 < g /\ g < disk.gen
      /\ \A k \in Keys : keymap[k].gen \in Nat /\ keymap[k].gen < disk.gen
      /\ writer.gen < disk.gen
  BY DEF Numbered, Shapes, CatalogueTypeOK
<1>3. CASE /\ disk' = manifest' /\ UNCHANGED faults
           /\ job' = [job EXCEPT !.out = manifest.gen]
           /\ Enter("merge") /\ UNCHANGED call
  <2>1. /\ job'.inputs = job.inputs /\ job'.left = job.left /\ job'.out = manifest.gen
        /\ job' \in [inputs : Seq(Nat), left : Seq(Nat), out : Nat, round : Nat]
    BY <1>3, GenerationsAreNumbers DEF Shapes, CatalogueTypeOK
  <2>2. pc' = "merge" /\ UNCHANGED <<inflight, opening>>
    BY <1>3 DEF Enter
  <2>3. Shapes'
    BY <1>1, <1>3, <2>1, <2>2 DEF Shapes, CatalogueTypeOK, PC
  <2>4. CallsNamed'
    BY <1>3, <2>2 DEF CallsNamed
  <2>5. Numbered'
    BY ONLY <1>1, <1>2, <1>3, GenerationsAreNumbers, TakeOutput, Inv DEF Numbered
  <2>6. Listed' /\ WriterApart'
    BY <1>1, <1>3, <2>2 DEF Listed, WriterApart
  <2>7. OutputApart'
    <3>1. manifest.gen \notin DOMAIN files /\ 0 < manifest.gen /\ manifest.gen < disk'.gen
      BY <1>1, <1>2, <1>3, GenerationsAreNumbers
    <3>2. manifest.gen # writer.gen
      BY <1>1, <1>2, GenerationsAreNumbers
    <3> QED
      BY <1>1, <1>3, <2>1, <2>2, <3>1, <3>2 DEF OutputApart, Listed, InputsApart
  <2>8. InputsApart'
    BY <1>1, <2>1, <2>2 DEF InputsApart
  <2> QED
    BY <2>3, <2>4, <2>5, <2>6, <2>7, <2>8
<1>4. CASE UNCHANGED disk /\ Fault("takeOutput") /\ Goto(CompactFailed)
  <2>1. Settles /\ pc' \in {"replay", "ready", "truncate"} /\ faults' \in Nat
    BY <1>4 DEF Goto, CompactFailed, Return, Settles, PC, Shapes, CatalogueTypeOK
  <2>2. Shapes'
    BY <1>1, <1>4, <2>1, SettlesShapes DEF Shapes, CatalogueTypeOK
  <2>3. CallsNamed' /\ OutputApart' /\ InputsApart'
    BY <2>1 DEF CallsNamed, Settles, NoCall, OutputApart, InputsApart
  <2>4. Numbered'
    BY <1>1, <1>4, <2>1, GenerationsAreNumbers DEF Numbered
  <2>5. Listed' /\ WriterApart'
    BY <1>1, <1>4, <2>1 DEF Listed, WriterApart
  <2> QED
    BY <2>2, <2>3, <2>4, <2>5
<1> QED
  BY <1>3, <1>4

(* The merge completes the output's files and nothing lists them yet.      *)
LEMMA MergeInv == ASSUME Inv, Merge PROVE Inv'
<1> USE DEF Inv, Merge, memory, Fault
<1>1. CASE /\ files' = Put(files, job.out, [docs |-> Merged(job.inputs), del |-> {}])
           /\ UNCHANGED faults /\ Goto("mark")
  <2>1. /\ Settles /\ pc' = "mark" /\ UNCHANGED <<call, job>>
        /\ DOMAIN files' = DOMAIN files \cup {job.out}
    BY <1>1 DEF Goto, Settles, PC, Put
  <2>2. job.out \in Nat /\ 0 < job.out /\ job.out < disk.gen
    BY DEF OutputApart, Shapes, CatalogueTypeOK
  <2>3. Shapes'
    BY <1>1, <2>1, <2>2, SettlesShapes DEF Shapes, CatalogueTypeOK
  <2>4. CallsNamed' /\ Numbered'
    BY <2>1, <2>2 DEF CallsNamed, Numbered
  <2>5. Listed' /\ WriterApart' /\ OutputApart' /\ InputsApart'
    BY <2>1 DEF Listed, WriterApart, OutputApart, InputsApart
  <2> QED
    BY <2>3, <2>4, <2>5
<1>2. CASE UNCHANGED files /\ Fault("merge") /\ Goto(CompactFailed)
  <2>1. Settles /\ pc' \in {"replay", "ready", "truncate"} /\ faults' \in Nat
    BY <1>2 DEF Goto, CompactFailed, Return, Settles, PC, Shapes, CatalogueTypeOK
  <2>2. Shapes'
    BY <1>2, <2>1, SettlesShapes DEF Shapes, CatalogueTypeOK
  <2>3. CallsNamed'
    BY <2>1 DEF CallsNamed, Settles, NoCall
  <2> QED
    BY <1>2, <2>1, <2>2, <2>3, CalmStep DEF Hot, Numbered, WriterApart
<1> QED
  BY <1>1, <1>2

(* Giving the output up again takes no file that is listed.                *)
LEMMA OutputGivenUp ==
  ASSUME Inv, pc \in {"mark", "repoint"}, UNCHANGED <<disk, manifest, writer, keymap>>,
         DOMAIN files' = DOMAIN files \ {job.out}, Shapes', CallsNamed',
         pc' \in {"replay", "ready", "truncate"}
  PROVE  Inv'
<1>1. Numbered'
  BY DEF Inv, Numbered
<1>2. Listed' /\ WriterApart' /\ OutputApart' /\ InputsApart'
  BY DEF Inv, Listed, WriterApart, OutputApart, InputsApart
<1> QED
  BY <1>1, <1>2 DEF Inv

(* A marker that cannot be written takes the unlisted output with it.      *)
LEMMA MarkInv == ASSUME Inv, Mark PROVE Inv'
<1> USE DEF Inv, Mark, memory, Fault
<1>1. CASE marker' = TRUE /\ UNCHANGED <<files, faults>> /\ Goto("repoint")
  <2>1. Settles /\ pc' = "repoint" /\ UNCHANGED <<call, job>>
    BY <1>1 DEF Goto, Settles, PC
  <2>2. Shapes'
    BY <1>1, <2>1, SettlesShapes DEF Shapes, CatalogueTypeOK
  <2>3. CallsNamed' /\ Numbered' /\ Listed'
    BY <1>1, <2>1 DEF CallsNamed, Numbered, Listed
  <2>4. WriterApart' /\ OutputApart' /\ InputsApart'
    BY <1>1, <2>1 DEF WriterApart, OutputApart, InputsApart
  <2> QED
    BY <2>2, <2>3, <2>4
<1>2. CASE /\ files' = Restrict(files, DOMAIN files \ {job.out}) /\ UNCHANGED marker
           /\ Fault("mark") /\ Goto(CompactFailed)
  <2>1. /\ Settles /\ pc' \in {"replay", "ready", "truncate"} /\ faults' \in Nat
        /\ DOMAIN files' = DOMAIN files \ {job.out}
    BY <1>2 DEF Goto, CompactFailed, Return, Restrict, Settles, PC, Shapes, CatalogueTypeOK
  <2>2. Shapes'
    BY <1>2, <2>1, SettlesShapes DEF Shapes, CatalogueTypeOK
  <2>3. CallsNamed'
    BY <2>1 DEF CallsNamed, Settles, NoCall
  <2> QED
    BY <2>1, <2>2, <2>3, OutputGivenUp
<1> QED
  BY <1>1, <1>2

(* Keys move to the output, whose number is burnt; or it is given up.      *)
LEMMA RepointInv == ASSUME Inv, Repoint PROVE Inv'
<1> USE DEF Inv, Repoint, Fault
<1>1. CASE /\ keymap' = [k \in Keys |->
                LET here == {d \in DOMAIN files[job.out].docs : files[job.out].docs[d].key = k} IN
                IF here = {} THEN keymap[k] ELSE [gen |-> job.out, docid |-> Max(here)]]
           /\ stones' = Put(stones, job.out, {})
           /\ UNCHANGED <<files, marker, faults>> /\ Goto("unlist")
  <2>1. Settles /\ pc' = "unlist" /\ UNCHANGED <<call, job>>
    BY <1>1 DEF Goto, Settles, PC
  <2>2. job.out \in Nat /\ job.out < disk.gen
    BY DEF OutputApart, Shapes, CatalogueTypeOK
  <2>3. /\ DOMAIN keymap' = Keys
        /\ \A k \in Keys : keymap'[k].gen \in {keymap[k].gen, job.out}
    BY <1>1
  <2>4. \A k \in Keys : keymap'[k].gen \in Nat /\ keymap'[k].gen < disk.gen
    BY <2>2, <2>3 DEF Numbered, Shapes, CatalogueTypeOK
  <2>5. Shapes'
    <3>1. DOMAIN stones' \subseteq Nat
      BY <1>1, <2>2 DEF Put, Shapes, CatalogueTypeOK
    <3>2. DOMAIN keymap' = Keys /\ \A k \in Keys : keymap'[k].gen \in Nat
      BY <2>3, <2>4
    <3>3. UNCHANGED <<disk, manifest, files, writer, wal, logThere, marker, truncPending,
                      threshold, replayed, exposed, calls, crashes, faults>>
      BY <1>1
    <3>4. /\ disk' \in Catalogue /\ manifest' \in Catalogue
          /\ DOMAIN files' \subseteq Nat
          /\ writer'.gen \in Nat /\ DOMAIN writer' = {"gen", "docs", "del"}
          /\ logThere' \in BOOLEAN /\ marker' \in BOOLEAN /\ truncPending' \in BOOLEAN
          /\ wal' \in Seq(Record) /\ threshold' \in Nat /\ replayed' \in Nat
          /\ exposed' \in BOOLEAN /\ calls' \in Nat /\ crashes' \in Nat /\ faults' \in Nat
      BY <3>3 DEF Shapes, CatalogueTypeOK
    <3> QED
      BY <2>1, <3>1, <3>2, <3>4, SettlesShapes
  <2>6. CallsNamed' /\ Numbered' /\ Listed'
    BY <1>1, <2>1, <2>4 DEF CallsNamed, Numbered, Listed
  <2>7. WriterApart' /\ OutputApart' /\ InputsApart'
    BY <1>1, <2>1 DEF WriterApart, OutputApart, InputsApart
  <2> QED
    BY <2>5, <2>6, <2>7
<1>2. CASE /\ files' = Restrict(files, DOMAIN files \ {job.out}) /\ marker' = FALSE
           /\ UNCHANGED <<keymap, stones>> /\ Fault("openOutput") /\ Goto(CompactFailed)
  <2>1. /\ Settles /\ pc' \in {"replay", "ready", "truncate"} /\ faults' \in Nat
        /\ DOMAIN files' = DOMAIN files \ {job.out}
    BY <1>2 DEF Goto, CompactFailed, Return, Restrict, Settles, PC, Shapes, CatalogueTypeOK
  <2>2. Shapes'
    BY <1>2, <2>1, SettlesShapes DEF Shapes, CatalogueTypeOK
  <2>3. CallsNamed'
    BY <2>1 DEF CallsNamed, Settles, NoCall
  <2> QED
    BY <1>2, <2>1, <2>2, <2>3, OutputGivenUp
<1> QED
  BY <1>1, <1>2

(* The inputs leave the list in memory; the saved one keeps them.          *)
LEMMA UnlistInv == ASSUME Inv, Unlist PROVE Inv'
<1> USE DEF Inv, Unlist, disks, budget
<1> DEFINE g == Head(job.left)
<1>1. /\ job.left \in Seq(Nat) /\ g \in Nat /\ Tail(job.left) \in Seq(Nat)
      /\ Range(job.left) \subseteq Range(Tail(job.left)) \cup {g}
  BY TailRange DEF Shapes, CatalogueTypeOK
<1>2. /\ manifest'.gen = manifest.gen /\ manifest'.segs = Without(manifest.segs, g)
      /\ job'.inputs = job.inputs /\ job'.left = Tail(job.left) /\ job'.out = job.out
      /\ job' \in [inputs : Seq(Nat), left : Seq(Nat), out : Nat, round : Nat]
  BY <1>1 DEF Shapes, CatalogueTypeOK, Catalogue
<1> HIDE DEF g
<1>3. /\ manifest'.segs \in Seq(Nat) /\ IsInjective(manifest'.segs)
      /\ Range(manifest'.segs) \subseteq Range(manifest.segs) \ {g}
  <2>1. manifest.segs \in Seq(Nat) /\ IsInjective(manifest.segs)
    BY GenerationsAreNumbers DEF Listed
  <2> QED
    BY ONLY <1>1, <1>2, <2>1, WithoutShrinks
<1>4. manifest' \in Catalogue
  BY <1>3 DEF Shapes, CatalogueTypeOK, Catalogue
<1>5. /\ pc' = "unlist"
      /\ UNCHANGED <<disk, files, keymap, logThere, marker, wal, stones, writer, threshold,
                     replayed, truncPending, call, inflight, opening, calls, exposed,
                     crashes, faults>>
  BY DEF Enter
<1>6. Shapes'
  BY <1>2, <1>4, <1>5 DEF Shapes, CatalogueTypeOK, PC
<1>7. CallsNamed' /\ Numbered' /\ Listed'
  BY <1>2, <1>3, <1>5 DEF CallsNamed, Numbered, Listed
<1>8. WriterApart' /\ OutputApart'
  BY <1>2, <1>3, <1>5 DEF WriterApart, OutputApart
<1>9. InputsApart'
  BY <1>1, <1>2, <1>3, <1>5 DEF InputsApart
<1> QED
  BY <1>6, <1>7, <1>8, <1>9

(* The output, complete on disk, takes the inputs' place in the list.      *)
LEMMA SwapInv == ASSUME Inv, Swap PROVE Inv'
<1> USE DEF Inv, Swap, Fault
<1>1. /\ Settles /\ pc' \in {"dropInputs", "replay", "ready", "truncate"}
      /\ pc' = "dropInputs" => UNCHANGED <<call, job>> /\ disk' = manifest'
      /\ faults' \in Nat /\ disk' \in {disk, manifest'}
  BY DEF Goto, CompactFailed, Return, Settles, PC, Shapes, CatalogueTypeOK
<1>2. job.out \in Nat /\ 0 < job.out /\ job.out \notin Range(manifest.segs)
  BY DEF OutputApart, Shapes, CatalogueTypeOK
<1>3. /\ manifest'.gen = manifest.gen /\ manifest'.segs = Append(manifest.segs, job.out)
      /\ manifest' \in Catalogue
  BY <1>2, GenerationsAreNumbers, AppendProperties DEF Shapes, CatalogueTypeOK, Catalogue
<1>4. /\ Range(manifest'.segs) = Range(manifest.segs) \cup {job.out}
      /\ IsInjective(manifest'.segs)
  <2>1. manifest.segs \in Seq(Nat) /\ IsInjective(manifest.segs)
    BY GenerationsAreNumbers DEF Listed
  <2> QED
    BY ONLY <1>2, <1>3, <2>1, AppendRange, AppendInjects
<1>5. DOMAIN stones' \subseteq Nat /\ disk' \in Catalogue
  BY <1>1, <1>3 DEF Restrict, Shapes, CatalogueTypeOK
<1>6. Shapes'
  BY <1>1, <1>3, <1>5, SettlesShapes DEF Shapes, CatalogueTypeOK
<1>7. CallsNamed' /\ OutputApart'
  BY <1>1 DEF CallsNamed, Settles, NoCall, OutputApart
<1>8. disk.gen <= disk'.gen /\ disk'.gen <= manifest'.gen /\ disk'.gen \in Nat
  <2>1. /\ disk.gen <= manifest.gen /\ disk.gen \in Nat
        /\ manifest.gen \in Nat /\ manifest'.gen = manifest.gen
    BY <1>3, GenerationsAreNumbers DEF Numbered
  <2>2. CASE disk' = disk
    BY ONLY <2>1, <2>2
  <2>3. CASE disk' = manifest'
    BY ONLY <2>1, <2>3
  <2> QED
    BY <1>1, <2>2, <2>3
<1>9. Numbered'
  <2>1. /\ \A g \in DOMAIN files : g \in Nat /\ 0 < g /\ g < disk.gen
        /\ \A k \in Keys : keymap[k].gen \in Nat /\ keymap[k].gen < disk.gen
        /\ writer.gen \in Nat /\ writer.gen < disk.gen /\ disk.gen \in Nat
        /\ UNCHANGED <<files, keymap, writer>>
    BY GenerationsAreNumbers DEF Numbered, Shapes, CatalogueTypeOK
  <2> QED
    BY ONLY <1>8, <2>1 DEF Numbered
<1>10. Listed'
  BY <1>1, <1>4 DEF Listed, OutputApart
<1>11. WriterApart'
  BY <1>1, <1>4 DEF WriterApart, OutputApart
<1>12. InputsApart'
  <2>1. \A g \in Range(job.inputs) : g \notin Range(manifest.segs) \cup {job.out}
    <3>1. Range(job.left) = {}
      BY DEF Range
    <3> QED
      BY <3>1 DEF InputsApart, OutputApart
  <2> QED
    BY <1>1, <1>4, <2>1 DEF InputsApart
<1> QED
  BY <1>6, <1>7, <1>9, <1>10, <1>11, <1>12

(* The files of the inputs go when no list names them any more.            *)
LEMMA DropInputsInv == ASSUME Inv, DropInputs PROVE Inv'
<1> USE DEF Inv, DropInputs, Step, Goto, memory, budget
<1>1. /\ Settles /\ pc' = "unmark" /\ UNCHANGED <<call, job>>
      /\ DOMAIN files' = DOMAIN files \ Range(job.inputs)
  BY DEF Settles, PC, Restrict
<1>2. Shapes'
  BY <1>1, SettlesShapes DEF Shapes, CatalogueTypeOK
<1>3. CallsNamed' /\ Numbered'
  BY <1>1 DEF CallsNamed, Numbered
<1>4. Listed' /\ WriterApart' /\ OutputApart' /\ InputsApart'
  BY <1>1 DEF Listed, WriterApart, OutputApart, InputsApart
<1> QED
  BY <1>2, <1>3, <1>4

(* Removing the marker touches no segment.                                 *)
LEMMA UnmarkInv == ASSUME Inv, Unmark PROVE Inv'
<1> USE DEF Inv, Unmark, Step, Goto, AfterCompact, Return, memory, budget
<1>1. Settles /\ pc' \in {"maintain", "replay", "ready"}
  BY DEF Settles, PC
<1>2. Shapes'
  BY <1>1, SettlesShapes DEF Shapes, CatalogueTypeOK
<1>3. CallsNamed'
  BY <1>1 DEF CallsNamed, Settles, NoCall
<1> QED
  BY <1>1, <1>2, <1>3, CalmStep DEF Hot, Numbered, WriterApart

(* Every step of maintain() and compact() keeps the invariant.             *)
LEMMA CompactingInv == ASSUME Inv, Compacting PROVE Inv'
  BY MaintainInv, TakeOutputInv, MergeInv, MarkInv, RepointInv, UnlistInv, SwapInv,
     DropInputsInv, UnmarkInv DEF Compacting

-----------------------------------------------------------------------------
(* open()                                                                  *)

(* open() takes the saved list, whose files are all there.                 *)
LEMMA OpenInv == ASSUME Inv, Open PROVE Inv'
<1> USE DEF Inv, Open
<1>1. /\ pc' = "sweep" /\ manifest' = disk
      /\ UNCHANGED <<disk, files, marker, wal, writer, replayed, truncPending, job, calls,
                     inflight, opening, exposed, crashes, faults>>
  BY DEF Enter, budget
<1>2. /\ call'.op \in {"open", "rebuild"} /\ call'.key = Absent /\ call'.ver = 0
  BY DEF NoCall
<1>3. /\ DOMAIN keymap' = Keys
      /\ \A k \in Keys : keymap'[k].gen \in Nat /\ keymap'[k].gen < disk.gen
  BY GenerationsAreNumbers DEF NoPlace, Numbered, Shapes, CatalogueTypeOK
<1>4. DOMAIN stones' \subseteq Nat /\ threshold' \in Nat /\ logThere' \in BOOLEAN
  BY SizesAssumption DEF Shapes, CatalogueTypeOK
<1>5. Shapes'
  BY <1>1, <1>2, <1>3, <1>4 DEF Shapes, CatalogueTypeOK, PC
<1>6. CallsNamed' /\ OutputApart' /\ InputsApart'
  BY <1>1, <1>2 DEF CallsNamed, OutputApart, InputsApart
<1>7. Numbered'
  BY <1>1, <1>3, GenerationsAreNumbers DEF Numbered
<1>8. Listed' /\ WriterApart'
  BY <1>1 DEF Listed, WriterApart
<1> QED
  BY <1>5, <1>6, <1>7, <1>8

(* The orphan sweep deletes only what the list does not name.              *)
LEMMA SweepInv == ASSUME Inv, Sweep PROVE Inv'
<1> USE DEF Inv, Sweep, Step, Goto, memory, budget
<1>1. /\ Settles /\ pc' \in {"rebuild", "retain"} /\ UNCHANGED <<call, job>>
      /\ DOMAIN files' = DOMAIN files \cap Range(manifest.segs)
  BY DEF Settles, PC, Restrict
<1>2. Shapes'
  BY <1>1, SettlesShapes DEF Shapes, CatalogueTypeOK
<1>3. CallsNamed' /\ Numbered'
  BY <1>1 DEF CallsNamed, Numbered
<1>4. Listed' /\ WriterApart' /\ OutputApart' /\ InputsApart'
  BY <1>1 DEF Listed, WriterApart, OutputApart, InputsApart
<1> QED
  BY <1>2, <1>3, <1>4

(* Dropping keymap entries leaves none with a fresh number.                *)
LEMMA RetainGenerationsInv == ASSUME Inv, RetainGenerations PROVE Inv'
<1> USE DEF Inv, RetainGenerations, Step, Goto, memory, budget
<1>1. Settles /\ pc' = "newWriter" /\ UNCHANGED <<call, job>>
  BY DEF Settles, PC
<1>2. /\ DOMAIN keymap' = Keys
      /\ \A k \in Keys : keymap'[k].gen \in Nat /\ keymap'[k].gen < disk.gen
  BY GenerationsAreNumbers DEF NoPlace, Numbered, Shapes, CatalogueTypeOK
<1>3. Shapes'
  BY <1>1, <1>2, SettlesShapes DEF Shapes, CatalogueTypeOK
<1>4. CallsNamed'
  BY <1>1 DEF CallsNamed
<1> QED
  BY <1>1, <1>2, <1>3, <1>4, CalmStep DEF Hot, WriterApart

(* A live copy is in a listed segment or in the memory segment.            *)
LEMMA CopiesArePlaced ==
  ASSUME NEW k, NEW p, p \in Copies(k)
  PROVE  p.gen \in Range(manifest.segs) \cup {writer.gen}
<1>1. (\E g \in Range(manifest.segs) : p \in FlushedCopies(g, k)) \/ p \in BufferedCopies(k)
  BY DEF Copies
<1>2. \A g : p \in FlushedCopies(g, k) => p.gen = g
  BY DEF FlushedCopies
<1>3. p \in BufferedCopies(k) => p.gen = writer.gen
  BY DEF BufferedCopies
<1> QED
  BY <1>1, <1>2, <1>3

(* The rebuilt keymap only names places in listed segments.                *)
LEMMA RebuildKeymapInv == ASSUME Inv, RebuildKeymap PROVE Inv'
<1> USE DEF Inv, RebuildKeymap, Step, Goto, budget
<1>1. Settles /\ pc' = "saveStones" /\ UNCHANGED <<call, job>>
  BY DEF Settles, PC
<1>2. PICK last \in LastCopies : keymap' = last /\ DOMAIN stones' = DOMAIN stones
  OBVIOUS
<1>3. ASSUME NEW k \in Keys
      PROVE  last[k].gen \in Nat /\ last[k].gen < disk.gen
  <2>1. last[k] = NoPlace \/ last[k] \in Copies(k)
    BY DEF LastCopies
  <2>2. ASSUME last[k] \in Copies(k)
        PROVE  last[k].gen \in Range(manifest.segs) \cup {writer.gen}
    BY <2>2, CopiesArePlaced
  <2> QED
    BY <2>1, <2>2, GenerationsAreNumbers
    DEF NoPlace, Numbered, Listed, Shapes, CatalogueTypeOK
<1>4. DOMAIN keymap' = Keys
  BY <1>2 DEF LastCopies
<1>5. Shapes'
  BY <1>1, <1>2, <1>3, <1>4, SettlesShapes DEF Shapes, CatalogueTypeOK
<1>6. CallsNamed'
  BY <1>1 DEF CallsNamed
<1> QED
  BY <1>1, <1>2, <1>3, <1>5, <1>6, CalmStep DEF Hot, WriterApart

(* Saving tombstones rewrites files that are there.                        *)
LEMMA SaveStonesInv == ASSUME Inv, SaveStones PROVE Inv'
<1> USE DEF Inv, SaveStones, Goto, Fault, memory
<1>1. /\ Settles /\ pc' \in {"openUnmark", "down"} /\ UNCHANGED <<call, job>>
      /\ DOMAIN files' = DOMAIN files /\ faults' \in Nat
  BY DEF Settles, PC, Shapes, CatalogueTypeOK
<1>2. Shapes'
  BY <1>1, SettlesShapes DEF Shapes, CatalogueTypeOK
<1>3. CallsNamed'
  BY <1>1 DEF CallsNamed
<1> QED
  BY <1>1, <1>2, <1>3, CalmStep DEF Hot, Numbered, WriterApart

(* The end of the rebuild touches no segment.                              *)
LEMMA OpenUnmarkInv == ASSUME Inv, OpenUnmark PROVE Inv'
<1> USE DEF Inv, OpenUnmark, Enter, memory, budget
<1>1. /\ call'.op = "open" /\ call'.key \in Keys \cup {Absent} /\ call'.ver \in Nat
      /\ pc' = "newWriter"
      /\ marker' = FALSE
      /\ UNCHANGED <<disk, files, keymap, logThere, wal, manifest, stones, writer, threshold,
                     replayed, truncPending, job, inflight, opening, calls, exposed,
                     crashes, faults>>
  BY DEF NoCall
<1>2. Shapes'
  <2>1. Shapes /\ "open" \in Ops \cup {"none", "open", "rebuild"} /\ "newWriter" \in PC
    BY DEF PC
  <2> QED
    BY ONLY <1>1, <2>1 DEF Shapes, CatalogueTypeOK
<1>3. CallsNamed'
  BY <1>1 DEF CallsNamed
<1> QED
  BY <1>1, <1>2, <1>3, CalmStep DEF Hot, Numbered, WriterApart

(* A record of the log starts a call like the client's.                    *)
LEMMA ReplayRecordInv == ASSUME Inv, ReplayRecord PROVE Inv'
<1> USE DEF Inv, ReplayRecord, disks, budget
<1> DEFINE r == wal[replayed]
<1>1. r \in Record
  <2>1. wal \in Seq(Record) /\ replayed \in DOMAIN wal
    BY DEF Shapes
  <2> QED
    BY ONLY <2>1, LenProperties, ElementOfSeq
<1>2. call'.op = r.op /\ call'.key = r.key /\ call'.ver = r.ver
  BY DEF Call
<1>3. /\ pc' \in {"index", "tombstone", "replay"} /\ replayed' = replayed + 1
      /\ pc' = "index" => r.op \in {"add", "update"} /\ writer.gen # 0
  BY DEF Enter
<1>4. UNCHANGED <<disk, files, keymap, logThere, marker, wal, manifest, stones, writer,
                 threshold, truncPending, job, inflight, opening, calls, exposed, crashes,
                 faults>>
  BY DEF Enter
<1> HIDE DEF r
<1>5. call'.op \in Ops /\ call'.key \in Keys /\ call'.ver \in Nat
  BY <1>1, <1>2 DEF Record, Ops
<1>6. Shapes'
  BY <1>3, <1>4, <1>5 DEF Shapes, CatalogueTypeOK, PC
<1>7. CallsNamed'
  BY <1>2, <1>3, <1>5 DEF CallsNamed
<1> QED
  BY <1>3, <1>4, <1>6, <1>7, CalmStep DEF Hot, Numbered, WriterApart

(* The end of the replay may empty the log and touches no segment.         *)
LEMMA EndReplayInv == ASSUME Inv, EndReplay PROVE Inv'
<1> USE DEF Inv, EndReplay, Goto
<1>1. Settles /\ pc' = "ready"
  BY DEF Settles, PC
<1>2. /\ wal' \in Seq(Record) /\ truncPending' \in BOOLEAN /\ replayed' \in Nat
      /\ exposed' \in BOOLEAN
  <2>1. <<>> \in Seq(Record)
    OBVIOUS
  <2> QED
    BY <2>1 DEF Shapes, CatalogueTypeOK
<1>3. Shapes'
  BY <1>1, <1>2, SettlesShapes DEF Shapes, CatalogueTypeOK
<1>4. CallsNamed'
  BY <1>1 DEF CallsNamed, Settles, NoCall
<1> QED
  BY <1>1, <1>3, <1>4, CalmStep DEF Hot, Numbered, WriterApart

(* Every step of open(), the replay included, keeps the invariant.         *)
LEMMA OpeningInv == ASSUME Inv, Opening PROVE Inv'
  BY OpenInv, SweepInv, RetainGenerationsInv, RebuildKeymapInv, SaveStonesInv,
     OpenUnmarkInv, ReplayRecordInv, EndReplayInv DEF Opening

-----------------------------------------------------------------------------
(* The client and the environment                                          *)

(* A call starts from the ready state and touches no segment.              *)
LEMMA InvokeInv ==
  ASSUME Inv, NEW op \in Ops \ {"compact"}, NEW k \in Keys \cup {Absent},
         op \in {"add", "update", "delete"} => k \in Keys, Invoke(op, k)
  PROVE  Inv'
<1> USE DEF Inv, Invoke
<1>1. UNCHANGED <<disk, files, keymap, logThere, marker, wal, manifest, stones, writer,
                 threshold, replayed, truncPending, job, opening, exposed, crashes, faults>>
  BY DEF disks, memory, budget
<1>2. /\ call'.op = op /\ call'.key = k /\ call'.ver \in Nat
      /\ inflight' \in [op : Ops \cup {"none"}, key : Keys \cup {Absent}, ver : Nat]
      /\ calls' \in Nat
  BY DEF Call, Shapes, CatalogueTypeOK
<1>3. /\ op # "compact"
      /\ pc' \in {"index", "tombstone", "flush", "maintain"}
      /\ pc' = "index" => op \in {"add", "update"} /\ writer.gen # 0
  <2>1. op \in {"add", "update", "delete", "flush", "maintain"}
    BY DEF Ops
  <2> QED
    BY <2>1
<1>4. Shapes'
  BY <1>1, <1>2, <1>3 DEF Shapes, CatalogueTypeOK, PC
<1>5. CallsNamed'
  BY <1>2, <1>3 DEF CallsNamed
<1> QED
  BY <1>1, <1>3, <1>4, <1>5, CalmStep DEF Hot, Numbered, WriterApart

(* compact() is handed open segments, each once.                           *)
LEMMA CallCompactInv == ASSUME Inv, CallCompact PROVE Inv'
<1> USE DEF Inv, CallCompact
<1>1. PICK S \in SUBSET Range(manifest.segs) : \E gens \in SetToSeqs(S) :
        job' = [inputs |-> gens, left |-> gens, out |-> 0, round |-> 0]
  OBVIOUS
<1>2. PICK gens \in SetToSeqs(S) :
        job' = [inputs |-> gens, left |-> gens, out |-> 0, round |-> 0]
  BY <1>1
<1>3. gens \in Seq(Nat) /\ Range(gens) \subseteq Range(manifest.segs)
  BY OrdersAreSeqs, GenerationsAreNumbers
<1>4. /\ job' \in [inputs : Seq(Nat), left : Seq(Nat), out : Nat, round : Nat]
      /\ job'.inputs = gens /\ job'.left = gens
  BY <1>2, <1>3
<1>5. /\ call'.op = "compact" /\ call'.key \in Keys \cup {Absent} /\ call'.ver \in Nat
      /\ inflight' \in [op : Ops \cup {"none"}, key : Keys \cup {Absent}, ver : Nat]
      /\ calls' \in Nat /\ pc' = "takeOutput"
  <2>1. inflight' = [op |-> "compact", key |-> Absent, ver |-> 0]
    BY DEF Idle
  <2>2. call' = [op |-> "compact", key |-> Absent, ver |-> 0, old |-> NoPlace]
    BY DEF NoCall
  <2>3. calls \in Nat /\ calls' = calls + 1 /\ pc' = "takeOutput"
    BY DEF Shapes, CatalogueTypeOK
  <2> QED
    BY ONLY <2>1, <2>2, <2>3 DEF Ops
<1>6. UNCHANGED <<disk, files, keymap, logThere, marker, wal, manifest, stones, writer,
                 threshold, replayed, truncPending, opening, exposed, crashes, faults>>
      /\ pc = "ready"
  BY DEF disks, memory, budget
<1>7. Shapes'
  BY <1>4, <1>5, <1>6 DEF Shapes, CatalogueTypeOK, PC, Ops
<1>8. CallsNamed' /\ Numbered' /\ Listed' /\ WriterApart' /\ OutputApart'
  BY <1>5, <1>6 DEF CallsNamed, Numbered, Listed, WriterApart, OutputApart
<1>9. InputsApart'
  BY <1>3, <1>4, <1>5, <1>6 DEF InputsApart, Listed
<1> QED
  BY <1>7, <1>8, <1>9

(* A crash loses what is in memory, and the invariant of the disk is left. *)
LEMMA CrashInv == ASSUME Inv, Crash PROVE Inv'
<1> USE DEF Inv, Crash, disks, NoWriter, NoCall, NoJob, NoPlace
<1>1. Range(<<>>) = {} /\ IsInjective(<<>>) /\ <<>> \in Seq(Nat)
  BY DEF Range, IsInjective
<1>2. /\ manifest' \in Catalogue /\ DOMAIN stones' = {} /\ crashes' \in Nat
      /\ job' \in [inputs : Seq(Nat), left : Seq(Nat), out : Nat, round : Nat]
  BY <1>1 DEF Catalogue, Shapes, CatalogueTypeOK
<1>3. Shapes'
  BY <1>2 DEF Shapes, CatalogueTypeOK, PC
<1>4. CallsNamed' /\ OutputApart' /\ InputsApart'
  BY DEF CallsNamed, OutputApart, InputsApart
<1>5. Numbered'
  BY GenerationsAreNumbers DEF Numbered
<1>6. Listed'
  BY <1>1 DEF Listed
<1>7. WriterApart'
  BY <1>1 DEF WriterApart, Numbered, Listed
<1> QED
  BY <1>3, <1>4, <1>5, <1>6, <1>7

(* An empty keymap names no generation at all.                             *)
LEMMA LoseKeymapLogInv == ASSUME Inv, LoseKeymapLog PROVE Inv'
<1> USE DEF Inv, LoseKeymapLog, Fault
<1>1. UNCHANGED <<disk, files, marker, wal, manifest, stones, writer, threshold, replayed,
                 truncPending, pc, call, job, inflight, opening, calls, exposed, crashes>>
  BY DEF memory, control, client
<1>2. /\ DOMAIN keymap' = Keys
      /\ \A k \in Keys : keymap'[k].gen \in Nat /\ keymap'[k].gen < disk.gen
  BY GenerationsAreNumbers DEF NoPlace
<1>3. Shapes'
  <2>1. Settles
    BY <1>1 DEF Settles, Shapes, CatalogueTypeOK
  <2>2. logThere' \in BOOLEAN
    OBVIOUS
  <2>3. faults' \in Nat
    BY DEF Shapes, CatalogueTypeOK
  <2>4. /\ marker' \in BOOLEAN /\ truncPending' \in BOOLEAN /\ exposed' \in BOOLEAN
        /\ disk' \in Catalogue /\ manifest' \in Catalogue
        /\ DOMAIN files' \subseteq Nat /\ DOMAIN stones' \subseteq Nat
        /\ writer'.gen \in Nat /\ DOMAIN writer' = {"gen", "docs", "del"}
        /\ wal' \in Seq(Record) /\ threshold' \in Nat /\ replayed' \in Nat
        /\ calls' \in Nat /\ crashes' \in Nat
    BY <1>1 DEF Shapes, CatalogueTypeOK
  <2> QED
    BY ONLY Inv, <1>2, <2>1, <2>2, <2>3, <2>4, SettlesShapes
<1>4. CallsNamed'
  BY <1>1 DEF CallsNamed
<1> QED
  BY <1>1, <1>2, <1>3, <1>4, CalmStep DEF Hot, WriterApart

(* A step that changes nothing keeps the invariant.                        *)
LEMMA StutterInv == ASSUME Inv, UNCHANGED vars PROVE Inv'
  BY DEF vars, disks, memory, control, client, budget, Inv, Shapes, CatalogueTypeOK,
         CallsNamed, Numbered, Listed, WriterApart, OutputApart, InputsApart

(* Every step of the index, of its caller and of a crash keeps the         *)
(* invariant.                                                              *)
THEOREM NextInv == ASSUME Inv, [Next]_vars PROVE Inv'
<1>1. CASE CallOnKey \/ CallFlush \/ CallMaintain
  BY <1>1, InvokeInv DEF CallOnKey, CallFlush, CallMaintain, Ops
<1>2. CASE CallCompact \/ Crash \/ LoseKeymapLog
  BY <1>2, CallCompactInv, CrashInv, LoseKeymapLogInv
<1>3. CASE Work
  BY <1>3, UpdatingInv, DeletingInv, FlushingInv, CompactingInv, OpeningInv DEF Work
<1>4. CASE UNCHANGED vars
  BY <1>4, StutterInv
<1> QED
  BY <1>1, <1>2, <1>3, <1>4 DEF Next

-----------------------------------------------------------------------------
(* The theorems                                                            *)

(* Inv holds in every reachable state, for every value of the constants.   *)
THEOREM Invariance == Spec => []Inv
  BY InitInv, NextInv, PTL DEF Spec

(* In every reachable state the control variables, the lists and the       *)
(* numbers of segments have the types the code gives them.                 *)
THEOREM CatalogueTypeCorrect == Spec => []CatalogueTypeOK
<1>1. Inv => CatalogueTypeOK
  BY DEF Inv, Shapes
<1> QED
  BY <1>1, Invariance, PTL

(* open() never finds a listed segment's files missing: flush() and        *)
(* compact() write before they list, and delete after they have unlisted,  *)
(* whenever the process is killed and whichever writes fail.               *)
THEOREM ManifestAlwaysComplete == Spec => []ManifestComplete
<1>1. Inv => ManifestComplete
  BY DEF Inv, Listed, ManifestComplete
<1> QED
  BY <1>1, Invariance, PTL

(* start_new_writer() and compact() save the next generation before they   *)
(* use one: no file, listed segment, keymap entry or memory segment ever   *)
(* carries a number the saved manifest could hand out again.               *)
THEOREM GenerationsAlwaysBurnt == Spec => []GenerationsBurnt
<1>1. Inv => GenerationsBurnt
  BY DEF Inv, Numbered, Listed, GenerationsBurnt
<1> QED
  BY <1>1, Invariance, PTL

-----------------------------------------------------------------------------
(* The order of a merge, and where its documents come from *)

(* A set of numbers has a smallest one, which stands in for induction.     *)
LEMMA SmallestNat ==
  ASSUME NEW T, T \subseteq Nat, T # {}
  PROVE  \E n \in T : \A m \in T : n <= m
<1>1. PICK t \in T : TRUE
  OBVIOUS
<1> DEFINE Below == 1 .. t
           Up    == {s \in SUBSET Below : \E n \in T : s = 1 .. n}
<1>2. IsFiniteSet(Below)
  BY <1>1, FS_Interval
<1>3. IsWellFoundedOn(StrictSubsetOrdering(Below), SUBSET Below)
  BY <1>2, FS_StrictSubsetOrderingWellFounded, FS_FiniteSubsetsOfFinite
<1>4. Up \subseteq SUBSET Below /\ Below \in Up
  BY <1>1
<1> HIDE DEF Up
<1>5. PICK s \in Up : \A u \in Up : <<u, s>> \notin StrictSubsetOrdering(Below)
  BY <1>3, <1>4, WFMin
<1>6. PICK n \in T : s = 1 .. n /\ s \subseteq Below
  BY <1>5 DEF Up
<1>7. ASSUME NEW m \in T, m < n PROVE FALSE
  <2>1. 1 .. m \subseteq 1 .. n /\ n \in 1 .. n /\ n \notin 1 .. m
    BY <1>7
  <2>2. 1 .. m \in Up
    BY <1>6, <2>1 DEF Up
  <2>3. <<1 .. m, s>> \in StrictSubsetOrdering(Below)
    BY <1>6, <2>1 DEF StrictSubsetOrdering
  <2> QED
    BY <1>5, <2>2, <2>3
<1> QED
  BY <1>6, <1>7

-----------------------------------------------------------------------------
(* The merge *)

Increasing(s) == \A i, j \in DOMAIN s : i < j => s[i] < s[j]

(* Docids can be taken in their order.                                     *)
LEMMA IncreasingOrder ==
  ASSUME NEW n \in Nat, NEW S \in SUBSET (1 .. n)
  PROVE  \E s \in SetToSeqs(S) : Increasing(s)
<1> DEFINE Ordered(m) == \A T \in SUBSET (1 .. m) : \E s \in SetToSeqs(T) : Increasing(s)
           Bad == {m \in Nat : ~Ordered(m)}
<1>1. Ordered(0)
  <2> SUFFICES ASSUME NEW T \in SUBSET (1 .. 0) PROVE \E s \in SetToSeqs(T) : Increasing(s)
    OBVIOUS
  <2>1. T = {} /\ Cardinality(T) = 0
    <3>1. T = {}
      OBVIOUS
    <3> QED
      BY <3>1, FS_EmptySet
  <2>2. <<>> \in [1 .. 0 -> T]
    OBVIOUS
  <2>3. <<>> \in SetToSeqs(T)
    BY <2>1, <2>2 DEF SetToSeqs
  <2>4. Increasing(<<>>)
    BY DEF Increasing
  <2> QED
    BY <2>3, <2>4
<1>2. ASSUME NEW m \in Nat, Ordered(m) PROVE Ordered(m + 1)
  <2> SUFFICES ASSUME NEW T \in SUBSET (1 .. m + 1)
               PROVE  \E s \in SetToSeqs(T) : Increasing(s)
    OBVIOUS
  <2>1. CASE m + 1 \notin T
    <3>1. T \in SUBSET (1 .. m)
      BY <2>1
    <3> QED
      BY <1>2, <3>1
  <2>2. CASE m + 1 \in T
    <3> DEFINE R == T \ {m + 1}
               c == Cardinality(R)
    <3>1. R \in SUBSET (1 .. m)
      OBVIOUS
    <3>2. IsFiniteSet(T) /\ Cardinality(T) \in Nat /\ c \in Nat /\ Cardinality(T) = c + 1
      <4>1. IsFiniteSet(1 .. m + 1)
        BY FS_Interval
      <4>2. IsFiniteSet(T)
        BY <4>1, FS_Subset
      <4>3. IsFiniteSet(R) /\ c = Cardinality(T) - 1
        BY <2>2, <4>2, FS_RemoveElement
      <4>4. Cardinality(T) \in Nat /\ c \in Nat
        BY <4>2, <4>3, FS_CardinalityType
      <4> HIDE DEF c, R
      <4> QED
        BY <4>2, <4>3, <4>4
    <3>3. PICK r \in SetToSeqs(R) : Increasing(r)
      BY <1>2, <3>1
    <3>4. r \in [1 .. c -> R] /\ \A i, j \in 1 .. c : i # j => r[i] # r[j]
      BY DEF SetToSeqs
    <3> HIDE DEF c
    <3> DEFINE s == [i \in 1 .. c + 1 |-> IF i = c + 1 THEN m + 1 ELSE r[i]]
    <3>5. \A i \in 1 .. c : r[i] \in T /\ r[i] \in 1 .. m /\ s[i] = r[i] /\ r[i] < m + 1
      <4>1. \A i \in 1 .. c : r[i] \in R
        BY <3>4
      <4>2. \A x \in R : x \in T /\ x \in 1 .. m /\ x < m + 1
        BY <3>1
      <4>3. \A i \in 1 .. c : s[i] = r[i]
        BY <3>2
      <4> QED
        BY ONLY <4>1, <4>2, <4>3
    <3>6. s \in [1 .. c + 1 -> T] /\ s[c + 1] = m + 1 /\ DOMAIN s = 1 .. c + 1
      BY <2>2, <3>2, <3>5
    <3> HIDE DEF s, R
    <3>7. \A i \in 1 .. c + 1 : i \in 1 .. c \/ i = c + 1
      BY <3>2
    <3>8. ASSUME NEW i \in 1 .. c + 1, NEW j \in 1 .. c + 1, i < j PROVE s[i] < s[j]
      <4>1. i \in 1 .. c
        BY <3>2, <3>8
      <4>2. CASE j \in 1 .. c
        <5>1. DOMAIN r = 1 .. c
          BY <3>4
        <5>2. r[i] < r[j]
          BY <3>3, <3>8, <4>1, <4>2, <5>1 DEF Increasing
        <5> QED
          BY <3>5, <4>1, <4>2, <5>2
      <4>3. CASE j = c + 1
        BY <3>5, <3>6, <4>1, <4>3
      <4> QED
        BY <3>7, <4>2, <4>3
    <3>9. \A i \in 1 .. c + 1 : s[i] \in Nat
      <4>1. \A x \in T : x \in Nat
        OBVIOUS
      <4> QED
        BY ONLY <3>6, <4>1
    <3>10. ASSUME NEW i \in 1 .. c + 1, NEW j \in 1 .. c + 1, i # j PROVE s[i] # s[j]
      <4>1. i < j \/ j < i
        BY <3>2, <3>10
      <4>2. s[i] < s[j] \/ s[j] < s[i]
        BY <3>8, <4>1
      <4> QED
        BY <3>9, <4>2
    <3>11. s \in SetToSeqs(T)
      BY <3>2, <3>6, <3>10 DEF SetToSeqs
    <3>12. Increasing(s)
      BY <3>6, <3>8 DEF Increasing
    <3> QED
      BY <3>11, <3>12
  <2> QED
    BY <2>1, <2>2
<1>3. SUFFICES ASSUME Bad # {} PROVE FALSE
  OBVIOUS
<1>4. PICK m \in Bad : \A l \in Bad : m <= l
  <2>1. Bad \subseteq Nat
    OBVIOUS
  <2> HIDE DEF Bad
  <2> QED
    BY <1>3, <2>1, SmallestNat
<1>5. m # 0 /\ m \in Nat /\ ~Ordered(m)
  BY <1>1
<1>6. m - 1 \in Nat /\ (m - 1) + 1 = m /\ ~(m <= m - 1)
  BY <1>5
<1> HIDE DEF Ordered
<1>7. Ordered(m - 1)
  <2>1. m - 1 \notin Bad
    <3> HIDE DEF Bad
    <3> QED
      BY <1>4, <1>6
  <2> QED
    BY <1>6, <2>1
<1>8. Ordered(m)
  BY <1>2, <1>6, <1>7
<1> QED
  BY <1>5, <1>8

(* Every place of f holds the element of one of the first m sequences of s *)
(* that i and n name, and no other place holds that one.                   *)
Traces(f, s, m, i, n) ==
  \A d \in 1 .. Len(f) :
    /\ i[d] \in 1 .. m /\ n[d] \in 1 .. Len(s[i[d]])
    /\ f[d] = s[i[d]][n[d]]
    /\ \A e \in 1 .. Len(f) : i[d] = i[e] /\ n[d] = n[e] => d = e

Traced(f, s, m) == \E i, n : Traces(f, s, m, i, n)

(* The next sequence is traced after the others.                           *)
LEMMA TraceNext ==
  ASSUME NEW T, NEW s \in Seq(Seq(T)), NEW m \in Nat, m + 1 \in 1 .. Len(s),
         NEW f \in Seq(T), Traced(f, s, m)
  PROVE  f \o s[m + 1] \in Seq(T) /\ Traced(f \o s[m + 1], s, m + 1)
<1> DEFINE t == s[m + 1]
           h == f \o t
<1>1. t \in Seq(T)
  BY ElementOfSeq
<1>2. /\ h \in Seq(T) /\ Len(h) = Len(f) + Len(t)
      /\ \A d \in 1 .. Len(f) + Len(t) :
           h[d] = IF d <= Len(f) THEN f[d] ELSE t[d - Len(f)]
  BY <1>1, ConcatProperties
<1>3. Len(f) \in Nat /\ Len(t) \in Nat
  BY <1>1, LenProperties
<1>4. PICK i, n : Traces(f, s, m, i, n)
  BY DEF Traced
<1> HIDE DEF h
<1> DEFINE lf == Len(f)
           lt == Len(t)
           j == [d \in 1 .. lf + lt |-> IF d <= lf THEN i[d] ELSE m + 1]
           p == [d \in 1 .. lf + lt |-> IF d <= lf THEN n[d] ELSE d - lf]
<1>5. ASSUME NEW d \in 1 .. lf + lt, d <= lf
      PROVE  d \in 1 .. lf /\ j[d] = i[d] /\ p[d] = n[d] /\ h[d] = f[d]
  BY <1>2, <1>3, <1>5
<1>6. ASSUME NEW d \in 1 .. lf + lt, ~(d <= lf)
      PROVE  j[d] = m + 1 /\ p[d] = d - lf /\ d - lf \in 1 .. lt /\ h[d] = t[d - lf]
  BY <1>2, <1>3, <1>6
<1> HIDE DEF j, p, lf, lt
<1>7. \A d \in 1 .. lf :
        /\ i[d] \in 1 .. m /\ n[d] \in 1 .. Len(s[i[d]])
        /\ f[d] = s[i[d]][n[d]]
        /\ \A e \in 1 .. lf : i[d] = i[e] /\ n[d] = n[e] => d = e
  BY <1>4 DEF Traces, lf
<1>8. lf \in Nat /\ lt \in Nat /\ Len(h) = lf + lt /\ Len(s[m + 1]) = lt
  BY <1>2, <1>3 DEF lf, lt
<1>9. \A x \in 1 .. m : x \in 1 .. m + 1 /\ x # m + 1
  OBVIOUS
<1>10. m + 1 \in 1 .. m + 1
  OBVIOUS
<1>11. ASSUME NEW d \in 1 .. lf + lt
       PROVE  j[d] \in 1 .. m + 1 /\ p[d] \in 1 .. Len(s[j[d]]) /\ h[d] = s[j[d]][p[d]]
  <2>1. CASE d <= lf
    BY Zenon, <1>5, <1>7, <1>9, <2>1
  <2>2. CASE ~(d <= lf)
    BY Zenon, <1>6, <1>8, <1>10, <2>2
  <2> QED
    BY <2>1, <2>2
<1>12. ASSUME NEW d \in 1 .. lf + lt, NEW e \in 1 .. lf + lt, j[d] = j[e], p[d] = p[e]
       PROVE  d = e
  <2>1. CASE d <= lf /\ e <= lf
    BY <1>5, <1>7, <1>12, <2>1
  <2>2. CASE ~(d <= lf) /\ ~(e <= lf)
    <3>1. d - lf = e - lf
      BY <1>6, <1>12, <2>2
    <3> QED
      BY <1>8, <3>1
  <2>3. CASE d <= lf /\ ~(e <= lf)
    <3>1. j[d] = i[d] /\ i[d] \in 1 .. m
      BY Zenon, <1>5, <1>7, <2>3
    <3>2. j[e] = m + 1
      BY <1>6, <2>3
    <3> QED
      BY Zenon, <1>9, <1>12, <3>1, <3>2
  <2>4. CASE ~(d <= lf) /\ e <= lf
    <3>1. j[e] = i[e] /\ i[e] \in 1 .. m
      BY Zenon, <1>5, <1>7, <2>4
    <3>2. j[d] = m + 1
      BY <1>6, <2>4
    <3> QED
      BY Zenon, <1>9, <1>12, <3>1, <3>2
  <2> QED
    BY <2>1, <2>2, <2>3, <2>4
<1>13. Traces(h, s, m + 1, j, p)
  BY <1>8, <1>11, <1>12 DEF Traces
<1>14. Traced(h, s, m + 1)
  BY <1>13 DEF Traced
<1> QED
  BY <1>2, <1>14 DEF h

(* The recursion FlattenSeq is.                                            *)
Flattens(s, k, h) ==
  h = [i \in 1 .. k |-> IF i = 1 THEN s[i] ELSE h[i - 1] \o s[i]]

Flattening(s) == CHOOSE h : Flattens(s, Len(s), h)

(* FlattenSeq is the end of that recursion, if it exists.                  *)
LEMMA FlattenUnfolded ==
  ASSUME NEW s
  PROVE  FlattenSeq(s) = IF Len(s) = 0 THEN s ELSE Flattening(s)[Len(s)]
  BY Zenon DEF FlattenSeq, Flattening, Flattens

(* It has a solution.                                                      *)
LEMMA FlatteningExists ==
  ASSUME NEW s, Len(s) \in Nat
  PROVE  Flattens(s, Len(s), Flattening(s))
<1> DEFINE T == {k \in Nat : ~ \E h : Flattens(s, k, h)}
<1>1. SUFFICES ASSUME T # {} PROVE FALSE
  BY DEF Flattening
<1>2. PICK k \in T : \A m \in T : k <= m
  <2>1. T \subseteq Nat
    OBVIOUS
  <2> HIDE DEF T
  <2> QED
    BY <1>1, <2>1, SmallestNat
<1>3. k \in Nat /\ ~ \E h : Flattens(s, k, h)
  OBVIOUS
<1>4. CASE k = 0
  <2>1. Flattens(s, 0, <<>>)
    BY DEF Flattens
  <2> QED
    BY <1>3, <1>4, <2>1
<1>5. CASE k # 0
  <2>1. k - 1 \in Nat /\ ~(k <= k - 1)
    BY <1>3, <1>5
  <2>2. k - 1 \notin T
    <3> HIDE DEF T
    <3> QED
      BY <1>2, <2>1
  <2>3. PICK h : Flattens(s, k - 1, h)
    BY <2>1, <2>2
  <2> DEFINE j == [i \in 1 .. k |-> IF i = 1 THEN s[i] ELSE h[i - 1] \o s[i]]
  <2>4. ASSUME NEW i \in 1 .. k, i # 1 PROVE j[i - 1] = h[i - 1]
    <3>1. i - 1 \in 1 .. k - 1 /\ i - 1 \in 1 .. k
      BY <1>3, <2>4
    <3> QED
      BY <2>3, <3>1 DEF Flattens
  <2>5. j = [i \in 1 .. k |-> IF i = 1 THEN s[i] ELSE j[i - 1] \o s[i]]
    BY <2>4
  <2> HIDE DEF j
  <2>6. Flattens(s, k, j)
    BY <2>5 DEF Flattens
  <2> QED
    BY <1>3, <2>6
<1> QED
  BY <1>4, <1>5

(* Flattening sequences loses, invents and repeats none of their elements' *)
(* places.                                                                 *)
LEMMA FlattenTraced ==
  ASSUME NEW T, NEW s \in Seq(Seq(T))
  PROVE  FlattenSeq(s) \in Seq(T) /\ Traced(FlattenSeq(s), s, Len(s))
<1> DEFINE k == Len(s)
           h == Flattening(s)
           Good(m) == h[m] \in Seq(T) /\ Traced(h[m], s, m)
           Bad == {m \in 1 .. k : ~Good(m)}
<1>1. k \in Nat
  BY LenProperties
<1>2. CASE k = 0
  <2>1. s = <<>> /\ FlattenSeq(s) = <<>>
    BY <1>2, FlattenUnfolded, EmptySeq
  <2>2. Traces(<<>>, s, k, <<>>, <<>>)
    BY DEF Traces
  <2> QED
    BY <2>1, <2>2, EmptySeq DEF Traced
<1>3. CASE k # 0
  <2>1. h = [i \in 1 .. k |-> IF i = 1 THEN s[i] ELSE h[i - 1] \o s[i]]
    BY <1>1, FlatteningExists DEF Flattens
  <2>2. FlattenSeq(s) = h[k] /\ k \in 1 .. k /\ 1 \in 1 .. k
    BY <1>1, <1>3, FlattenUnfolded
  <2> HIDE DEF h
  <2>3. Good(1)
    <3>1. h[1] = s[1] /\ s[1] \in Seq(T)
      BY <2>1, <2>2, ElementOfSeq
    <3> DEFINE l == Len(s[1])
    <3>2. l \in Nat
      BY <3>1, LenProperties
    <3>3. Traces(s[1], s, 1, [d \in 1 .. l |-> 1], [d \in 1 .. l |-> d])
      BY <3>2 DEF Traces
    <3> QED
      BY <3>1, <3>3 DEF Traced
  <2>4. ASSUME NEW m \in Nat, m \in 1 .. k, m + 1 \in 1 .. k, Good(m)
        PROVE  Good(m + 1)
    <3>1. m + 1 # 1 /\ (m + 1) - 1 = m
      BY <2>4
    <3>2. h[m + 1] = h[m] \o s[m + 1]
      BY <2>1, <2>4, <3>1
    <3> QED
      BY <2>4, <3>2, TraceNext
  <2>5. SUFFICES ASSUME Bad # {} PROVE FALSE
    BY <2>2
  <2> HIDE DEF Good
  <2>6. PICK m \in Bad : \A l \in Bad : m <= l
    <3>1. Bad \subseteq Nat
      BY <1>1
    <3> HIDE DEF Bad
    <3> QED
      BY <2>5, <3>1, SmallestNat
  <2>7. m \in 1 .. k /\ ~Good(m) /\ m # 1
    BY <2>3
  <2>8. /\ m - 1 \in Nat /\ m - 1 \in 1 .. k /\ (m - 1) + 1 = m /\ (m - 1) + 1 \in 1 .. k
        /\ ~(m <= m - 1)
    BY <1>1, <2>7
  <2>9. Good(m - 1)
    <3>1. m - 1 \notin Bad
      <4> HIDE DEF Bad
      <4> QED
        BY <2>6, <2>8
    <3> QED
      BY <2>8, <3>1
  <2>10. Good((m - 1) + 1)
    BY <2>4, <2>8, <2>9
  <2> QED
    BY <2>7, <2>8, <2>10
<1> QED
  BY <1>2, <1>3

(* A function on the first numbers is a sequence.                          *)
LEMMA FunctionsAreSeqs ==
  ASSUME NEW S, NEW n \in Nat, NEW s \in [1 .. n -> S]
  PROVE  s \in Seq(S) /\ Len(s) = n
<1>1. [1 .. n -> S] \in {[1 .. m -> S] : m \in Nat}
  OBVIOUS
<1>2. s \in Seq(S)
  BY ONLY <1>1, s \in [1 .. n -> S], SeqDef, Zenon
<1> QED
  BY <1>2, LenProperties

(* Which live document each element of a segment's list of them is.        *)
Enumerates(g, ids) ==
  \A n \in 1 .. Len(LiveDocs(g)) :
    /\ ids[n] \in LiveIn(g) /\ LiveDocs(g)[n] = files[g].docs[ids[n]]
    /\ \A m \in 1 .. Len(LiveDocs(g)) : ids[n] = ids[m] => n = m

LiveIds(g) == CHOOSE ids : Enumerates(g, ids)

(* LiveDocs lists live documents, each once.                               *)
LEMMA LiveDocsListed ==
  ASSUME NEW g, files[g].docs \in Seq(Doc)
  PROVE  LiveDocs(g) \in Seq(Doc) /\ Enumerates(g, LiveIds(g))
<1> DEFINE docs == files[g].docs
           n == Len(docs)
           ids == CHOOSE s \in SetToSeqs(LiveIn(g)) :
                    \A i, j \in DOMAIN s : i < j => s[i] < s[j]
           c == Cardinality(LiveIn(g))
<1>1. n \in Nat /\ DOMAIN docs = 1 .. n /\ \A d \in 1 .. n : docs[d] \in Doc
  BY LenProperties, ElementOfSeq
<1>2. LiveIn(g) \in SUBSET (1 .. n)
  BY <1>1 DEF LiveIn
<1>3. c \in Nat
  <2>1. IsFiniteSet(1 .. n)
    BY <1>1, FS_Interval
  <2> QED
    BY <1>2, <2>1, FS_Subset, FS_CardinalityType
<1> HIDE DEF n
<1>4. \E s \in SetToSeqs(LiveIn(g)) : \A i, j \in DOMAIN s : i < j => s[i] < s[j]
  BY <1>1, <1>2, IncreasingOrder DEF Increasing
<1>5. ids \in SetToSeqs(LiveIn(g))
  BY <1>4
<1>6. LiveDocs(g) = [k \in DOMAIN ids |-> docs[ids[k]]]
  BY DEF LiveDocs
<1> HIDE DEF ids, c
<1>7. ids \in [1 .. c -> LiveIn(g)] /\ \A i, j \in 1 .. c : i # j => ids[i] # ids[j]
  BY <1>5 DEF SetToSeqs, c
<1>8. LiveDocs(g) \in [1 .. c -> Doc]
  <2>1. \A k \in 1 .. c : docs[ids[k]] \in Doc
    BY <1>1, <1>2, <1>7
  <2> QED
    BY <1>6, <1>7, <2>1
<1>9. LiveDocs(g) \in Seq(Doc)
  BY <1>3, <1>8, FunctionsAreSeqs
<1>10. Len(LiveDocs(g)) = c
  BY <1>3, <1>8, FunctionsAreSeqs
<1>11. Enumerates(g, ids)
  BY <1>6, <1>7, <1>10 DEF Enumerates
<1>12. Enumerates(g, LiveIds(g))
  BY <1>11 DEF LiveIds
<1> QED
  BY <1>9, <1>12

(* Which document of the inputs each document of a merge is a copy of.     *)
Sources(gens, gen, docid) ==
  \A d \in 1 .. Len(Merged(gens)) :
    /\ gen[d] \in Range(gens) /\ docid[d] \in LiveIn(gen[d])
    /\ Merged(gens)[d] = files[gen[d]].docs[docid[d]]
    /\ \A e \in 1 .. Len(Merged(gens)) : gen[d] = gen[e] /\ docid[d] = docid[e] => d = e

(* A merge copies live documents of its inputs, each at most once.         *)
LEMMA MergedTraced ==
  ASSUME NEW gens \in Seq(Nat), IsInjective(gens),
         \A g \in Range(gens) : files[g].docs \in Seq(Doc)
  PROVE  Merged(gens) \in Seq(Doc) /\ \E gen, docid : Sources(gens, gen, docid)
<1> DEFINE s == [i \in DOMAIN gens |-> LiveDocs(gens[i])]
           f == FlattenSeq(s)
<1>1. Len(gens) \in Nat /\ DOMAIN gens = 1 .. Len(gens)
  BY LenProperties
<1>2. \A i \in 1 .. Len(gens) :
        /\ gens[i] \in Range(gens)
        /\ LiveDocs(gens[i]) \in Seq(Doc) /\ Enumerates(gens[i], LiveIds(gens[i]))
  BY <1>1, LiveDocsListed DEF Range
<1>3. s \in Seq(Seq(Doc)) /\ Len(s) = Len(gens)
      /\ \A i \in 1 .. Len(gens) : s[i] = LiveDocs(gens[i])
  <2>1. s \in [1 .. Len(gens) -> Seq(Doc)]
    BY <1>1, <1>2
  <2>2. \A i \in 1 .. Len(gens) : s[i] = LiveDocs(gens[i])
    BY <1>1
  <2> HIDE DEF s
  <2> QED
    BY <1>1, <2>1, <2>2, FunctionsAreSeqs
<1>4. Merged(gens) = f
  BY DEF Merged
<1> HIDE DEF s
<1>5. f \in Seq(Doc) /\ Traced(f, s, Len(s))
  BY <1>3, FlattenTraced
<1> HIDE DEF f
<1>6. PICK i, n : Traces(f, s, Len(gens), i, n)
  BY <1>3, <1>5 DEF Traced
<1> DEFINE gen == [d \in 1 .. Len(f) |-> gens[i[d]]]
           docid == [d \in 1 .. Len(f) |-> LiveIds(gens[i[d]])[n[d]]]
<1>7. ASSUME NEW d \in 1 .. Len(f)
      PROVE  /\ i[d] \in 1 .. Len(gens) /\ n[d] \in 1 .. Len(LiveDocs(gens[i[d]]))
             /\ f[d] = LiveDocs(gens[i[d]])[n[d]]
             /\ \A e \in 1 .. Len(f) : i[d] = i[e] /\ n[d] = n[e] => d = e
             /\ gen[d] = gens[i[d]] /\ docid[d] = LiveIds(gens[i[d]])[n[d]]
  BY <1>3, <1>6 DEF Traces
<1> HIDE DEF gen, docid
<1>8. ASSUME NEW d \in 1 .. Len(f)
      PROVE  /\ gen[d] \in Range(gens) /\ docid[d] \in LiveIn(gen[d])
             /\ f[d] = files[gen[d]].docs[docid[d]]
  <2> DEFINE g == gens[i[d]]
  <2>1. /\ n[d] \in 1 .. Len(LiveDocs(g)) /\ f[d] = LiveDocs(g)[n[d]]
        /\ gen[d] = g /\ docid[d] = LiveIds(g)[n[d]]
    BY <1>7
  <2>2. g \in Range(gens) /\ Enumerates(g, LiveIds(g))
    BY <1>2, <1>7
  <2> HIDE DEF g
  <2> QED
    BY <2>1, <2>2 DEF Enumerates
<1>9. ASSUME NEW d \in 1 .. Len(f), NEW e \in 1 .. Len(f),
             gen[d] = gen[e], docid[d] = docid[e]
      PROVE  d = e
  <2>1. i[d] = i[e]
    BY <1>1, <1>7, <1>9 DEF IsInjective
  <2>2. n[d] = n[e]
    <3> DEFINE g == gens[i[d]]
    <3>1. /\ n[d] \in 1 .. Len(LiveDocs(g)) /\ n[e] \in 1 .. Len(LiveDocs(g))
          /\ LiveIds(g)[n[d]] = LiveIds(g)[n[e]]
      BY <1>7, <1>9, <2>1
    <3>2. Enumerates(g, LiveIds(g))
      BY <1>2, <1>7
    <3> QED
      BY ONLY <3>1, <3>2 DEF Enumerates
  <2> QED
    BY <1>7, <2>1, <2>2
<1>10. Sources(gens, gen, docid)
  BY <1>4, <1>8, <1>9 DEF Sources
<1> QED
  BY <1>4, <1>5, <1>10

-----------------------------------------------------------------------------
(* The inductive invariant                                                 *)

Segment == [docs : Seq(Doc), del : SUBSET Nat]

(* Every listed segment is open, every open one on disk, and tombstones    *)
(* are documents of their segment.                                         *)
Stored ==
  /\ \A g \in DOMAIN files : files[g] \in Segment /\ files[g].del \subseteq DOMAIN files[g].docs
  /\ Range(manifest.segs) \subseteq DOMAIN stones /\ DOMAIN stones \subseteq DOMAIN files
  /\ \A g \in DOMAIN stones : stones[g] \subseteq DOMAIN files[g].docs
  /\ writer.docs \in Seq(Doc) /\ writer.del \subseteq DOMAIN writer.docs

(* Until it is registered the memory segment is on disk only when it has   *)
(* just been written there, as it is, and is not open.                     *)
WriterUnopened ==
  /\ writer.gen \notin DOMAIN stones
  /\ pc # "register" => writer.gen \notin DOMAIN files
  /\ pc = "register" => files[writer.gen] = [docs |-> writer.docs, del |-> writer.del]

(* The place p names a document of key k, in memory segment w and files f, *)
(* if its generation exists.                                               *)
Names(p, k, w, f) ==
  /\ p.gen # 0 /\ p.gen = w.gen => p.docid \in DOMAIN w.docs /\ w.docs[p.docid].key = k
  /\ p.gen \in DOMAIN f => p.docid \in DOMAIN f[p.gen].docs /\ f[p.gen].docs[p.docid].key = k

(* Places the index has noted are of the key they are noted for.           *)
PlacesKept ==
  /\ keymap \in [Keys -> Place] /\ \A k \in Keys : Names(keymap[k], k, writer, files)
  /\ call.old \in Place /\ Names(call.old, call.key, writer, files)
  /\ call.old.gen < disk.gen

(* A merge reads open segments, each once; its output is not open, nor     *)
(* named by anything, before it is there.                                  *)
OutputUnopened ==
  /\ pc \in {"takeOutput", "merge"} =>
       IsInjective(job.inputs) /\ Range(job.inputs) \subseteq Range(manifest.segs)
  /\ pc \in {"merge", "mark", "repoint"} => job.out \notin DOMAIN stones
  /\ pc = "merge" => call.old.gen # job.out /\ \A k \in Keys : keymap[k].gen # job.out
  /\ pc = "unlist" => job.out \in DOMAIN stones
  /\ pc = "dropInputs" => Range(job.inputs) \cap DOMAIN stones = {}

(* What open() has established by each of its steps.                       *)
Reopened ==
  /\ pc \in {"down", "sweep", "retain", "rebuild", "saveStones", "openUnmark", "newWriter"} =>
       writer = NoWriter
  /\ pc \in {"sweep", "rebuild", "saveStones", "openUnmark"} =>
       DOMAIN stones = Range(manifest.segs)
  /\ pc \in {"rebuild", "saveStones", "openUnmark"} => DOMAIN files = DOMAIN stones
  /\ pc \in {"saveStones", "openUnmark"} => \A k \in Keys : Copies(k) \subseteq {keymap[k]}
  /\ pc = "openUnmark" => \A g \in DOMAIN stones : files[g].del = stones[g]

Content == Stored /\ WriterUnopened /\ PlacesKept /\ OutputUnopened /\ Reopened

(* Where it says more than elsewhere.                                      *)
Busy == {"register", "takeOutput", "merge", "mark", "repoint", "unlist", "dropInputs",
         "down", "sweep", "retain", "rebuild", "saveStones", "openUnmark", "newWriter"}

-----------------------------------------------------------------------------
(* The initial states                                                      *)

(* An index that has never been opened is empty.                           *)
LEMMA InitContent == Init => Content
<1> SUFFICES ASSUME Init PROVE Content
  OBVIOUS
<1> USE DEF Init, NoWriter, NoCall, NoPlace
<1>1. Range(<<>>) = {} /\ <<>> \in Seq(Doc) /\ DOMAIN <<>> = {}
  BY DEF Range
<1>2. Stored /\ WriterUnopened
  BY <1>1 DEF Stored, WriterUnopened
<1>3. PlacesKept
  BY DEF PlacesKept, Names, Place
<1>4. OutputUnopened /\ Reopened
  BY DEF OutputUnopened, Reopened
<1> QED
  BY <1>2, <1>3, <1>4 DEF Content

-----------------------------------------------------------------------------
(* Steps that write no documents                                           *)

(* The file numbers are positive, so that no place of one is NoPlace.      *)
LEMMA NoPlaceIsNowhere ==
  ASSUME Inv
  PROVE  0 \notin DOMAIN files /\ writer.gen \in Nat /\ disk.gen \in Nat /\ 0 < disk.gen
  BY GenerationsAreNumbers DEF Inv, Numbered

(* A step that at most deletes files of segments that are not open, drops  *)
(* list and keymap entries, and takes up a key of the keymap.              *)
LEMMA CalmContent ==
  ASSUME Inv, Content, pc # "register", pc' # "register",
         UNCHANGED <<stones, writer>>, disk'.gen \in Nat, disk.gen <= disk'.gen,
         Range(manifest'.segs) \subseteq Range(manifest.segs),
         DOMAIN files' \subseteq DOMAIN files, DOMAIN stones \subseteq DOMAIN files',
         \A g \in DOMAIN files' : files'[g] = files[g],
         keymap' \in [Keys -> Place], \A k \in Keys : keymap'[k] \in {keymap[k], NoPlace},
         \/ call'.old = call.old /\ call'.key = call.key
         \/ call'.old = NoPlace
         \/ call'.key \in Keys /\ call'.old = keymap[call'.key]
  PROVE  Stored' /\ WriterUnopened' /\ PlacesKept'
<1>1. Stored'
  BY DEF Content, Stored
<1>2. WriterUnopened'
  BY DEF Content, WriterUnopened
<1>3. \A p, k : Names(p, k, writer, files) => Names(p, k, writer', files')
  BY DEF Names
<1>4. \A k : Names(NoPlace, k, writer', files')
  BY NoPlaceIsNowhere DEF Names, NoPlace
<1>5. \A k \in Keys : Names(keymap'[k], k, writer', files')
  BY <1>3, <1>4 DEF Content, PlacesKept
<1>6. call'.old \in Place /\ Names(call'.old, call'.key, writer', files')
  <2>1. NoPlace \in Place
    BY DEF NoPlace, Place
  <2>2. \A k \in Keys : keymap[k] \in Place /\ Names(keymap[k], k, writer, files)
    BY DEF Content, PlacesKept
  <2>3. call.old \in Place /\ Names(call.old, call.key, writer, files)
    BY DEF Content, PlacesKept
  <2> QED
    BY <1>3, <1>4, <2>1, <2>2, <2>3
<1>7. call'.old.gen < disk'.gen
  <2>1. call'.old.gen \in Nat /\ call'.old.gen < disk.gen /\ disk.gen \in Nat
    <3>1. NoPlace.gen = 0 /\ 0 < disk.gen /\ disk.gen \in Nat
      BY NoPlaceIsNowhere DEF NoPlace
    <3>2. \A k \in Keys : keymap[k].gen \in Nat /\ keymap[k].gen < disk.gen
      BY DEF Inv, Numbered, Shapes, CatalogueTypeOK
    <3>3. call.old.gen \in Nat /\ call.old.gen < disk.gen
      BY DEF Content, PlacesKept, Place
    <3> QED
      BY <3>1, <3>2, <3>3
  <2> QED
    BY <2>1
<1>8. PlacesKept'
  BY <1>5, <1>6, <1>7 DEF PlacesKept
<1> QED
  BY <1>1, <1>2, <1>8

(* Unless it ends in a busy place, such a step needs no more.              *)
LEMMA CalmElsewhere ==
  ASSUME pc' \notin Busy
  PROVE  OutputUnopened' /\ Reopened'
  BY DEF Busy, OutputUnopened, Reopened

-----------------------------------------------------------------------------
(* add_document(), update_document(), delete_document()                    *)

(* The document is appended, and the keymap told where.                    *)
LEMMA IndexDocumentContent == ASSUME Inv, Content, IndexDocument PROVE Content'
<1> USE DEF IndexDocument, Step, Goto, budget
<1> DEFINE doc == [key |-> call.key, ver |-> call.ver]
           n == Len(writer.docs)
<1>1. /\ pc = "index" /\ pc' = "logAdd"
      /\ UNCHANGED <<disk, files, manifest, stones, call>>
  OBVIOUS
<1>2. doc \in Doc /\ call.key \in Keys
  BY DEF Inv, CallsNamed, Shapes, CatalogueTypeOK, Doc
<1>3. writer.docs \in Seq(Doc) /\ n \in Nat /\ DOMAIN writer.docs = 1 .. n
  BY LenProperties DEF Content, Stored
<1>4. DOMAIN writer = {"gen", "docs", "del"}
  BY DEF Inv, Shapes
<1>5. /\ writer'.gen = writer.gen /\ writer'.del = writer.del
      /\ writer'.docs = Append(writer.docs, doc)
  BY <1>4
<1>6. /\ writer'.docs \in Seq(Doc) /\ DOMAIN writer'.docs = 1 .. n + 1
      /\ writer'.docs[n + 1] = doc /\ \A i \in 1 .. n : writer'.docs[i] = writer.docs[i]
  BY <1>2, <1>3, <1>5, AppendProperties, LenProperties
<1>7. Stored'
  BY <1>1, <1>3, <1>5, <1>6 DEF Content, Stored
<1>8. WriterUnopened'
  BY <1>1, <1>5 DEF Content, WriterUnopened
<1>9. \A p, k : Names(p, k, writer, files) => Names(p, k, writer', files')
  BY <1>1, <1>3, <1>5, <1>6 DEF Names
<1>10. /\ keymap' \in [Keys -> Place]
       /\ \A k \in Keys : k # call.key => keymap'[k] = keymap[k]
       /\ keymap'[call.key] = [gen |-> writer.gen, docid |-> n + 1]
  <2>1. [gen |-> writer.gen, docid |-> n + 1] \in Place
    BY <1>3, NoPlaceIsNowhere DEF Place
  <2>2. keymap \in [Keys -> Place]
    BY DEF Content, PlacesKept
  <2> QED
    BY <1>2, <2>1, <2>2
<1>11. Names(keymap'[call.key], call.key, writer', files')
  <2>1. writer.gen \notin DOMAIN files /\ files' = files
    BY <1>1 DEF Content, WriterUnopened
  <2>2. n + 1 \in 1 .. n + 1
    BY <1>3
  <2> QED
    BY <1>5, <1>6, <1>10, <2>1, <2>2 DEF Names
<1>12. PlacesKept'
  <2>1. \A k \in Keys : Names(keymap'[k], k, writer', files')
    BY <1>9, <1>10, <1>11 DEF Content, PlacesKept
  <2> QED
    BY <1>1, <1>9, <1>10, <2>1 DEF Content, PlacesKept
<1> QED
  BY <1>1, <1>7, <1>8, <1>12, CalmElsewhere DEF Content, Busy

(* A record of the call and the choice of what runs next.                  *)
LEMMA LogContent == ASSUME Inv, Content, LogAdd \/ LogUpdate \/ LogDelete PROVE Content'
<1> USE DEF LogAdd, LogUpdate, LogDelete, Step, Goto, AfterAdd, Return, budget, memory
<1>1. /\ pc \in {"logAdd", "logUpdate", "logDelete"}
      /\ pc' \in {"flush", "logUpdate", "tombstone", "replay", "ready"}
      /\ UNCHANGED <<disk, files, keymap, manifest, stones, writer>>
      /\ UNCHANGED call \/ call' = NoCall
  OBVIOUS
<1>2. Stored' /\ WriterUnopened' /\ PlacesKept'
  <2>1. keymap \in [Keys -> Place]
    BY DEF Content, PlacesKept
  <2> QED
    BY <1>1, <2>1, CalmContent, NoPlaceIsNowhere DEF NoCall, Content, Stored
<1> QED
  BY <1>1, <1>2, CalmElsewhere DEF Content, Busy

(* Tombstones are added to, and saved, where the place leads.              *)
LEMMA TombstoneContent ==
  ASSUME Inv, Content, NEW ok \in BOOLEAN, Tombstone(call.old, ok), UNCHANGED manifest
  PROVE  /\ Stored'
         /\ writer'.gen = writer.gen /\ writer'.docs = writer.docs
         /\ DOMAIN stones' = DOMAIN stones /\ DOMAIN files' = DOMAIN files
         /\ \A g \in DOMAIN files : files'[g].docs = files[g].docs
<1> DEFINE p == call.old
<1>1. DOMAIN writer = {"gen", "docs", "del"} /\ 0 \notin DOMAIN files
  BY NoPlaceIsNowhere DEF Inv, Shapes
<1>2. p \in Place /\ Names(p, call.key, writer, files)
  BY DEF Content, PlacesKept
<1>3. CASE p.gen # 0 /\ p.gen = writer.gen
  <2>1. writer' = [writer EXCEPT !.del = @ \cup {p.docid}] /\ UNCHANGED <<files, stones>>
    BY <1>3 DEF Tombstone
  <2>2. p.docid \in DOMAIN writer.docs
    BY <1>2, <1>3 DEF Names
  <2>3. /\ writer'.gen = writer.gen /\ writer'.docs = writer.docs
        /\ writer'.del = writer.del \cup {p.docid}
    BY <1>1, <2>1
  <2> QED
    BY <2>1, <2>2, <2>3 DEF Content, Stored
<1>4. CASE ~(p.gen # 0 /\ p.gen = writer.gen) /\ p.gen \in Range(manifest.segs)
  <2> DEFINE bits == stones[p.gen] \cup {p.docid}
  <2>1. /\ stones' = [stones EXCEPT ![p.gen] = bits] /\ UNCHANGED writer
        /\ \/ files' = [files EXCEPT ![p.gen].del = bits]
           \/ UNCHANGED files
    BY <1>4 DEF Tombstone
  <2>2. p.gen \in DOMAIN stones /\ p.gen \in DOMAIN files
    BY <1>4 DEF Content, Stored
  <2>3. p.docid \in DOMAIN files[p.gen].docs
    BY <1>2, <2>2 DEF Names
  <2>4. bits \subseteq DOMAIN files[p.gen].docs
    BY <2>2, <2>3 DEF Content, Stored
  <2>5. \A g \in DOMAIN files : files[g] \in Segment /\ files[g].del \subseteq DOMAIN files[g].docs
    BY DEF Content, Stored
  <2>6. DOMAIN files[p.gen].docs \subseteq Nat
    <3>1. files[p.gen].docs \in Seq(Doc)
      BY <2>2, <2>5 DEF Segment
    <3> QED
      BY <3>1, LenProperties
  <2> HIDE DEF bits
  <2>7. /\ DOMAIN files' = DOMAIN files
        /\ \A g \in DOMAIN files : files'[g].docs = files[g].docs
        /\ \A g \in DOMAIN files : g # p.gen => files'[g] = files[g]
        /\ files'[p.gen] \in {files[p.gen], [files[p.gen] EXCEPT !.del = bits]}
    BY <2>1, <2>2, <2>5 DEF Segment
  <2>8. /\ files'[p.gen] \in Segment
        /\ files'[p.gen].del \subseteq DOMAIN files[p.gen].docs
    BY <2>2, <2>4, <2>5, <2>6, <2>7 DEF Segment
  <2>9. \A g \in DOMAIN files' : files'[g] \in Segment /\ files'[g].del \subseteq DOMAIN files'[g].docs
    BY <2>2, <2>5, <2>7, <2>8
  <2>10. /\ DOMAIN stones' = DOMAIN stones
         /\ \A g \in DOMAIN stones : stones'[g] \subseteq DOMAIN files[g].docs
    BY <2>1, <2>2, <2>4 DEF Content, Stored
  <2>11. \A g \in DOMAIN stones : g \in DOMAIN files
    BY DEF Content, Stored
  <2>12. Stored'
    BY <2>1, <2>7, <2>9, <2>10, <2>11 DEF Content, Stored
  <2> QED
    BY <2>1, <2>7, <2>10, <2>12
<1>5. CASE ~(p.gen # 0 /\ p.gen = writer.gen) /\ p.gen \notin Range(manifest.segs)
  <2>1. UNCHANGED <<files, stones, writer>>
    BY <1>5 DEF Tombstone
  <2> QED
    BY <2>1 DEF Content, Stored
<1> QED
  BY <1>3, <1>4, <1>5

(* Tombstones move no document.                                            *)
LEMMA BurialContent ==
  ASSUME Inv, Content, pc # "register", pc' \notin Busy, UNCHANGED <<disk, manifest, keymap>>,
         UNCHANGED call \/ call' = NoCall,
         \/ \E ok \in BOOLEAN : Tombstone(call.old, ok)
         \/ UNCHANGED <<files, stones, writer>>
  PROVE  Content'
<1>1. /\ Stored'
      /\ writer'.gen = writer.gen /\ writer'.docs = writer.docs
      /\ DOMAIN stones' = DOMAIN stones /\ DOMAIN files' = DOMAIN files
      /\ \A g \in DOMAIN files : files'[g].docs = files[g].docs
  <2>1. CASE \E ok \in BOOLEAN : Tombstone(call.old, ok)
    BY <2>1, TombstoneContent
  <2>2. CASE UNCHANGED <<files, stones, writer>>
    BY <2>2 DEF Content, Stored
  <2> QED
    BY <2>1, <2>2
<1>2. WriterUnopened'
  BY <1>1 DEF Content, WriterUnopened, Busy
<1>3. \A q, k : Names(q, k, writer, files) => Names(q, k, writer', files')
  BY <1>1 DEF Names
<1>4. NoPlace \in Place /\ \A k : Names(NoPlace, k, writer', files')
  BY <1>1, NoPlaceIsNowhere DEF Names, NoPlace, Place
<1>5. NoPlace.gen = 0 /\ 0 < disk.gen
  BY NoPlaceIsNowhere DEF NoPlace
<1>6. PlacesKept'
  BY <1>3, <1>4, <1>5 DEF Content, PlacesKept, NoCall
<1> QED
  BY <1>1, <1>2, <1>6, CalmElsewhere DEF Content

(* The old copy, or the deleted one, is buried.                            *)
LEMMA BuryingContent ==
  ASSUME Inv, Content, TombstoneOld \/ TombstoneDeleted
  PROVE  Content'
<1>1. /\ pc = "tombstone" /\ pc' \in {"unmap", "replay", "ready"}
      /\ UNCHANGED <<disk, manifest, keymap>>
      /\ UNCHANGED call \/ call' = NoCall
      /\ \/ \E ok \in BOOLEAN : Tombstone(call.old, ok)
         \/ UNCHANGED <<files, stones, writer>>
  BY DEF TombstoneOld, TombstoneDeleted, Goto, Return
<1>2. pc' \notin Busy
  BY <1>1 DEF Busy
<1> QED
  BY <1>1, <1>2, BurialContent

(* A deleted key has no place any more.                                    *)
LEMMA UnmapContent == ASSUME Inv, Content, Unmap PROVE Content'
<1> USE DEF Unmap, Step, Goto, memory, budget
<1>1. /\ pc = "unmap" /\ pc' = "logDelete"
      /\ UNCHANGED <<disk, files, manifest, stones, writer, call>>
      /\ keymap' = [keymap EXCEPT ![call.key] = NoPlace]
  OBVIOUS
<1>2. keymap' \in [Keys -> Place] /\ \A k \in Keys : keymap'[k] \in {keymap[k], NoPlace}
  <2>1. keymap \in [Keys -> Place] /\ NoPlace \in Place
    BY DEF Content, PlacesKept, NoPlace, Place
  <2> QED
    BY ONLY <1>1, <2>1
<1>3. Stored' /\ WriterUnopened' /\ PlacesKept'
  BY <1>1, <1>2, CalmContent, NoPlaceIsNowhere DEF Content, Stored
<1> QED
  BY <1>1, <1>3, CalmElsewhere DEF Content, Busy

-----------------------------------------------------------------------------
(* flush()                                                                 *)

(* The memory segment is written as it is, under a number no file has.     *)
LEMMA WriteSegmentContent == ASSUME Inv, Content, WriteSegment PROVE Content'
<1> USE DEF WriteSegment, Step, Goto, AfterFlush, AfterAdd, Return, memory, budget
<1>1. CASE writer.docs = <<>>
  <2>1. /\ pc = "flush" /\ pc' \in {"logUpdate", "replay", "ready"}
        /\ UNCHANGED <<disk, files, keymap, manifest, stones, writer>>
        /\ UNCHANGED call \/ call' = NoCall
    BY <1>1
  <2>2. keymap \in [Keys -> Place]
    BY DEF Content, PlacesKept
  <2>3. Stored' /\ WriterUnopened' /\ PlacesKept'
    BY <2>1, <2>2, CalmContent, NoPlaceIsNowhere DEF NoCall, Content, Stored
  <2> QED
    BY <2>1, <2>3, CalmElsewhere DEF Content, Busy
<1>2. CASE writer.docs # <<>>
  <2> DEFINE new == [docs |-> writer.docs, del |-> writer.del]
  <2>1. /\ pc = "flush" /\ pc' = "register"
        /\ UNCHANGED <<disk, keymap, manifest, stones, writer, call>>
        /\ files' = Put(files, writer.gen, new)
    BY <1>2
  <2>2. writer.gen \notin DOMAIN files /\ writer.gen \notin DOMAIN stones
    BY <2>1 DEF Content, WriterUnopened
  <2>3. /\ DOMAIN files' = DOMAIN files \cup {writer.gen} /\ files'[writer.gen] = new
        /\ \A g \in DOMAIN files : files'[g] = files[g]
    BY <2>1, <2>2 DEF Put
  <2>4. new \in Segment /\ new.del \subseteq DOMAIN new.docs
    <3>1. /\ writer.docs \in Seq(Doc) /\ writer.del \subseteq DOMAIN writer.docs
          /\ DOMAIN writer.docs \subseteq Nat
      BY LenProperties DEF Content, Stored
    <3> QED
      BY <3>1 DEF Segment
  <2>5. Stored'
    BY <2>1, <2>3, <2>4 DEF Content, Stored
  <2>6. WriterUnopened'
    BY <2>1, <2>2, <2>3 DEF WriterUnopened
  <2>7. writer.gen # 0
    BY <1>2 DEF Inv, WriterApart
  <2>8. \A p, k : Names(p, k, writer, files) => Names(p, k, writer', files')
    BY <2>1, <2>3, <2>7 DEF Names
  <2>9. PlacesKept'
    BY <2>1, <2>8 DEF Content, PlacesKept
  <2>10. OutputUnopened' /\ Reopened'
    BY <2>1 DEF OutputUnopened, Reopened
  <2> QED
    BY <2>5, <2>6, <2>9, <2>10 DEF Content
<1> QED
  BY <1>1, <1>2

(* The new segment is opened with the tombstones it was written with.      *)
LEMMA RegisterSegmentContent ==
  ASSUME Inv, Content, Inv', RegisterSegment
  PROVE  Content'
<1> USE DEF RegisterSegment, Goto, AfterFlush, AfterAdd, Return, NoWriter
<1>1. /\ pc = "register" /\ pc' \in {"newWriter", "logUpdate", "replay", "ready"}
      /\ writer' = NoWriter /\ UNCHANGED <<files, keymap>>
      /\ UNCHANGED call \/ call' = NoCall
  OBVIOUS
<1>2. \/ UNCHANGED <<disk, manifest, stones>>
      \/ /\ manifest' = [manifest EXCEPT !.segs = Append(@, writer.gen)]
         /\ stones' = Put(stones, writer.gen, writer.del)
         /\ disk' \in {disk, manifest'}
  OBVIOUS
<1>3. /\ writer.gen \in DOMAIN files /\ writer.gen \notin DOMAIN stones
      /\ files[writer.gen] = [docs |-> writer.docs, del |-> writer.del]
  BY <1>1 DEF Inv, WriterApart, Content, WriterUnopened
<1>4. /\ Range(manifest'.segs) \subseteq DOMAIN stones'
      /\ DOMAIN stones' \subseteq DOMAIN stones \cup {writer.gen}
      /\ \A g \in DOMAIN stones : stones'[g] = stones[g]
      /\ writer.gen \in DOMAIN stones' => stones'[writer.gen] = writer.del
  <2>1. CASE UNCHANGED <<disk, manifest, stones>>
    BY <1>3, <2>1 DEF Content, Stored
  <2>2. CASE /\ manifest' = [manifest EXCEPT !.segs = Append(@, writer.gen)]
             /\ stones' = Put(stones, writer.gen, writer.del)
    <3>1. manifest'.segs = Append(manifest.segs, writer.gen)
      BY <2>2 DEF Inv, Shapes, CatalogueTypeOK, Catalogue
    <3>2. Range(manifest'.segs) = Range(manifest.segs) \cup {writer.gen}
      BY <3>1, AppendRange, GenerationsAreNumbers
    <3>3. /\ DOMAIN stones' = DOMAIN stones \cup {writer.gen}
          /\ stones'[writer.gen] = writer.del
          /\ \A g \in DOMAIN stones : stones'[g] = stones[g]
      BY <1>3, <2>2 DEF Put
    <3> QED
      BY <3>2, <3>3 DEF Content, Stored
  <2> QED
    BY <1>2, <2>1, <2>2
<1>5. Stored'
  <2>1. \A g \in DOMAIN stones' : stones'[g] \subseteq DOMAIN files[g].docs
    BY <1>3, <1>4 DEF Content, Stored
  <2>2. writer'.docs \in Seq(Doc) /\ writer'.del \subseteq DOMAIN writer'.docs
    BY <1>1
  <2> QED
    BY <1>1, <1>3, <1>4, <2>1, <2>2 DEF Content, Stored
<1>6. WriterUnopened'
  BY <1>1, <1>5, NoPlaceIsNowhere DEF WriterUnopened, Stored
<1>7. \A p, k : Names(p, k, writer, files) => Names(p, k, writer', files')
  BY <1>1 DEF Names
<1>8. disk.gen <= disk'.gen /\ disk.gen \in Nat /\ disk'.gen \in Nat
  <2>1. /\ disk.gen \in Nat /\ manifest.gen \in Nat /\ disk.gen <= manifest.gen
        /\ manifest \in Catalogue
    BY <1>1 DEF Inv, Numbered, Shapes, CatalogueTypeOK, Catalogue
  <2>2. disk' = disk \/ disk'.gen = manifest.gen
    BY <1>2, <2>1 DEF Catalogue
  <2> QED
    BY <2>1, <2>2
<1>9. PlacesKept'
  <2>1. /\ keymap' \in [Keys -> Place]
        /\ \A k \in Keys : Names(keymap'[k], k, writer', files')
    BY <1>1, <1>7 DEF Content, PlacesKept
  <2>2. NoPlace \in Place /\ NoPlace.gen = 0 /\ \A k : Names(NoPlace, k, writer', files')
    BY <1>1, NoPlaceIsNowhere DEF Names, NoPlace, Place
  <2>3. call'.old \in Place /\ Names(call'.old, call'.key, writer', files')
    BY <1>1, <1>7, <2>2 DEF Content, PlacesKept, NoCall
  <2>4. call'.old.gen < disk'.gen
    <3>1. call.old.gen \in Nat /\ call.old.gen < disk.gen
      BY DEF Content, PlacesKept, Place
    <3>2. call'.old = call.old \/ call'.old.gen = 0
      BY <1>1, <2>2 DEF NoCall
    <3> QED
      BY <1>8, <3>1, <3>2
  <2> QED
    BY <2>1, <2>3, <2>4 DEF PlacesKept
<1>10. OutputUnopened' /\ Reopened'
  BY <1>1 DEF OutputUnopened, Reopened
<1> QED
  BY <1>5, <1>6, <1>9, <1>10 DEF Content

(* The new memory segment is empty, and nothing names its number.          *)
LEMMA StartNewWriterContent ==
  ASSUME Inv, Content, Inv', StartNewWriter
  PROVE  Content'
<1> USE DEF StartNewWriter, Goto, AfterFlush, AfterAdd, Return, NoWriter
<1>1. /\ pc = "newWriter" /\ writer = NoWriter
      /\ pc' \in {"replay", "ready", "maintain", "truncate", "down", "logUpdate"}
      /\ UNCHANGED <<files, keymap, stones>>
      /\ UNCHANGED call \/ call' = NoCall
  BY DEF Content, Reopened
<1>2. /\ manifest'.gen = manifest.gen + 1 /\ manifest'.segs = manifest.segs
      /\ disk.gen <= manifest.gen /\ disk.gen \in Nat /\ manifest.gen \in Nat /\ 0 < disk.gen
  <2>1. /\ manifest \in Catalogue /\ disk.gen <= manifest.gen
        /\ disk.gen \in Nat /\ manifest.gen \in Nat /\ 0 < disk.gen
    BY <1>1, GenerationsAreNumbers DEF Inv, Numbered, Shapes, CatalogueTypeOK
  <2>2. manifest' = [manifest EXCEPT !.gen = @ + 1]
    OBVIOUS
  <2> QED
    BY <2>1, <2>2 DEF Catalogue
<1>3. CASE UNCHANGED <<disk, writer>>
  <2>1. keymap \in [Keys -> Place]
    BY DEF Content, PlacesKept
  <2>2. Stored' /\ WriterUnopened' /\ PlacesKept'
    BY <1>1, <1>2, <1>3, <2>1, CalmContent DEF NoCall, Content, Stored
  <2>3. OutputUnopened' /\ Reopened'
    BY <1>1, <1>3 DEF OutputUnopened, Reopened
  <2> QED
    BY <2>2, <2>3 DEF Content
<1>4. CASE disk' = manifest' /\ writer' = [gen |-> manifest.gen, docs |-> <<>>, del |-> {}]
           /\ pc' # "down"
  <2>1. /\ writer'.gen = manifest.gen /\ writer'.docs = <<>> /\ writer'.del = {}
        /\ <<>> \in Seq(Doc) /\ DOMAIN <<>> = {}
    BY <1>4
  <2>2. manifest.gen \notin DOMAIN files
    <3>1. \A g \in DOMAIN files : g \in Nat /\ g < disk.gen
      BY DEF Inv, Numbered, Shapes, CatalogueTypeOK
    <3> QED
      BY <1>2, <3>1
  <2>3. Stored'
    BY <1>1, <1>2, <2>1 DEF Content, Stored
  <2>4. WriterUnopened'
    BY <1>1, <2>1, <2>2 DEF WriterUnopened, Content, Stored
  <2>5. \A p, k : p.gen # manifest.gen /\ Names(p, k, writer, files) => Names(p, k, writer', files')
    BY <1>1, <2>1 DEF Names
  <2>6. \A k \in Keys : keymap[k].gen # manifest.gen
    <3>1. \A k \in Keys : keymap[k].gen \in Nat /\ keymap[k].gen < disk.gen
      BY DEF Inv, Numbered, Shapes, CatalogueTypeOK
    <3> QED
      BY <1>2, <3>1
  <2>7. call'.old \in Place /\ call'.old.gen < disk.gen /\ Names(call'.old, call'.key, writer, files)
    BY <1>1, <1>2, NoPlaceIsNowhere DEF Content, PlacesKept, NoCall, NoPlace, Place, Names
  <2>8. call'.old.gen \in Nat /\ call'.old.gen # manifest.gen /\ call'.old.gen < manifest'.gen
    <3>1. call'.old.gen \in Nat
      BY <2>7 DEF Place
    <3> QED
      BY <1>2, <2>7, <3>1
  <2>9. PlacesKept'
    BY <1>1, <1>4, <2>5, <2>6, <2>7, <2>8 DEF PlacesKept, Content
  <2>10. OutputUnopened' /\ Reopened'
    BY <1>1, <1>4 DEF OutputUnopened, Reopened
  <2> QED
    BY <2>3, <2>4, <2>9, <2>10 DEF Content
<1> QED
  BY <1>3, <1>4

(* Emptying the log moves no document.                                     *)
LEMMA TruncateWalContent == ASSUME Inv, Content, TruncateWal PROVE Content'
<1> USE DEF TruncateWal, Goto, AfterFlush, AfterAdd, Return
<1>1. /\ pc = "truncate" /\ pc' \in {"logUpdate", "replay", "ready"}
      /\ UNCHANGED <<disk, files, keymap, manifest, stones, writer>>
      /\ UNCHANGED call \/ call' = NoCall
  OBVIOUS
<1>2. keymap \in [Keys -> Place]
  BY DEF Content, PlacesKept
<1>3. Stored' /\ WriterUnopened' /\ PlacesKept'
  BY <1>1, <1>2, CalmContent, NoPlaceIsNowhere DEF NoCall, Content, Stored
<1> QED
  BY <1>1, <1>3, CalmElsewhere DEF Content, Busy

-----------------------------------------------------------------------------
(* maintain() and compact()                                                *)

(* The orders in which a set of open segments can be taken name each once. *)
LEMMA OrdersInject ==
  ASSUME NEW s \in Seq(Nat), NEW S \in SUBSET Range(s), NEW gens \in SetToSeqs(S)
  PROVE  IsInjective(gens)
<1>1. \A i, j \in DOMAIN gens : i # j => gens[i] # gens[j]
  BY DEF SetToSeqs
<1> QED
  BY <1>1 DEF IsInjective

(* maintain() hands compact() open segments, each once.                    *)
LEMMA MaintainContent == ASSUME Inv, Content, Maintain PROVE Content'
<1> USE DEF Maintain, disks, memory, budget
<1>1. /\ pc = "maintain" /\ UNCHANGED <<disk, files, keymap, manifest, stones, writer>>
  OBVIOUS
<1>2. keymap \in [Keys -> Place]
  BY DEF Content, PlacesKept
<1>3. CASE /\ \E gens \in SetToSeqs(Candidates) :
                job' = [inputs |-> gens, left |-> gens, out |-> 0, round |-> job.round + 1]
           /\ pc' = "takeOutput" /\ UNCHANGED call
  <2>1. PICK gens \in SetToSeqs(Candidates) :
          job' = [inputs |-> gens, left |-> gens, out |-> 0, round |-> job.round + 1]
    BY <1>3
  <2>2. Range(gens) \subseteq Range(manifest.segs) /\ IsInjective(gens)
    BY OrdersAreSeqs, OrdersInject, CandidatesAreListed, GenerationsAreNumbers
  <2>3. job'.inputs = gens
    BY <2>1
  <2>4. Stored' /\ WriterUnopened' /\ PlacesKept'
    BY <1>1, <1>2, <1>3, CalmContent, NoPlaceIsNowhere DEF Content, Stored
  <2>5. OutputUnopened' /\ Reopened'
    BY <1>1, <1>3, <2>2, <2>3 DEF OutputUnopened, Reopened
  <2> QED
    BY <2>4, <2>5 DEF Content
<1>4. CASE EndMaintain
  <2>1. pc' \in {"replay", "ready", "truncate"} /\ (UNCHANGED call \/ call' = NoCall)
    BY <1>4 DEF EndMaintain, Enter, Goto, Return
  <2>2. Stored' /\ WriterUnopened' /\ PlacesKept'
    BY <1>1, <1>2, <2>1, CalmContent, NoPlaceIsNowhere DEF NoCall, Content, Stored
  <2> QED
    BY <2>1, <2>2, CalmElsewhere DEF Content, Busy
<1> QED
  BY <1>3, <1>4 DEF Enter

(* What a compaction that gives up leaves.                                 *)
LEMMA CompactFails ==
  ASSUME Goto(CompactFailed)
  PROVE  pc' \in {"replay", "ready", "truncate"} /\ (UNCHANGED call \/ call' = NoCall)
  BY DEF Goto, CompactFailed, Return

(* The output's number is one that nothing carries or names.               *)
LEMMA TakeOutputContent == ASSUME Inv, Content, TakeOutput PROVE Content'
<1> USE DEF TakeOutput, Fault
<1>1. /\ pc = "takeOutput" /\ UNCHANGED <<files, keymap, stones, writer>>
      /\ disk.gen <= manifest.gen /\ disk.gen \in Nat /\ manifest.gen \in Nat
      /\ manifest'.gen = manifest.gen + 1 /\ manifest'.segs = manifest.segs
  <2>1. pc = "takeOutput" /\ UNCHANGED <<files, keymap, stones, writer>>
    OBVIOUS
  <2>2. manifest \in Catalogue /\ disk.gen <= manifest.gen /\ disk.gen \in Nat /\ manifest.gen \in Nat
    BY <2>1, GenerationsAreNumbers DEF Inv, Numbered, Shapes, CatalogueTypeOK
  <2>3. manifest' = [manifest EXCEPT !.gen = @ + 1]
    OBVIOUS
  <2> QED
    BY ONLY <2>1, <2>2, <2>3 DEF Catalogue
<1>2. keymap \in [Keys -> Place]
  BY DEF Content, PlacesKept
<1>3. CASE disk' = manifest' /\ job' = [job EXCEPT !.out = manifest.gen]
           /\ pc' = "merge" /\ UNCHANGED call
  <2>1. disk'.gen \in Nat /\ disk.gen <= disk'.gen
    BY <1>1, <1>3
  <2>2. Stored' /\ WriterUnopened' /\ PlacesKept'
    BY <1>1, <1>2, <1>3, <2>1, CalmContent DEF Content, Stored
  <2>3. job'.out = manifest.gen /\ job'.inputs = job.inputs
    BY <1>3 DEF Inv, Shapes, CatalogueTypeOK
  <2>4. /\ manifest.gen \notin DOMAIN stones
        /\ \A k \in Keys : keymap[k].gen # manifest.gen
        /\ call.old.gen # manifest.gen
    <3>1. \A g \in DOMAIN stones : g \in Nat /\ g < disk.gen
      BY DEF Inv, Numbered, Shapes, CatalogueTypeOK, Content, Stored
    <3>2. \A k \in Keys : keymap[k].gen \in Nat /\ keymap[k].gen < disk.gen
      BY DEF Inv, Numbered, Shapes, CatalogueTypeOK
    <3>3. call.old.gen \in Nat /\ call.old.gen < disk.gen
      BY DEF Content, PlacesKept, Place
    <3> QED
      BY <1>1, <3>1, <3>2, <3>3
  <2>5. OutputUnopened'
    BY <1>1, <1>3, <2>3, <2>4 DEF Content, OutputUnopened
  <2>6. Reopened'
    BY <1>3 DEF Reopened
  <2> QED
    BY <2>2, <2>5, <2>6 DEF Content
<1>4. CASE UNCHANGED disk /\ Goto(CompactFailed)
  <2>1. pc' \in {"replay", "ready", "truncate"} /\ (UNCHANGED call \/ call' = NoCall)
    BY <1>4, CompactFails
  <2>2. Stored' /\ WriterUnopened' /\ PlacesKept'
    BY <1>1, <1>2, <1>4, <2>1, CalmContent DEF NoCall, Content, Stored
  <2> QED
    BY <2>1, <2>2, CalmElsewhere DEF Content, Busy
<1> QED
  BY <1>3, <1>4 DEF Enter

(* The output holds documents, and nothing names one of them yet.          *)
LEMMA MergeContent == ASSUME Inv, Content, Merge PROVE Content'
<1> USE DEF Merge, memory
<1>1. pc = "merge" /\ UNCHANGED <<disk, keymap, manifest, stones, writer>>
  OBVIOUS
<1>2. keymap \in [Keys -> Place]
  BY DEF Content, PlacesKept
<1>3. CASE /\ files' = Put(files, job.out, [docs |-> Merged(job.inputs), del |-> {}])
           /\ Goto("mark")
  <2> DEFINE new == [docs |-> Merged(job.inputs), del |-> {}]
  <2>1. pc' = "mark" /\ UNCHANGED <<call, job>>
    BY <1>3 DEF Goto
  <2>2. Merged(job.inputs) \in Seq(Doc)
    <3>1. job.inputs \in Seq(Nat)
      BY DEF Inv, Shapes, CatalogueTypeOK
    <3>2. IsInjective(job.inputs) /\ Range(job.inputs) \subseteq DOMAIN files
      BY <1>1 DEF Content, OutputUnopened, Stored
    <3>3. \A g \in Range(job.inputs) : files[g].docs \in Seq(Doc)
      BY <3>2 DEF Content, Stored, Segment
    <3> QED
      BY <3>1, <3>2, <3>3, MergedTraced
  <2>3. new \in Segment /\ new.del = {}
    BY <2>2 DEF Segment
  <2>4. files' = Put(files, job.out, new)
    BY <1>3
  <2> HIDE DEF new
  <2>5. /\ DOMAIN files' = DOMAIN files \cup {job.out}
        /\ files'[job.out] = new
        /\ \A g \in DOMAIN files : g # job.out => files'[g] = files[g]
    BY <2>4 DEF Put
  <2>6. job.out \notin DOMAIN stones /\ job.out # writer.gen
    BY <1>1 DEF Inv, OutputApart, Content, OutputUnopened
  <2>7. Stored'
    BY <1>1, <2>3, <2>5, <2>6 DEF Content, Stored
  <2>8. WriterUnopened'
    BY <1>1, <2>1, <2>5, <2>6 DEF Content, WriterUnopened
  <2>9. \A p, k : p.gen # job.out /\ Names(p, k, writer, files) => Names(p, k, writer', files')
    BY <1>1, <2>5 DEF Names
  <2>10. PlacesKept'
    BY <1>1, <2>1, <2>9 DEF Content, PlacesKept, OutputUnopened
  <2>11. OutputUnopened'
    BY <1>1, <2>1, <2>6 DEF OutputUnopened
  <2>12. Reopened'
    BY <2>1 DEF Reopened
  <2> QED
    BY <2>7, <2>8, <2>10, <2>11, <2>12 DEF Content
<1>4. CASE UNCHANGED files /\ Goto(CompactFailed)
  <2>1. pc' \in {"replay", "ready", "truncate"} /\ (UNCHANGED call \/ call' = NoCall)
    BY <1>4, CompactFails
  <2>2. Stored' /\ WriterUnopened' /\ PlacesKept'
    BY <1>1, <1>2, <1>4, <2>1, CalmContent, NoPlaceIsNowhere DEF NoCall, Content, Stored
  <2> QED
    BY <2>1, <2>2, CalmElsewhere DEF Content, Busy
<1> QED
  BY <1>3, <1>4

(* An output that is given up was not open.                                *)
LEMMA GivingUpContent ==
  ASSUME Inv, Content, pc \in {"mark", "repoint"},
         UNCHANGED <<disk, keymap, manifest, stones, writer>>,
         files' = Restrict(files, DOMAIN files \ {job.out}), Goto(CompactFailed)
  PROVE  Content'
<1>1. pc' \in {"replay", "ready", "truncate"} /\ (UNCHANGED call \/ call' = NoCall)
  BY CompactFails
<1>2. /\ DOMAIN files' = DOMAIN files \ {job.out}
      /\ \A g \in DOMAIN files' : files'[g] = files[g]
  BY DEF Restrict
<1>3. DOMAIN stones \subseteq DOMAIN files' /\ keymap \in [Keys -> Place]
  BY <1>2 DEF Content, Stored, PlacesKept, OutputUnopened
<1>4. Stored' /\ WriterUnopened' /\ PlacesKept'
  BY <1>1, <1>2, <1>3, CalmContent, NoPlaceIsNowhere DEF NoCall
<1> QED
  BY <1>1, <1>4, CalmElsewhere DEF Content, Busy

(* The marker says nothing of documents.                                   *)
LEMMA MarkContent == ASSUME Inv, Content, Mark PROVE Content'
<1> USE DEF Mark, memory
<1>1. pc = "mark" /\ UNCHANGED <<disk, keymap, manifest, stones, writer>>
  OBVIOUS
<1>2. CASE UNCHANGED files /\ Goto("repoint")
  <2>1. pc' = "repoint" /\ UNCHANGED <<call, job>>
    BY <1>2 DEF Goto
  <2>2. keymap \in [Keys -> Place]
    BY DEF Content, PlacesKept
  <2>3. Stored' /\ WriterUnopened' /\ PlacesKept'
    BY <1>1, <1>2, <2>1, <2>2, CalmContent, NoPlaceIsNowhere DEF Content, Stored
  <2>4. OutputUnopened' /\ Reopened'
    BY <1>1, <2>1 DEF Content, OutputUnopened, Reopened
  <2> QED
    BY <2>3, <2>4 DEF Content
<1>3. CASE files' = Restrict(files, DOMAIN files \ {job.out}) /\ Goto(CompactFailed)
  BY <1>1, <1>3, GivingUpContent
<1> QED
  BY <1>2, <1>3

(* The largest of some docids is one of them.                              *)
LEMMA MaxIsMember ==
  ASSUME NEW n \in Nat, NEW S \in SUBSET (1 .. n), S # {}
  PROVE  Max(S) \in S
<1> DEFINE Over == {m \in Nat : \A x \in S : x <= m}
<1>1. n \in Over /\ Over \subseteq Nat
  OBVIOUS
<1>2. PICK m \in Over : \A l \in Over : m <= l
  <2> HIDE DEF Over
  <2> QED
    BY <1>1, SmallestNat
<1>3. m \in Nat /\ \A x \in S : x \in Nat /\ x >= 1 /\ x <= m
  BY <1>2
<1>4. m \in S
  <2> SUFFICES ASSUME m \notin S PROVE FALSE
    OBVIOUS
  <2>1. m - 1 \in Nat /\ \A x \in S : x <= m - 1
    <3>1. \A x \in S : x # m
      OBVIOUS
    <3>2. \A x \in S : x \in Nat /\ x >= 1 /\ x <= m - 1
      BY ONLY <1>3, <3>1
    <3>3. PICK x \in S : TRUE
      OBVIOUS
    <3> QED
      BY ONLY <1>3, <3>2, <3>3
  <2>2. m - 1 \in Over
    BY <2>1
  <2> HIDE DEF Over
  <2>3. m <= m - 1
    BY <1>2, <2>2
  <2> QED
    BY <1>3, <2>3
<1>5. \A y \in S : m >= y
  BY <1>3
<1> QED
  BY <1>4, <1>5 DEF Max

(* The output is opened, and each key it has is found there.               *)
LEMMA RepointContent == ASSUME Inv, Content, Repoint PROVE Content'
<1> USE DEF Repoint
<1>1. pc = "repoint" /\ UNCHANGED <<disk, manifest, writer>>
  OBVIOUS
<1>2. CASE /\ keymap' = [k \in Keys |->
                LET here == {d \in DOMAIN files[job.out].docs : files[job.out].docs[d].key = k} IN
                IF here = {} THEN keymap[k] ELSE [gen |-> job.out, docid |-> Max(here)]]
           /\ stones' = Put(stones, job.out, {})
           /\ UNCHANGED files /\ Goto("unlist")
  <2> DEFINE docs == files[job.out].docs
             here(k) == {d \in DOMAIN docs : docs[d].key = k}
  <2>1. pc' = "unlist" /\ UNCHANGED <<call, job, files>>
    BY <1>2 DEF Goto
  <2>2. /\ job.out \in DOMAIN files /\ job.out \notin DOMAIN stones
        /\ job.out # writer.gen /\ job.out \in Nat
    BY <1>1 DEF Inv, OutputApart, Shapes, CatalogueTypeOK, Content, OutputUnopened
  <2>3. /\ DOMAIN stones' = DOMAIN stones \cup {job.out}
        /\ stones'[job.out] = {} /\ \A g \in DOMAIN stones : stones'[g] = stones[g]
    BY <1>2, <2>2 DEF Put
  <2>4. Stored'
    BY <1>1, <2>1, <2>2, <2>3 DEF Content, Stored
  <2>5. WriterUnopened'
    BY <1>1, <2>1, <2>2, <2>3 DEF Content, WriterUnopened
  <2>6. ASSUME NEW k \in Keys, keymap'[k] # keymap[k]
        PROVE  /\ keymap'[k] = [gen |-> job.out, docid |-> Max(here(k))]
               /\ Max(here(k)) \in here(k)
    <3>1. here(k) # {} /\ keymap'[k] = [gen |-> job.out, docid |-> Max(here(k))]
      BY <1>2, <2>6
    <3>2. Len(docs) \in Nat /\ DOMAIN docs = 1 .. Len(docs)
      BY <2>2, LenProperties DEF Content, Stored, Segment
    <3>3. here(k) \in SUBSET (1 .. Len(docs))
      BY <3>2
    <3> HIDE DEF here
    <3> QED
      BY <3>1, <3>2, <3>3, MaxIsMember
  <2>7. ASSUME NEW k \in Keys
        PROVE  keymap'[k] \in Place /\ Names(keymap'[k], k, writer, files)
    <3>1. CASE keymap'[k] = keymap[k]
      BY <3>1 DEF Content, PlacesKept
    <3>2. CASE keymap'[k] # keymap[k]
      <4>1. /\ keymap'[k] = [gen |-> job.out, docid |-> Max(here(k))]
            /\ Max(here(k)) \in DOMAIN docs /\ docs[Max(here(k))].key = k
        BY <2>6, <3>2
      <4>2. DOMAIN docs \subseteq Nat
        BY <2>2, LenProperties DEF Content, Stored, Segment
      <4>3. keymap'[k] \in Place
        BY <2>2, <4>1, <4>2 DEF Place
      <4> QED
        BY <2>2, <4>1, <4>3 DEF Names
    <3> QED
      BY <3>1, <3>2
  <2>8. keymap' \in [Keys -> Place]
    <3>1. DOMAIN keymap' = Keys /\ keymap' = [k \in Keys |-> keymap'[k]]
      BY <1>2
    <3> HIDE DEF Repoint
    <3> QED
      BY ONLY <2>7, <3>1
  <2>9. PlacesKept'
    BY <1>1, <2>1, <2>7, <2>8 DEF Content, PlacesKept
  <2>10. OutputUnopened' /\ Reopened'
    BY <2>1, <2>3 DEF OutputUnopened, Reopened
  <2> QED
    BY <2>4, <2>5, <2>9, <2>10 DEF Content
<1>3. CASE /\ files' = Restrict(files, DOMAIN files \ {job.out})
           /\ UNCHANGED <<keymap, stones>> /\ Goto(CompactFailed)
  BY <1>1, <1>3, GivingUpContent
<1> QED
  BY <1>2, <1>3

(* Unlisted segments stay open, and on disk.                               *)
LEMMA UnlistContent == ASSUME Inv, Content, Unlist PROVE Content'
<1> USE DEF Unlist, disks
<1>1. /\ pc = "unlist" /\ pc' = "unlist" /\ job'.out = job.out
      /\ UNCHANGED <<disk, files, keymap, stones, writer, call>>
  BY DEF Enter, Inv, Shapes, CatalogueTypeOK
<1>2. Range(manifest'.segs) \subseteq Range(manifest.segs)
  <2>1. Head(job.left) \in Nat
    BY TailRange DEF Inv, Shapes, CatalogueTypeOK
  <2>2. manifest'.segs = Without(manifest.segs, Head(job.left))
    BY DEF Inv, Shapes, CatalogueTypeOK, Catalogue
  <2>3. manifest.segs \in Seq(Nat) /\ IsInjective(manifest.segs)
    BY GenerationsAreNumbers DEF Inv, Listed
  <2> QED
    BY ONLY <2>1, <2>2, <2>3, WithoutShrinks
<1>3. keymap \in [Keys -> Place]
  BY DEF Content, PlacesKept
<1>4. Stored' /\ WriterUnopened' /\ PlacesKept'
  BY <1>1, <1>2, <1>3, CalmContent, NoPlaceIsNowhere DEF Content, Stored
<1>5. OutputUnopened' /\ Reopened'
  BY <1>1 DEF Content, OutputUnopened, Reopened
<1> QED
  BY <1>4, <1>5 DEF Content

(* The inputs are closed when none of them is listed.                      *)
LEMMA SwapContent == ASSUME Inv, Content, Swap PROVE Content'
<1> USE DEF Swap
<1>1. /\ pc = "unlist" /\ job.left = <<>> /\ pc' \in {"dropInputs", "replay", "ready", "truncate"}
      /\ UNCHANGED <<files, keymap, writer>>
      /\ UNCHANGED <<call, job>> \/ (call' = NoCall /\ pc' # "dropInputs")
      /\ disk' \in {disk, manifest'}
  BY DEF Goto, CompactFailed, Return
<1>2. /\ DOMAIN stones' = DOMAIN stones \ Range(job.inputs)
      /\ \A g \in DOMAIN stones' : stones'[g] = stones[g]
  BY DEF Restrict
<1>3. /\ manifest'.gen = manifest.gen
      /\ Range(manifest'.segs) = Range(manifest.segs) \cup {job.out}
  <2>1. manifest'.segs = Append(manifest.segs, job.out) /\ manifest'.gen = manifest.gen
    BY DEF Inv, Shapes, CatalogueTypeOK, Catalogue
  <2>2. job.out \in Nat /\ manifest.segs \in Seq(Nat)
    BY GenerationsAreNumbers DEF Inv, Shapes, CatalogueTypeOK
  <2> QED
    BY ONLY <2>1, <2>2, AppendRange
<1>4. \A g \in Range(manifest'.segs) : g \in DOMAIN stones'
  <2>1. \A g \in Range(job.inputs) : g \notin Range(manifest.segs)
    <3>1. Range(job.left) = {}
      BY <1>1 DEF Range
    <3> QED
      BY <1>1, <3>1 DEF Inv, InputsApart
  <2>2. job.out \in DOMAIN stones /\ job.out \notin Range(job.inputs)
    BY <1>1 DEF Inv, OutputApart, Content, OutputUnopened
  <2> QED
    BY <1>2, <1>3, <2>1, <2>2 DEF Content, Stored
<1>5. Stored'
  BY <1>1, <1>2, <1>4 DEF Content, Stored
<1>6. WriterUnopened'
  BY <1>1, <1>2 DEF Content, WriterUnopened
<1>7. disk.gen <= disk'.gen /\ disk.gen \in Nat /\ disk'.gen \in Nat
  <2>1. disk.gen \in Nat /\ manifest.gen \in Nat /\ disk.gen <= manifest.gen
    BY <1>1, GenerationsAreNumbers DEF Inv, Numbered
  <2>2. disk'.gen \in {disk.gen, manifest.gen}
    BY <1>1, <1>3
  <2> QED
    BY ONLY <2>1, <2>2
<1>8. PlacesKept'
  <2>1. /\ NoPlace \in Place /\ NoPlace.gen = 0 /\ 0 < disk.gen
        /\ \A k : Names(NoPlace, k, writer, files)
    BY NoPlaceIsNowhere DEF NoPlace, Place, Names
  <2>2. call'.old \in Place /\ Names(call'.old, call'.key, writer, files) /\ call'.old.gen < disk.gen
    BY <1>1, <2>1 DEF Content, PlacesKept, NoCall
  <2>3. call'.old.gen < disk'.gen
    <3>1. call'.old.gen \in Nat
      BY <2>2 DEF Place
    <3> QED
      BY ONLY <1>7, <2>2, <3>1
  <2> QED
    BY <1>1, <2>2, <2>3 DEF Content, PlacesKept
<1>9. OutputUnopened' /\ Reopened'
  BY <1>1, <1>2 DEF OutputUnopened, Reopened
<1> QED
  BY <1>5, <1>6, <1>8, <1>9 DEF Content

(* The files of closed segments go.                                        *)
LEMMA DropInputsContent == ASSUME Inv, Content, DropInputs \/ Unmark PROVE Content'
<1> USE DEF DropInputs, Unmark, Step, Goto, AfterCompact, Return, memory, budget
<1>1. /\ pc \in {"dropInputs", "unmark"} /\ pc' \in {"unmark", "maintain", "replay", "ready"}
      /\ UNCHANGED <<disk, keymap, manifest, stones, writer>>
      /\ UNCHANGED call \/ call' = NoCall
      /\ pc = "dropInputs" => files' = Restrict(files, DOMAIN files \ Range(job.inputs))
      /\ pc = "unmark" => files' = files
  OBVIOUS
<1>2. /\ DOMAIN stones \subseteq DOMAIN files' /\ DOMAIN files' \subseteq DOMAIN files
      /\ \A g \in DOMAIN files' : files'[g] = files[g]
  BY <1>1 DEF Restrict, Content, Stored, OutputUnopened
<1>3. keymap \in [Keys -> Place]
  BY DEF Content, PlacesKept
<1>4. Stored' /\ WriterUnopened' /\ PlacesKept'
  BY <1>1, <1>2, <1>3, CalmContent, NoPlaceIsNowhere DEF NoCall
<1> QED
  BY <1>1, <1>4, CalmElsewhere DEF Content, Busy

-----------------------------------------------------------------------------
(* open()                                                                  *)

(* The listed segments are opened with the tombstones that were saved.     *)
LEMMA OpenContent == ASSUME Inv, Content, Open PROVE Content'
<1> USE DEF Open, Enter, budget
<1>1. /\ pc = "down" /\ pc' = "sweep" /\ manifest' = disk /\ writer = NoWriter
      /\ UNCHANGED <<disk, files, writer>>
      /\ stones' = [g \in Range(disk.segs) |-> files[g].del]
      /\ Range(disk.segs) \subseteq DOMAIN files
  BY DEF Content, Reopened
<1>2. keymap' \in [Keys -> Place] /\ \A k \in Keys : keymap'[k] \in {keymap[k], NoPlace}
  <2>1. keymap \in [Keys -> Place] /\ NoPlace \in Place
    BY DEF Content, PlacesKept, NoPlace, Place
  <2>2. keymap' \in {keymap, [k \in Keys |-> NoPlace]}
    OBVIOUS
  <2> QED
    BY ONLY <2>1, <2>2
<1>3. Stored'
  BY <1>1 DEF Content, Stored
<1>4. WriterUnopened'
  BY <1>1 DEF Content, WriterUnopened
<1>5. PlacesKept'
  <2>1. /\ NoPlace \in Place /\ NoPlace.gen = 0 /\ 0 < disk.gen
        /\ \A k : Names(NoPlace, k, writer, files)
    BY NoPlaceIsNowhere DEF NoPlace, Place, Names
  <2>2. call'.old = NoPlace
    BY DEF NoCall
  <2> QED
    BY <1>1, <1>2, <2>1, <2>2 DEF Content, PlacesKept
<1>6. OutputUnopened' /\ Reopened'
  BY <1>1 DEF OutputUnopened, Reopened
<1> QED
  BY <1>3, <1>4, <1>5, <1>6 DEF Content

(* After the sweep only the listed segments are on disk.                   *)
LEMMA SweepContent == ASSUME Inv, Content, Sweep PROVE Content'
<1> USE DEF Sweep, Step, Goto, memory, budget
<1>1. /\ pc = "sweep" /\ pc' \in {"rebuild", "retain"}
      /\ UNCHANGED <<disk, keymap, manifest, stones, writer, call>>
      /\ writer = NoWriter /\ DOMAIN stones = Range(manifest.segs)
  BY DEF Content, Reopened
<1>2. /\ DOMAIN files' = DOMAIN stones /\ DOMAIN files' \subseteq DOMAIN files
      /\ \A g \in DOMAIN files' : files'[g] = files[g]
  BY <1>1 DEF Restrict, Content, Stored
<1>3. keymap \in [Keys -> Place]
  BY DEF Content, PlacesKept
<1>4. Stored' /\ WriterUnopened' /\ PlacesKept'
  BY <1>1, <1>2, <1>3, CalmContent, NoPlaceIsNowhere
<1>5. OutputUnopened' /\ Reopened'
  BY <1>1, <1>2 DEF OutputUnopened, Reopened
<1> QED
  BY <1>4, <1>5 DEF Content

(* Keymap entries are dropped, not moved.                                  *)
LEMMA RetainContent == ASSUME Inv, Content, RetainGenerations PROVE Content'
<1> USE DEF RetainGenerations, Step, Goto, memory, budget
<1>1. /\ pc = "retain" /\ pc' = "newWriter" /\ writer = NoWriter
      /\ UNCHANGED <<disk, files, manifest, stones, writer, call>>
  BY DEF Content, Reopened
<1>2. keymap' \in [Keys -> Place] /\ \A k \in Keys : keymap'[k] \in {keymap[k], NoPlace}
  <2>1. keymap \in [Keys -> Place] /\ NoPlace \in Place
    BY DEF Content, PlacesKept, NoPlace, Place
  <2> QED
    BY <2>1
<1>3. Stored' /\ WriterUnopened' /\ PlacesKept'
  BY <1>1, <1>2, CalmContent, NoPlaceIsNowhere DEF Content, Stored
<1>4. OutputUnopened' /\ Reopened'
  BY <1>1 DEF OutputUnopened, Reopened
<1> QED
  BY <1>3, <1>4 DEF Content

(* A live copy is a document of its key, in a listed segment or the memory *)
(* segment.                                                                *)
LEMMA CopiesAreDocs ==
  ASSUME Inv, Content, NEW k, NEW p \in Copies(k)
  PROVE  /\ p \in Place /\ Names(p, k, writer, files)
         /\ \/ p.gen \in Range(manifest.segs) /\ p.docid \in LiveIn(p.gen)
            \/ p.gen = writer.gen /\ p.docid \in LiveInWriter
<1>1. CASE p \in BufferedCopies(k)
  <2>1. PICK d \in LiveInWriter :
          p = [gen |-> writer.gen, docid |-> d] /\ writer.docs[d].key = k
    BY <1>1 DEF BufferedCopies
  <2>2. d \in DOMAIN writer.docs /\ d \in Nat
    BY LenProperties DEF LiveInWriter, Content, Stored
  <2>3. writer.gen \in Nat /\ writer.gen # 0 /\ writer.gen = writer.gen
    <3>1. writer.docs # <<>>
      BY <2>2
    <3> QED
      BY <3>1, NoPlaceIsNowhere DEF Inv, WriterApart
  <2>4. writer.gen \in DOMAIN files => files[writer.gen].docs = writer.docs
    BY DEF Content, WriterUnopened
  <2> QED
    BY <2>1, <2>2, <2>3, <2>4 DEF Names, Place
<1>2. CASE \E g \in Range(manifest.segs) : p \in FlushedCopies(g, k)
  <2>1. PICK g \in Range(manifest.segs) : p \in FlushedCopies(g, k)
    BY <1>2
  <2>2. PICK d \in LiveIn(g) : p = [gen |-> g, docid |-> d] /\ files[g].docs[d].key = k
    BY <2>1 DEF FlushedCopies
  <2>3. g \in DOMAIN files /\ g # writer.gen /\ g \in Nat
    BY <2>1 DEF Inv, Listed, WriterApart, Shapes, CatalogueTypeOK
  <2>4. d \in DOMAIN files[g].docs /\ d \in Nat
    <3>1. files[g].docs \in Seq(Doc)
      BY <2>3 DEF Content, Stored, Segment
    <3> QED
      BY <3>1, LenProperties DEF LiveIn
  <2> QED
    BY <2>1, <2>2, <2>3, <2>4 DEF Names, Place
<1> QED
  BY <1>1, <1>2 DEF Copies

(* Every copy of a key but the one the keymap takes gets its tombstone.    *)
LEMMA RebuildContent == ASSUME Inv, Content, RebuildKeymap PROVE Content'
<1> USE DEF RebuildKeymap, Step, Goto, budget
<1>1. /\ pc = "rebuild" /\ pc' = "saveStones" /\ writer = NoWriter
      /\ DOMAIN stones = Range(manifest.segs) /\ DOMAIN files = DOMAIN stones
      /\ UNCHANGED <<disk, files, manifest, writer, call>>
  BY DEF Content, Reopened
<1>2. PICK last \in LastCopies :
        /\ keymap' = last
        /\ stones' = [g \in DOMAIN stones |-> stones[g] \cup Superseded(g, last)]
  OBVIOUS
<1>3. \A k \in Keys : last[k] = NoPlace \/ last[k] \in Copies(k)
  BY DEF LastCopies
<1>4. \A k \in Keys : last[k] \in Place /\ Names(last[k], k, writer, files)
  <2>1. NoPlace \in Place /\ \A k : Names(NoPlace, k, writer, files)
    BY NoPlaceIsNowhere DEF NoPlace, Place, Names
  <2> QED
    BY <1>3, <2>1, CopiesAreDocs
<1>5. keymap' \in [Keys -> Place]
  <2>1. last \in [Keys -> (UNION {Copies(k) : k \in Keys}) \cup {NoPlace}]
    BY DEF LastCopies
  <2> QED
    BY <1>2, <1>4, <2>1
<1>6. ASSUME NEW g \in DOMAIN stones
      PROVE  Superseded(g, last) \subseteq DOMAIN files[g].docs
  <2> SUFFICES ASSUME NEW k \in Keys, NEW p \in Copies(k), p.gen = g
               PROVE  p.docid \in DOMAIN files[g].docs
    BY DEF Superseded
  <2>1. Names(p, k, writer, files)
    BY CopiesAreDocs
  <2> QED
    BY <1>1, <2>1 DEF Names
<1>7. Stored'
  BY <1>1, <1>2, <1>6 DEF Content, Stored
<1>8. WriterUnopened'
  BY <1>1, <1>2 DEF Content, WriterUnopened
<1>9. PlacesKept'
  BY <1>1, <1>2, <1>4, <1>5 DEF Content, PlacesKept
<1>10. ASSUME NEW k \in Keys, NEW p \in Copies(k)'
       PROVE  p = keymap'[k]
  <2>1. BufferedCopies(k)' = {}
    BY <1>1 DEF BufferedCopies, LiveInWriter, NoWriter
  <2>2. PICK g \in Range(manifest.segs) : p \in FlushedCopies(g, k)'
    BY <1>1, <2>1 DEF Copies
  <2>3. PICK d \in LiveIn(g)' : p = [gen |-> g, docid |-> d] /\ files[g].docs[d].key = k
    BY <1>1, <2>2 DEF FlushedCopies
  <2>4. d \in DOMAIN files[g].docs /\ d \notin stones[g] /\ d \notin Superseded(g, last)
    BY <1>1, <1>2, <2>3 DEF LiveIn
  <2>5. p \in Copies(k)
    BY <2>3, <2>4 DEF Copies, FlushedCopies, LiveIn
  <2>6. p.gen = g /\ p.docid = d
    BY <2>3
  <2> QED
    BY <1>2, <2>4, <2>5, <2>6 DEF Superseded
<1>11. OutputUnopened' /\ Reopened'
  BY <1>1, <1>2, <1>10 DEF OutputUnopened, Reopened
<1> QED
  BY <1>7, <1>8, <1>9, <1>11 DEF Content

(* The tombstone files are brought up to date, and nothing else.           *)
LEMMA SaveStonesContent == ASSUME Inv, Content, SaveStones PROVE Content'
<1> USE DEF SaveStones, Goto, memory
<1>1. /\ pc = "saveStones" /\ pc' \in {"openUnmark", "down"} /\ writer = NoWriter
      /\ DOMAIN stones = Range(manifest.segs) /\ DOMAIN files = DOMAIN stones
      /\ UNCHANGED <<disk, keymap, manifest, stones, writer, call>>
  BY DEF Content, Reopened
<1>2. PICK unsaved \in SUBSET {g \in DOMAIN files : stones[g] # files[g].del} :
        /\ files' = [g \in DOMAIN files |->
                       IF g \in unsaved THEN files[g] ELSE [files[g] EXCEPT !.del = stones[g]]]
        /\ pc' = "openUnmark" => unsaved = {}
  OBVIOUS
<1>3. \A g \in DOMAIN files : /\ files[g] \in Segment /\ files[g].del \subseteq DOMAIN files[g].docs
                              /\ stones[g] \subseteq DOMAIN files[g].docs
                              /\ DOMAIN files[g].docs \subseteq Nat
  <2>1. \A g \in DOMAIN files : files[g] \in Segment /\ files[g].del \subseteq DOMAIN files[g].docs
    BY DEF Content, Stored
  <2>2. \A g \in DOMAIN files : stones[g] \subseteq DOMAIN files[g].docs
    BY <1>1 DEF Content, Stored
  <2>3. \A s \in Seq(Doc) : DOMAIN s \subseteq Nat
    BY LenProperties
  <2> QED
    BY <2>1, <2>2, <2>3 DEF Segment
<1>4. DOMAIN files' = DOMAIN files /\ \A g \in DOMAIN files :
        /\ files'[g] \in Segment /\ files'[g].docs = files[g].docs
        /\ files'[g].del \in {files[g].del, stones[g]}
        /\ g \notin unsaved => files'[g].del = stones[g]
  BY <1>2, <1>3 DEF Segment
<1>5. Stored'
  BY <1>1, <1>3, <1>4 DEF Content, Stored
<1>6. WriterUnopened'
  BY <1>1, <1>4 DEF Content, WriterUnopened
<1>7. \A p, k : Names(p, k, writer, files) => Names(p, k, writer', files')
  BY <1>1, <1>4 DEF Names
<1>8. PlacesKept'
  BY <1>1, <1>7 DEF Content, PlacesKept
<1>9. \A k \in Keys : Copies(k)' \subseteq {keymap'[k]}
  <2> SUFFICES ASSUME NEW k \in Keys, NEW p \in Copies(k)' PROVE p \in Copies(k)
    BY <1>1 DEF Content, Reopened
  <2>1. BufferedCopies(k)' = {}
    BY <1>1 DEF BufferedCopies, LiveInWriter, NoWriter
  <2>2. PICK g \in Range(manifest.segs) : p \in FlushedCopies(g, k)'
    BY <1>1, <2>1 DEF Copies
  <2>3. g \in DOMAIN files
    BY <1>1
  <2>4. FlushedCopies(g, k)' = FlushedCopies(g, k)
    BY <1>1, <1>4, <2>3 DEF FlushedCopies, LiveIn
  <2> QED
    BY <2>2, <2>4 DEF Copies
<1>10. pc' = "openUnmark" => \A g \in DOMAIN stones : files'[g].del = stones[g]
  BY <1>1, <1>2, <1>4
<1>11. OutputUnopened' /\ Reopened'
  BY <1>1, <1>4, <1>9, <1>10 DEF OutputUnopened, Reopened
<1> QED
  BY <1>5, <1>6, <1>8, <1>11 DEF Content

(* The end of the rebuild, and of the replay, moves no document; a record  *)
(* of the log is a call like the client's.                                 *)
LEMMA ReplayContent ==
  ASSUME Inv, Content, OpenUnmark \/ ReplayRecord \/ EndReplay
  PROVE  Content'
<1>1. /\ UNCHANGED <<disk, files, keymap, manifest, stones, writer>>
      /\ pc # "register" /\ pc' \in {"newWriter", "index", "tombstone", "replay", "ready"}
      /\ pc' = "newWriter" => writer = NoWriter
  BY DEF OpenUnmark, ReplayRecord, EndReplay, Goto, Enter, memory, disks, Content, Reopened
<1>2. \/ call'.old = call.old /\ call'.key = call.key
      \/ call'.old = NoPlace
      \/ call'.key \in Keys /\ call'.old = keymap[call'.key]
  <2>1. CASE OpenUnmark \/ EndReplay
    BY <2>1 DEF OpenUnmark, EndReplay, Goto, NoCall
  <2>2. CASE ReplayRecord
    <3>1. wal[replayed] \in Record
      <4>1. wal \in Seq(Record) /\ replayed \in DOMAIN wal
        BY <2>2 DEF ReplayRecord, Inv, Shapes
      <4> QED
        BY ONLY <4>1, LenProperties, ElementOfSeq
    <3>2. call'.key = wal[replayed].key /\ call'.old = keymap[wal[replayed].key]
      BY <2>2 DEF ReplayRecord, Call
    <3> QED
      BY <3>1, <3>2 DEF Record
  <2> QED
    BY <2>1, <2>2
<1>3. keymap \in [Keys -> Place]
  BY DEF Content, PlacesKept
<1>4. Stored' /\ WriterUnopened' /\ PlacesKept'
  BY <1>1, <1>2, <1>3, CalmContent, NoPlaceIsNowhere DEF Content, Stored
<1>5. OutputUnopened' /\ Reopened'
  BY <1>1 DEF OutputUnopened, Reopened
<1> QED
  BY <1>4, <1>5 DEF Content

-----------------------------------------------------------------------------
(* The client and the environment                                          *)

(* A call notes the place the keymap has for its key.                      *)
LEMMA InvokeContent ==
  ASSUME Inv, Content, NEW op \in Ops \ {"compact"}, NEW k \in Keys \cup {Absent},
         op \in {"add", "update", "delete"} => k \in Keys, Invoke(op, k)
  PROVE  Content'
<1> USE DEF Invoke, disks, memory, budget
<1>1. op \in {"add", "update", "delete", "flush", "maintain"}
  BY DEF Ops
<1>2. /\ UNCHANGED <<disk, files, keymap, manifest, stones, writer>>
      /\ pc = "ready" /\ pc' \in {"index", "tombstone", "flush", "maintain"}
  BY <1>1
<1>3. call'.key = k /\ (call'.old = NoPlace \/ (k \in Keys /\ call'.old = keymap[k]))
  BY DEF Call
<1>4. keymap \in [Keys -> Place]
  BY DEF Content, PlacesKept
<1>5. pc # "register" /\ pc' # "register" /\ pc' \notin Busy
  BY ONLY <1>2 DEF Busy
<1> HIDE DEF Invoke, disks, memory, budget
<1>6. DOMAIN stones \subseteq DOMAIN files /\ disk.gen \in Nat
  BY NoPlaceIsNowhere DEF Content, Stored
<1>7. disk'.gen \in Nat /\ disk.gen <= disk'.gen
  BY <1>2, <1>6
<1>8. \/ call'.old = NoPlace
      \/ call'.key \in Keys /\ call'.old = keymap[call'.key]
  BY ONLY <1>3
<1>9. Stored' /\ WriterUnopened' /\ PlacesKept'
  BY <1>2, <1>4, <1>5, <1>6, <1>7, <1>8, CalmContent
<1> QED
  BY <1>5, <1>9, CalmElsewhere DEF Content

(* compact() is handed open segments, each once.                           *)
LEMMA CallCompactContent == ASSUME Inv, Content, CallCompact PROVE Content'
<1> USE DEF CallCompact, disks, memory, budget
<1>1. /\ UNCHANGED <<disk, files, keymap, manifest, stones, writer>>
      /\ pc = "ready" /\ pc' = "takeOutput" /\ call'.old = NoPlace
  BY DEF NoCall
<1>2. keymap \in [Keys -> Place]
  BY DEF Content, PlacesKept
<1>3. Stored' /\ WriterUnopened' /\ PlacesKept'
  BY <1>1, <1>2, CalmContent, NoPlaceIsNowhere DEF Content, Stored
<1>4. PICK S \in SUBSET Range(manifest.segs) : \E gens \in SetToSeqs(S) :
        job' = [inputs |-> gens, left |-> gens, out |-> 0, round |-> 0]
  OBVIOUS
<1>5. PICK gens \in SetToSeqs(S) :
        job' = [inputs |-> gens, left |-> gens, out |-> 0, round |-> 0]
  BY <1>4
<1>6. Range(gens) \subseteq Range(manifest.segs) /\ IsInjective(gens) /\ job'.inputs = gens
  BY <1>5, OrdersAreSeqs, OrdersInject, GenerationsAreNumbers
<1>7. OutputUnopened' /\ Reopened'
  BY <1>1, <1>6 DEF OutputUnopened, Reopened
<1> QED
  BY <1>3, <1>7 DEF Content

(* A crash leaves what is on disk, and the places of the keymap's log.     *)
LEMMA CrashContent == ASSUME Inv, Content, Crash PROVE Content'
<1> USE DEF Crash, disks, NoWriter, NoCall
<1>1. /\ UNCHANGED <<disk, files, keymap>> /\ pc' = "down"
      /\ writer'.gen = 0 /\ writer'.docs = <<>> /\ writer'.del = {} /\ writer' = NoWriter
      /\ DOMAIN stones' = {} /\ manifest'.segs = <<>> /\ call'.old = NoPlace
  OBVIOUS
<1>2. Range(<<>>) = {} /\ <<>> \in Seq(Doc)
  BY DEF Range
<1>3. Stored'
  BY <1>1, <1>2 DEF Content, Stored
<1>4. WriterUnopened'
  BY <1>1, NoPlaceIsNowhere DEF WriterUnopened
<1>5. \A p, k : Names(p, k, writer, files) => Names(p, k, writer', files')
  BY <1>1 DEF Names
<1>6. /\ NoPlace \in Place /\ NoPlace.gen = 0 /\ 0 < disk.gen
      /\ \A k : Names(NoPlace, k, writer', files')
  BY <1>1, NoPlaceIsNowhere DEF NoPlace, Place, Names
<1>7. PlacesKept'
  BY <1>1, <1>5, <1>6 DEF Content, PlacesKept
<1>8. OutputUnopened' /\ Reopened'
  BY <1>1 DEF OutputUnopened, Reopened
<1> QED
  BY <1>3, <1>4, <1>7, <1>8 DEF Content

(* A lost keymap has no places.                                            *)
LEMMA LoseKeymapLogContent == ASSUME Inv, Content, LoseKeymapLog PROVE Content'
<1> USE DEF LoseKeymapLog, memory, control
<1>1. /\ UNCHANGED <<disk, files, manifest, stones, writer, call>>
      /\ pc = "down" /\ pc' = "down" /\ keymap' = [k \in Keys |-> NoPlace]
  OBVIOUS
<1>2. keymap' \in [Keys -> Place] /\ \A k \in Keys : keymap'[k] \in {keymap[k], NoPlace}
  BY <1>1 DEF NoPlace, Place
<1>3. Stored' /\ WriterUnopened' /\ PlacesKept'
  BY <1>1, <1>2, CalmContent, NoPlaceIsNowhere DEF Content, Stored
<1>4. OutputUnopened' /\ Reopened'
  BY <1>1 DEF Content, OutputUnopened, Reopened
<1> QED
  BY <1>3, <1>4 DEF Content

(* A step that changes nothing.                                            *)
LEMMA StutterContent == ASSUME Content, UNCHANGED vars PROVE Content'
<1>1. UNCHANGED <<disk, files, keymap, manifest, stones, writer, pc, call, job>>
  BY DEF vars, disks, memory, control
<1> QED
  BY <1>1 DEF Content, Stored, WriterUnopened, PlacesKept, OutputUnopened, Reopened, Copies,
              FlushedCopies, BufferedCopies, LiveIn, LiveInWriter

(* Every step keeps the content where the index has noted it.              *)
THEOREM NextContent == ASSUME Inv, Content, [Next]_vars PROVE Content'
<1>1. Inv'
  BY NextInv
<1>2. CASE CallOnKey \/ CallFlush \/ CallMaintain
  BY <1>2, InvokeContent DEF CallOnKey, CallFlush, CallMaintain, Ops
<1>3. CASE CallCompact \/ Crash \/ LoseKeymapLog
  BY <1>3, CallCompactContent, CrashContent, LoseKeymapLogContent
<1>4. CASE Updating \/ Deleting
  BY <1>4, IndexDocumentContent, LogContent, BuryingContent, UnmapContent DEF Updating, Deleting
<1>5. CASE Flushing
  BY <1>1, <1>5, WriteSegmentContent, RegisterSegmentContent, StartNewWriterContent,
     TruncateWalContent DEF Flushing
<1>6. CASE Compacting
  BY <1>6, MaintainContent, TakeOutputContent, MergeContent, MarkContent, RepointContent,
     UnlistContent, SwapContent, DropInputsContent DEF Compacting
<1>7. CASE Opening
  BY <1>7, OpenContent, SweepContent, RetainContent, RebuildContent, SaveStonesContent,
     ReplayContent DEF Opening
<1>8. CASE UNCHANGED vars
  BY <1>8, StutterContent
<1> QED
  BY <1>2, <1>3, <1>4, <1>5, <1>6, <1>7, <1>8 DEF Next, Work

-----------------------------------------------------------------------------
(* What the client reads                                                   *)

Viewed == view \in [Keys -> Nat \cup {Absent, Torn}]

(* A live copy has a version.                                              *)
LEMMA VersionsAreNumbers ==
  ASSUME Inv, Content, NEW k \in Keys, Copies(k) = {keymap[k]}
  PROVE  VersionAt(keymap[k]) \in Nat
<1>1. keymap[k] \in Copies(k)
  OBVIOUS
<1> DEFINE p == keymap[k]
<1>2. \/ p.gen \in Range(manifest.segs) /\ p.docid \in LiveIn(p.gen)
      \/ p.gen = writer.gen /\ p.docid \in LiveInWriter
  BY <1>1, CopiesAreDocs
<1> HIDE DEF p
<1>3. CASE p.gen \in Range(manifest.segs) /\ p.docid \in LiveIn(p.gen)
  <2>1. p.gen # writer.gen /\ p.gen \in DOMAIN files
    BY <1>3 DEF Inv, Listed, WriterApart
  <2>2. files[p.gen].docs \in Seq(Doc) /\ p.docid \in DOMAIN files[p.gen].docs
    BY <1>3, <2>1 DEF Content, Stored, Segment, LiveIn
  <2>3. files[p.gen].docs[p.docid] \in Doc
    BY <2>2, LenProperties, ElementOfSeq
  <2> QED
    BY <2>1, <2>3 DEF VersionAt, Doc, p
<1>4. CASE p.gen = writer.gen /\ p.docid \in LiveInWriter
  <2>1. writer.docs \in Seq(Doc) /\ p.docid \in DOMAIN writer.docs
    BY <1>4 DEF Content, Stored, LiveInWriter
  <2>2. writer.docs[p.docid] \in Doc
    BY <2>1, LenProperties, ElementOfSeq
  <2> QED
    BY <1>4, <2>2 DEF VersionAt, Doc, p
<1> QED
  BY <1>2, <1>3, <1>4

(* So what a client would read is a version, or one of the marks.          *)
LEMMA ObservedTyped == Inv /\ Content => Observed \in [Keys -> Nat \cup {Absent, Torn}]
  BY VersionsAreNumbers DEF Observed

(* The client reads when a call or open() returns, and at no other time.   *)
LEMMA NextView ==
  ASSUME [Next]_vars
  PROVE  view' = view \/ (pc' = "ready" /\ view' = Observed')
<1> USE DEF Goto, Enter, Step
<1>1. CASE CallOnKey \/ CallFlush \/ CallMaintain \/ CallCompact \/ Crash \/ LoseKeymapLog
  BY <1>1 DEF CallOnKey, CallFlush, CallMaintain, Invoke, CallCompact, Crash, LoseKeymapLog, client
<1>2. CASE Updating \/ Deleting
  BY <1>2 DEF Updating, Deleting, IndexDocument, LogAdd, LogUpdate, TombstoneOld,
              TombstoneDeleted, Unmap, LogDelete
<1>3. CASE Flushing
  BY <1>3 DEF Flushing, WriteSegment, RegisterSegment, StartNewWriter, TruncateWal
<1>4. CASE Compacting
  BY <1>4 DEF Compacting, Maintain, EndMaintain, TakeOutput, Merge, Mark, Repoint, Unlist,
              Swap, DropInputs, Unmark
<1>5. CASE Opening
  BY <1>5 DEF Opening, Open, Sweep, RetainGenerations, RebuildKeymap, SaveStones, OpenUnmark,
              ReplayRecord, EndReplay
<1>6. CASE UNCHANGED vars
  BY <1>6 DEF vars, client
<1> QED
  BY <1>1, <1>2, <1>3, <1>4, <1>5, <1>6 DEF Next, Work

-----------------------------------------------------------------------------
(* The theorems                                                            *)

(* Content and what the client has read, in every reachable state.         *)
THEOREM ContentInvariance == Spec => [](Inv /\ Content /\ Viewed)
<1>1. Init => Inv /\ Content /\ Viewed
  BY InitInv, InitContent DEF Init, Viewed
<1>2. ASSUME Inv, Content, Viewed, [Next]_vars
      PROVE  Inv' /\ Content' /\ Viewed'
  <2>1. Inv' /\ Content'
    BY <1>2, NextInv, NextContent
  <2>2. (Inv' /\ Content') => (Observed \in [Keys -> Nat \cup {Absent, Torn}])'
    BY ObservedTyped, PTL
  <2>3. view' = view \/ view' = Observed'
    BY <1>2, NextView
  <2> QED
    BY <1>2, <2>1, <2>2, <2>3 DEF Viewed
<1> QED
  BY <1>1, <1>2, PTL DEF Spec

(* Documents, tombstones, log records, keymap entries and what the client  *)
(* reads have the types the code gives them, with every crash and failed   *)
(* write: in particular a tombstone is always of a document that exists.   *)
THEOREM IndexTypes == Spec => []TypeOK
<1>1. Inv /\ Content /\ Viewed => TypeOK
  <2> SUFFICES ASSUME Inv, Content, Viewed PROVE ContentTypeOK
    BY DEF TypeOK, Inv, Shapes
  <2>1. \A g \in DOMAIN files : files[g].docs \in Seq(Doc) /\ files[g].del \subseteq Nat
    BY DEF Content, Stored, Segment
  <2> QED
    BY <2>1 DEF ContentTypeOK, Content, Stored, PlacesKept, Viewed, Inv, Shapes
<1> QED
  BY <1>1, ContentInvariance, PTL

(* When open() has rebuilt the keymap each key has at most one live copy,  *)
(* the one the keymap names, and the tombstones of the others are saved,   *)
(* whatever duplicates crashes had left in the segments.                   *)
THEOREM RebuildAlwaysLeavesOneCopy == Spec => []RebuildLeavesOneCopy
<1>1. Inv /\ Content /\ Viewed => RebuildLeavesOneCopy
  <2> SUFFICES ASSUME Inv, Content, pc = "openUnmark"
               PROVE  /\ \A k \in Keys : Observed[k] # Torn
                      /\ \A g \in DOMAIN stones : files[g].del = stones[g]
    BY DEF RebuildLeavesOneCopy
  <2>1. \A k \in Keys : Copies(k) = {} \/ Copies(k) = {keymap[k]}
    BY DEF Content, Reopened
  <2>2. ASSUME NEW k \in Keys, Copies(k) = {keymap[k]}
        PROVE  VersionAt(keymap[k]) \in Nat
    BY <2>2, VersionsAreNumbers
  <2>3. \A k \in Keys : Observed[k] # Torn
    BY <2>1, <2>2, ViewsAssumption DEF Observed
  <2> QED
    BY <2>3 DEF Content, Reopened
<1> QED
  BY <1>1, ContentInvariance, PTL


-----------------------------------------------------------------------------
(* maintain() *)

(* With nothing to merge, no tier is full and no segment over-deleted: of  *)
(* full tiers there would be a first one in the list, to be merged.        *)
LEMMA NothingToMerge == ASSUME Inv, Candidates = {} PROVE Quiescent
<1> DEFINE segs    == Range(manifest.segs)
           crowded == {g \in segs : Cardinality(SameTier(g)) >= MergeFactor}
           T       == {Position(g) : g \in crowded}
<1>1. manifest.segs \in Seq(Nat)
  BY DEF Inv, Shapes, CatalogueTypeOK, Catalogue
<1>2. \A g \in segs : Position(g) \in Nat
  <2>1. DOMAIN manifest.segs \subseteq Nat
    BY <1>1
  <2> QED
    BY <2>1 DEF Position, Range
<1>3. \A g \in segs : Cardinality(SameTier(g)) \in Nat /\ g \in SameTier(g)
  <2>1. IsFiniteSet(segs)
    BY <1>1, RangeIsFinite
  <2>2. \A g \in segs : SameTier(g) \subseteq segs /\ g \in SameTier(g)
    BY DEF SameTier
  <2> QED
    BY <2>1, <2>2, FS_Subset, FS_CardinalityType
<1>4. crowded = {}
  <2> SUFFICES ASSUME crowded # {} PROVE FALSE
    OBVIOUS
  <2>1. PICK n \in T : \A m \in T : n <= m
    <3>1. T \subseteq Nat /\ T # {}
      BY <1>2
    <3> QED
      BY <3>1, SmallestNat
  <2>2. PICK h \in crowded : \A c \in crowded : Position(h) <= Position(c)
    BY <2>1
  <2>3. h \in TierCandidates
    BY <1>3, <2>2 DEF TierCandidates
  <2> QED
    BY <2>3 DEF Candidates
<1>5. \A g \in segs : ~OverDeleted(g)
  BY DEF Candidates
<1> QED
  BY <1>3, <1>4, <1>5, SizesAssumption DEF Quiescent

(* maintain() that returns success before its cap leaves nothing to do:    *)
(* its last look at the segments found no tier full and none over-deleted. *)
THEOREM MaintainAlwaysQuiesces == Spec => MaintainQuiesces
<1>1. ASSUME Inv, [Next]_vars, pc = "maintain", pc' = "ready", job.round < MaintainCap
      PROVE  Quiescent
  <2>1. Maintain
    <3>1. CASE Work
      BY <1>1, <3>1 DEF Work, Updating, Deleting, Flushing, Compacting, Opening, IndexDocument,
         LogAdd, LogUpdate, TombstoneOld, TombstoneDeleted, Unmap, LogDelete, WriteSegment,
         RegisterSegment, StartNewWriter, TruncateWal, TakeOutput, Merge, Mark, Repoint, Unlist,
         Swap, DropInputs, Unmark, Open, Sweep, RetainGenerations, RebuildKeymap, SaveStones,
         OpenUnmark, ReplayRecord, EndReplay
    <3>2. CASE CallOnKey \/ CallFlush \/ CallMaintain \/ CallCompact \/ Crash \/ LoseKeymapLog
      BY <1>1, <3>2 DEF CallOnKey, CallFlush, CallMaintain, Invoke, CallCompact, Crash, LoseKeymapLog
    <3> QED
      BY <1>1, <3>1, <3>2 DEF Next, vars, control
  <2>2. Candidates = {}
    BY <1>1, <2>1, SizesAssumption DEF Maintain, Enter, Inv, Shapes, CatalogueTypeOK
  <2> QED
    BY <1>1, <2>2, NothingToMerge
<1>2. Inv /\ [Next]_vars =>
        [(pc = "maintain" /\ pc' = "ready" /\ job.round < MaintainCap) => Quiescent]_vars
  BY <1>1
<1> QED
  BY Invariance, <1>2, PTL DEF Spec, MaintainQuiesces
=============================================================================
