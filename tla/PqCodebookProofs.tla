--------------------------- MODULE PqCodebookProofs ---------------------------
(***************************************************************************)
(* A store never decodes with a freed codebook, every segment can be       *)
(* scored between two calls, a rebuild that returns 0 has reached every    *)
(* segment, codes are decoded with the codebook they were made with, and   *)
(* the loop of build_pq() leaves the segments as the next open() loads     *)
(* them: for any number of segments, codebooks, failing writes and crashes.*)
(***************************************************************************)
EXTENDS PqCodebook, FiniteSetTheorems, SequenceTheorems, TLAPS

-----------------------------------------------------------------------------
(* What the helpers keep *)

HasSource(seg) == SearchSource(seg) # NoGraph
(* A store that borrows borrows the codebook it is given.                  *)
Borrows(seg, glo) == seg.borrowed => glo # 0 /\ seg.by = glo

LEMMA SeqOfFunction ==
  ASSUME NEW S, NEW n \in Nat, NEW f \in [1 .. n -> S]
  PROVE  f \in Seq(S) /\ Len(f) = n
OBVIOUS

LEMMA NewBookFree ==
  ASSUME FreeBooks # {} PROVE NewBook \in Books /\ NewBook # 0
BY PqAssumption DEF NewBook, FreeBooks, Books

LEMMA Load ==
  ASSUME TypeOK, NEW seg \in Segment, NEW glo \in 0 .. MaxBooks
  PROVE  LET s == load_segment_pq_vectors(seg, glo) IN
           /\ s \in Segment
           /\ s.file = seg.file /\ s.vectors = seg.vectors /\ s.graph = seg.graph
           /\ Borrows(s, glo)
           /\ pq_configured /\ conf.global /\ glo # 0 /\ seg.file # 0 => s.by = glo
<1> DEFINE valid  == pq_configured /\ seg.file # 0
           borrow == valid /\ conf.global /\ glo # 0
<1>1. borrow \in BOOLEAN /\ valid \in BOOLEAN
  BY DEF TypeOK, Config, pq_configured
<1>2. borrow => glo # 0
  OBVIOUS
<1>3. pq_configured /\ conf.global /\ glo # 0 /\ seg.file # 0 => borrow
  OBVIOUS
<1>4. load_segment_pq_vectors(seg, glo) =
        [seg EXCEPT !.by = IF borrow THEN glo ELSE IF valid THEN seg.file ELSE 0, !.borrowed = borrow]
  BY DEF load_segment_pq_vectors
<1> DEFINE by == IF borrow THEN glo ELSE IF valid THEN seg.file ELSE 0
<1>5. by \in 0 .. MaxBooks
  BY PqAssumption DEF Segment
<1>6. borrow => by = glo
  OBVIOUS
<1> HIDE DEF valid, borrow, by
<1>7. load_segment_pq_vectors(seg, glo) = [seg EXCEPT !.by = by, !.borrowed = borrow]
  BY <1>4 DEF by
<1> DEFINE s == [seg EXCEPT !.by = by, !.borrowed = borrow]
<1>8. s \in Segment
  BY <1>1, <1>5 DEF Segment
<1>9. s.file = seg.file /\ s.vectors = seg.vectors /\ s.graph = seg.graph /\ s.by = by /\ s.borrowed = borrow
  BY DEF Segment
<1>10. Borrows(s, glo)
  BY <1>2, <1>6, <1>9 DEF Borrows
<1> HIDE DEF s
<1> QED BY <1>3, <1>6, <1>7, <1>8, <1>9, <1>10 DEF s

LEMMA AppendSegment ==
  ASSUME TypeOK, NEW seg \in Segment, NEW glo \in 0 .. MaxBooks
  PROVE  LET s == append_segment(seg, glo) IN
           s \in Segment /\ Borrows(s, glo) /\ HasSource(s)
<1> DEFINE l == load_segment_pq_vectors(seg, glo)
<1>1. l \in Segment /\ Borrows(l, glo)
  BY Load
<1>2. conf.tier \in Tiers
  BY DEF TypeOK, Config
<1> HIDE DEF l
<1>3. append_segment(seg, glo) =
        [l EXCEPT !.vectors = IF l.by = 0 \/ conf.tier = "float" THEN "float"
                              ELSE IF conf.tier = "int8" /\ l.pqr THEN "int8" ELSE "none"]
  BY DEF append_segment, l
<1> QED
  BY <1>1, <1>2, <1>3, PqAssumption DEF Segment, Tiers, Borrows, HasSource, SearchSource, NoGraph

LEMMA Encode ==
  ASSUME TypeOK, NEW seg \in Segment, NEW glo \in 0 .. MaxBooks, NEW bad \in SUBSET Parts,
         FreeBooks # {} \/ (conf.global /\ glo # 0), Borrows(seg, glo)
  PROVE  LET s == encode(seg, bad, glo) IN
           /\ s \in Segment /\ Borrows(s, glo)
           /\ s.vectors = seg.vectors
           /\ pq_configured /\ conf.global /\ glo # 0 /\ "codes" \notin bad => s.file = glo /\ s.by = glo
<1>1. CASE "codes" \in bad
  BY <1>1 DEF encode
<1>2. CASE "codes" \notin bad
  <2> DEFINE e == [seg EXCEPT !.file = IF conf.global /\ glo # 0 THEN glo ELSE NewBook]
  <2>1. e \in Segment /\ e.vectors = seg.vectors
    BY NewBookFree, PqAssumption DEF Segment, Books
  <2>2. conf.global /\ glo # 0 => e.file = glo
    BY DEF Segment
  <2>3. encode(seg, bad, glo) = load_segment_pq_vectors(e, glo)
    BY <1>2 DEF encode
  <2> HIDE DEF e
  <2> QED BY <2>1, <2>2, <2>3, Load
<1> QED BY <1>1, <1>2

LEMMA Realize ==
  ASSUME TypeOK, NEW seg \in Segment, NEW bad \in SUBSET Parts
  PROVE  LET s == realize(seg, bad) IN
           /\ s \in Segment
           /\ s.file = seg.file /\ s.by = seg.by /\ s.borrowed = seg.borrowed
           /\ HasSource(seg) => HasSource(s)
<1>1. conf.tier \in Tiers /\ seg.by \in 0 .. MaxBooks
  BY DEF TypeOK, Config, Segment
<1>2. CASE seg.by = 0 \/ conf.tier = "float"
  <2>1. realize(seg, bad) = seg
    BY <1>2 DEF realize
  <2> QED BY <2>1
<1>3. CASE seg.by # 0 /\ conf.tier = "none"
  <2>1. realize(seg, bad) = [seg EXCEPT !.vectors = "none"]
    BY <1>3 DEF realize
  <2> QED BY <2>1, <1>3 DEF Segment, Tiers, HasSource, SearchSource, NoGraph
<1>4. CASE seg.by # 0 /\ conf.tier = "int8"
  <2> DEFINE pqr == seg.pqr \/ "int8" \notin bad
  <2>1. realize(seg, bad) = [seg EXCEPT !.pqr = pqr, !.vectors = IF pqr THEN "int8" ELSE "none"]
    BY <1>4 DEF realize
  <2>2. pqr \in BOOLEAN
    BY DEF Segment
  <2> HIDE DEF pqr
  <2> QED BY <2>1, <2>2, <1>4 DEF Segment, Tiers, HasSource, SearchSource, NoGraph
<1> QED BY <1>1, <1>2, <1>3, <1>4 DEF Tiers

LEMMA Graph ==
  ASSUME NEW seg \in Segment, NEW bad
  PROVE  LET s == graph(seg, bad) IN
           /\ s \in Segment
           /\ s.file = seg.file /\ s.by = seg.by /\ s.borrowed = seg.borrowed /\ s.vectors = seg.vectors
           /\ HasSource(seg) => HasSource(s)
<1>1. SearchSource(seg) \in Source \cup {NoGraph}
  BY DEF SearchSource, Source, NoGraph, Segment, Tiers, Books
<1> QED
  BY <1>1 DEF graph, Segment, HasSource, SearchSource

LEMMA Failures ==
  ASSUME TypeOK, NEW bad \in SUBSET Parts, MayFail(bad)
  PROVE  fails + Cardinality(bad) \in 0 .. MaxFails
<1>1. IsFiniteSet(Parts)
  <2>1. IsFiniteSet({"codebook"} \cup {"codes"})
    BY FS_Singleton, FS_Union
  <2>2. IsFiniteSet({"int8"} \cup {"graph"})
    BY FS_Singleton, FS_Union
  <2>3. Parts = ({"codebook"} \cup {"codes"}) \cup ({"int8"} \cup {"graph"})
    BY DEF Parts
  <2> QED BY <2>1, <2>2, <2>3, FS_Union
<1>2. Cardinality(bad) \in Nat
  BY <1>1, FS_Subset, FS_CardinalityType
<1> QED BY <1>2, PqAssumption DEF TypeOK, MayFail

-----------------------------------------------------------------------------
(* The inductive invariant *)

(* A segment whose store the running rebuild has dropped, and whose turn   *)
(* is still to come.                                                       *)
Waiting(s) == pc = "reencode" /\ s \in job.had /\ s >= job.at

(* Searchable, said of every state: while a rebuild runs, what cannot be   *)
(* scored waits for it.                                                    *)
Scored == pc # "closed" => dropped \/ \A s \in Places : HasSource(segs[s]) \/ Waiting(s)

(* The loop of a rebuild has a resident codebook that is the saved one,    *)
(* and the segments behind it are encoded with it.                         *)
Rebuilding == pc = "reencode" =>
  /\ conf.global /\ pq_configured
  /\ global # 0 /\ book.id = global
  /\ job.had \subseteq Places /\ job.at >= 1
  /\ job.ok => \A s \in job.had : s < job.at => segs[s].file = global /\ segs[s].by = global

IInv == TypeOK /\ NoDangling /\ Scored /\ Rebuilding

-----------------------------------------------------------------------------
(* The segments after a step that rewrites all of them, or one *)

LEMMA Mapped ==
  ASSUME TypeOK, NEW f \in [Places -> Segment], segs' = f
  PROVE  /\ segs' \in Seq(Segment) /\ Len(segs') = Len(segs) /\ Places' = Places
         /\ \A s \in Places : segs'[s] = f[s]
<1>1. Len(segs) \in Nat /\ Places = 1 .. Len(segs)
  BY DEF TypeOK, Places
<1>2. segs' \in Seq(Segment) /\ Len(segs') = Len(segs)
  BY <1>1, SeqOfFunction
<1> QED BY <1>1, <1>2 DEF Places

LEMMA Replaced ==
  ASSUME TypeOK, NEW i \in Places, NEW seg \in Segment, segs' = [segs EXCEPT ![i] = seg]
  PROVE  /\ segs' \in Seq(Segment) /\ Len(segs') = Len(segs) /\ Places' = Places
         /\ \A s \in Places : segs'[s] = IF s = i THEN seg ELSE segs[s]
<1>1. segs \in Seq(Segment) /\ Places = 1 .. Len(segs)
  BY DEF TypeOK, Places
<1> QED BY <1>1, ExceptSeq DEF Places

JobType == [at : 0 .. MaxSegments + 1, graph : BOOLEAN, had : SUBSET (1 .. MaxSegments), ok : BOOLEAN]

LEMMA Jobs ==
  /\ NoJob \in JobType
  /\ [NoJob EXCEPT !.at = 1] \in JobType
  /\ [NoJob EXCEPT !.at = 1, !.graph = TRUE] \in JobType
<1>1. 0 \in 0 .. MaxSegments + 1 /\ 1 \in 0 .. MaxSegments + 1
  BY PqAssumption
<1>2. NoJob \in JobType
  BY <1>1 DEF NoJob, JobType
<1>3. [NoJob EXCEPT !.at = 1] \in JobType
  BY <1>1, <1>2 DEF JobType
<1>4. [NoJob EXCEPT !.at = 1, !.graph = TRUE] \in JobType
  BY <1>1, <1>2 DEF JobType
<1> QED BY <1>2, <1>3, <1>4

-----------------------------------------------------------------------------
(* One lemma for each step *)

LEMMA InitInv == Init => IInv
<1> SUFFICES ASSUME Init PROVE IInv
  OBVIOUS
<1>1. segs \in Seq(Segment) /\ Len(segs) = 0 /\ Places = {}
  BY DEF Init, Places
<1>2. TypeOK
  <2>1. conf \in Config
    BY DEF Init, Config, Tiers
  <2>2. book \in [id : 0 .. MaxBooks, k : {16, 256}] /\ global \in 0 .. MaxBooks
    BY PqAssumption DEF Init, NoBook
  <2>3. fails \in 0 .. MaxFails /\ stops \in 0 .. MaxStops /\ Len(segs) <= MaxSegments
    BY <1>1, PqAssumption DEF Init
  <2> QED BY <1>1, <2>1, <2>2, <2>3, Jobs DEF Init, TypeOK, JobType
<1> QED BY <1>1, <1>2 DEF Init, IInv, NoDangling, Scored, Rebuilding

LEMMA ConfigStep ==
  ASSUME IInv, set_hnsw_config \/ set_pq_global_codebook \/ set_pq_k
                 \/ \E posture \in {"replace", "rerank"} : set_pq_config(posture)
  PROVE  IInv'
<1> USE DEF IInv, Idle, set_hnsw_config, set_pq_global_codebook, set_pq_k, set_pq_config, hist
<1>1. conf' \in Config /\ hurt' \in BOOLEAN
  <2>1. CASE set_hnsw_config
    BY <2>1 DEF TypeOK, Config
  <2>2. CASE set_pq_global_codebook
    BY <2>2 DEF TypeOK, Config
  <2>3. CASE set_pq_k
    BY <2>3 DEF TypeOK, Config
  <2>4. ASSUME NEW posture \in {"replace", "rerank"}, set_pq_config(posture)
        PROVE  conf' \in Config /\ hurt' \in BOOLEAN
    BY <2>4 DEF TypeOK, Config
  <2> QED BY <2>1, <2>2, <2>3, <2>4
<1>2. UNCHANGED <<book, segs, global, pc, job, dropped, fails, stops>> /\ pc = "idle"
  OBVIOUS
<1>3. TypeOK'
  BY <1>1, <1>2 DEF TypeOK
<1>4. NoDangling'
  BY <1>2 DEF NoDangling, Places
<1>5. Scored'
  BY <1>2 DEF Scored, Waiting, HasSource, SearchSource, Places
<1>6. Rebuilding'
  BY <1>2 DEF Rebuilding
<1> QED BY <1>3, <1>4, <1>5, <1>6

LEMMA TierStep ==
  ASSUME IInv, NEW tier \in Tiers, set_pq_resident_tier(tier)
  PROVE  IInv'
<1> USE DEF IInv, Idle, set_pq_resident_tier, MayTier, hist
<1>1. segs \in Seq(Segment) /\ \A s \in Places : segs[s] \in Segment
  BY ElementOfSeq DEF TypeOK, Places
<1>2. /\ segs' \in Seq(Segment) /\ Len(segs') = Len(segs) /\ Places' = Places
      /\ \A s \in Places : segs'[s].by = segs[s].by /\ segs'[s].borrowed = segs[s].borrowed
                           /\ HasSource(segs'[s]) = HasSource(segs[s])
  <2>1. CASE conf.hnsw
    <3> DEFINE f == [s \in Places |-> [segs[s] EXCEPT !.graph = NoGraph]]
    <3>1. f \in [Places -> Segment]
      BY <1>1 DEF Segment
    <3>2. \A s \in Places : f[s].by = segs[s].by /\ f[s].borrowed = segs[s].borrowed
                           /\ f[s].vectors = segs[s].vectors
      BY <1>1 DEF Segment
    <3>3. segs' = f
      BY <2>1
    <3> HIDE DEF f
    <3> QED BY <3>1, <3>2, <3>3, Mapped DEF HasSource, SearchSource
  <2>2. CASE ~conf.hnsw
    BY <1>1, <2>2 DEF Places
  <2> QED BY <2>1, <2>2
<1>3. conf' \in Config
  BY DEF TypeOK, Config
<1>4. TypeOK'
  BY <1>2, <1>3 DEF TypeOK
<1>5. NoDangling'
  BY <1>2 DEF NoDangling
<1>6. Scored'
  BY <1>2 DEF Scored, Waiting
<1>7. Rebuilding'
  BY DEF Rebuilding
<1> QED BY <1>4, <1>5, <1>6, <1>7

LEMMA NewOne ==
  NewSegment \in Segment /\ HasSource(NewSegment) /\ ~NewSegment.borrowed
BY PqAssumption DEF NewSegment, Segment, Tiers, HasSource, SearchSource, NoGraph

LEMMA FlushStep ==
  ASSUME IInv, NEW eager \in BOOLEAN, NEW bad \in SUBSET Parts, flush(eager, bad)
  PROVE  IInv'
<1> USE DEF IInv, Idle, flush, disk
<1> DEFINE new == IF pq_configured THEN NewSegment ELSE graph(NewSegment, bad)
<1>1. new \in Segment /\ HasSource(new) /\ ~new.borrowed
  BY NewOne, Graph
<1>2. segs' = Append(segs, new)
  OBVIOUS
<1> HIDE DEF new
<1>3. segs \in Seq(Segment) /\ Len(segs) \in Nat /\ Places = 1 .. Len(segs)
  BY DEF TypeOK, Places
<1>4. /\ segs' \in Seq(Segment) /\ Len(segs') = Len(segs) + 1 /\ Places' = 1 .. Len(segs) + 1
      /\ \A s \in Places : segs'[s] = segs[s]
      /\ segs'[Len(segs) + 1] = new
  BY <1>1, <1>2, <1>3, AppendProperties DEF Places
<1>5. pc' \in {"idle", "build", "graph"}
  OBVIOUS
<1>6. TypeOK'
  <2>1. job' \in [at : 0 .. MaxSegments + 1, graph : BOOLEAN, had : SUBSET (1 .. MaxSegments), ok : BOOLEAN]
    BY Jobs DEF JobType
  <2>2. fails' \in 0 .. MaxFails
    BY Failures
  <2>3. Len(segs') <= MaxSegments
    BY <1>3, <1>4, PqAssumption
  <2> QED BY <1>4, <1>5, <2>1, <2>2, <2>3 DEF TypeOK
<1>7. \A s \in Places' : s \in Places \/ s = Len(segs) + 1
  BY <1>3, <1>4
<1>8. NoDangling'
  BY <1>1, <1>4, <1>7 DEF NoDangling
<1>9. Scored'
  BY <1>1, <1>4, <1>7 DEF Scored, Waiting
<1>10. Rebuilding'
  BY <1>5 DEF Rebuilding
<1> QED BY <1>6, <1>8, <1>9, <1>10

LEMMA LoopStep ==
  ASSUME IInv, build_pq \/ build_hnsw \/ BuildEnd \/ GraphEnd
  PROVE  IInv'
<1> USE DEF IInv, Idle, build_pq, build_hnsw, BuildEnd, GraphEnd, disk, hist
<1>1. /\ UNCHANGED <<conf, book, segs, global, hurt, dropped, fails, stops>>
      /\ pc \in {"idle", "build", "graph"} /\ pc' \in {"idle", "build", "graph"}
  OBVIOUS
<1>2. job' \in [at : 0 .. MaxSegments + 1, graph : BOOLEAN, had : SUBSET (1 .. MaxSegments), ok : BOOLEAN]
  BY Jobs DEF JobType
<1>3. TypeOK'
  BY <1>1, <1>2 DEF TypeOK
<1>4. NoDangling'
  BY <1>1 DEF NoDangling, Places
<1>5. Scored'
  BY <1>1 DEF Scored, Waiting, HasSource, SearchSource, Places
<1>6. Rebuilding'
  BY <1>1 DEF Rebuilding
<1> QED BY <1>3, <1>4, <1>5, <1>6

LEMMA Advanced ==
  ASSUME TypeOK, job.at \in Places
  PROVE  job.at + 1 \in 0 .. MaxSegments + 1
BY PqAssumption DEF TypeOK, Places

LEMMA Trained ==
  ASSUME TypeOK, NEW bad \in SUBSET Parts, MayTrain
  PROVE  LET new == ensure_global_pq_codebook(bad) IN
           /\ new.book \in [id : 0 .. MaxBooks, k : {16, 256}] /\ new.global \in 0 .. MaxBooks
           /\ global # 0 => new.global = global
           /\ FreeBooks # {} \/ (conf.global /\ new.global # 0)
<1>1. CASE Trains(bad)
  <2>1. global = 0 /\ FreeBooks # {}
    BY <1>1 DEF Trains, NeedsTraining, MayTrain
  <2> QED BY <1>1, <2>1, NewBookFree, PqAssumption DEF ensure_global_pq_codebook, TypeOK, Config, Books
<1>2. CASE ~Trains(bad)
  BY <1>2 DEF ensure_global_pq_codebook, TypeOK, MayTrain
<1> QED BY <1>1, <1>2

LEMMA BuildStep ==
  ASSUME IInv, NEW bad \in SUBSET Parts, BuildSegment(bad)
  PROVE  IInv'
<1> USE DEF IInv, BuildSegment
<1> DEFINE seg == segs[job.at]
<1>1. segs \in Seq(Segment) /\ \A s \in Places : segs[s] \in Segment
  BY ElementOfSeq DEF TypeOK, Places
<1>2. seg \in Segment /\ Borrows(seg, global)
  BY <1>1 DEF NoDangling, Borrows
<1>3. dropped \/ HasSource(seg)
  BY DEF Scored, Waiting
<1>4. PICK one \in Segment :
        /\ segs' = [segs EXCEPT ![job.at] = one]
        /\ Borrows(one, global')
        /\ HasSource(seg) => HasSource(one)
        /\ global' \in 0 .. MaxBooks /\ book' \in [id : 0 .. MaxBooks, k : {16, 256}] /\ hurt' \in BOOLEAN
        /\ global # 0 => global' = global
  <2>1. CASE seg.by # 0
    <3>1. segs' = [segs EXCEPT ![job.at] = realize(seg, bad)] /\ UNCHANGED <<book, global, hurt>>
      BY <2>1
    <3> HIDE DEF seg
    <3>2. LET s == realize(seg, bad) IN
            s \in Segment /\ s.by = seg.by /\ s.borrowed = seg.borrowed /\ (HasSource(seg) => HasSource(s))
      BY <1>2, Realize
    <3> QED BY <1>2, <3>1, <3>2 DEF Borrows, TypeOK
  <2>2. CASE seg.by = 0
    <3> DEFINE new  == ensure_global_pq_codebook(bad)
               code == encode(seg, bad, new.global)
               one  == realize(code, bad)
    <3>1. /\ MayTrain /\ book' = new.book /\ global' = new.global
          /\ segs' = [segs EXCEPT ![job.at] = one]
          /\ hurt' = (hurt \/ (conf.global /\ new.global = 0 /\ "codes" \notin bad))
      BY <2>2
    <3>2. ~seg.borrowed
      BY <1>2, <2>2 DEF Borrows
    <3>3. /\ new.book \in [id : 0 .. MaxBooks, k : {16, 256}] /\ new.global \in 0 .. MaxBooks
          /\ global # 0 => new.global = global
          /\ FreeBooks # {} \/ (conf.global /\ new.global # 0)
      BY <3>1, Trained
    <3>4. hurt' \in BOOLEAN
      BY <3>1 DEF TypeOK
    <3> HIDE DEF seg, new
    <3>5. code \in Segment /\ Borrows(code, new.global) /\ code.vectors = seg.vectors
      BY <1>2, <3>2, <3>3, Encode DEF Borrows
    <3>6. HasSource(seg) => HasSource(code)
      BY <2>2, <3>5, <1>2 DEF HasSource, SearchSource, Segment, NoGraph, Tiers
    <3> HIDE DEF code
    <3>7. one \in Segment /\ one.by = code.by /\ one.borrowed = code.borrowed
          /\ (HasSource(code) => HasSource(one))
      BY <3>5, Realize
    <3> HIDE DEF one
    <3>8. Borrows(one, global')
      BY <3>1, <3>5, <3>7 DEF Borrows
    <3>9. HasSource(seg) => HasSource(one)
      BY <3>6, <3>7
    <3> QED BY <3>1, <3>3, <3>4, <3>7, <3>8, <3>9
  <2> QED BY <2>1, <2>2
<1>0. TypeOK /\ NoDangling /\ Scored /\ job.at \in Places
  OBVIOUS
<1> HIDE DEF seg, IInv, BuildSegment
<1>5. /\ segs' \in Seq(Segment) /\ Len(segs') = Len(segs) /\ Places' = Places
      /\ \A s \in Places : segs'[s] = IF s = job.at THEN one ELSE segs[s]
  <2>1. segs' = [segs EXCEPT ![job.at] = one] /\ one \in Segment
    BY <1>4
  <2>2. TypeOK /\ job.at \in Places
    BY <1>0
  <2> QED BY <2>1, <2>2, Replaced
<1>6. job' = [job EXCEPT !.at = @ + 1] /\ pc = "build" /\ UNCHANGED <<conf, pc, dropped, stops>>
  BY DEF BuildSegment
<1>7. TypeOK'
  <2>1. fails' \in 0 .. MaxFails
    BY <1>0, Failures DEF BuildSegment
  <2>2. job' \in JobType
    BY <1>0, <1>6, Advanced DEF TypeOK, JobType
  <2> QED BY <1>0, <1>4, <1>5, <1>6, <2>1, <2>2 DEF TypeOK, JobType
<1>8. NoDangling'
  BY <1>0, <1>4, <1>5 DEF NoDangling, Borrows
<1>9. Scored'
  BY <1>0, <1>3, <1>4, <1>5, <1>6 DEF Scored, Waiting, seg
<1>10. Rebuilding'
  BY <1>6 DEF Rebuilding
<1> QED BY <1>7, <1>8, <1>9, <1>10 DEF IInv

LEMMA GraphStep ==
  ASSUME IInv, NEW bad \in SUBSET Parts, GraphSegment(bad)
  PROVE  IInv'
<1> USE DEF IInv, GraphSegment, disk
<1> DEFINE one == graph(segs[job.at], bad)
<1>1. segs \in Seq(Segment) /\ \A s \in Places : segs[s] \in Segment
  BY ElementOfSeq DEF TypeOK, Places
<1>2. /\ one \in Segment
      /\ one.by = segs[job.at].by /\ one.borrowed = segs[job.at].borrowed
      /\ HasSource(segs[job.at]) => HasSource(one)
  BY <1>1, Graph
<1>3. segs' = [segs EXCEPT ![job.at] = one]
  OBVIOUS
<1> HIDE DEF one
<1>4. /\ segs' \in Seq(Segment) /\ Len(segs') = Len(segs) /\ Places' = Places
      /\ \A s \in Places : segs'[s] = IF s = job.at THEN one ELSE segs[s]
  BY <1>2, <1>3, Replaced
<1>5. job' = [job EXCEPT !.at = @ + 1] /\ pc = "graph" /\ UNCHANGED <<conf, book, global, pc, hurt, dropped, stops>>
  OBVIOUS
<1>6. TypeOK'
  <2>1. fails' \in 0 .. MaxFails
    BY Failures
  <2>2. job' \in JobType
    BY <1>5, Advanced DEF TypeOK, JobType
  <2> QED BY <1>4, <1>5, <2>1, <2>2 DEF TypeOK, JobType
<1>7. NoDangling'
  BY <1>2, <1>4, <1>5 DEF NoDangling
<1>8. Scored'
  BY <1>2, <1>4, <1>5 DEF Scored, Waiting
<1>9. Rebuilding'
  BY <1>5 DEF Rebuilding
<1> QED BY <1>6, <1>7, <1>8, <1>9

LEMMA Kept ==
  ASSUME TypeOK, NEW inputs \in SUBSET Places, inputs # {}
  PROVE  Len(segs) - Cardinality(inputs) \in Nat /\ Len(segs) - Cardinality(inputs) < Len(segs)
<1>1. Len(segs) \in Nat /\ Places = 1 .. Len(segs)
  BY DEF TypeOK, Places
<1>2. IsFiniteSet(Places) /\ Cardinality(Places) = Len(segs)
  <2>1. /\ IsFiniteSet(1 .. Len(segs))
        /\ Cardinality(1 .. Len(segs)) = IF 1 > Len(segs) THEN 0 ELSE Len(segs) - 1 + 1
    BY <1>1, FS_Interval
  <2>2. (IF 1 > Len(segs) THEN 0 ELSE Len(segs) - 1 + 1) = Len(segs)
    BY <1>1
  <2> QED BY <1>1, <2>1, <2>2
<1>3. IsFiniteSet(inputs) /\ Cardinality(inputs) <= Len(segs)
  BY <1>2, FS_Subset
<1>4. Cardinality(inputs) \in Nat /\ Cardinality(inputs) # 0
  BY <1>3, FS_EmptySet, FS_CardinalityType
<1> QED BY <1>1, <1>3, <1>4

LEMMA CompactStep ==
  ASSUME IInv, NEW inputs \in SUBSET Places, NEW bad \in SUBSET Parts, compact(inputs, bad)
  PROVE  IInv'
<1> USE DEF IInv, compact, Idle
<1> DEFINE new   == IF pq_configured THEN ensure_global_pq_codebook(bad) ELSE [book |-> book, global |-> global]
           code  == encode(NewSegment, bad, new.global)
           coded == IF pq_configured THEN realize(code, bad) ELSE NewSegment
           out   == graph(coded, bad)
<1>1. PICK keep \in Others(inputs) : segs' = Append([i \in DOMAIN keep |-> segs[keep[i]]], out)
  OBVIOUS
<1>2. /\ book' = new.book /\ global' = new.global
      /\ hurt' = (hurt \/ (conf.global /\ new.global = 0 /\ "codes" \notin bad))
      /\ pc = "idle" /\ inputs # {} /\ MayTrain
      /\ UNCHANGED <<conf, pc, job, dropped, stops>>
  OBVIOUS
<1>3. /\ book' \in [id : 0 .. MaxBooks, k : {16, 256}] /\ global' \in 0 .. MaxBooks
      /\ hurt' \in BOOLEAN
      /\ global # 0 => global' = global
      /\ pq_configured => FreeBooks # {} \/ (conf.global /\ global' # 0)
  BY <1>2, Trained DEF TypeOK
<1>4. out \in Segment /\ Borrows(out, global') /\ HasSource(out)
  <2>1. pq_configured => code \in Segment /\ Borrows(code, global') /\ HasSource(code)
    <3>1. new.global = global'
      BY <1>2
    <3> HIDE DEF new
    <3>2. pq_configured => code \in Segment /\ Borrows(code, global') /\ code.vectors = NewSegment.vectors
      BY <3>1, <1>3, NewOne, Encode DEF Borrows
    <3> HIDE DEF code
    <3> QED BY <3>2, NewOne DEF NewSegment, HasSource, SearchSource, NoGraph
  <2> HIDE DEF code
  <2>2. coded \in Segment /\ Borrows(coded, global') /\ HasSource(coded)
    BY <2>1, NewOne, Realize DEF Borrows
  <2> HIDE DEF coded
  <2> QED BY <2>2, Graph DEF Borrows
<1>0. TypeOK /\ NoDangling /\ Scored
  OBVIOUS
<1> HIDE DEF out, new, IInv, compact, Idle
<1> DEFINE n    == Len(segs) - Cardinality(inputs)
           rest == [i \in DOMAIN keep |-> segs[keep[i]]]
<1>5. segs \in Seq(Segment) /\ \A s \in Places : segs[s] \in Segment
  BY <1>0, ElementOfSeq DEF TypeOK, Places
<1>6. n \in Nat /\ n + 1 <= Len(segs)
  BY <1>0, <1>2, Kept DEF TypeOK
<1>7. keep \in [1 .. n -> Places]
  BY <1>6 DEF Others
<1> HIDE DEF n
<1>8. rest \in [1 .. n -> Segment] /\ \A i \in 1 .. n : rest[i] = segs[keep[i]] /\ keep[i] \in Places
  BY <1>5, <1>7
<1> HIDE DEF rest
<1>9. rest \in Seq(Segment) /\ Len(rest) = n
  BY <1>6, <1>8, SeqOfFunction
<1>10. /\ segs' \in Seq(Segment) /\ Len(segs') = n + 1 /\ Places' = 1 .. n + 1
       /\ \A i \in 1 .. n : segs'[i] = rest[i]
       /\ segs'[n + 1] = out
  <2>1. segs' = Append(rest, out)
    BY <1>1 DEF rest
  <2> QED BY <2>1, <1>4, <1>6, <1>9, AppendProperties DEF Places
<1>11. \A s \in Places' : segs'[s] = out \/ \E t \in Places : segs'[s] = segs[t]
  <2> SUFFICES ASSUME NEW s \in Places', s # n + 1
               PROVE  \E t \in Places : segs'[s] = segs[t]
    BY <1>10
  <2>1. s \in 1 .. n
    BY <1>6, <1>10
  <2> QED BY <2>1, <1>8, <1>10
<1>12. TypeOK'
  <2>1. fails' \in 0 .. MaxFails
    BY <1>0, Failures DEF compact
  <2>2. Len(segs') <= MaxSegments
    BY <1>0, <1>6, <1>10, PqAssumption DEF TypeOK
  <2> QED BY <1>0, <1>2, <1>3, <1>10, <2>1, <2>2 DEF TypeOK
<1>13. NoDangling'
  BY <1>0, <1>3, <1>4, <1>11 DEF NoDangling, Borrows
<1>14. Scored'
  BY <1>0, <1>2, <1>4, <1>11 DEF Scored, Waiting
<1>15. Rebuilding'
  BY <1>2 DEF Rebuilding
<1> QED BY <1>12, <1>13, <1>14, <1>15 DEF IInv

LEMMA Dropping ==
  ASSUME TypeOK
  PROVE  /\ drop_borrowing \in [Places -> Segment]
         /\ \A s \in Places : /\ ~drop_borrowing[s].borrowed
                              /\ ~segs[s].borrowed => drop_borrowing[s] = segs[s]
<1>1. \A s \in Places : segs[s] \in Segment
  BY ElementOfSeq DEF TypeOK, Places
<1>2. ASSUME NEW s \in Places
      PROVE  /\ drop_borrowing[s] \in Segment /\ ~drop_borrowing[s].borrowed
             /\ ~segs[s].borrowed => drop_borrowing[s] = segs[s]
  <2>1. CASE segs[s].borrowed
    <3>1. drop_borrowing[s] = [segs[s] EXCEPT !.by = 0, !.borrowed = FALSE]
      BY <2>1 DEF drop_borrowing
    <3>2. 0 \in 0 .. MaxBooks
      BY PqAssumption
    <3>3. [segs[s] EXCEPT !.by = 0, !.borrowed = FALSE] \in Segment
      BY <1>1, <3>2 DEF Segment
    <3>4. ~[segs[s] EXCEPT !.by = 0, !.borrowed = FALSE].borrowed
      BY <1>1 DEF Segment
    <3> QED BY <2>1, <3>1, <3>3, <3>4
  <2>2. CASE ~segs[s].borrowed
    BY <1>1, <2>2 DEF drop_borrowing
  <2> QED BY <2>1, <2>2
<1>3. drop_borrowing = [s \in Places |-> drop_borrowing[s]]
  BY DEF drop_borrowing
<1> QED BY <1>2, <1>3

LEMMA RebuildFailsStep ==
  ASSUME IInv, NEW trained \in BOOLEAN, RebuildFails(trained)
  PROVE  IInv'
<1>0. TypeOK /\ NoDangling /\ Scored
  BY DEF IInv
<1>1. /\ segs' = drop_borrowing /\ pc = "idle"
      /\ dropped' = (dropped \/ \E s \in Places : segs[s].borrowed)
      /\ hurt' = (hurt \/ trained \/ \E s \in Places : segs[s].file # 0)
      /\ fails < MaxFails /\ fails' = fails + 1
      /\ UNCHANGED <<conf, book, pc, job, stops>>
  BY DEF RebuildFails, MayRebuild, Idle, disk
<1>2. global' \in 0 .. MaxBooks
  BY NewBookFree, PqAssumption DEF RebuildFails, MayRebuild, Books
<1>3. /\ segs' \in Seq(Segment) /\ Len(segs') = Len(segs) /\ Places' = Places
      /\ \A s \in Places : /\ ~segs'[s].borrowed
                           /\ ~segs[s].borrowed => segs'[s] = segs[s]
  BY <1>0, <1>1, Dropping, Mapped
<1>4. TypeOK'
  BY <1>0, <1>1, <1>2, <1>3, PqAssumption DEF TypeOK
<1>5. NoDangling'
  BY <1>3 DEF NoDangling
<1>6. Scored'
  BY <1>0, <1>1, <1>3 DEF Scored, Waiting
<1>7. Rebuilding'
  BY <1>1 DEF Rebuilding
<1> QED BY <1>4, <1>5, <1>6, <1>7 DEF IInv

LEMMA RebuildStep ==
  ASSUME IInv, rebuild_pq_global_codebook
  PROVE  IInv'
<1>0. TypeOK /\ NoDangling /\ Scored
  BY DEF IInv
<1>1. /\ segs' = drop_borrowing /\ pc = "idle" /\ pc' = "reencode"
      /\ conf.global /\ pq_configured /\ FreeBooks # {}
      /\ global' = NewBook /\ book' = [id |-> NewBook, k |-> conf.k]
      /\ job' = [NoJob EXCEPT !.at = 1, !.had = Had]
      /\ hurt' = TRUE
      /\ UNCHANGED <<conf, dropped, fails, stops>>
  BY DEF rebuild_pq_global_codebook, MayRebuild, Idle
<1>2. global' # 0 /\ global' \in 0 .. MaxBooks /\ book' \in [id : 0 .. MaxBooks, k : {16, 256}]
      /\ book'.id = global'
  BY <1>0, <1>1, NewBookFree, PqAssumption DEF Books, TypeOK, Config
<1>3. /\ segs' \in Seq(Segment) /\ Len(segs') = Len(segs) /\ Places' = Places
      /\ \A s \in Places : /\ ~segs'[s].borrowed
                           /\ ~segs[s].borrowed => segs'[s] = segs[s]
  BY <1>0, <1>1, Dropping, Mapped
<1>4. Had \subseteq 1 .. MaxSegments /\ Had \subseteq Places
  BY <1>0, PqAssumption DEF Had, TypeOK, Places
<1>5. job' \in JobType /\ job'.at = 1 /\ job'.had = Had
  <2>1. 1 \in 0 .. MaxSegments + 1
    BY PqAssumption
  <2> QED BY <1>1, <1>4, <2>1, Jobs DEF JobType
<1>6. TypeOK'
  BY <1>0, <1>1, <1>2, <1>3, <1>5 DEF TypeOK, JobType
<1>7. NoDangling'
  BY <1>3 DEF NoDangling
<1>8. \A s \in Places : segs[s].borrowed => s \in Had
  BY <1>0 DEF NoDangling, Had
<1>9. Scored'
  <2>1. \A s \in Had : s >= 1
    BY <1>4, PqAssumption
  <2>2. \A s \in Places : segs[s].borrowed => Waiting(s)'
    BY <1>1, <1>5, <1>8, <2>1 DEF Waiting
  <2>3. dropped \/ \A s \in Places : HasSource(segs[s])
    BY <1>0, <1>1 DEF Scored, Waiting
  <2>4. \A s \in Places : ~segs[s].borrowed => HasSource(segs'[s]) = HasSource(segs[s])
    BY <1>3
  <2>5. dropped' = dropped
    BY <1>1
  <2>6. dropped' \/ \A s \in Places : HasSource(segs'[s]) \/ Waiting(s)'
    BY <2>2, <2>3, <2>4, <2>5
  <2> QED BY <1>3, <2>6 DEF Scored, HasSource, SearchSource
<1>10. Rebuilding'
  <2>1. pq_configured'
    BY <1>1 DEF pq_configured
  <2>2. \A s \in job'.had : ~(s < job'.at)
    <3> SUFFICES ASSUME NEW s \in job'.had PROVE ~(s < job'.at)
      OBVIOUS
    <3>1. s \in 1 .. MaxSegments
      BY <1>4, <1>5
    <3> QED BY <1>5, <3>1, PqAssumption
  <2> QED BY <1>1, <1>2, <1>3, <1>4, <1>5, <2>1, <2>2 DEF Rebuilding
<1> QED BY <1>6, <1>7, <1>9, <1>10 DEF IInv

LEMMA ReencodeStep ==
  ASSUME IInv, NEW bad \in SUBSET Parts, ReencodeSegment(bad)
  PROVE  IInv'
<1>0. TypeOK /\ NoDangling /\ Scored /\ Rebuilding
  BY DEF IInv
<1>1. /\ pc = "reencode" /\ job.at \in Places /\ MayFail(bad)
      /\ fails' = fails + Cardinality(bad)
      /\ bad \subseteq {"codes"}
      /\ UNCHANGED <<conf, book, global, pc, hurt, stops>>
  BY DEF ReencodeSegment, disk
<1>2. /\ conf.global /\ pq_configured /\ global # 0 /\ book.id = global
      /\ job.had \subseteq Places /\ job.at >= 1
      /\ job.ok => \A s \in job.had : s < job.at => segs[s].file = global /\ segs[s].by = global
  BY <1>0, <1>1 DEF Rebuilding
<1>3. segs \in Seq(Segment) /\ (\A s \in Places : segs[s] \in Segment) /\ global \in 0 .. MaxBooks
      /\ Places \subseteq Nat /\ job.at \in Nat
  BY <1>0, <1>1, ElementOfSeq DEF TypeOK, Places
<1>4. fails' \in 0 .. MaxFails
  BY <1>0, <1>1, Failures
<1>5. job.at + 1 \in 0 .. MaxSegments + 1
  BY <1>0, <1>1, Advanced
<1>6. pq_configured'
  BY <1>1, <1>2 DEF pq_configured
<1>7. CASE job.at \in job.had
  <2> DEFINE one == encode(segs[job.at], bad, global)
  <2>1. /\ segs' = [segs EXCEPT ![job.at] = one]
        /\ job' = [job EXCEPT !.at = @ + 1, !.ok = @ /\ bad = {}]
        /\ dropped' = (dropped \/ bad # {})
    BY <1>7 DEF ReencodeSegment
  <2>2. /\ one \in Segment /\ Borrows(one, global)
        /\ "codes" \notin bad => one.file = global /\ one.by = global
    BY <1>0, <1>1, <1>2, <1>3, Encode DEF NoDangling, Borrows
  <2> HIDE DEF one
  <2>3. /\ segs' \in Seq(Segment) /\ Len(segs') = Len(segs) /\ Places' = Places
        /\ \A s \in Places : segs'[s] = IF s = job.at THEN one ELSE segs[s]
    BY <1>0, <1>1, <2>1, <2>2, Replaced
  <2>4. /\ job' \in JobType /\ job'.at = job.at + 1 /\ job'.had = job.had
        /\ job'.ok => job.ok /\ bad = {}
    BY <1>0, <1>5, <2>1 DEF TypeOK, JobType
  <2>5. dropped' \in BOOLEAN
    BY <2>1, <1>0 DEF TypeOK
  <2>6. TypeOK'
    BY <1>0, <1>1, <1>4, <2>3, <2>4, <2>5 DEF TypeOK, JobType
  <2>7. NoDangling'
    BY <1>0, <1>1, <2>2, <2>3 DEF NoDangling, Borrows
  <2>8. bad = {} => HasSource(one)
    BY <1>2, <2>2 DEF HasSource, SearchSource, NoGraph, Segment, Tiers
  <2>9. Scored'
    <3>1. \A s \in Places : Waiting(s) => s = job.at \/ Waiting(s)'
      BY <1>1, <1>3, <2>4 DEF Waiting
    <3> QED BY <1>0, <1>1, <2>1, <2>3, <2>8, <3>1 DEF Scored
  <2>10. Rebuilding'
    <3>1. ASSUME job'.ok, NEW s \in job'.had, s < job'.at
          PROVE  segs'[s].file = global' /\ segs'[s].by = global'
      <4>1. s \in Places /\ s \in job.had /\ job.ok /\ bad = {}
        BY <1>2, <2>4, <3>1
      <4>2. CASE s = job.at
        BY <1>1, <2>2, <2>3, <4>1, <4>2
      <4>3. CASE s # job.at
        <5>1. s \in Nat /\ s < job.at + 1
          BY <1>3, <2>4, <3>1, <4>1
        <5>2. s < job.at
          BY <1>3, <4>3, <5>1
        <5>3. segs'[s] = segs[s]
          BY <2>3, <4>1, <4>3
        <5> QED BY <1>1, <1>2, <4>1, <5>2, <5>3
      <4> QED BY <4>2, <4>3
    <3> QED BY <1>1, <1>2, <1>3, <1>6, <2>3, <2>4, <3>1 DEF Rebuilding
  <2> QED BY <2>6, <2>7, <2>9, <2>10 DEF IInv
<1>8. CASE job.at \notin job.had
  <2>1. /\ job' = [job EXCEPT !.at = @ + 1] /\ UNCHANGED <<segs, dropped>>
    BY <1>8 DEF ReencodeSegment
  <2>2. /\ job' \in JobType /\ job'.at = job.at + 1 /\ job'.had = job.had /\ job'.ok = job.ok
    BY <1>0, <1>5, <2>1 DEF TypeOK, JobType
  <2>3. Places' = Places
    BY <2>1 DEF Places
  <2>4. TypeOK'
    BY <1>0, <1>1, <1>4, <2>1, <2>2 DEF TypeOK, JobType
  <2>5. NoDangling'
    BY <1>0, <1>1, <2>1, <2>3 DEF NoDangling
  <2>6. Scored'
    <3>1. \A s \in Places : Waiting(s) => Waiting(s)'
      BY <1>1, <1>3, <1>8, <2>2 DEF Waiting
    <3>2. \A s \in Places : HasSource(segs[s])' = HasSource(segs[s])
      BY <2>1 DEF HasSource, SearchSource
    <3> QED BY <1>0, <1>1, <2>1, <2>3, <3>1, <3>2 DEF Scored
  <2>7. Rebuilding'
    <3>1. \A s \in job'.had : s < job'.at => s \in job.had /\ s < job.at
      <4> SUFFICES ASSUME NEW s \in job'.had, s < job'.at PROVE s \in job.had /\ s < job.at
        OBVIOUS
      <4>1. s \in job.had /\ s \in Nat /\ s < job.at + 1
        BY <1>2, <1>3, <2>2
      <4>2. s # job.at
        BY <1>8, <4>1
      <4> QED BY <1>3, <4>1, <4>2
    <3> QED BY <1>1, <1>2, <1>3, <1>6, <2>1, <2>2, <2>3, <3>1 DEF Rebuilding
  <2> QED BY <2>4, <2>5, <2>6, <2>7 DEF IInv
<1> QED BY <1>7, <1>8
LEMMA EndStep ==
  ASSUME IInv, RebuildEnd
  PROVE  IInv'
<1>0. TypeOK /\ NoDangling /\ Scored /\ Rebuilding
  BY DEF IInv
<1>1. /\ pc = "reencode" /\ job.at \notin Places /\ pc' = "idle" /\ job' = NoJob
      /\ hurt' = (\E s \in Places : segs[s].file \notin {0, book.id})
      /\ UNCHANGED <<conf, book, segs, global, dropped, fails, stops>>
  BY DEF RebuildEnd, disk
<1>2. TypeOK'
  BY <1>0, <1>1, Jobs DEF TypeOK, JobType
<1>3. NoDangling'
  BY <1>0, <1>1 DEF NoDangling, Places
<1>4. \A s \in Places : ~Waiting(s)
  BY <1>0, <1>1 DEF Rebuilding, Waiting, Places, TypeOK
<1>5. Scored'
  BY <1>0, <1>1, <1>4 DEF Scored, HasSource, SearchSource, Places
<1>6. Rebuilding'
  BY <1>1 DEF Rebuilding
<1> QED BY <1>2, <1>3, <1>5, <1>6 DEF IInv

LEMMA Forgetting ==
  ASSUME NEW seg \in Segment
  PROVE  /\ Forgotten(seg) \in Segment /\ ~Forgotten(seg).borrowed
         /\ [Forgotten(seg) EXCEPT !.graph = NoGraph] \in Segment
         /\ ~[Forgotten(seg) EXCEPT !.graph = NoGraph].borrowed
<1>1. 0 \in 0 .. MaxBooks
  BY PqAssumption
<1>2. Forgotten(seg) \in Segment
  BY <1>1 DEF Forgotten, Segment, Tiers
<1>3. ~Forgotten(seg).borrowed
  BY DEF Forgotten, Segment
<1>4. [Forgotten(seg) EXCEPT !.graph = NoGraph] \in Segment
  BY <1>2 DEF Segment
<1>5. ~[Forgotten(seg) EXCEPT !.graph = NoGraph].borrowed
  BY <1>2, <1>3 DEF Segment
<1> QED BY <1>2, <1>3, <1>4, <1>5

LEMMA StopStep ==
  ASSUME IInv, \/ Stop \/ StopAfterTraining
               \/ \E tier \in Tiers, n \in 0 .. MaxSegments : StopInTier(tier, n)
  PROVE  IInv'
<1>0. TypeOK /\ Closes
  BY DEF IInv, Stop, StopAfterTraining, StopInTier
<1>1. segs \in Seq(Segment) /\ \A s \in Places : segs[s] \in Segment
  BY <1>0, ElementOfSeq DEF TypeOK, Places
<1>2. conf' \in Config
  <2>1. CASE Stop
    BY <1>0, <2>1 DEF Stop, disk, TypeOK
  <2>2. CASE StopAfterTraining
    BY <1>0, <2>2 DEF StopAfterTraining, TypeOK
  <2>3. ASSUME NEW tier \in Tiers, NEW n \in 0 .. MaxSegments, StopInTier(tier, n)
        PROVE  conf' \in Config
    BY <1>0, <2>3 DEF StopInTier, TypeOK, Config
  <2> QED BY <2>1, <2>2, <2>3
<1>3. book' \in [id : 0 .. MaxBooks, k : {16, 256}]
  <2>1. CASE Stop
    BY <1>0, <2>1 DEF Stop, disk, TypeOK
  <2>2. CASE StopAfterTraining
    BY <1>0, <2>2, NewBookFree, PqAssumption DEF StopAfterTraining, TypeOK, Config, Books
  <2>3. ASSUME NEW tier \in Tiers, NEW n \in 0 .. MaxSegments, StopInTier(tier, n)
        PROVE  book' \in [id : 0 .. MaxBooks, k : {16, 256}]
    BY <1>0, <2>3 DEF StopInTier, TypeOK
  <2> QED BY <2>1, <2>2, <2>3
<1>4. \E f \in [Places -> Segment] : segs' = f /\ \A s \in Places : ~f[s].borrowed
  <2>0. \A s \in Places : /\ Forgotten(segs[s]) \in Segment /\ ~Forgotten(segs[s]).borrowed
                          /\ [Forgotten(segs[s]) EXCEPT !.graph = NoGraph] \in Segment
                          /\ ~[Forgotten(segs[s]) EXCEPT !.graph = NoGraph].borrowed
    BY <1>1, Forgetting
  <2>1. CASE Stop \/ StopAfterTraining
    <3> DEFINE f == [s \in Places |-> Forgotten(segs[s])]
    <3>1. segs' = f
      BY <2>1 DEF Stop, StopAfterTraining
    <3>2. f \in [Places -> Segment] /\ \A s \in Places : ~f[s].borrowed
      BY <2>0
    <3> QED BY <3>1, <3>2
  <2>2. ASSUME NEW tier \in Tiers, NEW n \in 0 .. MaxSegments, StopInTier(tier, n)
        PROVE  \E f \in [Places -> Segment] : segs' = f /\ \A s \in Places : ~f[s].borrowed
    <3> DEFINE bare(s) == [Forgotten(segs[s]) EXCEPT !.graph = NoGraph]
               f == [s \in Places |-> IF s <= n THEN bare(s) ELSE Forgotten(segs[s])]
    <3>1. segs' = f
      BY <2>2 DEF StopInTier
    <3>2. \A s \in Places : bare(s) \in Segment /\ ~bare(s).borrowed
      BY <2>0
    <3> HIDE DEF bare
    <3>3. f \in [Places -> Segment] /\ \A s \in Places : ~f[s].borrowed
      BY <2>0, <3>2
    <3> QED BY <3>1, <3>3
  <2> QED BY <2>1, <2>2
<1>5. /\ segs' \in Seq(Segment) /\ Len(segs') = Len(segs) /\ Places' = Places
      /\ \A s \in Places : ~segs'[s].borrowed
  BY <1>0, <1>4, Mapped
<1>6. TypeOK'
  <2>1. /\ stops' \in 0 .. MaxStops /\ pc' = "closed" /\ job' = NoJob
        /\ global' \in 0 .. MaxBooks /\ dropped' = FALSE
        /\ UNCHANGED <<hurt, fails>>
    BY <1>0, PqAssumption DEF Closes, TypeOK
  <2> QED BY <1>0, <1>2, <1>3, <1>5, <2>1, Jobs DEF TypeOK, JobType
<1>7. NoDangling'
  BY <1>5 DEF NoDangling
<1>8. Scored' /\ Rebuilding'
  BY <1>0 DEF Closes, Scored, Rebuilding
<1> QED BY <1>6, <1>7, <1>8 DEF IInv

LEMMA OpenStep ==
  ASSUME IInv, open
  PROVE  IInv'
<1>0. TypeOK
  BY DEF IInv
<1>1. /\ pc' = "idle" /\ global' = load_pq_codebook
      /\ segs' = [s \in Places |-> append_segment(segs[s], load_pq_codebook)]
      /\ UNCHANGED <<conf, book, job, hurt, dropped, fails, stops>>
  BY DEF open, disk, hist
<1>2. load_pq_codebook \in 0 .. MaxBooks
  BY <1>0, PqAssumption DEF load_pq_codebook, TypeOK
<1> DEFINE f == [s \in Places |-> append_segment(segs[s], load_pq_codebook)]
<1>3. \A s \in Places : segs[s] \in Segment
  BY <1>0, ElementOfSeq DEF TypeOK, Places
<1>4. \A s \in Places : /\ append_segment(segs[s], load_pq_codebook) \in Segment
                        /\ Borrows(append_segment(segs[s], load_pq_codebook), load_pq_codebook)
                        /\ HasSource(append_segment(segs[s], load_pq_codebook))
  BY <1>0, <1>2, <1>3, AppendSegment
<1>5. f \in [Places -> Segment] /\ \A s \in Places : Borrows(f[s], load_pq_codebook) /\ HasSource(f[s])
  BY <1>4
<1>6. segs' = f
  BY <1>1
<1> HIDE DEF f
<1>7. /\ segs' \in Seq(Segment) /\ Len(segs') = Len(segs) /\ Places' = Places
      /\ \A s \in Places : Borrows(segs'[s], load_pq_codebook) /\ HasSource(segs'[s])
  BY <1>0, <1>5, <1>6, Mapped
<1>8. TypeOK'
  BY <1>0, <1>1, <1>2, <1>7 DEF TypeOK
<1>9. NoDangling'
  BY <1>1, <1>7 DEF NoDangling, Borrows
<1>10. Scored'
  BY <1>7 DEF Scored, HasSource, SearchSource
<1>11. Rebuilding'
  BY <1>1 DEF Rebuilding
<1> QED BY <1>8, <1>9, <1>10, <1>11 DEF IInv

LEMMA NextInv == IInv /\ [Next]_vars => IInv'
<1> SUFFICES ASSUME IInv, [Next]_vars PROVE IInv'
  OBVIOUS
<1>1. CASE Configure
  BY <1>1, ConfigStep, TierStep DEF Configure
<1>2. CASE Write
  <2> SUFFICES ASSUME NEW bad \in SUBSET Parts,
                      \/ \E eager \in BOOLEAN : flush(eager, bad)
                      \/ BuildSegment(bad) \/ GraphSegment(bad) \/ ReencodeSegment(bad)
                      \/ \E inputs \in SUBSET Places : compact(inputs, bad)
               PROVE  IInv'
    BY <1>2 DEF Write
  <2>1. CASE \E eager \in BOOLEAN : flush(eager, bad)
    BY <2>1, FlushStep
  <2>2. CASE BuildSegment(bad)
    BY <2>2, BuildStep
  <2>3. CASE GraphSegment(bad)
    BY <2>3, GraphStep
  <2>4. CASE ReencodeSegment(bad)
    BY <2>4, ReencodeStep
  <2>5. CASE \E inputs \in SUBSET Places : compact(inputs, bad)
    BY <2>5, CompactStep
  <2> QED BY <2>1, <2>2, <2>3, <2>4, <2>5
<1>3. CASE Loops
  BY <1>3, LoopStep, RebuildStep, EndStep, RebuildFailsStep DEF Loops
<1>4. CASE Stops
  BY <1>4, StopStep, OpenStep DEF Stops
<1>5. CASE UNCHANGED vars
  BY <1>5 DEF vars, disk, hist, IInv, TypeOK, NoDangling, Scored, Waiting, Rebuilding,
              HasSource, SearchSource, Places, pq_configured
<1> QED BY <1>1, <1>2, <1>3, <1>4, <1>5 DEF Next

-----------------------------------------------------------------------------
(* Theorems *)

(***************************************************************************)
(* The inductive invariant holds in every state of every index.            *)
(***************************************************************************)
THEOREM Invariance == Spec => []IInv
BY InitInv, NextInv, PTL DEF Spec

(***************************************************************************)
(* Every setter, build, compaction, rebuild and restart, whichever of its  *)
(* writes fail, leaves the configuration, the codebooks and the segments   *)
(* in their ranges.                                                        *)
(***************************************************************************)
THEOREM PqTypeCorrect == Spec => []TypeOK
<1>1. IInv => TypeOK
  BY DEF IInv
<1> QED BY Invariance, <1>1, PTL

(***************************************************************************)
(* A store never decodes with a codebook that                              *)
(* rebuild_pq_global_codebook() has freed: whatever borrows, borrows the   *)
(* codebook that is resident now.                                          *)
(***************************************************************************)
THEOREM NoDanglingAlways == Spec => []NoDangling
<1>1. IInv => NoDangling
  BY DEF IInv
<1> QED BY Invariance, <1>1, PTL

(***************************************************************************)
(* Between two calls each segment has vectors or codes a search can score, *)
(* unless a rebuild in this session has failed: no tier change, compaction *)
(* or restart leaves a segment with neither.                               *)
(***************************************************************************)
THEOREM AlwaysSearchable == Spec => []Searchable
<1>1. IInv => Searchable
  BY DEF IInv, Scored, Waiting, Searchable, Idle, HasSource
<1> QED BY Invariance, <1>1, PTL

(***************************************************************************)
(* When rebuild_pq_global_codebook() returns 0, every segment that had a   *)
(* store has codes of the saved codebook, on disk and in memory.           *)
(***************************************************************************)
THEOREM RebuildReencodesAlways == Spec => RebuildReencodes
<1>1. ASSUME IInv, [Next]_vars, pc = "reencode", pc' = "idle", job.ok
      PROVE  \A s \in job.had : segs'[s].file = book.id /\ segs'[s].by = book.id
  <2>1. RebuildEnd
    BY <1>1 DEF Next, Configure, Write, Loops, Stops, Idle, hist, vars,
                set_hnsw_config, set_pq_global_codebook, set_pq_k, set_pq_config,
                set_pq_resident_tier, MayTier, flush, compact, BuildSegment, GraphSegment,
                ReencodeSegment, build_pq, BuildEnd, build_hnsw, GraphEnd,
                rebuild_pq_global_codebook, MayRebuild, RebuildFails,
                Stop, StopAfterTraining, StopInTier, Closes, open
  <2>2. job.at \notin Places /\ segs' = segs
    BY <2>1 DEF RebuildEnd
  <2>3. TypeOK /\ Rebuilding
    BY <1>1 DEF IInv
  <2>4. \A s \in job.had : s < job.at
    BY <1>1, <2>2, <2>3 DEF Rebuilding, TypeOK, Places
  <2> QED BY <1>1, <2>2, <2>3, <2>4 DEF Rebuilding
<1>2. IInv /\ [Next]_vars =>
        [pc = "reencode" /\ pc' = "idle" /\ job.ok =>
           \A s \in job.had : segs'[s].file = book.id /\ segs'[s].by = book.id]_vars
  BY <1>1
<1> QED BY Invariance, <1>2, PTL DEF Spec, RebuildReencodes

-----------------------------------------------------------------------------
(* The invariant, on top of the one above *)

(* What a segment with codes has in memory beside them.                    *)
ByTier(seg) == IF conf.tier = "float" THEN "float"
               ELSE IF conf.tier = "int8" /\ seg.pqr THEN "int8" ELSE "none"

(* Only an index with PQ has codes, and what is in memory comes from disk. *)
Coded ==
  /\ \A s \in Places : segs[s].file # 0 => pq_configured
  /\ ~conf.global => book.id = 0 /\ global = 0
  /\ pc # "closed" => \A s \in Places : segs[s].by # 0 => segs[s].file # 0

(* A segment without codes in memory has none on disk, and its vectors.    *)
Bare == pc # "closed" /\ ~dropped =>
  \A s \in Places : segs[s].by = 0 => Waiting(s) \/ (segs[s].file = 0 /\ segs[s].vectors = "float")

Floats == pc # "closed" /\ conf.tier = "float" => \A s \in Places : segs[s].vectors = "float"

(* CodesFit, with what the next load, training or encoding relies on: the  *)
(* resident codebook is the saved one, of the configured size, and the     *)
(* stores borrow it exactly in global mode.                                *)
Fit ==
  /\ \A s \in Places : segs[s].by \in {0, segs[s].file}
  /\ conf.global => \A s \in Places : segs[s].file \in {0, book.id}
  /\ book.id # 0 => book.k = conf.k
  /\ pc # "closed" =>
       /\ global \in {0, book.id}
       /\ \A s \in Places : segs[s].by # 0 => segs[s].borrowed = conf.global
       /\ \A s \in Places : conf.global /\ segs[s].file # 0 => global # 0

(* While a rebuild runs, what has the new codebook on disk has it in memory.*)
Redone == pc = "reencode" =>
  /\ hurt /\ book.k = conf.k
  /\ \A s \in Places : segs[s].file = book.id => segs[s].by = book.id /\ segs[s].borrowed

(* The tier has taken effect on the segments behind the loop.              *)
Built == pc = "build" =>
  /\ pq_configured /\ job.at >= 1
  /\ \A s \in Places : s < job.at /\ segs[s].by # 0 => segs[s].vectors = ByTier(segs[s])

JInv == Coded /\ Bare /\ Floats /\ (~hurt => Fit) /\ Redone /\ Built

-----------------------------------------------------------------------------
(* What the helpers say of codes *)

LEMMA NewBookUnused ==
  ASSUME FreeBooks # {}
  PROVE  NewBook # 0 /\ NewBook \in 0 .. MaxBooks /\ \A s \in Places : segs[s].file # NewBook
<1>1. NewBook \in FreeBooks
  BY DEF NewBook
<1> QED BY <1>1, PqAssumption DEF FreeBooks, Books, Used

LEMMA LoadBy ==
  ASSUME TypeOK, NEW seg \in Segment, NEW glo \in 0 .. MaxBooks
  PROVE  LET s == load_segment_pq_vectors(seg, glo) IN
           /\ s.file = seg.file /\ s.vectors = seg.vectors /\ s.pqr = seg.pqr
           /\ seg.file = 0 => s.by = 0 /\ s.borrowed = FALSE
           /\ seg.file # 0 /\ pq_configured =>
                /\ s.borrowed = (conf.global /\ glo # 0)
                /\ s.by = IF conf.global /\ glo # 0 THEN glo ELSE seg.file
<1> DEFINE valid  == pq_configured /\ seg.file # 0
           borrow == valid /\ conf.global /\ glo # 0
           by     == IF borrow THEN glo ELSE IF valid THEN seg.file ELSE 0
<1>1. load_segment_pq_vectors(seg, glo) = [seg EXCEPT !.by = by, !.borrowed = borrow]
  BY DEF load_segment_pq_vectors
<1>2. /\ seg.file = 0 => by = 0 /\ borrow = FALSE
      /\ seg.file # 0 /\ pq_configured =>
           /\ borrow = (conf.global /\ glo # 0)
           /\ by = IF conf.global /\ glo # 0 THEN glo ELSE seg.file
  <2>1. conf.global \in BOOLEAN /\ pq_configured \in BOOLEAN
    BY DEF TypeOK, Config, pq_configured
  <2> QED BY <2>1
<1> HIDE DEF valid, borrow, by
<1>3. LET s == [seg EXCEPT !.by = by, !.borrowed = borrow] IN
        /\ s.file = seg.file /\ s.vectors = seg.vectors /\ s.pqr = seg.pqr
        /\ s.by = by /\ s.borrowed = borrow
  BY DEF Segment
<1> QED BY <1>1, <1>2, <1>3

LEMMA EncodeBy ==
  ASSUME TypeOK, pq_configured, NEW seg \in Segment, NEW glo \in 0 .. MaxBooks, NEW bad,
         "codes" \notin bad, FreeBooks # {} \/ (conf.global /\ glo # 0)
  PROVE  LET s == encode(seg, bad, glo) IN
           /\ s.file # 0 /\ s.by = s.file /\ s.vectors = seg.vectors
           /\ s.borrowed = (conf.global /\ glo # 0)
           /\ conf.global /\ glo # 0 => s.file = glo
<1> DEFINE file == IF conf.global /\ glo # 0 THEN glo ELSE NewBook
           e    == [seg EXCEPT !.file = file]
<1>1. file # 0 /\ file \in 0 .. MaxBooks /\ (conf.global /\ glo # 0 => file = glo)
  BY NewBookUnused
<1>2. encode(seg, bad, glo) = load_segment_pq_vectors(e, glo)
  BY DEF encode
<1> HIDE DEF file
<1>3. e \in Segment /\ e.file = file /\ e.vectors = seg.vectors
  BY <1>1 DEF Segment
<1> HIDE DEF e
<1> DEFINE s == load_segment_pq_vectors(e, glo)
<1>4. /\ s.file = e.file /\ s.vectors = e.vectors
      /\ s.borrowed = (conf.global /\ glo # 0)
      /\ s.by = IF conf.global /\ glo # 0 THEN glo ELSE e.file
  BY <1>1, <1>3, LoadBy
<1> HIDE DEF s
<1>5. encode(seg, bad, glo) = s
  BY <1>2 DEF s
<1> QED BY <1>1, <1>3, <1>4, <1>5

LEMMA RealizeByTier ==
  ASSUME TypeOK, NEW seg \in Segment, NEW bad, conf.tier = "float" => seg.vectors = "float"
  PROVE  LET s == realize(seg, bad) IN
           /\ seg.by = 0 => s = seg
           /\ seg.by # 0 => s.vectors = ByTier(s)
           /\ conf.tier = "float" => s.vectors = "float"
<1>1. conf.tier \in Tiers
  BY DEF TypeOK, Config
<1>2. CASE seg.by = 0 \/ conf.tier = "float"
  <2>1. realize(seg, bad) = seg
    BY <1>2 DEF realize
  <2> QED BY <1>2, <2>1 DEF ByTier
<1>3. CASE seg.by # 0 /\ conf.tier = "none"
  <2>1. realize(seg, bad) = [seg EXCEPT !.vectors = "none"]
    BY <1>3 DEF realize
  <2> QED BY <1>3, <2>1 DEF ByTier, Segment
<1>4. CASE seg.by # 0 /\ conf.tier = "int8"
  <2> DEFINE pqr == seg.pqr \/ "int8" \notin bad
  <2>1. realize(seg, bad) = [seg EXCEPT !.pqr = pqr, !.vectors = IF pqr THEN "int8" ELSE "none"]
    BY <1>4 DEF realize
  <2> HIDE DEF pqr
  <2> QED BY <1>4, <2>1 DEF ByTier, Segment
<1> QED BY <1>1, <1>2, <1>3, <1>4 DEF Tiers

(* Training when needed, encoding and realizing a segment without codes.   *)
LEMMA Encoded ==
  ASSUME TypeOK, Coded, pc # "closed", pq_configured, MayTrain, NEW bad \in SUBSET Parts,
         NEW seg \in Segment, seg.by = 0, ~seg.borrowed, conf.tier = "float" => seg.vectors = "float"
  PROVE  LET new == ensure_global_pq_codebook(bad)
             one == realize(encode(seg, bad, new.global), bad) IN
           /\ one.by = 0 => one = seg
           /\ one.by # 0 => one.file # 0 /\ one.vectors = ByTier(one)
           /\ conf.tier = "float" => one.vectors = "float"
           /\ ~conf.global => new.book = book /\ new.global = global
           /\ Fit /\ ~(conf.global /\ new.global = 0 /\ "codes" \notin bad) =>
                /\ new.book.id # 0 => new.book.k = conf.k
                /\ new.global \in {0, new.book.id}
                /\ \A s \in Places : conf.global =>
                     segs[s].file \in {0, new.book.id} /\ (segs[s].file # 0 => new.global # 0)
                /\ one.by # 0 =>
                     /\ one.by = one.file /\ one.borrowed = conf.global
                     /\ conf.global => one.file = new.book.id /\ new.global # 0
<1> DEFINE new  == ensure_global_pq_codebook(bad)
           code == encode(seg, bad, new.global)
           one  == realize(code, bad)
<1>1. /\ new.global \in 0 .. MaxBooks /\ conf.global \in BOOLEAN
      /\ FreeBooks # {} \/ (conf.global /\ new.global # 0)
  BY Trained DEF TypeOK, Config
<1>2. \/ Trains(bad) /\ new.book = [id |-> NewBook, k |-> conf.k] /\ new.global = NewBook
           /\ conf.global /\ global = 0
      \/ new.book = book /\ new.global = global
  BY DEF ensure_global_pq_codebook, Trains, NeedsTraining
<1>3. new.book.id = NewBook => FreeBooks # {} \/ new.book = book
  BY <1>2 DEF Trains, NeedsTraining, MayTrain
<1>4. Fit => /\ new.book.id # 0 => new.book.k = conf.k
             /\ new.global \in {0, new.book.id}
             /\ \A s \in Places : conf.global =>
                  segs[s].file \in {0, new.book.id} /\ (segs[s].file # 0 => new.global # 0)
  <2>1. CASE new.book = book /\ new.global = global
    BY <2>1 DEF Fit
  <2>2. CASE new.book = [id |-> NewBook, k |-> conf.k] /\ new.global = NewBook /\ conf.global /\ global = 0
    BY <2>2 DEF Fit
  <2> QED BY <1>2, <2>1, <2>2
<1> HIDE DEF new
<1>5. CASE "codes" \in bad
  <2>1. code = seg
    BY <1>5 DEF encode
  <2> HIDE DEF code
  <2>2. one = seg
    BY <2>1, RealizeByTier
  <2> QED BY <1>2, <1>4, <2>2 DEF new, code
<1>6. CASE "codes" \notin bad
  <2>1. /\ code.file # 0 /\ code.by = code.file /\ code.vectors = seg.vectors
        /\ code.borrowed = (conf.global /\ new.global # 0)
        /\ conf.global /\ new.global # 0 => code.file = new.global
    BY <1>1, <1>6, EncodeBy
  <2>2. code \in Segment
    BY <1>1, Encode DEF Borrows
  <2> HIDE DEF code
  <2>3. one.file = code.file /\ one.by = code.by /\ one.borrowed = code.borrowed
    BY <2>2, Realize
  <2>4. one.vectors = ByTier(one) /\ (conf.tier = "float" => one.vectors = "float")
    BY <2>1, <2>2, RealizeByTier
  <2> HIDE DEF one
  <2>5. Fit /\ ~(conf.global /\ new.global = 0) =>
          /\ one.by = one.file /\ one.borrowed = conf.global
          /\ conf.global => one.file = new.book.id /\ new.global # 0
    BY <1>1, <1>4, <2>1, <2>3
  <2> QED BY <1>2, <1>4, <1>6, <2>1, <2>3, <2>4, <2>5 DEF new, code, one
<1> QED BY <1>5, <1>6

-----------------------------------------------------------------------------
(* One lemma for each step *)

LEMMA CodesInit == Init => JInv
<1> SUFFICES ASSUME Init PROVE JInv
  OBVIOUS
<1>1. Places = {} /\ global = 0 /\ book.id = 0 /\ pc = "idle"
  BY DEF Init, Places, NoBook
<1> QED BY <1>1 DEF JInv, Coded, Bare, Floats, Fit, Redone, Built

LEMMA CodesConfig ==
  ASSUME IInv, JInv, set_hnsw_config \/ set_pq_global_codebook \/ set_pq_k
                       \/ \E posture \in {"replace", "rerank"} : set_pq_config(posture)
  PROVE  JInv'
<1>1. /\ UNCHANGED <<book, segs, global, pc, job, dropped>> /\ pc = "idle"
      /\ conf'.tier = conf.tier
      /\ pq_configured => pq_configured'
      /\ conf.global => conf'.global
      /\ ~hurt' => \/ conf'.global = conf.global /\ ~hurt
                   \/ ~conf.global /\ \A s \in Places : segs[s].file = 0
      /\ ~hurt' /\ book.id # 0 => conf'.k = conf.k
  <2>0. conf \in Config /\ hurt \in BOOLEAN /\ (~conf.global => book.id = 0)
    BY DEF IInv, TypeOK, JInv, Coded
  <2> USE DEF Idle, hist, pq_configured, Config
  <2>1. CASE set_hnsw_config
    BY <2>0, <2>1 DEF set_hnsw_config
  <2>2. CASE set_pq_global_codebook
    BY <2>0, <2>2 DEF set_pq_global_codebook
  <2>3. CASE set_pq_k
    BY <2>0, <2>3 DEF set_pq_k
  <2>4. CASE \E posture \in {"replace", "rerank"} : set_pq_config(posture)
    BY <2>0, <2>4 DEF set_pq_config
  <2> QED BY <2>1, <2>2, <2>3, <2>4
<1>2. Places' = Places
  BY <1>1 DEF Places
<1>3. Coded /\ Bare /\ Floats /\ (~hurt => Fit)
  BY DEF JInv
<1>4. Coded' /\ Bare' /\ Floats' /\ Redone' /\ Built'
  BY <1>1, <1>2, <1>3 DEF Coded, Bare, Waiting, Floats, Redone, Built
<1>5. ~hurt' => Fit'
  BY <1>1, <1>2, <1>3 DEF Fit, Coded
<1> QED BY <1>4, <1>5 DEF JInv

LEMMA CodesTier ==
  ASSUME IInv, JInv, NEW tier \in Tiers, set_pq_resident_tier(tier)
  PROVE  JInv'
<1>1. /\ UNCHANGED <<book, global, pc, job, hurt, dropped>> /\ pc = "idle"
      /\ conf' = [conf EXCEPT !.tier = tier] /\ tier # "float"
      /\ segs' = IF conf.hnsw THEN [s \in Places |-> [segs[s] EXCEPT !.graph = NoGraph]] ELSE segs
  BY DEF set_pq_resident_tier, MayTier, Idle, hist
<1>2. segs \in Seq(Segment) /\ (\A s \in Places : segs[s] \in Segment) /\ conf \in Config
  BY ElementOfSeq DEF IInv, TypeOK, Places
<1>3. /\ Places' = Places
      /\ \A s \in Places : segs'[s].by = segs[s].by /\ segs'[s].borrowed = segs[s].borrowed
                           /\ segs'[s].file = segs[s].file /\ segs'[s].vectors = segs[s].vectors
  <2>1. CASE conf.hnsw
    <3> DEFINE f == [s \in Places |-> [segs[s] EXCEPT !.graph = NoGraph]]
    <3>1. f \in [Places -> Segment]
      BY <1>2 DEF Segment
    <3>2. \A s \in Places : f[s].by = segs[s].by /\ f[s].borrowed = segs[s].borrowed
                            /\ f[s].file = segs[s].file /\ f[s].vectors = segs[s].vectors
      BY <1>2 DEF Segment
    <3>3. segs' = f
      BY <1>1, <2>1
    <3> HIDE DEF f
    <3> QED BY <3>1, <3>2, <3>3, Mapped DEF IInv
  <2>2. CASE ~conf.hnsw
    BY <1>1, <2>2 DEF Places
  <2> QED BY <2>1, <2>2
<1>4. conf'.global = conf.global /\ conf'.k = conf.k /\ conf'.tier # "float"
      /\ (pq_configured => pq_configured')
  BY <1>1, <1>2 DEF Config, pq_configured
<1>5. Coded' /\ Bare' /\ Floats' /\ Redone' /\ Built'
  BY <1>1, <1>3, <1>4 DEF JInv, Coded, Bare, Waiting, Floats, Redone, Built
<1>6. ~hurt' => Fit'
  BY <1>1, <1>3, <1>4 DEF JInv, Fit
<1> QED BY <1>5, <1>6 DEF JInv

LEMMA CodesFlush ==
  ASSUME IInv, JInv, NEW eager \in BOOLEAN, NEW bad \in SUBSET Parts, flush(eager, bad)
  PROVE  JInv'
<1> DEFINE new == IF pq_configured THEN NewSegment ELSE graph(NewSegment, bad)
<1>1. /\ segs' = Append(segs, new)
      /\ pc = "idle" /\ pc' \in {"idle", "build", "graph"}
      /\ pc' = "build" => pq_configured /\ job' = [NoJob EXCEPT !.at = 1, !.graph = TRUE]
      /\ UNCHANGED <<conf, book, global, hurt, dropped>>
  BY DEF flush, Idle, disk
<1>2. new \in Segment /\ new.file = 0 /\ new.by = 0 /\ new.vectors = "float"
  <2>1. NewSegment.file = 0 /\ NewSegment.by = 0 /\ NewSegment.vectors = "float"
    BY DEF NewSegment
  <2> QED BY <2>1, NewOne, Graph
<1> HIDE DEF new
<1>3. segs \in Seq(Segment) /\ Len(segs) \in Nat /\ Places = 1 .. Len(segs)
  BY DEF IInv, TypeOK, Places
<1>4. /\ Places' = 1 .. Len(segs) + 1
      /\ \A s \in Places : segs'[s] = segs[s]
      /\ segs'[Len(segs) + 1] = new
  BY <1>1, <1>2, <1>3, AppendProperties DEF Places
<1>5. \A s \in Places' : segs'[s] = new \/ (s \in Places /\ segs'[s] = segs[s])
  BY <1>3, <1>4
<1>6. pq_configured' = pq_configured
  BY <1>1 DEF pq_configured
<1>7. Coded' /\ Bare' /\ Floats' /\ Redone'
  <2>1. Coded'
    BY <1>1, <1>2, <1>5, <1>6 DEF JInv, Coded
  <2>2. Bare'
    BY <1>1, <1>2, <1>5 DEF JInv, Bare, Waiting
  <2>3. Floats'
    BY <1>1, <1>2, <1>5 DEF JInv, Floats
  <2>4. Redone'
    BY <1>1 DEF Redone
  <2> QED BY <2>1, <2>2, <2>3, <2>4
<1>8. Built'
  <2> SUFFICES ASSUME pc' = "build" PROVE Built'
    BY DEF Built
  <2>1. job'.at = 1
    BY <1>1 DEF NoJob
  <2>2. \A s \in Places' : ~(s < 1)
    BY <1>3, <1>4
  <2> QED BY <1>1, <1>6, <2>1, <2>2 DEF Built
<1>9. ~hurt' => Fit'
  BY <1>1, <1>2, <1>5 DEF JInv, Fit
<1> QED BY <1>7, <1>8, <1>9 DEF JInv

LEMMA CodesLoop ==
  ASSUME IInv, JInv, build_pq \/ build_hnsw \/ BuildEnd \/ GraphEnd
  PROVE  JInv'
<1>1. /\ UNCHANGED <<conf, book, segs, global, hurt, dropped>>
      /\ pc \in {"idle", "build", "graph"} /\ pc' \in {"idle", "build", "graph"}
      /\ pc' = "build" => pq_configured /\ job' = [NoJob EXCEPT !.at = 1]
  BY DEF build_pq, build_hnsw, BuildEnd, GraphEnd, Idle, disk, hist
<1>2. Places' = Places /\ pq_configured' = pq_configured
  BY <1>1 DEF Places, pq_configured
<1>3. Coded' /\ Bare' /\ Floats' /\ Redone'
  BY <1>1, <1>2 DEF JInv, Coded, Bare, Waiting, Floats, Redone
<1>4. Built'
  <2> SUFFICES ASSUME pc' = "build" PROVE Built'
    BY DEF Built
  <2>1. job'.at = 1
    BY <1>1 DEF NoJob
  <2>2. \A s \in Places : ~(s < 1)
    BY DEF Places, IInv, TypeOK
  <2> QED BY <1>1, <1>2, <2>1, <2>2 DEF Built
<1>5. ~hurt' => Fit'
  BY <1>1, <1>2 DEF JInv, Fit
<1> QED BY <1>3, <1>4, <1>5 DEF JInv

LEMMA CodesBuild ==
  ASSUME IInv, JInv, NEW bad \in SUBSET Parts, BuildSegment(bad)
  PROVE  JInv'
<1>0. TypeOK /\ NoDangling /\ Coded /\ Bare /\ Floats /\ (~hurt => Fit) /\ Built
  BY DEF IInv, JInv
<1> DEFINE seg == segs[job.at]
           new == ensure_global_pq_codebook(bad)
           enc == realize(encode(seg, bad, new.global), bad)
           one == IF seg.by # 0 THEN realize(seg, bad) ELSE enc
<1>1. /\ pc = "build" /\ pc' = "build" /\ job.at \in Places
      /\ job' = [job EXCEPT !.at = @ + 1] /\ UNCHANGED <<conf, dropped>>
      /\ segs' = [segs EXCEPT ![job.at] = one]
      /\ seg.by # 0 => UNCHANGED <<book, global, hurt>>
      /\ seg.by = 0 =>
           /\ MayTrain /\ book' = new.book /\ global' = new.global
           /\ hurt' = (hurt \/ (conf.global /\ new.global = 0 /\ "codes" \notin bad))
  BY DEF BuildSegment
<1>2. seg \in Segment /\ pq_configured /\ (conf.tier = "float" => seg.vectors = "float")
      /\ (seg.by = 0 => ~seg.borrowed)
  BY <1>0, <1>1, ElementOfSeq DEF TypeOK, Places, Built, Floats, NoDangling
<1>3. ASSUME seg.by = 0
      PROVE  /\ enc \in Segment
             /\ enc.by = 0 => enc = seg
             /\ enc.by # 0 => enc.file # 0 /\ enc.vectors = ByTier(enc)
             /\ conf.tier = "float" => enc.vectors = "float"
             /\ ~conf.global => book' = book /\ global' = global
             /\ ~hurt' =>
                  /\ book'.id # 0 => book'.k = conf.k
                  /\ global' \in {0, book'.id}
                  /\ \A s \in Places : conf.global =>
                       segs[s].file \in {0, book'.id} /\ (segs[s].file # 0 => global' # 0)
                  /\ enc.by # 0 =>
                       /\ enc.by = enc.file /\ enc.borrowed = conf.global
                       /\ conf.global => enc.file = book'.id /\ global' # 0
  <2>1. enc \in Segment
    <3>1. new.global \in 0 .. MaxBooks /\ (FreeBooks # {} \/ (conf.global /\ new.global # 0))
      BY <1>0, <1>1, <1>3, Trained
    <3> HIDE DEF new, seg
    <3>2. encode(seg, bad, new.global) \in Segment
      BY <1>0, <1>2, <1>3, <3>1, Encode DEF Borrows
    <3> QED BY <1>0, <3>2, Realize
  <2>2. hurt \in BOOLEAN
    BY <1>0 DEF TypeOK
  <2>3. ~hurt' => Fit /\ ~(conf.global /\ new.global = 0 /\ "codes" \notin bad)
    BY <1>0, <1>1, <1>3, <2>2
  <2>4. book' = new.book /\ global' = new.global
    BY <1>1, <1>3
  <2> HIDE DEF seg
  <2> QED BY <1>0, <1>1, <1>2, <1>3, <2>1, <2>3, <2>4, Encoded DEF new
<1> HIDE DEF enc, new
<1>4. ASSUME seg.by # 0
      PROVE  /\ realize(seg, bad) \in Segment
             /\ LET r == realize(seg, bad) IN
                  /\ r.file = seg.file /\ r.by = seg.by /\ r.borrowed = seg.borrowed
                  /\ r.vectors = ByTier(r) /\ (conf.tier = "float" => r.vectors = "float")
  <2> HIDE DEF seg
  <2> QED BY <1>0, <1>2, <1>4, Realize, RealizeByTier
<1>5. one \in Segment
  BY <1>3, <1>4
<1>6. /\ Places' = Places
      /\ \A s \in Places : segs'[s] = IF s = job.at THEN one ELSE segs[s]
  <2> HIDE DEF one
  <2> QED BY <1>0, <1>1, <1>5, Replaced
<1>7. job'.at = job.at + 1 /\ pq_configured' = pq_configured
  BY <1>0, <1>1 DEF TypeOK, pq_configured
<1>8. \A g : ByTier(g)' = ByTier(g')
  BY <1>1 DEF ByTier
<1>9. Coded'
  BY <1>0, <1>1, <1>2, <1>3, <1>4, <1>6, <1>7 DEF Coded
<1>10. Bare'
  BY <1>0, <1>1, <1>3, <1>4, <1>6 DEF Bare, Waiting
<1>11. Floats'
  BY <1>0, <1>1, <1>3, <1>4, <1>6 DEF Floats
<1>12. Built'
  <2>1. \A s \in Places : s < job.at + 1 => s = job.at \/ s < job.at
    BY <1>0, <1>1 DEF TypeOK, Places
  <2>2. one.by # 0 => one.vectors = ByTier(one)
    BY <1>3, <1>4
  <2>3. job'.at >= 1
    BY <1>0, <1>1, <1>7 DEF Built, TypeOK
  <2> HIDE DEF one
  <2> QED BY <1>0, <1>1, <1>2, <1>6, <1>7, <2>1, <2>2, <2>3 DEF Built, ByTier
<1>13. ~hurt' => Fit'
  <2> SUFFICES ASSUME ~hurt' PROVE Fit'
    OBVIOUS
  <2>1. CASE seg.by # 0
    BY <1>0, <1>1, <1>4, <1>6, <2>1 DEF Fit
  <2>2. CASE seg.by = 0
    <3>1. Fit
      BY <1>0, <1>1, <2>2 DEF TypeOK
    <3>2. one = enc
      BY <2>2
    <3> HIDE DEF one
    <3> QED BY <1>1, <1>3, <1>6, <2>2, <3>1, <3>2 DEF Fit
  <2> QED BY <2>1, <2>2
<1> QED BY <1>1, <1>9, <1>10, <1>11, <1>12, <1>13 DEF JInv, Redone

LEMMA CodesGraph ==
  ASSUME IInv, JInv, NEW bad \in SUBSET Parts, GraphSegment(bad)
  PROVE  JInv'
<1> DEFINE one == graph(segs[job.at], bad)
<1>1. /\ pc = "graph" /\ job.at \in Places /\ segs' = [segs EXCEPT ![job.at] = one]
      /\ UNCHANGED <<conf, book, global, pc, hurt, dropped>>
  BY DEF GraphSegment, disk
<1>2. segs \in Seq(Segment) /\ segs[job.at] \in Segment
  BY <1>1, ElementOfSeq DEF IInv, TypeOK, Places
<1>3. /\ one \in Segment /\ one.file = segs[job.at].file /\ one.by = segs[job.at].by
      /\ one.borrowed = segs[job.at].borrowed /\ one.vectors = segs[job.at].vectors
  BY <1>2, Graph
<1> HIDE DEF one
<1>4. /\ Places' = Places
      /\ \A s \in Places : segs'[s] = IF s = job.at THEN one ELSE segs[s]
  BY <1>1, <1>3, Replaced DEF IInv
<1>5. /\ pq_configured' = pq_configured
      /\ \A s \in Places : segs'[s].file = segs[s].file /\ segs'[s].by = segs[s].by
           /\ segs'[s].borrowed = segs[s].borrowed /\ segs'[s].vectors = segs[s].vectors
  BY <1>1, <1>3, <1>4 DEF pq_configured
<1>6. Coded' /\ Bare' /\ Floats' /\ Redone' /\ Built'
  BY <1>1, <1>4, <1>5 DEF JInv, Coded, Bare, Waiting, Floats, Redone, Built
<1>7. ~hurt' => Fit'
  BY <1>1, <1>4, <1>5 DEF JInv, Fit
<1> QED BY <1>6, <1>7 DEF JInv

LEMMA CodesCompact ==
  ASSUME IInv, JInv, NEW inputs \in SUBSET Places, NEW bad \in SUBSET Parts, compact(inputs, bad)
  PROVE  JInv'
<1>0. TypeOK /\ Coded /\ Bare /\ Floats /\ (~hurt => Fit) /\ hurt \in BOOLEAN
  BY DEF IInv, JInv, TypeOK
<1> DEFINE train == ensure_global_pq_codebook(bad)
           enc   == realize(encode(NewSegment, bad, train.global), bad)
           new   == IF pq_configured THEN train ELSE [book |-> book, global |-> global]
           coded == IF pq_configured THEN realize(encode(NewSegment, bad, new.global), bad) ELSE NewSegment
           out   == graph(coded, bad)
<1>1. /\ book' = new.book /\ global' = new.global
      /\ hurt' = (hurt \/ (conf.global /\ new.global = 0 /\ "codes" \notin bad))
      /\ pc = "idle" /\ pc' = "idle" /\ inputs # {} /\ MayTrain
      /\ UNCHANGED <<conf, dropped>>
      /\ pq_configured \/ bad \subseteq {"graph"}
      /\ \E keep \in Others(inputs) : segs' = Append([i \in DOMAIN keep |-> segs[keep[i]]], out)
  BY DEF compact, Idle
<1>2. PICK keep \in Others(inputs) : segs' = Append([i \in DOMAIN keep |-> segs[keep[i]]], out)
  BY <1>1
<1>3. /\ NewSegment \in Segment /\ NewSegment.by = 0 /\ NewSegment.file = 0
      /\ ~NewSegment.borrowed /\ NewSegment.vectors = "float"
  BY NewOne DEF NewSegment
<1>4. ASSUME pq_configured
      PROVE  /\ coded = enc /\ new = train
             /\ enc \in Segment
             /\ enc.by = 0 => enc = NewSegment
             /\ enc.by # 0 => enc.file # 0
             /\ conf.tier = "float" => enc.vectors = "float"
             /\ ~conf.global => book' = book /\ global' = global
             /\ ~hurt' =>
                  /\ book'.id # 0 => book'.k = conf.k
                  /\ global' \in {0, book'.id}
                  /\ \A s \in Places : conf.global =>
                       segs[s].file \in {0, book'.id} /\ (segs[s].file # 0 => global' # 0)
                  /\ enc.by # 0 =>
                       /\ enc.by = enc.file /\ enc.borrowed = conf.global
                       /\ conf.global => enc.file = book'.id /\ global' # 0
  <2>1. coded = enc /\ new = train
    BY <1>4
  <2>2. enc \in Segment
    <3>1. train.global \in 0 .. MaxBooks /\ (FreeBooks # {} \/ (conf.global /\ train.global # 0))
      BY <1>0, <1>1, Trained
    <3> HIDE DEF train
    <3>2. encode(NewSegment, bad, train.global) \in Segment
      BY <1>0, <1>3, <3>1, Encode DEF Borrows
    <3> QED BY <1>0, <3>2, Realize
  <2>3. /\ ~hurt' => Fit /\ ~(conf.global /\ train.global = 0 /\ "codes" \notin bad)
        /\ book' = train.book /\ global' = train.global
    BY <1>0, <1>1, <2>1
  <2> QED BY <1>0, <1>1, <1>3, <1>4, <2>1, <2>2, <2>3, Encoded
<1>5. ASSUME ~pq_configured
      PROVE  coded = NewSegment /\ book' = book /\ global' = global
  <2>1. new = [book |-> book, global |-> global]
    BY <1>5
  <2> QED BY <1>1, <1>5, <2>1
<1>6. /\ coded \in Segment
      /\ coded.by # 0 => coded.file # 0
      /\ coded.file # 0 => pq_configured
      /\ coded.by = 0 => coded.file = 0 /\ coded.vectors = "float"
      /\ conf.tier = "float" => coded.vectors = "float"
      /\ ~conf.global => book' = book /\ global' = global
      /\ ~hurt' =>
           /\ book'.id # 0 => book'.k = conf.k
           /\ global' \in {0, book'.id}
           /\ \A s \in Places : conf.global =>
                segs[s].file \in {0, book'.id} /\ (segs[s].file # 0 => global' # 0)
           /\ coded.by # 0 =>
                /\ coded.by = coded.file /\ coded.borrowed = conf.global
                /\ conf.global => coded.file = book'.id /\ global' # 0
  <2>1. CASE pq_configured
    <3> HIDE DEF coded, enc, new, train
    <3> QED BY <1>3, <1>4, <2>1
  <2>2. CASE ~pq_configured
    <3>1. ~hurt' => Fit
      BY <1>0, <1>1
    <3> HIDE DEF coded, enc, new, train
    <3> QED BY <1>1, <1>3, <1>5, <2>2, <3>1 DEF Fit
  <2> QED BY <2>1, <2>2
<1> HIDE DEF coded
<1>7. /\ out \in Segment
      /\ out.file = coded.file /\ out.by = coded.by
      /\ out.borrowed = coded.borrowed /\ out.vectors = coded.vectors
  BY <1>6, Graph
<1> HIDE DEF out
<1>8. \A s \in Places' : segs'[s] = out \/ \E t \in Places : segs'[s] = segs[t]
  <2> DEFINE n    == Len(segs) - Cardinality(inputs)
             rest == [i \in DOMAIN keep |-> segs[keep[i]]]
  <2>1. segs \in Seq(Segment) /\ \A s \in Places : segs[s] \in Segment
    BY <1>0, ElementOfSeq DEF TypeOK, Places
  <2>2. n \in Nat
    BY <1>0, <1>1, Kept
  <2>3. keep \in [1 .. n -> Places]
    BY DEF Others
  <2> HIDE DEF n
  <2>4. rest \in [1 .. n -> Segment] /\ \A i \in 1 .. n : rest[i] = segs[keep[i]] /\ keep[i] \in Places
    BY <2>1, <2>3
  <2>5. segs' = Append(rest, out)
    BY <1>2
  <2> HIDE DEF rest
  <2>6. rest \in Seq(Segment) /\ Len(rest) = n
    BY <2>2, <2>4, SeqOfFunction
  <2>7. /\ Places' = 1 .. n + 1 /\ segs'[n + 1] = out
        /\ \A i \in 1 .. n : segs'[i] = rest[i]
    BY <1>7, <2>2, <2>5, <2>6, AppendProperties DEF Places
  <2> SUFFICES ASSUME NEW s \in Places', s # n + 1
               PROVE  \E t \in Places : segs'[s] = segs[t]
    BY <2>7
  <2>8. s \in 1 .. n
    BY <2>2, <2>7
  <2> QED BY <2>4, <2>7, <2>8
<1>9. pq_configured' = pq_configured
  BY <1>1 DEF pq_configured
<1>10. Coded' /\ Bare' /\ Floats' /\ Redone' /\ Built'
  <2>1. Coded'
    BY <1>0, <1>1, <1>6, <1>7, <1>8, <1>9 DEF Coded
  <2>2. Bare'
    BY <1>0, <1>1, <1>6, <1>7, <1>8 DEF Bare, Waiting
  <2>3. Floats'
    BY <1>0, <1>1, <1>6, <1>7, <1>8 DEF Floats
  <2>4. Redone' /\ Built'
    BY <1>1 DEF Redone, Built
  <2> QED BY <2>1, <2>2, <2>3, <2>4
<1>11. ~hurt' => Fit'
  <2> SUFFICES ASSUME ~hurt' PROVE Fit'
    OBVIOUS
  <2>1. Fit
    BY <1>0, <1>1
  <2>2. \A s \in Places : segs[s].by = 0 \/ segs[s].file # 0
    BY <1>0, <1>1 DEF Coded
  <2>3. \A s \in Places' : segs'[s].by \in {0, segs'[s].file}
    BY <1>6, <1>7, <1>8, <2>1 DEF Fit
  <2>4. \A s \in Places' : conf.global => segs'[s].file \in {0, book'.id}
                             /\ (segs'[s].file # 0 => global' # 0)
    BY <1>6, <1>7, <1>8
  <2>5. \A s \in Places' : segs'[s].by # 0 => segs'[s].borrowed = conf.global
    BY <1>1, <1>6, <1>7, <1>8, <2>1 DEF Fit
  <2> QED BY <1>1, <1>6, <2>3, <2>4, <2>5 DEF Fit
<1> QED BY <1>10, <1>11 DEF JInv

LEMMA CodesDropped ==
  ASSUME TypeOK
  PROVE  \A s \in Places : /\ drop_borrowing[s].file = segs[s].file
                           /\ drop_borrowing[s].vectors = segs[s].vectors
                           /\ segs[s].borrowed => drop_borrowing[s].by = 0
<1> SUFFICES ASSUME NEW s \in Places, segs[s].borrowed
             PROVE  /\ drop_borrowing[s].file = segs[s].file
                    /\ drop_borrowing[s].vectors = segs[s].vectors
                    /\ drop_borrowing[s].by = 0
  BY Dropping
<1>1. segs[s] \in Segment
  BY ElementOfSeq DEF TypeOK, Places
<1>2. drop_borrowing[s] = [segs[s] EXCEPT !.by = 0, !.borrowed = FALSE]
  BY DEF drop_borrowing
<1> QED BY <1>1, <1>2 DEF Segment

LEMMA CodesRebuildFails ==
  ASSUME IInv, JInv, NEW trained \in BOOLEAN, RebuildFails(trained)
  PROVE  JInv'
<1>0. TypeOK /\ Coded /\ Bare /\ Floats /\ (~hurt => Fit) /\ hurt \in BOOLEAN
  BY DEF IInv, JInv, TypeOK
<1>1. /\ segs' = drop_borrowing /\ pc = "idle" /\ pc' = "idle" /\ conf.global
      /\ dropped' = (dropped \/ \E s \in Places : segs[s].borrowed)
      /\ hurt' = (hurt \/ trained \/ \E s \in Places : segs[s].file # 0)
      /\ ~trained => global' = 0
      /\ UNCHANGED <<conf, book>>
  BY DEF RebuildFails, MayRebuild, Idle, disk
<1>2. /\ Places' = Places
      /\ \A s \in Places : /\ segs'[s].file = segs[s].file /\ segs'[s].vectors = segs[s].vectors
                           /\ segs[s].borrowed => segs'[s].by = 0
                           /\ ~segs[s].borrowed => segs'[s] = segs[s]
  BY <1>0, <1>1, Dropping, Mapped, CodesDropped
<1>3. pq_configured' = pq_configured
  BY <1>1 DEF pq_configured
<1>4. Coded' /\ Floats' /\ Redone' /\ Built'
  BY <1>0, <1>1, <1>2, <1>3 DEF Coded, Floats, Redone, Built
<1>5. Bare'
  BY <1>0, <1>1, <1>2 DEF Bare, Waiting
<1>6. ~hurt' => Fit'
  BY <1>0, <1>1, <1>2 DEF Fit, Coded
<1> QED BY <1>4, <1>5, <1>6 DEF JInv

LEMMA CodesRebuild ==
  ASSUME IInv, JInv, rebuild_pq_global_codebook
  PROVE  JInv'
<1>0. TypeOK /\ NoDangling /\ Coded /\ Bare /\ Floats
  BY DEF IInv, JInv
<1>1. /\ segs' = drop_borrowing /\ pc = "idle" /\ pc' = "reencode"
      /\ conf.global /\ pq_configured /\ FreeBooks # {}
      /\ book' = [id |-> NewBook, k |-> conf.k]
      /\ job' = [NoJob EXCEPT !.at = 1, !.had = Had]
      /\ hurt' = TRUE /\ UNCHANGED <<conf, dropped>>
  BY DEF rebuild_pq_global_codebook, MayRebuild, Idle
<1>2. /\ Places' = Places
      /\ \A s \in Places : /\ segs'[s].file = segs[s].file /\ segs'[s].vectors = segs[s].vectors
                           /\ segs[s].borrowed => segs'[s].by = 0
                           /\ ~segs[s].borrowed => segs'[s] = segs[s]
  BY <1>0, <1>1, Dropping, Mapped, CodesDropped
<1>3. pq_configured' = pq_configured /\ job'.at = 1 /\ job'.had = Had
  BY <1>1 DEF pq_configured, NoJob
<1>4. Coded' /\ Floats' /\ Built'
  BY <1>0, <1>1, <1>2, <1>3 DEF Coded, Floats, Built
<1>5. Redone'
  <2>1. \A s \in Places : segs[s].file # NewBook
    BY <1>1, NewBookUnused
  <2> QED BY <1>1, <1>2, <2>1 DEF Redone
<1>6. Bare'
  <2>1. \A s \in Places : segs[s].borrowed => s \in Had /\ s >= 1
    BY <1>0 DEF NoDangling, Had, Places, TypeOK
  <2> QED BY <1>0, <1>1, <1>2, <1>3, <2>1 DEF Bare, Waiting
<1> QED BY <1>1, <1>4, <1>5, <1>6 DEF JInv

LEMMA CodesReencode ==
  ASSUME IInv, JInv, NEW bad \in SUBSET Parts, ReencodeSegment(bad)
  PROVE  JInv'
<1>0. TypeOK /\ NoDangling /\ Rebuilding /\ Coded /\ Bare /\ Floats /\ Redone
  BY DEF IInv, JInv
<1> DEFINE one == encode(segs[job.at], bad, global)
<1>1. /\ pc = "reencode" /\ pc' = "reencode" /\ job.at \in Places /\ bad \subseteq {"codes"}
      /\ UNCHANGED <<conf, book, global, hurt>>
      /\ IF job.at \in job.had
         THEN /\ segs' = [segs EXCEPT ![job.at] = one]
              /\ job' = [job EXCEPT !.at = @ + 1, !.ok = @ /\ bad = {}]
              /\ dropped' = (dropped \/ bad # {})
         ELSE /\ job' = [job EXCEPT !.at = @ + 1]
              /\ UNCHANGED <<segs, dropped>>
  BY DEF ReencodeSegment, disk
<1>2. conf.global /\ pq_configured /\ global # 0 /\ book.id = global /\ hurt
  BY <1>0, <1>1 DEF Rebuilding, Redone
<1>3. /\ segs[job.at] \in Segment /\ job \in JobType /\ job.at \in Nat
      /\ global \in 0 .. MaxBooks /\ Borrows(segs[job.at], global)
  BY <1>0, <1>1, ElementOfSeq DEF TypeOK, Places, JobType, NoDangling, Borrows
<1>4. job'.at = job.at + 1 /\ job'.had = job.had
  <2>1. CASE job.at \in job.had
    BY <1>1, <1>3, <2>1 DEF JobType
  <2>2. CASE job.at \notin job.had
    BY <1>1, <1>3, <2>2 DEF JobType
  <2> QED BY <2>1, <2>2
<1>5. one \in Segment
  BY <1>0, <1>2, <1>3, Encode
<1>6. /\ "codes" \in bad => one = segs[job.at]
      /\ "codes" \notin bad => /\ one.file = global /\ one.by = global /\ one.borrowed
                               /\ one.vectors = segs[job.at].vectors
  <2>1. CASE "codes" \in bad
    BY <2>1 DEF encode
  <2>2. CASE "codes" \notin bad
    <3> HIDE DEF one
    <3>1. /\ one.by = one.file /\ one.vectors = segs[job.at].vectors
          /\ one.borrowed = (conf.global /\ global # 0)
          /\ conf.global /\ global # 0 => one.file = global
      BY <1>0, <1>2, <1>3, <2>2, EncodeBy DEF one
    <3> QED BY <1>2, <2>2, <3>1
  <2> QED BY <2>1, <2>2
<1> HIDE DEF one
<1>7. /\ Places' = Places
      /\ \A s \in Places : segs'[s] = IF s = job.at /\ job.at \in job.had THEN one ELSE segs[s]
  <2>1. CASE job.at \in job.had
    BY <1>0, <1>1, <1>5, <2>1, Replaced
  <2>2. CASE job.at \notin job.had
    BY <1>1, <2>2 DEF Places
  <2> QED BY <2>1, <2>2
<1>8. pq_configured' = pq_configured
  BY <1>1 DEF pq_configured
<1>9. Coded' /\ Floats' /\ Built'
  BY <1>0, <1>1, <1>2, <1>6, <1>7, <1>8 DEF Coded, Floats, Built
<1>10. Redone'
  BY <1>0, <1>1, <1>2, <1>6, <1>7 DEF Redone
<1>11. Bare'
  <2> SUFFICES ASSUME ~dropped', NEW s \in Places, segs'[s].by = 0
               PROVE  Waiting(s)' \/ (segs'[s].file = 0 /\ segs'[s].vectors = "float")
    BY <1>7 DEF Bare
  <2>1. ~dropped /\ (job.at \in job.had => "codes" \notin bad)
    BY <1>0, <1>1 DEF TypeOK
  <2>2. segs'[s] = segs[s] /\ ~(s = job.at /\ job.at \in job.had)
    BY <1>2, <1>6, <1>7, <2>1
  <2>3. CASE Waiting(s)
    <3>1. s \in job.had /\ s >= job.at /\ s # job.at /\ s \in Nat
      BY <1>0, <2>2, <2>3 DEF Waiting, Places, TypeOK
    <3>2. s >= job.at + 1
      BY <1>3, <3>1
    <3> QED BY <1>1, <1>4, <3>1, <3>2 DEF Waiting
  <2>4. CASE ~Waiting(s)
    BY <1>0, <1>1, <2>1, <2>2, <2>4 DEF Bare
  <2> QED BY <2>3, <2>4
<1> QED BY <1>1, <1>2, <1>9, <1>10, <1>11 DEF JInv

LEMMA CodesEnd ==
  ASSUME IInv, JInv, RebuildEnd
  PROVE  JInv'
<1>0. TypeOK /\ Rebuilding /\ Coded /\ Bare /\ Floats /\ Redone
  BY DEF IInv, JInv
<1>1. /\ pc = "reencode" /\ job.at \notin Places /\ pc' = "idle" /\ job' = NoJob
      /\ hurt' = (\E s \in Places : segs[s].file \notin {0, book.id})
      /\ UNCHANGED <<conf, book, segs, global, dropped>>
  BY DEF RebuildEnd, disk
<1>2. Places' = Places /\ pq_configured' = pq_configured
  BY <1>1 DEF Places, pq_configured
<1>3. \A s \in Places : ~Waiting(s)
  BY <1>0, <1>1 DEF Rebuilding, Waiting, Places, TypeOK
<1>4. Coded' /\ Bare' /\ Floats' /\ Redone' /\ Built'
  BY <1>0, <1>1, <1>2, <1>3 DEF Coded, Bare, Floats, Redone, Built
<1>5. ~hurt' => Fit'
  <2> SUFFICES ASSUME ~hurt' PROVE Fit'
    OBVIOUS
  <2>1. conf.global = TRUE /\ global # 0 /\ book.id = global /\ book.k = conf.k
    BY <1>0, <1>1 DEF Rebuilding, Redone, TypeOK, Config
  <2>2. \A s \in Places : /\ segs[s].file \in {0, book.id}
                          /\ segs[s].file = book.id => segs[s].by = book.id /\ segs[s].borrowed
                          /\ segs[s].by # 0 => segs[s].file # 0
                          /\ segs[s].borrowed \in BOOLEAN
    <3>1. ASSUME NEW s \in Places PROVE segs[s].borrowed \in BOOLEAN
      <4>1. segs[s] \in Segment
        BY <1>0, ElementOfSeq DEF TypeOK, Places
      <4> QED BY <4>1 DEF Segment
    <3> QED BY <1>0, <1>1, <3>1 DEF Redone, Coded
  <2> QED BY <1>1, <1>2, <2>1, <2>2 DEF Fit
<1> QED BY <1>4, <1>5 DEF JInv

LEMMA CodesForgotten ==
  ASSUME NEW seg \in Segment
  PROVE  /\ Forgotten(seg).by = 0 /\ Forgotten(seg).file = seg.file
         /\ [Forgotten(seg) EXCEPT !.graph = NoGraph].by = 0
         /\ [Forgotten(seg) EXCEPT !.graph = NoGraph].file = seg.file
BY DEF Forgotten, Segment

LEMMA CodesStop ==
  ASSUME IInv, JInv, \/ Stop \/ StopAfterTraining
                     \/ \E tier \in Tiers, n \in 0 .. MaxSegments : StopInTier(tier, n)
  PROVE  JInv'
<1>0. TypeOK /\ Coded /\ (~hurt => Fit)
  BY DEF IInv, JInv
<1>1. pc # "closed" /\ pc' = "closed" /\ global' = 0 /\ UNCHANGED hurt
  BY DEF Stop, StopAfterTraining, StopInTier, Closes, MayTier, Idle
<1>2. /\ conf'.pq = conf.pq /\ conf'.global = conf.global /\ conf'.k = conf.k
      /\ \/ book' = book
         \/ book' = [id |-> NewBook, k |-> conf.k] /\ conf.global /\ global = 0
  <2>1. CASE Stop
    BY <2>1 DEF Stop, disk
  <2>2. CASE StopAfterTraining
    BY <2>2 DEF StopAfterTraining, NeedsTraining
  <2>3. ASSUME NEW tier \in Tiers, NEW n \in 0 .. MaxSegments, StopInTier(tier, n)
        PROVE  /\ conf'.pq = conf.pq /\ conf'.global = conf.global /\ conf'.k = conf.k
               /\ book' = book
    BY <1>0, <2>3 DEF StopInTier, TypeOK, Config
  <2> QED BY <2>1, <2>2, <2>3
<1>3. Places' = Places /\ \A s \in Places : segs'[s].by = 0 /\ segs'[s].file = segs[s].file
  <2>1. \A s \in Places : segs[s] \in Segment
    BY <1>0, ElementOfSeq DEF TypeOK, Places
  <2>2. PICK f \in [Places -> Segment] :
          segs' = f /\ \A s \in Places : f[s].by = 0 /\ f[s].file = segs[s].file
    <3>1. CASE Stop \/ StopAfterTraining
      <4> DEFINE f == [s \in Places |-> Forgotten(segs[s])]
      <4>1. segs' = f
        BY <3>1 DEF Stop, StopAfterTraining
      <4>2. f \in [Places -> Segment] /\ \A s \in Places : f[s].by = 0 /\ f[s].file = segs[s].file
        BY <2>1, Forgetting, CodesForgotten
      <4> QED BY <4>1, <4>2
    <3>2. ASSUME NEW tier \in Tiers, NEW n \in 0 .. MaxSegments, StopInTier(tier, n)
          PROVE  \E f \in [Places -> Segment] :
                   segs' = f /\ \A s \in Places : f[s].by = 0 /\ f[s].file = segs[s].file
      <4> DEFINE bare(s) == [Forgotten(segs[s]) EXCEPT !.graph = NoGraph]
                 f == [s \in Places |-> IF s <= n THEN bare(s) ELSE Forgotten(segs[s])]
      <4>1. segs' = f
        BY <3>2 DEF StopInTier
      <4>2. \A s \in Places : bare(s) \in Segment /\ bare(s).by = 0 /\ bare(s).file = segs[s].file
        BY <2>1, Forgetting, CodesForgotten
      <4>3. \A s \in Places : /\ Forgotten(segs[s]) \in Segment
                              /\ Forgotten(segs[s]).by = 0 /\ Forgotten(segs[s]).file = segs[s].file
        BY <2>1, Forgetting, CodesForgotten
      <4> HIDE DEF bare
      <4>4. f \in [Places -> Segment] /\ \A s \in Places : f[s].by = 0 /\ f[s].file = segs[s].file
        BY <4>2, <4>3
      <4> QED BY <4>1, <4>4
    <3> QED BY <3>1, <3>2
  <2> QED BY <1>0, <2>2, Mapped
<1>4. pq_configured' = pq_configured
  BY <1>2 DEF pq_configured
<1>5. Coded'
  BY <1>0, <1>1, <1>2, <1>3, <1>4 DEF Coded
<1>6. Bare' /\ Floats' /\ Redone' /\ Built'
  BY <1>1 DEF Bare, Floats, Redone, Built
<1>7. ~hurt' => Fit'
  BY <1>0, <1>1, <1>2, <1>3 DEF Fit
<1> QED BY <1>5, <1>6, <1>7 DEF JInv

LEMMA CodesOpen ==
  ASSUME IInv, JInv, open
  PROVE  JInv'
<1>0. TypeOK /\ Coded /\ (~hurt => Fit)
  BY DEF IInv, JInv
<1> DEFINE glo == load_pq_codebook
           one(s) == append_segment(segs[s], glo)
           load(s) == load_segment_pq_vectors(segs[s], glo)
<1>1. /\ pc' = "idle" /\ global' = glo
      /\ segs' = [s \in Places |-> one(s)]
      /\ UNCHANGED <<conf, book, hurt, dropped>>
  BY DEF open, disk, hist
<1>2. glo \in 0 .. MaxBooks /\ glo \in {0, book.id}
      /\ (conf.global /\ book.k = conf.k => glo = book.id)
      /\ (~conf.global => glo = 0)
  BY <1>0, PqAssumption DEF load_pq_codebook, TypeOK
<1>3. \A s \in Places : segs[s] \in Segment
  BY <1>0, ElementOfSeq DEF TypeOK, Places
<1> HIDE DEF glo
<1>4. ASSUME NEW s \in Places
      PROVE  /\ one(s) \in Segment
             /\ one(s).file = segs[s].file
             /\ segs[s].file = 0 => one(s).by = 0
             /\ segs[s].file # 0 => /\ one(s).borrowed = (conf.global /\ glo # 0)
                                    /\ one(s).by = IF conf.global /\ glo # 0 THEN glo ELSE segs[s].file
             /\ one(s).by = 0 \/ conf.tier = "float" => one(s).vectors = "float"
  <2>1. load(s) \in Segment
    BY <1>0, <1>2, <1>3, Load
  <2>2. /\ load(s).file = segs[s].file
        /\ segs[s].file = 0 => load(s).by = 0
        /\ segs[s].file # 0 => /\ load(s).borrowed = (conf.global /\ glo # 0)
                               /\ load(s).by = IF conf.global /\ glo # 0 THEN glo ELSE segs[s].file
    <3>1. segs[s].file # 0 => pq_configured
      BY <1>0 DEF Coded
    <3> QED BY <1>0, <1>2, <1>3, <3>1, LoadBy
  <2>3. one(s) = [load(s) EXCEPT !.vectors =
                    CASE load(s).by = 0 \/ conf.tier = "float" -> "float"
                      [] load(s).by # 0 /\ conf.tier = "int8" /\ load(s).pqr -> "int8"
                      [] OTHER -> "none"]
    BY DEF append_segment
  <2> HIDE DEF load
  <2>4. /\ one(s).file = load(s).file /\ one(s).by = load(s).by /\ one(s).borrowed = load(s).borrowed
        /\ load(s).by = 0 \/ conf.tier = "float" => one(s).vectors = "float"
    BY <2>1, <2>3 DEF Segment
  <2>5. one(s) \in Segment
    BY <1>0, <1>2, <1>3, AppendSegment
  <2> HIDE DEF one
  <2> QED BY <2>2, <2>4, <2>5
<1> HIDE DEF one
<1>5. Places' = Places /\ \A s \in Places : segs'[s] = one(s)
  <2> DEFINE f == [s \in Places |-> one(s)]
  <2>1. f \in [Places -> Segment]
    BY <1>4
  <2>2. segs' = f
    BY <1>1
  <2> HIDE DEF f
  <2>3. Places' = Places /\ \A s \in Places : segs'[s] = f[s]
    BY <1>0, <2>1, <2>2, Mapped
  <2> QED BY <2>3 DEF f
<1>6. pq_configured' = pq_configured
  BY <1>1 DEF pq_configured
<1>7. \A s \in Places : one(s).by = 0 <=> segs[s].file = 0
  BY <1>4
<1>8. Coded' /\ Bare' /\ Floats' /\ Redone' /\ Built'
  BY <1>0, <1>1, <1>2, <1>4, <1>5, <1>6, <1>7 DEF Coded, Bare, Floats, Redone, Built
<1>9. ~hurt' => Fit'
  <2> SUFFICES ASSUME ~hurt' PROVE Fit'
    OBVIOUS
  <2>1. Fit /\ conf.global \in BOOLEAN
    BY <1>0, <1>1 DEF TypeOK, Config
  <2>2. \A s \in Places : conf.global /\ segs[s].file # 0 => glo # 0 /\ glo = segs[s].file
    BY <1>2, <2>1 DEF Fit
  <2>3. \A s \in Places : one(s).by # 0 => one(s).borrowed = conf.global
    BY <1>2, <1>4, <1>7, <2>1, <2>2
  <2>4. \A s \in Places : one(s).by \in {0, one(s).file}
    BY <1>4, <2>2
  <2> QED BY <1>1, <1>2, <1>4, <1>5, <2>1, <2>2, <2>3, <2>4 DEF Fit
<1> QED BY <1>8, <1>9 DEF JInv

LEMMA CodesNext == IInv /\ JInv /\ [Next]_vars => JInv'
<1> SUFFICES ASSUME IInv, JInv, [Next]_vars PROVE JInv'
  OBVIOUS
<1>1. CASE Configure
  BY <1>1, CodesConfig, CodesTier DEF Configure
<1>2. CASE Write
  <2> SUFFICES ASSUME NEW bad \in SUBSET Parts,
                      \/ \E eager \in BOOLEAN : flush(eager, bad)
                      \/ BuildSegment(bad) \/ GraphSegment(bad) \/ ReencodeSegment(bad)
                      \/ \E inputs \in SUBSET Places : compact(inputs, bad)
               PROVE  JInv'
    BY <1>2 DEF Write
  <2>1. CASE \E eager \in BOOLEAN : flush(eager, bad)
    BY <2>1, CodesFlush
  <2>2. CASE BuildSegment(bad)
    BY <2>2, CodesBuild
  <2>3. CASE GraphSegment(bad)
    BY <2>3, CodesGraph
  <2>4. CASE ReencodeSegment(bad)
    BY <2>4, CodesReencode
  <2>5. CASE \E inputs \in SUBSET Places : compact(inputs, bad)
    BY <2>5, CodesCompact
  <2> QED BY <2>1, <2>2, <2>3, <2>4, <2>5
<1>3. CASE Loops
  BY <1>3, CodesLoop, CodesRebuild, CodesEnd, CodesRebuildFails DEF Loops
<1>4. CASE Stops
  BY <1>4, CodesStop, CodesOpen DEF Stops
<1>5. CASE UNCHANGED vars
  <2>1. UNCHANGED <<conf, book, segs, global, pc, job, hurt, dropped>>
    BY <1>5 DEF vars, disk, hist
  <2>2. Places' = Places /\ pq_configured' = pq_configured
    BY <2>1 DEF Places, pq_configured
  <2>3. Coded' /\ Bare' /\ Floats' /\ Redone'
    BY <2>1, <2>2 DEF JInv, Coded, Bare, Waiting, Floats, Redone
  <2>4. Built' /\ (~hurt' => Fit')
    BY <2>1, <2>2 DEF JInv, Built, ByTier, Fit
  <2> QED BY <2>3, <2>4 DEF JInv
<1> QED BY <1>1, <1>2, <1>3, <1>4, <1>5 DEF Next

-----------------------------------------------------------------------------
(* The theorems *)

LEMMA CodesInvariance == Spec => []JInv
<1>1. JInv /\ IInv /\ [Next]_vars => JInv'
  BY CodesNext
<1> QED BY CodesInit, <1>1, Invariance, PTL DEF Spec

(* In an index where global mode and k came before the codes, no segment   *)
(* trained a codebook of its own and the last rebuild was completed, the   *)
(* codes of all segments are decoded with the codebook that encoded them,  *)
(* and in global mode that is one and the same, the saved one.             *)
THEOREM CodesAlwaysFit == Spec => []CodesFit
<1>1. JInv => CodesFit
  BY DEF JInv, Fit, CodesFit, DecodedAsEncoded
<1> QED BY <1>1, CodesInvariance, PTL

(* When build_pq()'s loop is through, closing and opening the index would  *)
(* leave each segment's codes, codebook and resident vectors as they are:  *)
(* a search finds the same before a restart and after it.                  *)
THEOREM AlwaysBuiltAsLoaded == Spec => BuiltAsLoaded
<1>1. ASSUME IInv, JInv, [Next]_vars, pc = "build", pc' \in {"idle", "graph"}, ~hurt, ~dropped
      PROVE  \A s \in Places : segs'[s] = append_segment(segs[s], load_pq_codebook)
  <2>1. BuildEnd
    BY <1>1 DEF Next, Configure, Write, Loops, Stops, Idle, hist, vars,
                set_hnsw_config, set_pq_global_codebook, set_pq_k, set_pq_config,
                set_pq_resident_tier, MayTier, flush, compact, BuildSegment, GraphSegment,
                ReencodeSegment, build_pq, build_hnsw, GraphEnd,
                rebuild_pq_global_codebook, MayRebuild, RebuildFails, RebuildEnd,
                Stop, StopAfterTraining, StopInTier, Closes, open
  <2>2. job.at \notin Places /\ segs' = segs
    BY <2>1 DEF BuildEnd, disk
  <2>3. TypeOK /\ NoDangling /\ Coded /\ Bare /\ Floats /\ Fit /\ Built
    BY <1>1 DEF IInv, JInv
  <2>4. pq_configured /\ \A s \in Places : s < job.at
    BY <1>1, <2>2, <2>3 DEF Built, TypeOK, Places
  <2> SUFFICES ASSUME NEW s \in Places
               PROVE  segs[s] = append_segment(segs[s], load_pq_codebook)
    BY <2>2
  <2> DEFINE seg  == segs[s]
             glo  == load_pq_codebook
             load == load_segment_pq_vectors(seg, glo)
  <2>5. seg \in Segment /\ glo \in 0 .. MaxBooks /\ conf.global \in BOOLEAN
    BY <2>3, ElementOfSeq, PqAssumption DEF TypeOK, Places, Config, load_pq_codebook
  <2>6. /\ conf.global /\ seg.file # 0 => glo # 0 /\ glo = seg.file
        /\ seg.by \in {0, seg.file}
        /\ seg.by = 0 <=> seg.file = 0
        /\ seg.by = 0 => seg.vectors = "float" /\ seg.borrowed = FALSE
        /\ seg.by # 0 => seg.vectors = ByTier(seg) /\ seg.borrowed = conf.global
    <3>1. seg.borrowed \in BOOLEAN
      BY <2>5 DEF Segment
    <3>2. seg.by = 0 => seg.vectors = "float" /\ seg.file = 0 /\ seg.borrowed = FALSE
      BY <1>1, <2>3, <3>1 DEF Bare, Waiting, NoDangling
    <3>3. seg.by # 0 => seg.vectors = ByTier(seg) /\ seg.borrowed = conf.global /\ seg.file # 0
      BY <1>1, <2>3, <2>4 DEF Built, Fit, Coded
    <3>4. conf.global /\ seg.file # 0 => glo # 0 /\ glo = seg.file
      BY <1>1, <2>3 DEF Fit, load_pq_codebook
    <3> QED BY <2>3, <3>2, <3>3, <3>4 DEF Fit
  <2> HIDE DEF glo, seg
  <2>7. load \in Segment /\ load.graph = seg.graph
    BY <2>3, <2>5, Load
  <2>8. /\ load.file = seg.file /\ load.vectors = seg.vectors /\ load.pqr = seg.pqr
        /\ seg.file = 0 => load.by = 0 /\ load.borrowed = FALSE
        /\ seg.file # 0 => /\ load.borrowed = (conf.global /\ glo # 0)
                           /\ load.by = IF conf.global /\ glo # 0 THEN glo ELSE seg.file
    BY <2>3, <2>4, <2>5, LoadBy
  <2>9. append_segment(seg, glo) =
          [load EXCEPT !.vectors = CASE load.by = 0 \/ conf.tier = "float" -> "float"
                                     [] load.by # 0 /\ conf.tier = "int8" /\ load.pqr -> "int8"
                                     [] OTHER -> "none"]
    BY DEF append_segment
  <2> HIDE DEF load
  <2>10. load.by = seg.by /\ load.borrowed = seg.borrowed
    BY <2>5, <2>6, <2>8
  <2>11. load = seg
    BY <2>5, <2>7, <2>8, <2>10 DEF Segment
  <2>12. (CASE load.by = 0 \/ conf.tier = "float" -> "float"
            [] load.by # 0 /\ conf.tier = "int8" /\ load.pqr -> "int8"
            [] OTHER -> "none") = seg.vectors
    BY <2>6, <2>11 DEF ByTier
  <2>13. append_segment(seg, glo) = seg
    BY <2>5, <2>9, <2>11, <2>12 DEF Segment
  <2> QED BY <2>13 DEF seg, glo
<1>2. IInv /\ JInv /\ [Next]_vars =>
        [pc = "build" /\ pc' \in {"idle", "graph"} /\ ~hurt /\ ~dropped =>
           \A s \in Places : segs'[s] = append_segment(segs[s], load_pq_codebook)]_vars
  BY <1>1
<1> QED BY Invariance, CodesInvariance, <1>2, PTL DEF Spec, BuiltAsLoaded
=============================================================================
