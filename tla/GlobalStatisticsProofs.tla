----------------------- MODULE GlobalStatisticsProofs -----------------------
(***************************************************************************)
(* For every set of generations and every bound on the documents, poking   *)
(* the global N into the engines never disturbs the numbers the index      *)
(* computes with, as long as no engine is opened on an empty segment: an   *)
(* engine without documents has 0 as its own number, which                 *)
(* set_global_document_statistics() takes for "nothing saved yet".  Under  *)
(* the same condition an index whose searches are up to date ranks every   *)
(* segment with the number of documents of the whole collection, unless a  *)
(* call has failed between a change and its refresh.  N is a               *)
(* sum over the open engines, which comes from the recursive function of a *)
(* fold; what a sum over a finite set is known by is proved first, with a  *)
(* smallest counterexample in the place of an induction.                   *)
(***************************************************************************)
EXTENDS GlobalStatistics, FiniteSetTheorems, TLAPS

(* An engine over a segment with documents that reports its own number,    *)
(* and has saved it or saved nothing.                                      *)
Good(e) ==
  /\ DOMAIN e = {"own", "dead", "documents", "saved", "ranked"}
  /\ e.own # 0
  /\ e.documents = e.own
  /\ e.saved \in {0, e.own}

(* Whatever N is applied, the engine ends up reporting its own number.     *)
LEMMA ApplyGood ==
  ASSUME NEW e, Good(e), NEW n
  PROVE  Good(Apply(e, n))
<1> DEFINE poked    == SetStatistics(e, n)
           reranked == Rerank(poked)
<1>1. /\ DOMAIN poked = DOMAIN e /\ poked.own = e.own /\ poked.saved = e.own
  BY DEF Good, SetStatistics
<1>2. /\ DOMAIN reranked = DOMAIN e /\ reranked.own = e.own /\ reranked.saved = e.own
  BY <1>1 DEF Good, Rerank
<1>3. Apply(e, n) = SetStatistics(reranked, 0)
  BY DEF Apply
<1> HIDE DEF poked, reranked
<1>4. LET r == SetStatistics(reranked, 0)
      IN  DOMAIN r = DOMAIN e /\ r.own = e.own /\ r.saved = e.own /\ r.documents = e.own
  BY <1>2 DEF Good, SetStatistics
<1> QED
  BY <1>3, <1>4 DEF Good

-----------------------------------------------------------------------------
(* Sums over finite functions *)

(* The element a sum takes out of s first.                                 *)
Chosen(s) == CHOOSE x \in s : TRUE

(* h[s], for every s in sets, is the sum of f over s.                      *)
PartialSums(f, sets, h) ==
  h = [s \in sets |-> IF s = {} THEN 0 ELSE f[Chosen(s)] + h[s \ {Chosen(s)}]]

(* The partial sums a fold of + computes.                                  *)
SumOver(f) == CHOOSE h : PartialSums(f, SUBSET DOMAIN f, h)

(* SumFunction is the partial sum over the whole domain.                   *)
LEMMA SumUnfolded ==
  ASSUME NEW f
  PROVE  Sum(f) = SumOver(f)[DOMAIN f]
  BY Zenon DEF Sum, SumFunction, SumFunctionOnSet, FoldFunctionOnSet, MapThenFoldSet,
               SumOver, PartialSums, Chosen

(* The element taken out is there.                                         *)
LEMMA ChosenIsMember ==
  ASSUME NEW s, s # {}
  PROVE  Chosen(s) \in s
  BY DEF Chosen

(* Among sets of subsets of a finite set there is always a smallest one,    *)
(* which stands in for induction.                                          *)
LEMMA SmallestSubset ==
  ASSUME NEW D, IsFiniteSet(D), NEW T, T \subseteq SUBSET D, T # {}
  PROVE  \E s \in T : \A t \in T : t \subseteq s => t = s
<1>1. IsWellFoundedOn(StrictSubsetOrdering(D), SUBSET D)
  BY FS_StrictSubsetOrderingWellFounded, FS_FiniteSubsetsOfFinite
<1>2. PICK s \in T : \A t \in T : <<t, s>> \notin StrictSubsetOrdering(D)
  BY <1>1, WFMin
<1> QED
  BY <1>2 DEF StrictSubsetOrdering

(* The recursion of the fold has a solution.                               *)
LEMMA PartialSumsExist ==
  ASSUME NEW f, IsFiniteSet(DOMAIN f)
  PROVE  \E h : PartialSums(f, SUBSET DOMAIN f, h)
<1> DEFINE D == DOMAIN f
           UpTo(n) == {t \in SUBSET D : Cardinality(t) <= n}
           T == {s \in SUBSET D : ~ \E h : PartialSums(f, UpTo(Cardinality(s)), h)}
<1>1. \A s \in SUBSET D : IsFiniteSet(s) /\ Cardinality(s) \in Nat /\ Cardinality(s) <= Cardinality(D)
  BY FS_Subset, FS_CardinalityType
<1>2. UpTo(Cardinality(D)) = SUBSET D
  BY <1>1
<1>3. SUFFICES ASSUME D \in T PROVE FALSE
  BY <1>2
<1>4. PICK s \in T : \A t \in T : t \subseteq s => t = s
  <2>1. T \subseteq SUBSET D /\ T # {}
    BY <1>3
  <2> HIDE DEF T
  <2> QED
    BY <2>1, SmallestSubset
<1>5. CASE s = {}
  <2>1. UpTo(Cardinality(s)) = {{}}
    BY <1>1, <1>5, FS_EmptySet
  <2>2. PartialSums(f, UpTo(Cardinality(s)), [t \in {{}} |-> 0])
    BY <2>1 DEF PartialSums
  <2> QED
    BY <2>2
<1>6. CASE s # {}
  <2> DEFINE r == s \ {Chosen(s)}
  <2>1. r \in SUBSET D /\ r \subseteq s /\ r # s
    BY <1>6, ChosenIsMember
  <2>2. Cardinality(r) = Cardinality(s) - 1
    BY <1>1, <1>6, ChosenIsMember, FS_RemoveElement
  <2>3. PICK h : PartialSums(f, UpTo(Cardinality(s) - 1), h)
    BY <1>4, <2>1, <2>2
  <2> DEFINE k == [t \in UpTo(Cardinality(s)) |->
                     IF t = {} THEN 0 ELSE f[Chosen(t)] + h[t \ {Chosen(t)}]]
  <2>4. ASSUME NEW t \in UpTo(Cardinality(s)), t # {}
        PROVE  k[t \ {Chosen(t)}] = h[t \ {Chosen(t)}]
    <3> DEFINE u == t \ {Chosen(t)}
    <3>1. u \in SUBSET D /\ Cardinality(u) = Cardinality(t) - 1
      BY <1>1, <2>4, ChosenIsMember, FS_RemoveElement
    <3>2. u \in UpTo(Cardinality(s) - 1) /\ u \in UpTo(Cardinality(s))
      BY <1>1, <2>4, <3>1
    <3> HIDE DEF u, UpTo
    <3>3. h[u] = IF u = {} THEN 0 ELSE f[Chosen(u)] + h[u \ {Chosen(u)}]
      BY <2>3, <3>2 DEF PartialSums
    <3>4. k[u] = IF u = {} THEN 0 ELSE f[Chosen(u)] + h[u \ {Chosen(u)}]
      BY <3>2
    <3> QED
      BY <3>3, <3>4 DEF u
  <2> HIDE DEF UpTo
  <2>5. PartialSums(f, UpTo(Cardinality(s)), k)
    BY <2>4 DEF PartialSums
  <2> QED
    BY <2>5
<1> QED
  BY <1>5, <1>6

(* A sum of numbers is a number, and none of them exceeds it.              *)
LEMMA SumBounds ==
  ASSUME NEW f, IsFiniteSet(DOMAIN f), \A g \in DOMAIN f : f[g] \in Nat
  PROVE  /\ Sum(f) \in Nat
         /\ \A g \in DOMAIN f : f[g] <= Sum(f)
<1> DEFINE h == SumOver(f)
           Bounds(s) == h[s] \in Nat /\ \A g \in s : f[g] <= h[s]
           T == {s \in SUBSET DOMAIN f : ~Bounds(s)}
<1>1. PartialSums(f, SUBSET DOMAIN f, h)
  BY PartialSumsExist DEF SumOver
<1> HIDE DEF h
<1>2. \A s \in SUBSET DOMAIN f :
        h[s] = IF s = {} THEN 0 ELSE f[Chosen(s)] + h[s \ {Chosen(s)}]
  BY <1>1 DEF PartialSums
<1>3. SUFFICES T = {}
  BY <1>3, SumUnfolded DEF h
<1>4. SUFFICES ASSUME T # {} PROVE FALSE
  OBVIOUS
<1>5. PICK s \in T : \A t \in T : t \subseteq s => t = s
  <2>1. T \subseteq SUBSET DOMAIN f
    OBVIOUS
  <2> HIDE DEF T
  <2> QED
    BY <1>4, <2>1, SmallestSubset
<1>6. s # {}
  BY <1>2, <1>5
<1>7. Chosen(s) \in s
  BY <1>6, ChosenIsMember
<1>8. Bounds(s \ {Chosen(s)})
  BY <1>5, <1>7
<1>9. h[s] = f[Chosen(s)] + h[s \ {Chosen(s)}]
  BY <1>2, <1>5, <1>6
<1>10. Bounds(s)
  <2>1. f[Chosen(s)] \in Nat /\ \A g \in s : f[g] \in Nat
    BY <1>5, <1>7
  <2> QED
    BY <1>8, <1>9, <2>1
<1> QED
  BY <1>5, <1>10

-----------------------------------------------------------------------------
(* The inductive invariant *)

(* TypeOK's engines.                                                       *)
EngineType == [own : Nat, dead : Nat, documents : Nat, saved : Nat, ranked : Nat]

(* An engine as the index keeps it between calls.                          *)
Kept(e) == e \in EngineType /\ Good(e) /\ e.dead <= e.own

(* e ranks with N = n when the feature is on, and with its own number.     *)
RanksWith(e, on, n) == e.ranked = IF on THEN n ELSE e.own

(* Every open engine, and the view of the memory segment, ranks with N.    *)
AllRanked ==
  /\ \A g \in DOMAIN engines : RanksWith(engines[g], enabled, Stored)
  /\ wrapper # NoEngine => RanksWith(wrapper, enabled, Stored)

(* What is open.                                                           *)
Open ==
  /\ DOMAIN engines \subseteq Generations
  /\ IsFiniteSet(DOMAIN engines)
  /\ \A g \in DOMAIN engines : Kept(engines[g])

(* The memory segment has a view only while it has documents.              *)
Viewed ==
  /\ writer \in [docs : 0 .. MaxDocs, dead : 0 .. MaxDocs]
  /\ writer.dead <= writer.docs
  /\ wrapper # NoEngine => Kept(wrapper) /\ writer.docs # 0

(* What the manifest lists has documents.                                  *)
Listed ==
  /\ DOMAIN disk \subseteq Generations
  /\ IsFiniteSet(DOMAIN disk)
  /\ \A g \in DOMAIN disk : /\ disk[g] \in [docs : Nat, dead : Nat]
                            /\ disk[g].docs # 0 /\ disk[g].dead <= disk[g].docs

(* The manifest has the documents of the engines es as they are.           *)
Matches(es) == \A g \in DOMAIN es \cap DOMAIN disk : disk[g].docs = es[g].own

(* RankedGlobally is not inductive: a search on an empty memory segment     *)
(* ends the staleness without a refresh, so the engines have to be up to   *)
(* date already.                                                           *)
UpToDate == ~missed /\ (~stale \/ writer.docs = 0) => AllRanked

(* The inductive invariant.                                                *)
RInv ==
  /\ Open /\ Viewed /\ Listed /\ Matches(engines) /\ UpToDate
  /\ stale \in BOOLEAN /\ writable \in BOOLEAN /\ enabled \in BOOLEAN /\ missed \in BOOLEAN

-----------------------------------------------------------------------------
(* One engine, and one refresh *)

(* What is said of the manifest and of the flags.                          *)
Settled ==
  /\ Listed
  /\ stale \in BOOLEAN /\ writable \in BOOLEAN /\ enabled \in BOOLEAN /\ missed \in BOOLEAN

(* A freshly opened engine over n documents.                               *)
LEMMA EngineKept ==
  ASSUME NEW n \in Nat \ {0}, NEW dead \in Nat, dead <= n
  PROVE  Kept(Engine(n, dead)) /\ Engine(n, dead).own = n
  BY DEF Kept, Good, EngineType, Engine

(* An engine ranks with the N applied to it, 0 standing for its own.       *)
LEMMA ApplyRanks ==
  ASSUME NEW e, Kept(e), NEW n \in Nat
  PROVE  /\ Kept(Apply(e, n))
         /\ Apply(e, n).own = e.own
         /\ Apply(e, n).ranked = IF n = 0 THEN e.own ELSE n
<1> DEFINE poked    == SetStatistics(e, n)
           reranked == Rerank(poked)
<1>1. e \in EngineType /\ e.own # 0 /\ e.documents = e.own /\ e.saved \in {0, e.own}
  BY DEF Kept, Good
<1>2. /\ poked \in EngineType
      /\ poked.own = e.own /\ poked.dead = e.dead /\ poked.saved = e.own
      /\ poked.documents = IF n = 0 THEN e.own ELSE n
  BY <1>1 DEF SetStatistics, EngineType
<1> HIDE DEF poked
<1>3. /\ reranked \in EngineType
      /\ reranked.own = e.own /\ reranked.dead = e.dead /\ reranked.saved = e.own
      /\ reranked.ranked = IF n = 0 THEN e.own ELSE n
  BY <1>2 DEF Rerank, EngineType
<1>4. Apply(e, n) = SetStatistics(reranked, 0)
  BY DEF Apply, poked
<1> HIDE DEF reranked
<1>5. LET r == SetStatistics(reranked, 0)
      IN  /\ r \in EngineType
          /\ r.own = e.own /\ r.dead = e.dead
          /\ r.ranked = IF n = 0 THEN e.own ELSE n
  BY <1>1, <1>3 DEF SetStatistics, EngineType
<1>6. Good(Apply(e, n))
  BY ApplyGood DEF Kept
<1> QED
  BY <1>4, <1>5, <1>6 DEF Kept

(* A kept engine is an engine: its own number is not 0.                    *)
LEMMA KeptIsEngine == ASSUME NEW e, Kept(e) PROVE e # NoEngine
  BY DEF Kept, Good, NoEngine, Engine

(* The documents of finitely many kept engines add up.                     *)
LEMMA OwnSum ==
  ASSUME NEW es, IsFiniteSet(DOMAIN es), \A g \in DOMAIN es : Kept(es[g])
  PROVE  /\ Sum([g \in DOMAIN es |-> es[g].own]) \in Nat
         /\ \A g \in DOMAIN es : es[g].own <= Sum([h \in DOMAIN es |-> es[h].own])
<1> DEFINE f == [g \in DOMAIN es |-> es[g].own]
<1>1. DOMAIN f = DOMAIN es /\ \A g \in DOMAIN f : f[g] = es[g].own /\ f[g] \in Nat
  BY DEF Kept, EngineType
<1> HIDE DEF f
<1>2. Sum(f) \in Nat /\ \A g \in DOMAIN f : f[g] <= Sum(f)
  BY <1>1, SumBounds
<1> QED
  BY <1>1, <1>2 DEF f

(* A refresh ranks every engine with the documents there are.              *)
LEMMA RefreshRanks ==
  ASSUME NEW es, IsFiniteSet(DOMAIN es), \A g \in DOMAIN es : Kept(es[g]),
         NEW w, w.docs \in Nat,
         NEW v, v # NoEngine => Kept(v) /\ w.docs # 0,
         NEW on \in BOOLEAN,
         Refresh(es, w, v, on), writer' = w, enabled' = on
  PROVE  /\ DOMAIN engines' = DOMAIN es
         /\ \A g \in DOMAIN engines' : Kept(engines'[g]) /\ engines'[g].own = es[g].own
         /\ wrapper' # NoEngine => v # NoEngine /\ Kept(wrapper')
         /\ AllRanked'
<1> DEFINE n == Sum([g \in DOMAIN es |-> es[g].own]) + w.docs
<1>1. n \in Nat /\ \A g \in DOMAIN es : es[g].own <= n
  BY OwnSum DEF Kept, EngineType
<1>2. Total(es, w) = n
  <2>1. [g \in DOMAIN es |-> es[g].documents] = [g \in DOMAIN es |-> es[g].own]
    BY DEF Kept, Good
  <2> QED
    BY <2>1 DEF Total
<1>3. (v # NoEngine \/ DOMAIN es # {}) => n # 0
  BY <1>1, OwnSum DEF Kept, Good, EngineType
<1>4. ASSUME NEW k \in Nat, ApplyAll(es, v, k), k = IF on THEN n ELSE 0
      PROVE  /\ DOMAIN engines' = DOMAIN es
             /\ \A g \in DOMAIN engines' : Kept(engines'[g]) /\ engines'[g].own = es[g].own
             /\ wrapper' # NoEngine => v # NoEngine /\ Kept(wrapper')
             /\ AllRanked'
  <2> HIDE DEF n
  <2>1. /\ engines' = [g \in DOMAIN es |-> Apply(es[g], k)]
        /\ v = NoEngine => wrapper' = NoEngine
        /\ v # NoEngine => wrapper' = Apply(v, k)
    BY <1>4 DEF ApplyAll
  <2>2. \A g \in DOMAIN es : /\ Kept(engines'[g]) /\ engines'[g].own = es[g].own
                             /\ engines'[g].ranked = IF k = 0 THEN es[g].own ELSE k
    BY <2>1, ApplyRanks
  <2>3. v # NoEngine => /\ Kept(wrapper') /\ wrapper'.own = v.own
                        /\ wrapper'.ranked = IF k = 0 THEN v.own ELSE k
    BY <2>1, ApplyRanks
  <2>4. DOMAIN engines' = DOMAIN es
    BY <2>1
  <2>5. [g \in DOMAIN engines' |-> engines'[g].own] = [g \in DOMAIN es |-> es[g].own]
    BY <2>2, <2>4
  <2>6. Stored' = n
    BY <2>5 DEF Stored, n
  <2>7. \A g \in DOMAIN engines' : RanksWith(engines'[g], on, n)
    BY <1>3, <1>4, <2>2, <2>4 DEF RanksWith
  <2>8. wrapper' # NoEngine => RanksWith(wrapper', on, n)
    BY <1>3, <1>4, <2>1, <2>3 DEF RanksWith
  <2>9. AllRanked'
    BY <2>6, <2>7, <2>8 DEF AllRanked
  <2> QED
    BY <2>1, <2>2, <2>3, <2>4, <2>9
<1>5. CASE ~on /\ ApplyAll(es, v, 0)
  BY <1>4, <1>5
<1>6. CASE on /\ ApplyAll(es, v, Total(es, w))
  BY <1>1, <1>2, <1>4, <1>6
<1>7. CASE ~Measured(es, v) /\ engines' = es /\ wrapper' = v
  <2>1. DOMAIN es = {} /\ v = NoEngine
    BY <1>7 DEF Measured, Kept, Good, EngineType
  <2> QED
    BY <1>7, <2>1 DEF AllRanked
<1> QED
  BY <1>5, <1>6, <1>7 DEF Refresh

-----------------------------------------------------------------------------
(* The calls *)

(* No engine is open before the first flush.                               *)
LEMMA InitR == Init => RInv
<1> SUFFICES ASSUME Init PROVE RInv
  OBVIOUS
<1>1. DOMAIN engines = {} /\ DOMAIN disk = {} /\ wrapper = NoEngine /\ writer = NewWriter
  BY DEF Init, Image
<1>2. Open /\ Listed /\ Matches(engines)
  BY <1>1, FS_EmptySet DEF Open, Listed, Matches
<1>3. Viewed
  BY <1>1, GlobalStatisticsAssumption DEF Viewed, NewWriter
<1>4. UpToDate
  BY <1>1 DEF UpToDate, AllRanked
<1> QED
  BY <1>2, <1>3, <1>4 DEF RInv, Init

(* What the engines and the memory segment hold is a number.               *)
LEMMA StoredIsNat ==
  ASSUME RInv
  PROVE  /\ Stored \in Nat /\ writer.docs \in Nat /\ writer.docs <= Stored
  BY OwnSum DEF RInv, Open, Viewed, Stored

(* A call that ends in a refresh keeps the invariant.                      *)
LEMMA RefreshR ==
  ASSUME NEW es, DOMAIN es \subseteq Generations, IsFiniteSet(DOMAIN es),
         \A g \in DOMAIN es : Kept(es[g]),
         NEW w \in [docs : 0 .. MaxDocs, dead : 0 .. MaxDocs], w.dead <= w.docs,
         NEW v, v # NoEngine => Kept(v) /\ w.docs # 0,
         NEW on \in BOOLEAN,
         Refreshed(es, w, v, on), writer' = w, enabled' = on, Settled',
         \A g \in DOMAIN es \cap DOMAIN disk' : disk'[g].docs = es[g].own
  PROVE  RInv'
<1>1. w.docs \in Nat /\ Refresh(es, w, v, on) /\ missed' = FALSE
  BY GlobalStatisticsAssumption DEF Refreshed
<1>2. /\ DOMAIN engines' = DOMAIN es
      /\ \A g \in DOMAIN engines' : Kept(engines'[g]) /\ engines'[g].own = es[g].own
      /\ wrapper' # NoEngine => v # NoEngine /\ Kept(wrapper')
      /\ AllRanked'
  BY <1>1, RefreshRanks
<1>3. NoEngine' = NoEngine /\ \A e : Kept(e)' <=> Kept(e)
  BY DEF NoEngine, Engine, Kept, Good, EngineType
<1>4. Open'
  BY <1>2, <1>3 DEF Open
<1>5. Viewed'
  BY <1>2, <1>3 DEF Viewed
<1>6. UpToDate'
  BY <1>2 DEF UpToDate
<1>7. Matches(engines)'
  BY <1>2 DEF Matches
<1> QED
  BY <1>4, <1>5, <1>6, <1>7 DEF RInv, Settled

(* What a save lists of kept engines.                                      *)
LEMMA ImageListed ==
  ASSUME NEW es, DOMAIN es \subseteq Generations, IsFiniteSet(DOMAIN es),
         \A g \in DOMAIN es : Kept(es[g]), disk' = Image(es)
  PROVE  /\ Listed' /\ DOMAIN disk' = DOMAIN es
         /\ \A g \in DOMAIN es : disk'[g].docs = es[g].own
<1>1. DOMAIN disk' = DOMAIN es
  BY DEF Image
<1>2. \A g \in DOMAIN es : disk'[g] = [docs |-> es[g].own, dead |-> es[g].dead]
  BY DEF Image
<1>3. \A g \in DOMAIN es : es[g].own \in Nat \ {0} /\ es[g].dead \in Nat /\ es[g].dead <= es[g].own
  BY DEF Kept, Good, EngineType
<1> QED
  BY <1>1, <1>2, <1>3 DEF Listed

(* A call that has changed the segments and returns before its refresh.    *)
LEMMA MissedR ==
  ASSUME NEW es, DOMAIN es \subseteq Generations, IsFiniteSet(DOMAIN es),
         \A g \in DOMAIN es : Kept(es[g]),
         \A g \in DOMAIN es \cap DOMAIN disk' : disk'[g].docs = es[g].own,
         engines' = es, Viewed', Settled', missed' = TRUE
  PROVE  RInv'
<1>1. Open' /\ Matches(engines)'
  BY DEF Open, Matches, Kept, Good, EngineType
<1> QED
  BY <1>1 DEF RInv, Settled, UpToDate

(* The new document is in the memory segment, whose view is out of date.   *)
LEMMA AddR == ASSUME RInv, Add PROVE RInv'
<1>1. writer.docs < MaxDocs
  BY StoredIsNat, GlobalStatisticsAssumption DEF Add
<1>2. writer \in [docs : 0 .. MaxDocs, dead : 0 .. MaxDocs] /\ writer.dead <= writer.docs
  BY DEF RInv, Viewed
<1>3. /\ writer' \in [docs : 0 .. MaxDocs, dead : 0 .. MaxDocs]
      /\ writer'.dead <= writer'.docs /\ writer'.docs # 0
  BY <1>1, <1>2, GlobalStatisticsAssumption DEF Add
<1>4. UNCHANGED <<engines, wrapper, writable, enabled, disk, missed>> /\ stale' = TRUE
  BY DEF Add
<1>5. Open'
  BY <1>4 DEF RInv, Open
<1>6. Viewed'
  BY <1>3, <1>4 DEF RInv, Viewed
<1>7. UpToDate'
  BY <1>3, <1>4 DEF UpToDate
<1> QED
  BY <1>4, <1>5, <1>6, <1>7 DEF RInv, Listed, Matches

(* A tombstone changes neither what is stored nor what anyone ranks with.  *)
LEMMA TombstoneR == ASSUME RInv, Tombstone PROVE RInv'
<1> DEFINE Counted ==
             /\ DOMAIN engines' = DOMAIN engines
             /\ \A g \in DOMAIN engines : /\ Kept(engines'[g])
                                          /\ engines'[g].own = engines[g].own
                                          /\ engines'[g].ranked = engines[g].ranked
<1>1. Counted
  <2>1. CASE UNCHANGED engines
    BY <2>1 DEF RInv, Open
  <2>2. ASSUME NEW g \in DOMAIN engines, engines[g].dead < engines[g].own,
               engines' = [engines EXCEPT ![g].dead = @ + 1]
        PROVE  Counted
    <3> DEFINE e == [engines[g] EXCEPT !.dead = @ + 1]
    <3>1. Kept(engines[g])
      BY DEF RInv, Open
    <3>2. Kept(e) /\ e.own = engines[g].own /\ e.ranked = engines[g].ranked
      BY <2>2, <3>1 DEF Kept, Good, EngineType
    <3>3. engines' = [h \in DOMAIN engines |-> IF h = g THEN e ELSE engines[h]]
      BY <2>2
    <3> HIDE DEF e
    <3> QED
      BY <3>2, <3>3 DEF RInv, Open
  <2> QED
    BY <2>1, <2>2 DEF Tombstone
<1>2. /\ writer' \in [docs : 0 .. MaxDocs, dead : 0 .. MaxDocs]
      /\ writer'.dead <= writer'.docs /\ writer'.docs = writer.docs
  BY GlobalStatisticsAssumption DEF RInv, Viewed, Tombstone
<1>3. UNCHANGED <<wrapper, stale, writable, enabled, missed>>
  BY DEF Tombstone
<1>4. Stored' = Stored
  <2>1. [g \in DOMAIN engines' |-> engines'[g].own] = [g \in DOMAIN engines |-> engines[g].own]
    BY <1>1
  <2> QED
    BY <1>2, <2>1 DEF Stored
<1>5. Open'
  BY <1>1 DEF RInv, Open, Kept, Good
<1>6. Viewed'
  BY <1>2, <1>3 DEF RInv, Viewed, Kept, Good
<1>7. UpToDate'
  <2>1. AllRanked => AllRanked'
    BY <1>1, <1>3, <1>4 DEF AllRanked, RanksWith
  <2> QED
    BY <1>2, <1>3, <2>1 DEF RInv, UpToDate
<1>8. Listed' /\ Matches(engines)'
  <2>1. CASE UNCHANGED disk
    BY <1>1, <2>1 DEF RInv, Listed, Matches
  <2>2. ASSUME NEW g \in DOMAIN engines, engines[g].dead < engines[g].own,
               disk' = [h \in DOMAIN disk |->
                         IF h = g THEN [disk[h] EXCEPT !.dead = engines[g].dead + 1] ELSE disk[h]]
        PROVE  Listed' /\ Matches(engines)'
    <3>1. engines[g].dead + 1 \in Nat /\ engines[g].dead + 1 <= engines[g].own
      BY <2>2 DEF RInv, Open, Kept, EngineType
    <3>2. ASSUME NEW h \in DOMAIN disk
          PROVE  /\ disk'[h] \in [docs : Nat, dead : Nat]
                 /\ disk'[h].docs = disk[h].docs
                 /\ disk'[h].docs # 0 /\ disk'[h].dead <= disk'[h].docs
      BY <2>2, <3>1 DEF RInv, Listed, Matches
    <3>3. DOMAIN disk' = DOMAIN disk
      BY <2>2
    <3> QED
      BY <1>1, <3>2, <3>3 DEF RInv, Listed, Matches
  <2> QED
    BY <2>1, <2>2 DEF Tombstone
<1> QED
  BY <1>3, <1>5, <1>6, <1>7, <1>8 DEF RInv

(* Adding a kept engine to finitely many.                                  *)
LEMMA WithKept ==
  ASSUME NEW es, NEW g \in Generations, NEW e, DOMAIN es \subseteq Generations,
         IsFiniteSet(DOMAIN es), \A h \in DOMAIN es : Kept(es[h]), Kept(e)
  PROVE  LET with == With(es, g, e)
         IN  /\ DOMAIN with \subseteq Generations /\ IsFiniteSet(DOMAIN with)
             /\ \A h \in DOMAIN with : Kept(with[h])
  BY FS_AddElement DEF With

(* The engine flush() opens on what was in memory is one to keep, and the  *)
(* memory segment starts over.                                             *)
LEMMA OpenedKept ==
  ASSUME RInv, writer.docs # 0, NEW g \in Unused
  PROVE  /\ DOMAIN Opened(g) \subseteq Generations /\ IsFiniteSet(DOMAIN Opened(g))
         /\ \A h \in DOMAIN Opened(g) : Kept(Opened(g)[h])
         /\ \A h \in DOMAIN Opened(g) \cap DOMAIN disk : disk[h].docs = Opened(g)[h].own
         /\ NewWriter \in [docs : 0 .. MaxDocs, dead : 0 .. MaxDocs]
         /\ NewWriter.dead <= NewWriter.docs
<1> DEFINE e == Engine(writer.docs, writer.dead)
<1>1. Kept(e)
  BY EngineKept, GlobalStatisticsAssumption DEF RInv, Viewed
<1> HIDE DEF e
<1>2. g \in Generations /\ g \notin DOMAIN disk
  BY DEF Unused
<1>3. Opened(g) = With(engines, g, e)
  BY DEF Opened, e
<1>4. LET with == With(engines, g, e)
      IN  /\ DOMAIN with \subseteq Generations /\ IsFiniteSet(DOMAIN with)
          /\ \A h \in DOMAIN with : Kept(with[h])
  BY <1>1, <1>2, WithKept DEF RInv, Open
<1>5. \A h \in DOMAIN With(engines, g, e) \cap DOMAIN disk : disk[h].docs = With(engines, g, e)[h].own
  BY <1>2 DEF With, RInv, Matches
<1>6. NewWriter \in [docs : 0 .. MaxDocs, dead : 0 .. MaxDocs] /\ NewWriter.dead <= NewWriter.docs
  BY GlobalStatisticsAssumption DEF NewWriter
<1> QED
  BY <1>3, <1>4, <1>5, <1>6

(* flush()                                                                 *)
LEMMA FlushR == ASSUME RInv, Flush PROVE RInv'
<1>1. PICK g \in Unused : /\ Refreshed(Opened(g), NewWriter, NoEngine, enabled)
                          /\ disk' = Image(Opened(g))
  BY DEF Flush
<1> DEFINE es == Opened(g)
<1>2. /\ DOMAIN es \subseteq Generations /\ IsFiniteSet(DOMAIN es)
      /\ \A h \in DOMAIN es : Kept(es[h])
      /\ NewWriter \in [docs : 0 .. MaxDocs, dead : 0 .. MaxDocs]
      /\ NewWriter.dead <= NewWriter.docs
  BY OpenedKept DEF Flush
<1>3. /\ writer' = NewWriter /\ stale' = TRUE /\ writable' = writable /\ enabled' = enabled
      /\ missed' = FALSE /\ enabled \in BOOLEAN
  BY <1>1 DEF Flush, RInv, Refreshed
<1> HIDE DEF es
<1>4. Listed' /\ \A h \in DOMAIN es : disk'[h].docs = es[h].own
  BY <1>1, <1>2, ImageListed DEF es
<1>5. Settled'
  BY <1>3, <1>4 DEF Settled, RInv
<1>6. Refreshed(es, NewWriter, NoEngine, enabled)
  BY <1>1 DEF es
<1> QED
  BY <1>2, <1>3, <1>4, <1>5, <1>6, RefreshR

(* A flush() that wrote nothing leaves documents without a view.           *)
LEMMA FlushUnwrittenR == ASSUME RInv, FlushUnwritten PROVE RInv'
<1>1. /\ UNCHANGED <<engines, writer, writable, enabled, disk, missed>>
      /\ writer.docs # 0 /\ stale' = TRUE /\ wrapper' = NoEngine
  BY DEF FlushUnwritten
<1>2. Open' /\ Listed' /\ Matches(engines)'
  BY <1>1 DEF RInv, Open, Listed, Matches, Kept, Good
<1>3. Viewed'
  BY <1>1 DEF RInv, Viewed, NoEngine, Engine
<1>4. UpToDate'
  BY <1>1 DEF UpToDate
<1> QED
  BY <1>1, <1>2, <1>3, <1>4 DEF RInv

(* A flush() that ends without a writer.                                   *)
LEMMA FlushUnfinishedR == ASSUME RInv, FlushUnfinished PROVE RInv'
<1>1. /\ writer.docs # 0 /\ writer' = NewWriter /\ writable' = FALSE /\ wrapper' = NoEngine
      /\ stale' = FALSE /\ missed' = TRUE /\ enabled' = enabled
  BY DEF FlushUnfinished
<1>2. Viewed'
  BY <1>1, GlobalStatisticsAssumption DEF Viewed, NewWriter, NoEngine, Engine
<1>3. CASE UNCHANGED <<engines, disk>>
  <2>1. Settled'
    BY <1>1, <1>3 DEF Settled, RInv, Listed
  <2> QED
    BY <1>1, <1>2, <1>3, <2>1, MissedR DEF RInv, Open, Matches
<1>4. ASSUME NEW g \in Unused, engines' = Opened(g), disk' \in {disk, Image(Opened(g))}
      PROVE  RInv'
  <2> DEFINE es == Opened(g)
  <2>1. /\ DOMAIN es \subseteq Generations /\ IsFiniteSet(DOMAIN es)
        /\ \A h \in DOMAIN es : Kept(es[h])
        /\ \A h \in DOMAIN es \cap DOMAIN disk : disk[h].docs = es[h].own
    BY <1>1, OpenedKept
  <2>2. engines' = es /\ (disk' = disk \/ disk' = Image(es))
    BY <1>4
  <2> HIDE DEF es
  <2>3. Listed' /\ \A h \in DOMAIN es \cap DOMAIN disk' : disk'[h].docs = es[h].own
    <3>1. CASE disk' = disk
      BY <2>1, <3>1 DEF RInv, Listed
    <3>2. CASE disk' = Image(es)
      BY <2>1, <3>2, ImageListed
    <3> QED
      BY <2>2, <3>1, <3>2
  <2>4. Settled'
    BY <1>1, <2>3 DEF Settled, RInv
  <2> QED
    BY <1>1, <1>2, <2>1, <2>2, <2>3, <2>4, MissedR
<1> QED
  BY <1>3, <1>4 DEF FlushUnfinished

(* A merge swaps its inputs for an engine on their live documents.         *)
LEMMA MergedKept ==
  ASSUME RInv, ~MergesEmpty, NEW m \in Mergeable
  PROVE  LET es == Merged(m[1], m[2])
         IN  /\ DOMAIN es \subseteq Generations /\ IsFiniteSet(DOMAIN es)
             /\ \A g \in DOMAIN es : Kept(es[g])
             /\ \A g \in DOMAIN es \cap DOMAIN engines : es[g].own = engines[g].own
<1> DEFINE inputs == m[1]
           out == m[2]
           live == [g \in inputs |-> engines[g].documents - engines[g].dead]
           rest == Restrict(engines, DOMAIN engines \ inputs)
<1>1. /\ inputs \subseteq DOMAIN engines /\ LiveOf(inputs) # 0
      /\ out \in Generations /\ out \notin DOMAIN engines
  BY DEF Mergeable, Unused
<1> HIDE DEF inputs, out
<1>2. LiveOf(inputs) \in Nat
  <2>1. \A g \in inputs : live[g] \in Nat
    BY <1>1 DEF RInv, Open, Kept, Good, EngineType
  <2>2. IsFiniteSet(DOMAIN live)
    BY <1>1, FS_Subset DEF RInv, Open
  <2>3. DOMAIN live = inputs /\ LiveOf(inputs) = Sum(live)
    BY DEF LiveOf
  <2> HIDE DEF live
  <2> QED
    BY <2>1, <2>2, <2>3, SumBounds
<1>3. Kept(Engine(LiveOf(inputs), 0))
  BY <1>1, <1>2, EngineKept
<1>4. DOMAIN rest = DOMAIN engines \ inputs /\ \A g \in DOMAIN rest : rest[g] = engines[g]
  BY DEF Restrict
<1>5. Merged(inputs, out) = With(rest, out, Engine(LiveOf(inputs), 0))
  BY DEF Merged
<1> HIDE DEF rest
<1>6. /\ DOMAIN rest \subseteq Generations /\ IsFiniteSet(DOMAIN rest)
      /\ \A g \in DOMAIN rest : Kept(rest[g])
  BY <1>4, FS_Subset DEF RInv, Open
<1> DEFINE es == Merged(inputs, out)
<1>7. /\ DOMAIN es \subseteq Generations /\ IsFiniteSet(DOMAIN es)
      /\ \A g \in DOMAIN es : Kept(es[g])
  BY <1>1, <1>3, <1>5, <1>6, WithKept
<1>8. \A g \in DOMAIN es \cap DOMAIN engines : es[g].own = engines[g].own
  BY <1>1, <1>4, <1>5 DEF With
<1> QED
  BY <1>7, <1>8 DEF inputs, out

(* compact()                                                               *)
LEMMA CompactR == ASSUME RInv, ~MergesEmpty, Compact PROVE RInv'
<1>1. PICK m \in Mergeable : /\ Refreshed(Merged(m[1], m[2]), writer, wrapper, enabled)
                             /\ disk' = Image(Merged(m[1], m[2]))
  BY DEF Compact
<1> DEFINE es == Merged(m[1], m[2])
<1>2. /\ DOMAIN es \subseteq Generations /\ IsFiniteSet(DOMAIN es)
      /\ \A g \in DOMAIN es : Kept(es[g])
  BY MergedKept
<1> HIDE DEF es
<1>3. Listed' /\ \A g \in DOMAIN es : disk'[g].docs = es[g].own
  BY <1>1, <1>2, ImageListed DEF es
<1>4. /\ writer \in [docs : 0 .. MaxDocs, dead : 0 .. MaxDocs] /\ writer.dead <= writer.docs
      /\ wrapper # NoEngine => Kept(wrapper) /\ writer.docs # 0
      /\ enabled \in BOOLEAN /\ writer' = writer /\ enabled' = enabled
  BY DEF RInv, Viewed, Compact
<1>5. Settled'
  BY <1>1, <1>3, <1>4 DEF Settled, RInv, Compact, Refreshed
<1>6. Refreshed(es, writer, wrapper, enabled)
  BY <1>1 DEF es
<1> QED
  BY <1>2, <1>3, <1>4, <1>5, <1>6, RefreshR

(* A compact() that fails before its merge at most saves what is open.     *)
LEMMA CompactUnmergedR == ASSUME RInv, CompactUnmerged PROVE RInv'
<1>1. /\ UNCHANGED <<engines, wrapper, writer, stale, writable, enabled, missed>>
      /\ disk' = disk \/ disk' = Image(engines)
  BY DEF CompactUnmerged
<1>2. Open' /\ Viewed' /\ UpToDate'
  BY <1>1 DEF RInv, Open, Viewed, UpToDate, AllRanked, RanksWith, Stored, Kept, Good, NoEngine, Engine
<1>3. Listed' /\ \A g \in DOMAIN engines \cap DOMAIN disk' : disk'[g].docs = engines[g].own
  <2>1. CASE disk' = disk
    BY <2>1 DEF RInv, Listed, Matches
  <2>2. CASE disk' = Image(engines)
    BY <2>2, ImageListed DEF RInv, Open
  <2> QED
    BY <1>1, <2>1, <2>2
<1> QED
  BY <1>1, <1>2, <1>3 DEF RInv, Matches

(* A compact() that fails to save what it has merged.                      *)
LEMMA CompactUnsavedR == ASSUME RInv, ~MergesEmpty, CompactUnsaved PROVE RInv'
<1>1. PICK m \in Mergeable : engines' = Merged(m[1], m[2])
  BY DEF CompactUnsaved
<1> DEFINE es == Merged(m[1], m[2])
<1>2. /\ DOMAIN es \subseteq Generations /\ IsFiniteSet(DOMAIN es)
      /\ \A g \in DOMAIN es : Kept(es[g])
      /\ \A g \in DOMAIN es \cap DOMAIN engines : es[g].own = engines[g].own
  BY MergedKept
<1> HIDE DEF es
<1>3. /\ UNCHANGED <<wrapper, writer, stale, writable, enabled>>
      /\ disk' = Image(engines) /\ missed' = TRUE
  BY DEF CompactUnsaved
<1>4. /\ Listed' /\ DOMAIN disk' = DOMAIN engines
      /\ \A g \in DOMAIN engines : disk'[g].docs = engines[g].own
  BY <1>3, ImageListed DEF RInv, Open
<1>5. \A g \in DOMAIN es \cap DOMAIN disk' : disk'[g].docs = es[g].own
  BY <1>2, <1>4
<1>6. Viewed'
  BY <1>3 DEF RInv, Viewed, Kept, Good, NoEngine, Engine
<1>7. Settled'
  BY <1>3, <1>4 DEF Settled, RInv
<1>8. engines' = es
  BY <1>1 DEF es
<1> QED
  BY <1>2, <1>3, <1>5, <1>6, <1>7, <1>8, MissedR

(* The toggle refreshes.                                                   *)
LEMMA SetGlobalStatsR == ASSUME RInv, SetGlobalStats PROVE RInv'
<1>1. /\ DOMAIN engines \subseteq Generations /\ IsFiniteSet(DOMAIN engines)
      /\ \A g \in DOMAIN engines : Kept(engines[g])
      /\ writer \in [docs : 0 .. MaxDocs, dead : 0 .. MaxDocs] /\ writer.dead <= writer.docs
      /\ wrapper # NoEngine => Kept(wrapper) /\ writer.docs # 0
  BY DEF RInv, Open, Viewed
<1>2. /\ enabled' \in BOOLEAN /\ writer' = writer /\ disk' = disk /\ missed' = FALSE
      /\ Refreshed(engines, writer, wrapper, enabled')
  BY DEF SetGlobalStats, Refreshed
<1>3. Settled'
  BY <1>2 DEF Settled, RInv, Listed, SetGlobalStats
<1>4. \A g \in DOMAIN engines \cap DOMAIN disk' : disk'[g].docs = engines[g].own
  BY <1>2 DEF RInv, Matches
<1> QED
  BY <1>1, <1>2, <1>3, <1>4, RefreshR

(* A search refreshes unless nothing has changed, or nothing is in memory, *)
(* and then the engines are up to date, if they were after the last call.  *)
LEMMA SearchR == ASSUME RInv, Search PROVE RInv'
<1>1. stale' = FALSE /\ UNCHANGED <<writer, writable, enabled, disk>>
  BY DEF Search, RebuildWriterEngine
<1>2. /\ DOMAIN engines \subseteq Generations /\ IsFiniteSet(DOMAIN engines)
      /\ \A g \in DOMAIN engines : Kept(engines[g])
      /\ writer \in [docs : 0 .. MaxDocs, dead : 0 .. MaxDocs] /\ writer.dead <= writer.docs
      /\ wrapper # NoEngine => Kept(wrapper) /\ writer.docs # 0
      /\ enabled \in BOOLEAN
  BY DEF RInv, Open, Viewed
<1>3. Listed' /\ \A g \in DOMAIN engines \cap DOMAIN disk' : disk'[g].docs = engines[g].own
  BY <1>1 DEF RInv, Listed, Matches
<1>4. CASE ~stale /\ UNCHANGED <<engines, wrapper, missed>>
  <2>1. Open' /\ Viewed' /\ UpToDate'
    BY <1>1, <1>4 DEF RInv, Open, Viewed, UpToDate, AllRanked, RanksWith, Stored,
                      Kept, Good, NoEngine, Engine
  <2> QED
    BY <1>1, <1>3, <1>4, <2>1 DEF RInv, Matches
<1>5. CASE writer.docs = 0 /\ wrapper' = NoEngine /\ UNCHANGED <<engines, missed>>
  <2>1. UpToDate'
    BY <1>1, <1>5 DEF RInv, UpToDate, AllRanked, RanksWith, Stored, NoEngine, Engine
  <2>2. Open' /\ Viewed'
    BY <1>1, <1>2, <1>5 DEF Open, Viewed, Kept, Good, NoEngine, Engine
  <2> QED
    BY <1>1, <1>3, <1>5, <2>1, <2>2 DEF RInv, Matches
<1>6. CASE writer.docs # 0 /\ Refreshed(engines, writer, Engine(writer.docs, 0), enabled)
  <2>1. Kept(Engine(writer.docs, 0))
    BY <1>2, <1>6, EngineKept, GlobalStatisticsAssumption
  <2> DEFINE view == Engine(writer.docs, 0)
  <2>2. view # NoEngine => Kept(view) /\ writer.docs # 0
    BY <1>6, <2>1
  <2>3. Settled'
    BY <1>1, <1>3, <1>6 DEF Settled, RInv, Refreshed
  <2> HIDE DEF view
  <2>4. Refreshed(engines, writer, view, enabled)
    BY <1>6 DEF view
  <2> QED
    BY <1>1, <1>2, <1>3, <2>2, <2>3, <2>4, RefreshR
<1> QED
  BY <1>4, <1>5, <1>6 DEF Search, RebuildWriterEngine

(* open() builds the engines anew and has an empty memory segment.         *)
LEMMA ReopenR == ASSUME RInv, Reopen PROVE RInv'
<1> DEFINE es == [g \in DOMAIN disk |-> Engine(disk[g].docs, disk[g].dead)]
<1>1. \A g \in DOMAIN disk :
        disk[g].docs \in Nat \ {0} /\ disk[g].dead \in Nat /\ disk[g].dead <= disk[g].docs
  BY DEF RInv, Listed
<1>2. DOMAIN es = DOMAIN disk /\ \A g \in DOMAIN es : Kept(es[g]) /\ es[g].own = disk[g].docs
  BY <1>1, EngineKept
<1>3. Refreshed(es, NewWriter, NoEngine, enabled')
  BY DEF Reopen
<1> HIDE DEF es
<1>4. NewWriter \in [docs : 0 .. MaxDocs, dead : 0 .. MaxDocs] /\ NewWriter.dead <= NewWriter.docs
  BY GlobalStatisticsAssumption DEF NewWriter
<1>5. /\ writer' = NewWriter /\ stale' = TRUE /\ writable' = TRUE /\ enabled' \in BOOLEAN
      /\ disk' = disk /\ missed' = FALSE
      /\ DOMAIN disk \subseteq Generations /\ IsFiniteSet(DOMAIN disk)
  BY <1>3 DEF Reopen, RInv, Listed, Refreshed
<1>6. Settled'
  BY <1>5 DEF Settled, RInv, Listed
<1> QED
  BY <1>2, <1>3, <1>4, <1>5, <1>6, RefreshR

(* Every call keeps the invariant.                                         *)
LEMMA NextR == ASSUME RInv, ~MergesEmpty, [Next]_vars PROVE RInv'
<1>1. CASE UNCHANGED vars
  BY <1>1 DEF vars, RInv, Open, Viewed, Listed, Matches, UpToDate, AllRanked, RanksWith, Stored,
              Kept, Good, NoEngine, Engine
<1> QED
  BY <1>1, AddR, TombstoneR, FlushR, FlushUnwrittenR, FlushUnfinishedR, CompactR,
     CompactUnmergedR, CompactUnsavedR, SetGlobalStatsR, SearchR, ReopenR DEF Next

-----------------------------------------------------------------------------
(* The theorems *)

(* As long as no merge is without a live document, the invariant holds.    *)
THEOREM RankingInvariance ==
  ASSUME ~MergesEmpty
  PROVE  Spec => []RInv
<1>1. RInv /\ [Next]_vars => RInv'
  BY NextR
<1> QED
  BY <1>1, InitR, PTL DEF Spec

(* The engines and the memory segment keep their types, and a segment      *)
(* never has more tombstones than documents.                               *)
THEOREM StatisticsTypes ==
  ASSUME ~MergesEmpty
  PROVE  Spec => []TypeOK
<1>1. RInv => TypeOK
  BY DEF RInv, Open, Viewed, Listed, Kept, EngineType, TypeOK, NoEngine, Engine
<1> QED
  BY <1>1, RankingInvariance, PTL

(* Unless a merge is run on inputs without a live document, every engine   *)
(* reports its own number of documents between calls, however often the    *)
(* collection's N has been applied to it.                                  *)
THEOREM OwnCountsAlways ==
  ASSUME ~MergesEmpty
  PROVE  Spec => []OwnCounts
<1>1. RInv => OwnCounts
  BY DEF RInv, Open, Viewed, Kept, Good, OwnCounts, NoEngine, Engine
<1> QED
  BY <1>1, RankingInvariance, PTL

(* Whenever the view of the memory segment is up to date, every engine     *)
(* ranks with the number of documents of the whole collection, through any *)
(* flushes, merges, deletions, toggles, searches and reopenings, whether   *)
(* they succeed or fail; except after a flush() that failed with the       *)
(* memory segment gone or a compact() that failed with its inputs          *)
(* replaced, which return before their refresh, up to the next refresh.    *)
THEOREM AlwaysRankedGlobally ==
  ASSUME ~MergesEmpty
  PROVE  Spec => []RankedGlobally
<1>1. RInv => RankedGlobally
  BY DEF RInv, UpToDate, AllRanked, RanksWith, RankedGlobally
<1> QED
  BY <1>1, RankingInvariance, PTL
=============================================================================
