-------------------------- MODULE IndexKeymapProofs --------------------------
(***************************************************************************)
(* The keymap does what it promises whatever the keys hash to and however  *)
(* many come and go: its probes end, the table is the map it stands for,   *)
(* growing or not, and keymap.log is at any moment that map, but for the   *)
(* keys a failed write may have harmed.                                    *)
(***************************************************************************)
EXTENDS IndexKeymap, FiniteSetTheorems, SequenceTheorems, WellFoundedInduction, TLAPS

Slot == [key : Keys \cup {NoKey}, gen : Generations \cup {Gone}]

(* Tables of n slots, well-formed or not.                                  *)
TableOf(n) == [slots : [0 .. n - 1 -> Slot], used : Nat]

-----------------------------------------------------------------------------
(* Numbers *)

(* A set of numbers has a smallest one, which stands in for induction.     *)
LEMMA SmallestNat ==
  ASSUME NEW T, T \subseteq Nat, T # {}
  PROVE  \E n \in T : \A m \in T : n <= m
<1>1. PICK t \in T : TRUE
  OBVIOUS
<1> DEFINE Below == 1 .. t
           Up    == {s \in SUBSET Below : \E n \in T : s = 1 .. n}
<1>2. IsFiniteSet(Below)
  BY <1>1, FS_Interval
<1>3. IsWellFoundedOn(StrictSubsetOrdering(Below), SUBSET Below)
  BY <1>2, FS_StrictSubsetOrderingWellFounded, FS_FiniteSubsetsOfFinite
<1>4. Up \subseteq SUBSET Below /\ Below \in Up
  BY <1>1
<1> HIDE DEF Up
<1>5. PICK s \in Up : \A u \in Up : <<u, s>> \notin StrictSubsetOrdering(Below)
  BY <1>3, <1>4, WFMin
<1>6. PICK n \in T : s = 1 .. n /\ s \subseteq Below
  BY <1>4, <1>5 DEF Up
<1>7. ASSUME NEW m \in T, m < n PROVE FALSE
  <2>1. 1 .. m \subseteq s /\ 1 .. m # s
    BY <1>6, <1>7
  <2>2. 1 .. m \in Up
    BY <1>6, <2>1 DEF Up
  <2>3. <<1 .. m, s>> \in StrictSubsetOrdering(Below)
    BY <1>4, <1>6, <2>1 DEF StrictSubsetOrdering
  <2> QED
    BY <1>5, <2>2, <2>3
<1> QED
  BY <1>6, <1>7

(* n divides what is n slots further round.                                *)
LEMMA Round ==
  ASSUME NEW n \in Nat \ {0}, NEW q \in Nat, NEW i \in 0 .. n - 1
  PROVE  (n * q + i) % n = i
  OBVIOUS

(* Probing n slots from any one on visits all of them.                     *)
LEMMA ProbesReach ==
  ASSUME NEW n \in Nat \ {0}, NEW h \in Nat, NEW i \in 0 .. n - 1
  PROVE  \E d \in 0 .. n - 1 : (h + d) % n = i
<1> DEFINE q == h \div n
           r == h % n
<1>1. q \in Nat /\ r \in 0 .. n - 1 /\ h = n * q + r
  OBVIOUS
<1> HIDE DEF q, r
<1>2. n * q \in Nat /\ n * (q + 1) = n * q + n
  BY <1>1
<1>3. CASE r <= i
  <2>1. i - r \in 0 .. n - 1 /\ h + (i - r) = n * q + i
    BY ONLY <1>1, <1>2, <1>3, n \in Nat, i \in 0 .. n - 1, h \in Nat
  <2>2. (n * q + i) % n = i
    BY ONLY <1>1, Round, n \in Nat \ {0}, i \in 0 .. n - 1
  <2> QED
    BY ONLY <2>1, <2>2
<1>4. CASE ~(r <= i)
  <2>1. (n + i) - r \in 0 .. n - 1 /\ h + ((n + i) - r) = n * (q + 1) + i
    BY ONLY <1>1, <1>2, <1>4, n \in Nat, i \in 0 .. n - 1, h \in Nat
  <2>2. (n * (q + 1) + i) % n = i
    BY ONLY <1>1, Round, n \in Nat \ {0}, i \in 0 .. n - 1
  <2> QED
    BY ONLY <2>1, <2>2
<1> QED
  BY <1>3, <1>4

-----------------------------------------------------------------------------
(* Probing *)

(* The slot a probe for k looks at after d others.                         *)
At(t, k, d) == (Hash[k] + d) % Size(t)

Ends(t, k, d) == t.slots[At(t, k, d)].key \in {k, NoKey}

(* A probe for k ends after d slots.                                       *)
EndsFirst(t, k, d) == Ends(t, k, d) /\ \A j \in 0 .. d - 1 : ~Ends(t, k, j)

(* A table of n slots has n slots.                                         *)
LEMMA SizeOfTable ==
  ASSUME NEW n \in Nat, NEW t \in TableOf(n)
  PROVE  /\ DOMAIN t.slots = 0 .. n - 1 /\ Size(t) = n
         /\ \A i \in 0 .. n - 1 : t.slots[i] \in Slot
<1>1. DOMAIN t.slots = 0 .. n - 1 /\ \A i \in 0 .. n - 1 : t.slots[i] \in Slot
  BY DEF TableOf
<1>2. Cardinality(0 .. n - 1) = n
  BY FS_Interval
<1> QED
  BY <1>1, <1>2 DEF Size

(* find_slot() is the end of the probe.                                    *)
LEMMA FindSlotUnfolded ==
  ASSUME NEW t, NEW k
  PROVE  FindSlot(t, k) = At(t, k, CHOOSE d \in 0 .. Size(t) - 1 : EndsFirst(t, k, d))
  BY DEF FindSlot, At, EndsFirst, Ends

(* A probe ends in one place only.                                         *)
LEMMA EndsOnce ==
  ASSUME NEW t, NEW k, NEW d \in Nat, NEW e \in Nat,
         EndsFirst(t, k, d), EndsFirst(t, k, e)
  PROVE  d = e
<1>1. CASE d < e
  <2>1. d \in 0 .. e - 1
    BY <1>1
  <2> QED
    BY <2>1 DEF EndsFirst
<1>2. CASE e < d
  <2>1. e \in 0 .. d - 1
    BY <1>2
  <2> QED
    BY <2>1 DEF EndsFirst
<1> QED
  BY <1>1, <1>2

(* A place where a probe ends is the one find_slot() returns.              *)
LEMMA FindSlotIs ==
  ASSUME NEW n \in Nat, NEW t \in TableOf(n), NEW k \in Keys,
         NEW d \in 0 .. n - 1, EndsFirst(t, k, d)
  PROVE  FindSlot(t, k) = At(t, k, d)
<1>1. Size(t) = n
  BY SizeOfTable
<1> DEFINE e == CHOOSE x \in 0 .. Size(t) - 1 : EndsFirst(t, k, x)
<1>2. e \in 0 .. n - 1 /\ EndsFirst(t, k, e)
  BY <1>1
<1> HIDE DEF e
<1>3. e = d
  <2>1. e \in Nat /\ d \in Nat
    BY <1>2
  <2> QED
    BY <1>2, <2>1, EndsOnce
<1> QED
  BY <1>3, FindSlotUnfolded DEF e

(* A probe visits every slot.                                              *)
LEMMA ProbeVisits ==
  ASSUME NEW n \in Nat, NEW t \in TableOf(n), NEW k \in Keys, NEW i \in 0 .. n - 1
  PROVE  \E d \in 0 .. n - 1 : At(t, k, d) = i
<1>1. Size(t) = n /\ n \in Nat \ {0} /\ Hash[k] \in Nat
  BY SizeOfTable, KeymapAssumption
<1> QED
  BY <1>1, ProbesReach DEF At

(* If there is a slot where it can, a probe ends.                          *)
LEMMA ProbeEnds ==
  ASSUME NEW n \in Nat, NEW t \in TableOf(n), NEW k \in Keys,
         NEW i \in 0 .. n - 1, t.slots[i].key \in {k, NoKey}
  PROVE  \E d \in 0 .. n - 1 : EndsFirst(t, k, d) /\ FindSlot(t, k) = At(t, k, d)
<1> DEFINE T == {d \in 0 .. n - 1 : Ends(t, k, d)}
<1>1. T # {} /\ T \subseteq Nat
  BY ProbeVisits DEF Ends
<1>2. PICK d \in T : \A m \in T : d <= m
  <2> HIDE DEF T
  <2> QED
    BY <1>1, SmallestNat
<1>3. \A j \in 0 .. d - 1 : ~Ends(t, k, j)
  <2> SUFFICES ASSUME NEW j \in 0 .. d - 1 PROVE j \notin T /\ j \in 0 .. n - 1
    OBVIOUS
  <2>1. d \in 0 .. n - 1
    OBVIOUS
  <2>2. j \in 0 .. n - 1 /\ ~(d <= j)
    BY <2>1
  <2> HIDE DEF T
  <2> QED
    BY <1>2, <2>2
<1>4. EndsFirst(t, k, d)
  BY <1>2, <1>3 DEF EndsFirst
<1> QED
  BY <1>2, <1>4, FindSlotIs

(* What find_slot() returns is a slot, the key's own or a free one.        *)
LEMMA FindSlotType ==
  ASSUME NEW n \in Nat, NEW t \in TableOf(n), NEW k \in Keys,
         NEW i \in 0 .. n - 1, t.slots[i].key \in {k, NoKey}
  PROVE  FindSlot(t, k) \in 0 .. n - 1 /\ t.slots[FindSlot(t, k)].key \in {k, NoKey}
<1>1. PICK d \in 0 .. n - 1 : EndsFirst(t, k, d) /\ FindSlot(t, k) = At(t, k, d)
  BY ProbeEnds
<1>2. Size(t) = n /\ n \in Nat \ {0} /\ Hash[k] + d \in Nat
  BY SizeOfTable, KeymapAssumption
<1>3. At(t, k, d) \in 0 .. n - 1
  BY <1>2 DEF At
<1> QED
  BY <1>1, <1>3 DEF EndsFirst, Ends

(* Where a key is looked for depends on the keys in the slots alone.       *)
LEMMA SameKeysSameSlot ==
  ASSUME NEW n \in Nat, NEW t \in TableOf(n), NEW u \in TableOf(n), NEW k \in Keys,
         \A i \in 0 .. n - 1 : u.slots[i].key = t.slots[i].key
  PROVE  FindSlot(u, k) = FindSlot(t, k)
<1>1. Size(t) = n /\ Size(u) = n
  BY SizeOfTable
<1>2. ASSUME NEW d \in 0 .. n - 1 PROVE Ends(u, k, d) <=> Ends(t, k, d)
  <2>1. n \in Nat \ {0} /\ Hash[k] + d \in Nat
    BY KeymapAssumption
  <2>2. At(t, k, d) \in 0 .. n - 1 /\ At(u, k, d) = At(t, k, d)
    BY <1>1, <2>1 DEF At
  <2> QED
    BY <2>2 DEF Ends
<1>3. ASSUME NEW d \in 0 .. n - 1 PROVE EndsFirst(u, k, d) <=> EndsFirst(t, k, d)
  <2>1. \A j \in 0 .. d - 1 : j \in 0 .. n - 1
    OBVIOUS
  <2> QED
    BY <1>2, <2>1 DEF EndsFirst
<1>4. (CHOOSE d \in 0 .. n - 1 : EndsFirst(u, k, d)) = CHOOSE d \in 0 .. n - 1 : EndsFirst(t, k, d)
  BY <1>3
<1>5. \A d : At(u, k, d) = At(t, k, d)
  BY <1>1 DEF At
<1> QED
  BY <1>1, <1>4, <1>5, FindSlotUnfolded

-----------------------------------------------------------------------------
(* Sound tables *)

(* The slots of t that are not free.                                       *)
Occupied(t) == {i \in DOMAIN t.slots : t.slots[i].key # NoKey}

(* What is said of a table of n slots: a free slot says nothing of a       *)
(* generation, slots_used is right and leaves one free, and every key is   *)
(* in the slot where it is looked for.                                     *)
SoundTable(t, n) ==
  /\ t \in TableOf(n)
  /\ \A i \in 0 .. n - 1 : t.slots[i].key = NoKey => t.slots[i].gen = Gone
  /\ t.used = Cardinality(Occupied(t)) /\ t.used < n
  /\ \A i \in 0 .. n - 1 : t.slots[i].key # NoKey => FindSlot(t, t.slots[i].key) = i

(* A table has finitely many occupied slots.                               *)
LEMMA OccupiedFinite ==
  ASSUME NEW n \in Nat, NEW t \in TableOf(n)
  PROVE  IsFiniteSet(Occupied(t)) /\ Occupied(t) \subseteq 0 .. n - 1
<1>1. IsFiniteSet(0 .. n - 1)
  BY FS_Interval
<1>2. Occupied(t) \subseteq 0 .. n - 1
  BY SizeOfTable DEF Occupied
<1> QED
  BY <1>1, <1>2, FS_Subset

(* A table that counts fewer than its slots has a free one.                *)
LEMMA HasFree ==
  ASSUME NEW n \in Nat, NEW t \in TableOf(n), Cardinality(Occupied(t)) < n
  PROVE  \E i \in 0 .. n - 1 : t.slots[i].key = NoKey
<1>1. SUFFICES ASSUME \A i \in 0 .. n - 1 : t.slots[i].key # NoKey PROVE FALSE
  OBVIOUS
<1>2. Occupied(t) = 0 .. n - 1
  BY <1>1, SizeOfTable DEF Occupied
<1> QED
  BY <1>2, FS_Interval

(* In a sound table every key's probe ends, at its slot or at a free one.  *)
LEMMA SoundProbe ==
  ASSUME NEW n \in Nat, NEW t, SoundTable(t, n), NEW k \in Keys
  PROVE  /\ FindSlot(t, k) \in 0 .. n - 1
         /\ t.slots[FindSlot(t, k)].key \in {k, NoKey}
         /\ \A i \in 0 .. n - 1 : t.slots[i].key = k => FindSlot(t, k) = i
<1>1. PICK i \in 0 .. n - 1 : t.slots[i].key = NoKey
  BY HasFree DEF SoundTable
<1>2. \A j \in 0 .. n - 1 : t.slots[j].key = k => FindSlot(t, k) = j
  BY KeymapAssumption DEF SoundTable
<1> QED
  BY <1>1, <1>2, FindSlotType DEF SoundTable

(* A key's place, by the slot that has it.                                 *)
LEMMA FindByPresence ==
  ASSUME NEW n \in Nat, NEW t, SoundTable(t, n), NEW k \in Keys
  PROVE  /\ \A i \in 0 .. n - 1 : t.slots[i].key = k => Find(t, k) = t.slots[i].gen
         /\ (\A i \in 0 .. n - 1 : t.slots[i].key # k) => Find(t, k) = Gone
         /\ Find(t, k) \in Generations \cup {Gone}
<1>1. \A i \in 0 .. n - 1 : t.slots[i].key = k => Find(t, k) = t.slots[i].gen
  BY SoundProbe DEF Find
<1>2. ASSUME \A i \in 0 .. n - 1 : t.slots[i].key # k PROVE Find(t, k) = Gone
  <2>1. FindSlot(t, k) \in 0 .. n - 1 /\ t.slots[FindSlot(t, k)].key = NoKey
    BY <1>2, SoundProbe
  <2> QED
    BY <2>1 DEF Find, SoundTable
<1>3. t.slots[FindSlot(t, k)] \in Slot
  BY SoundProbe, SizeOfTable DEF SoundTable
<1>4. Find(t, k) \in Generations \cup {Gone}
  BY <1>3 DEF Find, Slot
<1> QED
  BY <1>1, <1>2, <1>4

(* A new table is sound, and has nothing in it.                            *)
LEMMA EmptySound ==
  ASSUME NEW n \in Nat \ {0}
  PROVE  /\ SoundTable(EmptyTable(n), n) /\ EmptyTable(n).used = 0
         /\ \A i \in 0 .. n - 1 : EmptyTable(n).slots[i] = Never
<1> DEFINE t == EmptyTable(n)
<1>1. t \in TableOf(n) /\ t.used = 0 /\ \A i \in 0 .. n - 1 : t.slots[i] = Never
  BY DEF EmptyTable, TableOf, Slot, Never
<1>2. \A i \in 0 .. n - 1 : t.slots[i].key = NoKey /\ t.slots[i].gen = Gone
  BY <1>1 DEF Never
<1>3. Occupied(t) = {}
  BY <1>1, <1>2, SizeOfTable DEF Occupied
<1> HIDE DEF t
<1>4. Cardinality(Occupied(t)) = 0
  BY <1>3, FS_EmptySet
<1>5. SoundTable(t, n)
  BY <1>1, <1>2, <1>4 DEF SoundTable
<1> QED
  BY <1>1, <1>5 DEF t

-----------------------------------------------------------------------------
(* Filling a slot *)

(* A slot overwritten, whatever it is: a table stays one.                  *)
LEMMA FillType ==
  ASSUME NEW n \in Nat, NEW t \in TableOf(n), NEW k \in Keys,
         NEW g \in Generations \cup {Gone}
  PROVE  /\ Fill(t, k, g) \in TableOf(n)
         /\ \A i \in 0 .. n - 1 :
              Fill(t, k, g).slots[i] = IF i = FindSlot(t, k) THEN [key |-> k, gen |-> g]
                                                             ELSE t.slots[i]
<1> DEFINE i == FindSlot(t, k)
           s == [t.slots EXCEPT ![i] = [key |-> k, gen |-> g]]
           c == t.used + IF t.slots[i].key = NoKey THEN 1 ELSE 0
<1>1. Fill(t, k, g) = [slots |-> s, used |-> c]
  BY DEF Fill
<1>2. [key |-> k, gen |-> g] \in Slot
  BY DEF Slot
<1>3. t.slots \in [0 .. n - 1 -> Slot] /\ t.used \in Nat
  BY DEF TableOf
<1> HIDE DEF i
<1>4. s \in [0 .. n - 1 -> Slot]
  BY <1>2, <1>3
<1>5. c \in Nat
  BY <1>3
<1>6. \A j \in 0 .. n - 1 : s[j] = IF j = i THEN [key |-> k, gen |-> g] ELSE t.slots[j]
  BY <1>3
<1> HIDE DEF s, c
<1> QED
  BY <1>1, <1>4, <1>5, <1>6 DEF TableOf, i

(* A key is put where a probe for it ends, and no other key's probe ends   *)
(* elsewhere for it, or passes over its slot where it did not.             *)
LEMMA FillReaches ==
  ASSUME NEW n \in Nat, NEW t, SoundTable(t, n), NEW k \in Keys,
         NEW g \in Generations \cup {Gone},
         NEW i \in 0 .. n - 1, Fill(t, k, g).slots[i].key # NoKey
  PROVE  FindSlot(Fill(t, k, g), Fill(t, k, g).slots[i].key) = i
<1> DEFINE u == Fill(t, k, g)
           p == FindSlot(t, k)
<1>1. t \in TableOf(n)
  BY DEF SoundTable
<1>2. /\ u \in TableOf(n)
      /\ \A j \in 0 .. n - 1 : u.slots[j] = IF j = p THEN [key |-> k, gen |-> g] ELSE t.slots[j]
  BY <1>1, FillType
<1>3. p \in 0 .. n - 1 /\ t.slots[p].key \in {k, NoKey}
  BY SoundProbe
<1>4. Size(t) = n /\ Size(u) = n
  BY <1>1, <1>2, SizeOfTable
<1> HIDE DEF u, p
<1>5. \A j \in 0 .. n - 1 : u.slots[j].key = IF j = p THEN k ELSE t.slots[j].key
  BY <1>2
<1>6. PICK m \in Keys : u.slots[i].key = m
  <2>1. u.slots[i] \in Slot
    BY <1>2, SizeOfTable
  <2> QED
    BY <2>1 DEF Slot, u
<1>7. t.slots[i].key \in {m, NoKey} /\ FindSlot(t, m) = i
  <2>1. CASE i = p
    <3>1. m = k
      BY <1>5, <1>6, <2>1
    <3> QED
      BY <1>3, <2>1, <3>1 DEF p
  <2>2. CASE i # p
    <3>1. t.slots[i].key = m
      BY <1>5, <1>6, <2>2
    <3> QED
      BY <3>1, SoundProbe
  <2> QED
    BY <2>1, <2>2
<1>8. PICK d \in 0 .. n - 1 : EndsFirst(t, m, d) /\ At(t, m, d) = i
  BY <1>1, <1>7, ProbeEnds
<1>9. \A e \in 0 .. n - 1 : At(u, m, e) = At(t, m, e) /\ At(t, m, e) \in 0 .. n - 1
  <2>1. n \in Nat \ {0} /\ \A e \in 0 .. n - 1 : Hash[m] + e \in Nat
    BY KeymapAssumption
  <2> QED
    BY <1>4, <2>1 DEF At
<1>10. Ends(u, m, d)
  BY <1>6, <1>8, <1>9 DEF Ends
<1>11. ASSUME NEW e \in 0 .. d - 1 PROVE ~Ends(u, m, e)
  <2>1. ~Ends(t, m, e) /\ e \in 0 .. n - 1
    BY <1>8 DEF EndsFirst
  <2>2. t.slots[At(t, m, e)].key \notin {m, NoKey}
    BY <2>1 DEF Ends
  <2>3. CASE At(t, m, e) = p
    <3>1. u.slots[p].key = k /\ t.slots[p].key = k
      BY <1>3, <1>5, <2>2, <2>3
    <3> QED
      BY <1>9, <2>1, <2>2, <2>3, <3>1 DEF Ends
  <2>4. CASE At(t, m, e) # p
    BY <1>5, <1>9, <2>1, <2>2, <2>4 DEF Ends
  <2> QED
    BY <2>3, <2>4
<1>12. FindSlot(u, m) = At(u, m, d)
  BY <1>2, <1>10, <1>11, FindSlotIs DEF EndsFirst
<1> QED
  BY <1>6, <1>8, <1>9, <1>12 DEF u

(* As long as a slot stays free, filling one keeps a table sound, and says *)
(* where the key is and no more.                                           *)
LEMMA FillSound ==
  ASSUME NEW n \in Nat, NEW t, SoundTable(t, n), NEW k \in Keys,
         NEW g \in Generations \cup {Gone}, t.used + 1 < n
  PROVE  /\ SoundTable(Fill(t, k, g), n)
         /\ Fill(t, k, g).used <= t.used + 1
         /\ \A m \in Keys : Find(Fill(t, k, g), m) = IF m = k THEN g ELSE Find(t, m)
<1> DEFINE u == Fill(t, k, g)
           p == FindSlot(t, k)
<1>1. t \in TableOf(n) /\ t.used \in Nat
  BY DEF SoundTable, TableOf
<1>2. /\ u \in TableOf(n)
      /\ \A j \in 0 .. n - 1 : u.slots[j] = IF j = p THEN [key |-> k, gen |-> g] ELSE t.slots[j]
  BY <1>1, FillType
<1>3. p \in 0 .. n - 1 /\ t.slots[p].key \in {k, NoKey}
  BY SoundProbe
<1>4. u.used = t.used + IF t.slots[p].key = NoKey THEN 1 ELSE 0
  BY DEF Fill
<1>5. \A i \in 0 .. n - 1 : u.slots[i].key # NoKey => FindSlot(u, u.slots[i].key) = i
  BY FillReaches
<1> HIDE DEF u, p
<1>6. \A i \in 0 .. n - 1 : u.slots[i].key = NoKey => u.slots[i].gen = Gone
  BY <1>2, <1>3, KeymapAssumption DEF SoundTable
<1>7. Occupied(u) = Occupied(t) \cup {p}
  <2>1. DOMAIN u.slots = 0 .. n - 1 /\ DOMAIN t.slots = 0 .. n - 1
    BY <1>1, <1>2, SizeOfTable
  <2> QED
    BY <1>2, <1>3, <2>1, KeymapAssumption DEF Occupied
<1>8. u.used = Cardinality(Occupied(u))
  <2>1. IsFiniteSet(Occupied(t)) /\ t.used = Cardinality(Occupied(t))
    BY <1>1, OccupiedFinite DEF SoundTable
  <2>2. p \in Occupied(t) <=> t.slots[p].key # NoKey
    BY <1>1, <1>3, SizeOfTable DEF Occupied
  <2>3. CASE p \in Occupied(t)
    <3>1. Occupied(u) = Occupied(t)
      BY <1>7, <2>3
    <3> QED
      BY <1>1, <1>4, <2>1, <2>2, <2>3, <3>1
  <2>4. CASE p \notin Occupied(t)
    <3>1. Cardinality(Occupied(u)) = Cardinality(Occupied(t)) + 1
      BY <1>7, <2>1, <2>4, FS_AddElement
    <3> QED
      BY <1>1, <1>4, <2>1, <2>2, <2>4, <3>1
  <2> QED
    BY <2>3, <2>4
<1>9. u.used <= t.used + 1 /\ u.used < n
  BY <1>1, <1>4
<1>10. SoundTable(u, n)
  BY <1>2, <1>5, <1>6, <1>8, <1>9 DEF SoundTable
<1>11. ASSUME NEW m \in Keys PROVE Find(u, m) = IF m = k THEN g ELSE Find(t, m)
  <2>1. CASE m = k
    <3>1. u.slots[p].key = m /\ u.slots[p].gen = g
      BY <1>2, <1>3, <2>1
    <3> QED
      BY <1>3, <1>10, <2>1, <3>1, FindByPresence
  <2>2. CASE m # k /\ \E i \in 0 .. n - 1 : t.slots[i].key = m
    <3>1. PICK i \in 0 .. n - 1 : t.slots[i].key = m
      BY <2>2
    <3>2. u.slots[i] = t.slots[i]
      BY <1>2, <1>3, <2>2, <3>1, KeymapAssumption
    <3> QED
      BY <1>10, <2>2, <3>1, <3>2, FindByPresence
  <2>3. CASE m # k /\ \A i \in 0 .. n - 1 : t.slots[i].key # m
    <3>1. \A i \in 0 .. n - 1 : u.slots[i].key # m
      BY <1>2, <2>3
    <3> QED
      BY <1>10, <2>3, <3>1, FindByPresence
  <2> QED
    BY <2>1, <2>2, <2>3
<1> QED
  BY <1>9, <1>10, <1>11 DEF u

-----------------------------------------------------------------------------
(* Folds *)

(* A bounded set of numbers has a greatest one, and Max() is it.           *)
LEMMA MaxOfSet ==
  ASSUME NEW n \in Nat, NEW x \in SUBSET (1 .. n), x # {}
  PROVE  Max(x) \in x /\ \A y \in x : y <= Max(x)
<1> DEFINE T == {n - y : y \in x}
<1>1. T \subseteq Nat /\ T # {}
  <2>1. \A y \in x : n - y \in Nat
    OBVIOUS
  <2> QED
    BY <2>1
<1>2. PICK m \in T : \A y \in T : m <= y
  <2> HIDE DEF T
  <2> QED
    BY <1>1, SmallestNat
<1>3. PICK z \in x : m = n - z
  BY <1>2
<1>4. \A y \in x : z >= y
  <2> SUFFICES ASSUME NEW y \in x PROVE z >= y
    OBVIOUS
  <2>1. n - z <= n - y
    BY <1>2, <1>3
  <2> QED
    BY <2>1
<1>5. Max(x) \in x /\ \A y \in x : Max(x) >= y
  BY <1>4 DEF Max
<1> QED
  BY <1>5

(* A function on the first n numbers is a sequence.                        *)
LEMMA FunctionIsSeq ==
  ASSUME NEW S, NEW n \in Nat, NEW q \in [1 .. n -> S]
  PROVE  q \in Seq(S) /\ Len(q) = n
  OBVIOUS

(* The greatest of the first n numbers.                                    *)
LEMMA MaxUpTo ==
  ASSUME NEW n \in Nat, n # 0
  PROVE  Max(1 .. n) = n /\ (1 .. n) \ {n} = 1 .. n - 1 /\ 1 .. n # {}
<1>1. 1 .. n \in SUBSET (1 .. n) /\ 1 .. n # {}
  OBVIOUS
<1>2. Max(1 .. n) \in 1 .. n /\ \A y \in 1 .. n : y <= Max(1 .. n)
  BY <1>1, MaxOfSet
<1>3. n <= Max(1 .. n)
  BY <1>2
<1> QED
  BY <1>2, <1>3

(* Without its greatest, a set of the first n + 1 numbers is one of the    *)
(* first n.                                                                *)
LEMMA WithoutMax ==
  ASSUME NEW n \in Nat, NEW x \in SUBSET (1 .. n), x # {}
  PROVE  x \ {Max(x)} \in SUBSET (1 .. n - 1) /\ Max(x) \in 1 .. n
<1>1. Max(x) \in x /\ \A y \in x : y <= Max(x)
  BY MaxOfSet
<1>2. ASSUME NEW y \in x \ {Max(x)} PROVE y \in 1 .. n - 1
  <2>1. y <= Max(x) /\ y # Max(x) /\ y \in 1 .. n /\ Max(x) \in 1 .. n
    BY <1>1
  <2> QED
    BY <2>1
<1> QED
  BY <1>1, <1>2

(* h[x], for every set x of the first n numbers, is what F makes of them,  *)
(* in their order, beginning with b.                                       *)
Folded(F, b, n, h) ==
  h = [x \in SUBSET (1 .. n) |-> IF x = {} THEN b ELSE F[<<Max(x), h[x \ {Max(x)}]>>]]

(* The recursion of a fold has a solution, whose values are what a step    *)
(* makes of such values.                                                   *)
LEMMA FoldExists ==
  ASSUME NEW n \in Nat, NEW T, NEW b \in T, NEW F \in [(1 .. n) \X T -> T]
  PROVE  \E h : Folded(F, b, n, h) /\ \A x \in SUBSET (1 .. n) : h[x] \in T
<1> DEFINE Has(m) == \E h : Folded(F, b, m, h) /\ \A x \in SUBSET (1 .. m) : h[x] \in T
           Lacks  == {m \in 0 .. n : ~Has(m)}
<1>1. SUFFICES ASSUME Lacks # {} PROVE FALSE
  OBVIOUS
<1>2. PICK m \in Lacks : \A l \in Lacks : m <= l
  <2>1. Lacks \subseteq Nat
    OBVIOUS
  <2> HIDE DEF Lacks
  <2> QED
    BY <1>1, <2>1, SmallestNat
<1>3. m \in 0 .. n /\ ~Has(m)
  OBVIOUS
<1>4. CASE m = 0
  <2> DEFINE h == [x \in SUBSET (1 .. 0) |-> b]
  <2>1. SUBSET (1 .. 0) = {{}}
    OBVIOUS
  <2>2. Folded(F, b, 0, h) /\ \A x \in SUBSET (1 .. 0) : h[x] \in T
    BY <2>1 DEF Folded
  <2> QED
    BY <1>3, <1>4, <2>2
<1>5. CASE m # 0
  <2>1. m - 1 \in 0 .. n /\ ~(m <= m - 1) /\ m \in Nat
    BY <1>3, <1>5
  <2>2. m - 1 \notin Lacks
    <3> HIDE DEF Lacks
    <3> QED
      BY <1>2, <2>1
  <2>3. PICK h : Folded(F, b, m - 1, h) /\ \A x \in SUBSET (1 .. m - 1) : h[x] \in T
    BY <2>1, <2>2
  <2> DEFINE j == [x \in SUBSET (1 .. m) |-> IF x = {} THEN b ELSE F[<<Max(x), h[x \ {Max(x)}]>>]]
  <2>4. ASSUME NEW x \in SUBSET (1 .. m), x # {}
        PROVE  /\ x \ {Max(x)} \in SUBSET (1 .. m - 1)
               /\ x \ {Max(x)} \in SUBSET (1 .. m)
               /\ Max(x) \in 1 .. n
    <3>1. x \ {Max(x)} \in SUBSET (1 .. m - 1) /\ Max(x) \in 1 .. m
      BY <2>1, <2>4, WithoutMax
    <3>2. \A y \in 1 .. m - 1 : y \in 1 .. m
      BY <2>1
    <3>3. \A y \in 1 .. m : y \in 1 .. n
      BY <1>3
    <3> QED
      BY <3>1, <3>2, <3>3
  <2>5. ASSUME NEW x \in SUBSET (1 .. m - 1) PROVE j[x] = h[x]
    <3>1. x \in SUBSET (1 .. m)
      BY <2>1
    <3>2. j[x] = IF x = {} THEN b ELSE F[<<Max(x), h[x \ {Max(x)}]>>]
      BY <3>1
    <3>3. h[x] = IF x = {} THEN b ELSE F[<<Max(x), h[x \ {Max(x)}]>>]
      BY <2>3 DEF Folded
    <3> QED
      BY <3>2, <3>3
  <2>6. j = [x \in SUBSET (1 .. m) |-> IF x = {} THEN b ELSE F[<<Max(x), j[x \ {Max(x)}]>>]]
    BY <2>4, <2>5
  <2>7. ASSUME NEW x \in SUBSET (1 .. m) PROVE j[x] \in T
    <3>1. CASE x = {}
      BY <3>1
    <3>2. CASE x # {}
      <4>1. j[x] = F[<<Max(x), h[x \ {Max(x)}]>>]
        BY <3>2
      <4>2. <<Max(x), h[x \ {Max(x)}]>> \in (1 .. n) \X T
        BY <2>3, <2>4, <3>2
      <4> QED
        BY <4>1, <4>2
    <3> QED
      BY <3>1, <3>2
  <2> HIDE DEF j
  <2>8. Folded(F, b, m, j)
    BY <2>6 DEF Folded
  <2> QED
    BY <1>3, <2>7, <2>8
<1> QED
  BY <1>4, <1>5

-----------------------------------------------------------------------------
(* The slots in some generations *)

(* The recursion SlotsIn() is, over the n slots s.                         *)
Selects(s, n, G, f) ==
  f = [i \in 0 .. n |->
         IF i = 0 THEN <<>>
         ELSE IF s[i].gen \in G THEN Append(f[i - 1], s[i]) ELSE f[i - 1]]

Selection(s, n, G) == CHOOSE f : Selects(s, n, G, f)

(* SlotsIn() is the end of that recursion.                                 *)
LEMMA SlotsInUnfolded ==
  ASSUME NEW t, NEW G
  PROVE  SlotsIn(t, G) = Selection(Slots(t), Size(t), G)[Size(t)]
  BY Zenon DEF SlotsIn, Selection, Selects

(* The recursion has a solution.                                           *)
LEMMA SelectionExists ==
  ASSUME NEW n \in Nat, NEW s \in [1 .. n -> Slot], NEW G
  PROVE  Selects(s, n, G, Selection(s, n, G))
<1> DEFINE F == [p \in (1 .. n) \X Seq(Slot) |->
                   IF s[p[1]].gen \in G THEN Append(p[2], s[p[1]]) ELSE p[2]]
<1>1. F \in [(1 .. n) \X Seq(Slot) -> Seq(Slot)]
  <2> SUFFICES ASSUME NEW p \in (1 .. n) \X Seq(Slot)
               PROVE  (IF s[p[1]].gen \in G THEN Append(p[2], s[p[1]]) ELSE p[2]) \in Seq(Slot)
    OBVIOUS
  <2>1. s[p[1]] \in Slot /\ p[2] \in Seq(Slot)
    OBVIOUS
  <2>2. Append(p[2], s[p[1]]) \in Seq(Slot)
    BY <2>1, AppendProperties
  <2> QED
    BY <2>1, <2>2
<1>2. \A p \in (1 .. n) \X Seq(Slot) :
        F[p] = IF s[p[1]].gen \in G THEN Append(p[2], s[p[1]]) ELSE p[2]
  OBVIOUS
<1> HIDE DEF F
<1>3. <<>> \in Seq(Slot)
  BY EmptySeq
<1>4. PICK h : Folded(F, <<>>, n, h) /\ \A x \in SUBSET (1 .. n) : h[x] \in Seq(Slot)
  BY <1>1, <1>3, FoldExists
<1>5. ASSUME NEW x \in SUBSET (1 .. n), x # {}
      PROVE  F[<<Max(x), h[x \ {Max(x)}]>>] =
               IF s[Max(x)].gen \in G THEN Append(h[x \ {Max(x)}], s[Max(x)])
               ELSE h[x \ {Max(x)}]
  <2>1. Max(x) \in 1 .. n /\ x \ {Max(x)} \in SUBSET (1 .. n)
    BY <1>5, WithoutMax
  <2>2. <<Max(x), h[x \ {Max(x)}]>> \in (1 .. n) \X Seq(Slot)
    BY <1>4, <2>1
  <2> QED
    BY <1>2, <2>2
<1> DEFINE f == [i \in 0 .. n |-> h[1 .. i]]
<1>6. ASSUME NEW i \in 0 .. n
      PROVE  f[i] = IF i = 0 THEN <<>>
                    ELSE IF s[i].gen \in G THEN Append(f[i - 1], s[i]) ELSE f[i - 1]
  <2>1. 1 .. i \in SUBSET (1 .. n) /\ f[i] = h[1 .. i]
    OBVIOUS
  <2>2. CASE i = 0
    <3>1. 1 .. i = {}
      BY <2>2
    <3> QED
      BY <1>4, <2>1, <2>2, <3>1 DEF Folded
  <2>3. CASE i # 0
    <3>1. i \in Nat /\ i - 1 \in 0 .. n /\ f[i - 1] = h[1 .. i - 1]
      BY <2>3
    <3>2. Max(1 .. i) = i /\ (1 .. i) \ {i} = 1 .. i - 1 /\ 1 .. i # {}
      BY <2>3, <3>1, MaxUpTo
    <3>3. h[1 .. i] = F[<<Max(1 .. i), h[(1 .. i) \ {Max(1 .. i)}]>>]
      BY <1>4, <2>1, <3>2 DEF Folded
    <3>4. h[1 .. i] = IF s[i].gen \in G THEN Append(h[1 .. i - 1], s[i]) ELSE h[1 .. i - 1]
      BY <1>5, <2>1, <3>2, <3>3
    <3> HIDE DEF f
    <3> QED
      BY <2>1, <2>3, <3>1, <3>4
  <2> QED
    BY <2>2, <2>3
<1>7. f = [i \in 0 .. n |-> f[i]]
  OBVIOUS
<1> HIDE DEF f
<1>8. Selects(s, n, G, f)
  BY <1>6, <1>7 DEF Selects
<1> QED
  BY <1>8 DEF Selection

(* A key has at most one slot with a generation of G.                      *)
OnePerKey(s, G, n) ==
  \A d, e \in 1 .. n : s[d].gen \in G /\ s[e].gen \in G /\ s[d].key = s[e].key => d = e

(* q has the slots of the first i of s that are in a generation of G, and  *)
(* no other, in this many places at most.                                  *)
Selected(q, s, G, i) ==
  /\ q \in Seq(Slot) /\ Len(q) <= i
  /\ \A j \in 1 .. Len(q) : \E d \in 1 .. i : s[d].gen \in G /\ q[j] = s[d]
  /\ \A d \in 1 .. i : s[d].gen \in G => \E j \in 1 .. Len(q) : q[j] = s[d]
  /\ \A j, l \in 1 .. Len(q) : q[j].key = q[l].key => j = l

(* One more slot.                                                          *)
LEMMA SelectOne ==
  ASSUME NEW n \in Nat, NEW s \in [1 .. n -> Slot], NEW G, OnePerKey(s, G, n),
         NEW i \in Nat, i < n, NEW q, Selected(q, s, G, i)
  PROVE  Selected(IF s[i + 1].gen \in G THEN Append(q, s[i + 1]) ELSE q, s, G, i + 1)
<1>1. /\ q \in Seq(Slot) /\ Len(q) \in Nat /\ Len(q) <= i
      /\ i + 1 \in 1 .. n /\ s[i + 1] \in Slot
      /\ \A d \in 1 .. i : d \in 1 .. i + 1 /\ d # i + 1 /\ d \in 1 .. n
      /\ \A d \in 1 .. i + 1 : d = i + 1 \/ d \in 1 .. i
  BY LenProperties DEF Selected
<1>2. CASE s[i + 1].gen \notin G
  <2>1. Selected(q, s, G, i + 1)
    <3>1. Len(q) <= i + 1
      BY <1>1
    <3>2. \A j \in 1 .. Len(q) : \E d \in 1 .. i + 1 : s[d].gen \in G /\ q[j] = s[d]
      BY <1>1 DEF Selected
    <3>3. \A d \in 1 .. i + 1 : s[d].gen \in G => \E j \in 1 .. Len(q) : q[j] = s[d]
      BY <1>1, <1>2 DEF Selected
    <3> QED
      BY <3>1, <3>2, <3>3 DEF Selected
  <2> QED
    BY <1>2, <2>1
<1>3. CASE s[i + 1].gen \in G
  <2> DEFINE r == Append(q, s[i + 1])
             l == Len(q)
  <2>1. /\ r \in Seq(Slot) /\ Len(r) = l + 1 /\ r[l + 1] = s[i + 1]
        /\ \A j \in 1 .. l : r[j] = q[j]
    BY <1>1, AppendProperties
  <2> HIDE DEF r
  <2>2. l \in Nat /\ l <= i
    BY <1>1
  <2>3. /\ \A j \in 1 .. l : \E d \in 1 .. i : s[d].gen \in G /\ q[j] = s[d]
        /\ \A d \in 1 .. i : s[d].gen \in G => \E j \in 1 .. l : q[j] = s[d]
        /\ \A j, m \in 1 .. l : q[j].key = q[m].key => j = m
    BY DEF Selected
  <2> HIDE DEF l
  <2>4. /\ \A j \in 1 .. l + 1 : j = l + 1 \/ j \in 1 .. l
        /\ \A j \in 1 .. l : j \in 1 .. l + 1
        /\ l + 1 \in 1 .. l + 1
    BY ONLY <2>2
  <2>5. \A j \in 1 .. l + 1 : \E d \in 1 .. i + 1 : s[d].gen \in G /\ r[j] = s[d]
    <3> SUFFICES ASSUME NEW j \in 1 .. l + 1
                 PROVE  \E d \in 1 .. i + 1 : s[d].gen \in G /\ r[j] = s[d]
      OBVIOUS
    <3>1. CASE j = l + 1
      <4>1. i + 1 \in 1 .. i + 1
        OBVIOUS
      <4> QED
        BY <1>3, <2>1, <3>1, <4>1
    <3>2. CASE j \in 1 .. l
      BY <1>1, <2>1, <2>3, <3>2
    <3> QED
      BY <2>4, <3>1, <3>2
  <2>6. \A d \in 1 .. i + 1 : s[d].gen \in G => \E j \in 1 .. l + 1 : r[j] = s[d]
    <3> SUFFICES ASSUME NEW d \in 1 .. i + 1, s[d].gen \in G
                 PROVE  \E j \in 1 .. l + 1 : r[j] = s[d]
      OBVIOUS
    <3>1. CASE d = i + 1
      BY <2>1, <2>4, <3>1
    <3>2. CASE d \in 1 .. i
      <4>1. PICK j \in 1 .. l : q[j] = s[d]
        BY <2>3, <3>2
      <4> QED
        BY <2>1, <2>4, <4>1
    <3> QED
      BY <1>1, <3>1, <3>2
  <2>7. ASSUME NEW j \in 1 .. l PROVE r[j].key # r[l + 1].key
    <3>1. PICK d \in 1 .. i : s[d].gen \in G /\ q[j] = s[d]
      BY <2>3
    <3>2. d # i + 1 /\ d \in 1 .. n
      BY <1>1
    <3>3. s[d].key # s[i + 1].key
      BY <1>1, <1>3, <3>1, <3>2 DEF OnePerKey
    <3> QED
      BY <2>1, <3>1, <3>3
  <2>8. \A j, m \in 1 .. l + 1 : r[j].key = r[m].key => j = m
    BY <2>1, <2>3, <2>4, <2>7
  <2>9. l + 1 <= i + 1
    BY <2>2
  <2>10. Selected(r, s, G, i + 1)
    BY <2>1, <2>5, <2>6, <2>8, <2>9 DEF Selected
  <2> QED
    BY <1>3, <2>10 DEF r
<1> QED
  BY <1>2, <1>3

(* All of them.                                                            *)
LEMMA SelectAll ==
  ASSUME NEW n \in Nat, NEW s \in [1 .. n -> Slot], NEW G, OnePerKey(s, G, n)
  PROVE  Selected(Selection(s, n, G)[n], s, G, n)
<1> DEFINE f == Selection(s, n, G)
           Fails == {i \in 0 .. n : ~Selected(f[i], s, G, i)}
<1>1. \A i \in 0 .. n :
        f[i] = IF i = 0 THEN <<>>
               ELSE IF s[i].gen \in G THEN Append(f[i - 1], s[i]) ELSE f[i - 1]
  <2>1. Selects(s, n, G, f)
    BY SelectionExists
  <2> HIDE DEF f
  <2> QED
    BY <2>1 DEF Selects
<1> HIDE DEF f
<1>2. SUFFICES ASSUME Fails # {} PROVE FALSE
  BY DEF f
<1>3. PICK i \in Fails : \A m \in Fails : i <= m
  <2>1. Fails \subseteq Nat
    OBVIOUS
  <2> HIDE DEF Fails
  <2> QED
    BY <1>2, <2>1, SmallestNat
<1>4. i \in 0 .. n /\ ~Selected(f[i], s, G, i)
  OBVIOUS
<1>5. CASE i = 0
  <2>1. f[0] = <<>>
    BY <1>1
  <2>2. Selected(<<>>, s, G, 0)
    BY EmptySeq DEF Selected
  <2> QED
    BY <1>4, <1>5, <2>1, <2>2
<1>6. CASE i # 0
  <2>1. i - 1 \in 0 .. n /\ ~(i <= i - 1) /\ i - 1 \in Nat /\ i - 1 < n /\ (i - 1) + 1 = i
    BY <1>4, <1>6
  <2>2. i - 1 \notin Fails
    <3> HIDE DEF Fails
    <3> QED
      BY <1>3, <2>1
  <2>3. Selected(f[i - 1], s, G, i - 1)
    BY <2>1, <2>2
  <2>4. f[i] = IF s[i].gen \in G THEN Append(f[i - 1], s[i]) ELSE f[i - 1]
    BY <1>1, <1>4, <1>6
  <2>5. Selected(IF s[(i - 1) + 1].gen \in G THEN Append(f[i - 1], s[(i - 1) + 1])
                 ELSE f[i - 1], s, G, (i - 1) + 1)
    BY <2>1, <2>3, SelectOne
  <2> QED
    BY <1>4, <2>1, <2>4, <2>5
<1> QED
  BY <1>5, <1>6

EntriesIn(G) == [key : Keys, gen : G]

(* Of a sound table, SlotsIn() has each key's slot once, if its generation *)
(* is one of G.                                                            *)
LEMMA SlotsOfTable ==
  ASSUME NEW n \in Nat, NEW t, SoundTable(t, n), NEW G \in SUBSET Generations
  PROVE  /\ SlotsIn(t, G) \in Seq(EntriesIn(G))
         /\ Len(SlotsIn(t, G)) \in Nat /\ Len(SlotsIn(t, G)) <= n
         /\ \A j \in 1 .. Len(SlotsIn(t, G)) :
              Find(t, SlotsIn(t, G)[j].key) = SlotsIn(t, G)[j].gen
         /\ \A k \in Keys : Find(t, k) \in G =>
              \E j \in 1 .. Len(SlotsIn(t, G)) : SlotsIn(t, G)[j].key = k
         /\ \A j, l \in 1 .. Len(SlotsIn(t, G)) :
              SlotsIn(t, G)[j].key = SlotsIn(t, G)[l].key => j = l
<1> DEFINE s == Slots(t)
           q == SlotsIn(t, G)
<1>1. t \in TableOf(n) /\ Size(t) = n /\ \A i \in 0 .. n - 1 : t.slots[i] \in Slot
  BY SizeOfTable DEF SoundTable
<1>2. s \in [1 .. n -> Slot] /\ \A i \in 1 .. n : s[i] = t.slots[i - 1]
  <2>1. \A i \in 1 .. n : i - 1 \in 0 .. n - 1
    OBVIOUS
  <2> QED
    BY <1>1, <2>1 DEF Slots
<1>3. DOMAIN s = 1 .. n
  BY <1>2
<1> HIDE DEF s
<1>4. ASSUME NEW d \in 1 .. n, s[d].gen \in G
      PROVE  s[d].key \in Keys /\ FindSlot(t, s[d].key) = d - 1 /\ Find(t, s[d].key) = s[d].gen
  <2>1. d - 1 \in 0 .. n - 1 /\ s[d] = t.slots[d - 1] /\ s[d] \in Slot
    BY <1>2
  <2>2. s[d].key # NoKey
    BY <1>4, <2>1, KeymapAssumption DEF SoundTable
  <2>3. s[d].key \in Keys
    BY <2>1, <2>2 DEF Slot
  <2> QED
    BY <2>1, <2>2, <2>3 DEF SoundTable, Find
<1>5. OnePerKey(s, G, n)
  <2> SUFFICES ASSUME NEW d \in 1 .. n, NEW e \in 1 .. n,
                      s[d].gen \in G, s[e].gen \in G, s[d].key = s[e].key
               PROVE  d = e
    BY DEF OnePerKey
  <2>1. d - 1 = e - 1
    BY <1>4
  <2> QED
    BY <2>1
<1>6. Selected(q, s, G, n)
  <2>1. q = Selection(s, n, G)[n]
    BY <1>1, SlotsInUnfolded DEF s
  <2> HIDE DEF q
  <2> QED
    BY <1>2, <1>5, <2>1, SelectAll
<1> HIDE DEF q
<1>7. q \in Seq(Slot) /\ Len(q) \in Nat /\ Len(q) <= n
  BY <1>6, LenProperties DEF Selected
<1>8. ASSUME NEW j \in 1 .. Len(q)
      PROVE  q[j] \in EntriesIn(G) /\ Find(t, q[j].key) = q[j].gen
  <2>1. PICK d \in 1 .. n : s[d].gen \in G /\ q[j] = s[d]
    BY <1>6 DEF Selected
  <2>2. s[d] \in Slot /\ s[d].key \in Keys
    BY <1>2, <1>4, <2>1
  <2> QED
    BY <1>4, <2>1, <2>2 DEF Slot, EntriesIn
<1>9. q \in Seq(EntriesIn(G))
  <2>1. q \in [1 .. Len(q) -> EntriesIn(G)]
    BY <1>7, <1>8, LenProperties
  <2>2. PICK l \in Nat : q \in [1 .. l -> EntriesIn(G)]
    BY <1>7, <2>1
  <2> QED
    BY ONLY <2>2, FunctionIsSeq
<1>10. ASSUME NEW k \in Keys, Find(t, k) \in G PROVE \E j \in 1 .. Len(q) : q[j].key = k
  <2>1. PICK i \in 0 .. n - 1 : t.slots[i].key = k
    BY <1>10, FindByPresence, KeymapAssumption
  <2>2. t.slots[i].gen \in G
    BY <1>10, <2>1, FindByPresence
  <2>3. i + 1 \in 1 .. n /\ s[i + 1] = t.slots[(i + 1) - 1] /\ (i + 1) - 1 = i
    BY <1>2
  <2>4. PICK j \in 1 .. Len(q) : q[j] = s[i + 1]
    BY <1>6, <2>2, <2>3 DEF Selected
  <2> QED
    BY <2>1, <2>3, <2>4
<1> QED
  BY <1>6, <1>7, <1>8, <1>9, <1>10 DEF Selected, q

-----------------------------------------------------------------------------
(* Growing *)

(* The recursion grow() is, over the entries q, from the table b.          *)
Fills(q, b, h) ==
  h = [x \in SUBSET DOMAIN q |->
         IF x = {} THEN b ELSE Fill(h[x \ {Max(x)}], q[Max(x)].key, q[Max(x)].gen)]

Filling(q, b) == CHOOSE h : Fills(q, b, h)

(* Grow() is the end of that recursion.                                    *)
LEMMA GrowUnfolded ==
  ASSUME NEW t
  PROVE  Grow(t) = Filling(Live(t), EmptyTable(2 * Size(t)))[DOMAIN Live(t)]
  BY Zenon DEF Grow, FoldLeft, MapThenFoldSet, Filling, Fills

Entry == EntriesIn(Generations)

(* The recursion has a solution.                                           *)
LEMMA FillingExists ==
  ASSUME NEW n \in Nat, NEW b \in TableOf(n), NEW l \in Nat, NEW q \in [1 .. l -> Entry]
  PROVE  Fills(q, b, Filling(q, b))
<1> DEFINE T == TableOf(n)
           F == [p \in (1 .. l) \X T |-> Fill(p[2], q[p[1]].key, q[p[1]].gen)]
<1>1. F \in [(1 .. l) \X T -> T]
  <2> SUFFICES ASSUME NEW p \in (1 .. l) \X T
               PROVE  Fill(p[2], q[p[1]].key, q[p[1]].gen) \in T
    OBVIOUS
  <2>1. q[p[1]] \in Entry /\ p[2] \in T
    OBVIOUS
  <2>2. q[p[1]].key \in Keys /\ q[p[1]].gen \in Generations \cup {Gone}
    BY <2>1 DEF Entry, EntriesIn
  <2> QED
    BY <2>1, <2>2, FillType
<1>2. \A p \in (1 .. l) \X T : F[p] = Fill(p[2], q[p[1]].key, q[p[1]].gen)
  OBVIOUS
<1> HIDE DEF F
<1>3. PICK h : Folded(F, b, l, h) /\ \A x \in SUBSET (1 .. l) : h[x] \in T
  BY <1>1, FoldExists
<1>4. DOMAIN q = 1 .. l
  OBVIOUS
<1>5. ASSUME NEW x \in SUBSET (1 .. l), x # {}
      PROVE  F[<<Max(x), h[x \ {Max(x)}]>>] =
               Fill(h[x \ {Max(x)}], q[Max(x)].key, q[Max(x)].gen)
  <2>1. Max(x) \in 1 .. l /\ x \ {Max(x)} \in SUBSET (1 .. l)
    BY <1>5, WithoutMax
  <2>2. <<Max(x), h[x \ {Max(x)}]>> \in (1 .. l) \X T
    BY <1>3, <2>1
  <2> QED
    BY <1>2, <2>2
<1>6. Fills(q, b, h)
  BY <1>3, <1>4, <1>5 DEF Folded, Fills
<1> QED
  BY <1>6 DEF Filling

(* u is a sound table with the first i of the entries q, and no other key. *)
Filled(u, n, q, i) ==
  /\ SoundTable(u, n) /\ u.used <= i
  /\ \A j \in 1 .. i : Find(u, q[j].key) = q[j].gen
  /\ \A k \in Keys : (\A j \in 1 .. i : q[j].key # k) => Find(u, k) = Gone

(* The entries of another table of half the size fit.                      *)
LEMMA FillAll ==
  ASSUME NEW n \in Nat, NEW l \in Nat, l < n, NEW q \in [1 .. l -> Entry],
         \A i, j \in 1 .. l : q[i].key = q[j].key => i = j
  PROVE  Filled(Filling(q, EmptyTable(n))[1 .. l], n, q, l)
<1> DEFINE h == Filling(q, EmptyTable(n))
           Fails == {i \in 0 .. l : ~Filled(h[1 .. i], n, q, i)}
<1>1. n \in Nat \ {0} /\ EmptyTable(n) \in TableOf(n) /\ DOMAIN q = 1 .. l
  BY EmptySound DEF SoundTable
<1>2. \A x \in SUBSET (1 .. l) :
        h[x] = IF x = {} THEN EmptyTable(n)
               ELSE Fill(h[x \ {Max(x)}], q[Max(x)].key, q[Max(x)].gen)
  <2>1. Fills(q, EmptyTable(n), h)
    BY <1>1, FillingExists
  <2> HIDE DEF h
  <2> QED
    BY <1>1, <2>1 DEF Fills
<1> HIDE DEF h
<1>3. SUFFICES ASSUME Fails # {} PROVE FALSE
  BY DEF h
<1>4. PICK i \in Fails : \A m \in Fails : i <= m
  <2>1. Fails \subseteq Nat
    OBVIOUS
  <2> HIDE DEF Fails
  <2> QED
    BY <1>3, <2>1, SmallestNat
<1>5. i \in 0 .. l /\ ~Filled(h[1 .. i], n, q, i)
  OBVIOUS
<1>6. CASE i = 0
  <2>1. 1 .. 0 = {} /\ 1 .. 0 \in SUBSET (1 .. l)
    OBVIOUS
  <2>2. h[1 .. 0] = EmptyTable(n)
    BY <1>2, <2>1
  <2>3. SoundTable(EmptyTable(n), n) /\ EmptyTable(n).used = 0
        /\ \A j \in 0 .. n - 1 : EmptyTable(n).slots[j] = Never
    BY <1>1, EmptySound
  <2>4. ASSUME NEW k \in Keys PROVE Find(EmptyTable(n), k) = Gone
    <3>1. \A j \in 0 .. n - 1 : EmptyTable(n).slots[j].key # k
      BY <2>3, KeymapAssumption DEF Never
    <3> QED
      BY <2>3, <3>1, FindByPresence
  <2>5. Filled(EmptyTable(n), n, q, 0)
    BY <2>1, <2>3, <2>4 DEF Filled
  <2> QED
    BY <1>5, <1>6, <2>2, <2>5
<1>7. CASE i # 0
  <2>1. i - 1 \in 0 .. l /\ ~(i <= i - 1) /\ i \in Nat /\ i - 1 \in Nat /\ i \in 1 .. l
    BY <1>5, <1>7
  <2>2. i - 1 \notin Fails
    <3> HIDE DEF Fails
    <3> QED
      BY <1>4, <2>1
  <2>3. Filled(h[1 .. i - 1], n, q, i - 1)
    BY <2>1, <2>2
  <2>4. 1 .. i \in SUBSET (1 .. l)
    BY <1>5
  <2>5. Max(1 .. i) = i /\ (1 .. i) \ {i} = 1 .. i - 1 /\ 1 .. i # {}
    BY <1>7, <2>1, MaxUpTo
  <2> DEFINE t == h[1 .. i - 1]
             u == h[1 .. i]
             k == q[i].key
             g == q[i].gen
  <2>6. u = Fill(t, k, g)
    BY <1>2, <2>4, <2>5
  <2>7. k \in Keys /\ g \in Generations
    <3>1. q[i] \in Entry
      BY <2>1
    <3> QED
      BY <3>1 DEF Entry, EntriesIn
  <2> HIDE DEF t, u, k, g
  <2>8. SoundTable(t, n) /\ t.used \in Nat /\ t.used <= i - 1 /\ t.used + 1 < n
    <3>1. SoundTable(t, n) /\ t.used <= i - 1
      BY <2>3 DEF Filled, t
    <3>2. t.used \in Nat
      BY <3>1 DEF SoundTable, TableOf
    <3> QED
      BY <2>1, <3>1, <3>2
  <2>9. /\ SoundTable(u, n) /\ u.used <= t.used + 1
        /\ \A m \in Keys : Find(u, m) = IF m = k THEN g ELSE Find(t, m)
    BY <2>6, <2>7, <2>8, FillSound
  <2>10. u.used <= i
    <3>1. u.used \in Nat
      BY <2>9 DEF SoundTable, TableOf
    <3> QED
      BY <2>1, <2>8, <2>9, <3>1
  <2>11. ASSUME NEW j \in 1 .. i PROVE Find(u, q[j].key) = q[j].gen
    <3>1. j \in 1 .. l /\ q[j] \in Entry
      BY <2>1
    <3>2. q[j].key \in Keys
      BY <3>1 DEF Entry, EntriesIn
    <3>3. CASE j = i
      BY <2>7, <2>9, <3>3 DEF k, g
    <3>4. CASE j # i
      <4>1. j \in 1 .. i - 1 /\ q[j].key # k
        BY <2>1, <3>1, <3>4 DEF k
      <4>2. Find(t, q[j].key) = q[j].gen
        BY <2>3, <4>1 DEF Filled, t
      <4> QED
        BY <2>9, <3>2, <4>1, <4>2
    <3> QED
      BY <3>3, <3>4
  <2>12. ASSUME NEW m \in Keys, \A j \in 1 .. i : q[j].key # m PROVE Find(u, m) = Gone
    <3>1. m # k
      BY <2>1, <2>12 DEF k
    <3>2. \A j \in 1 .. i - 1 : j \in 1 .. i
      BY <2>1
    <3>3. Find(t, m) = Gone
      BY <2>3, <2>12, <3>2 DEF Filled, t
    <3> QED
      BY <2>9, <3>1, <3>3
  <2>13. Filled(u, n, q, i)
    BY <2>9, <2>10, <2>11, <2>12 DEF Filled
  <2> QED
    BY <1>5, <2>13 DEF u
<1> QED
  BY <1>6, <1>7

(* A table in use: at least as large as a new one.                         *)
Sound(t) == Size(t) \in Nat /\ Size(t) >= 4 /\ SoundTable(t, Size(t))

(* A table that grows keeps every key's place, and has room.               *)
LEMMA GrowSound ==
  ASSUME NEW t, Sound(t)
  PROVE  /\ Sound(Grow(t)) /\ Size(Grow(t)) = 2 * Size(t) /\ Grow(t).used <= Size(t)
         /\ \A k \in Keys : Find(Grow(t), k) = Find(t, k)
<1> DEFINE n == Size(t)
           q == Live(t)
           l == Len(q)
           u == Grow(t)
<1>1. n \in Nat /\ n >= 4 /\ SoundTable(t, n)
  BY DEF Sound
<1>2. /\ q \in Seq(Entry) /\ l \in Nat /\ l <= n
      /\ \A j \in 1 .. l : Find(t, q[j].key) = q[j].gen
      /\ \A k \in Keys : Find(t, k) \in Generations => \E j \in 1 .. l : q[j].key = k
      /\ \A i, j \in 1 .. l : q[i].key = q[j].key => i = j
  <2>1. Generations \in SUBSET Generations
    OBVIOUS
  <2> HIDE DEF n
  <2> QED
    BY <1>1, <2>1, SlotsOfTable DEF Live, Entry
<1>3. u = Filling(q, EmptyTable(2 * n))[DOMAIN q]
  BY GrowUnfolded
<1> HIDE DEF n, q, l, u
<1>4. DOMAIN q = 1 .. l /\ q \in [1 .. l -> Entry]
  BY <1>2, LenProperties DEF l
<1>5. 2 * n \in Nat /\ l < 2 * n /\ 2 * n >= 4
  BY <1>1, <1>2
<1>6. Filled(u, 2 * n, q, l)
  BY <1>2, <1>3, <1>4, <1>5, FillAll
<1>7. SoundTable(u, 2 * n) /\ u \in TableOf(2 * n) /\ u.used \in Nat /\ u.used <= l
  BY <1>6 DEF Filled, SoundTable, TableOf
<1>8. Size(u) = 2 * n
  BY <1>5, <1>7, SizeOfTable
<1>9. ASSUME NEW k \in Keys PROVE Find(u, k) = Find(t, k)
  <2>1. CASE \E j \in 1 .. l : q[j].key = k
    BY <1>2, <1>6, <2>1 DEF Filled
  <2>2. CASE \A j \in 1 .. l : q[j].key # k
    <3>1. Find(u, k) = Gone
      BY <1>6, <2>2 DEF Filled
    <3>2. Find(t, k) \in Generations \cup {Gone}
      BY <1>1, FindByPresence
    <3> QED
      BY <1>2, <2>2, <3>1, <3>2
  <2> QED
    BY <2>1, <2>2
<1>10. u.used <= n
  BY <1>1, <1>2, <1>7
<1> QED
  BY <1>5, <1>7, <1>8, <1>9, <1>10 DEF Sound, n, u

(* An entry goes in, and a free slot is left: at 3/4 of four slots or more *)
(* at the latest the table grows.                                          *)
LEMMA InsertSound ==
  ASSUME NEW t, Sound(t), NEW k \in Keys, NEW g \in Generations \cup {Gone}
  PROVE  /\ Sound(Insert(t, k, g))
         /\ \A m \in Keys : Find(Insert(t, k, g), m) = IF m = k THEN g ELSE Find(t, m)
<1> DEFINE v == IF t.used * 4 >= Size(t) * 3 THEN Grow(t) ELSE t
           u == Fill(v, k, g)
<1>1. Insert(t, k, g) = u
  BY DEF Insert
<1>2. /\ Sound(v) /\ v.used + 1 < Size(v)
      /\ \A m \in Keys : Find(v, m) = Find(t, m)
  <2>1. CASE t.used * 4 >= Size(t) * 3
    <3>1. v = Grow(t)
      BY <2>1
    <3> HIDE DEF v
    <3>2. /\ Sound(v) /\ Size(v) = 2 * Size(t) /\ v.used <= Size(t)
          /\ \A m \in Keys : Find(v, m) = Find(t, m)
      BY <3>1, GrowSound
    <3>3. v.used \in Nat /\ Size(t) \in Nat /\ Size(t) >= 4
      BY <3>2 DEF Sound, SoundTable, TableOf
    <3> QED
      BY <3>2, <3>3
  <2>2. CASE ~(t.used * 4 >= Size(t) * 3)
    <3>1. v = t
      BY <2>2
    <3>2. t.used \in Nat /\ Size(t) \in Nat /\ Size(t) >= 4
      BY DEF Sound, SoundTable, TableOf
    <3>3. t.used + 1 < Size(t)
      BY ONLY <2>2, <3>2
    <3> QED
      BY <3>1, <3>3
  <2> QED
    BY <2>1, <2>2
<1> HIDE DEF v
<1> DEFINE n == Size(v)
<1>3. n \in Nat /\ n >= 4 /\ SoundTable(v, n)
  BY <1>2 DEF Sound
<1>4. v.used + 1 < n
  BY <1>2
<1> HIDE DEF n
<1>5. SoundTable(u, n) /\ \A m \in Keys : Find(u, m) = IF m = k THEN g ELSE Find(v, m)
  BY <1>3, <1>4, FillSound
<1>6. Size(u) = n
  BY <1>3, <1>5, SizeOfTable DEF SoundTable
<1> HIDE DEF u
<1>7. Sound(u)
  BY <1>3, <1>5, <1>6 DEF Sound
<1> QED
  BY <1>1, <1>2, <1>5, <1>7

-----------------------------------------------------------------------------
(* Removing *)

(* A table in which only generations change is sound, if those of the free *)
(* slots do not.                                                           *)
LEMMA RegenSound ==
  ASSUME NEW t, Sound(t), NEW u \in TableOf(Size(t)), u.used = t.used,
         \A i \in 0 .. Size(t) - 1 : /\ u.slots[i].key = t.slots[i].key
                                     /\ u.slots[i].key = NoKey => u.slots[i].gen = Gone
  PROVE  /\ Sound(u) /\ Size(u) = Size(t)
         /\ \A k \in Keys : FindSlot(u, k) = FindSlot(t, k)
<1> DEFINE n == Size(t)
<1>1. n \in Nat /\ n >= 4 /\ SoundTable(t, n) /\ u \in TableOf(n)
  BY DEF Sound
<1>2. \A i \in 0 .. n - 1 : u.slots[i].key = t.slots[i].key
                            /\ (u.slots[i].key = NoKey => u.slots[i].gen = Gone)
  OBVIOUS
<1> HIDE DEF n
<1>3. t \in TableOf(n)
  BY <1>1 DEF SoundTable
<1>4. DOMAIN t.slots = 0 .. n - 1 /\ DOMAIN u.slots = 0 .. n - 1 /\ Size(u) = n /\ Size(t) = n
  BY <1>1, <1>3, SizeOfTable
<1>5. \A k \in Keys : FindSlot(u, k) = FindSlot(t, k)
  BY <1>1, <1>2, <1>3, SameKeysSameSlot
<1>6. Occupied(u) = Occupied(t)
  BY <1>2, <1>4 DEF Occupied
<1>7. ASSUME NEW i \in 0 .. n - 1, u.slots[i].key # NoKey
      PROVE  FindSlot(u, u.slots[i].key) = i
  <2>1. u.slots[i] \in Slot
    BY <1>1, SizeOfTable
  <2>2. u.slots[i].key \in Keys
    BY <1>7, <2>1 DEF Slot
  <2>3. FindSlot(t, t.slots[i].key) = i
    BY <1>1, <1>2, <1>7 DEF SoundTable
  <2> QED
    BY <1>2, <1>5, <2>2, <2>3
<1>8. SoundTable(u, n)
  BY <1>1, <1>2, <1>6, <1>7 DEF SoundTable
<1> QED
  BY <1>1, <1>4, <1>5, <1>8 DEF Sound

(* A removed key is gone, and no other.                                    *)
LEMMA MarkRemovedSound ==
  ASSUME NEW t, Sound(t), NEW k \in Keys
  PROVE  /\ Sound(MarkRemoved(t, k))
         /\ \A m \in Keys : Find(MarkRemoved(t, k), m) = IF m = k THEN Gone ELSE Find(t, m)
<1> DEFINE n == Size(t)
           p == FindSlot(t, k)
           u == MarkRemoved(t, k)
<1>1. n \in Nat /\ n >= 4 /\ SoundTable(t, n) /\ t \in TableOf(n)
  BY DEF Sound, SoundTable
<1>2. p \in 0 .. n - 1 /\ t.slots[p].key \in {k, NoKey}
  BY <1>1, SoundProbe
<1>3. CASE t.slots[p].key = NoKey
  <2>1. u = t
    BY <1>3 DEF MarkRemoved
  <2>2. Find(t, k) = Gone
    BY <1>1, <1>2, <1>3 DEF Find, SoundTable
  <2> QED
    BY <2>1, <2>2
<1>4. CASE t.slots[p].key # NoKey
  <2>1. u = [t EXCEPT !.slots = [t.slots EXCEPT ![p] = [t.slots[p] EXCEPT !.gen = Gone]]]
    BY <1>4 DEF MarkRemoved
  <2> DEFINE s == [t.slots EXCEPT ![p] = [t.slots[p] EXCEPT !.gen = Gone]]
  <2>2. t.slots \in [0 .. n - 1 -> Slot] /\ t.used \in Nat /\ t = [slots |-> t.slots, used |-> t.used]
    BY <1>1 DEF TableOf
  <2>3. t.slots[p] \in Slot
    BY <1>2, <2>2
  <2>4. /\ [t.slots[p] EXCEPT !.gen = Gone] \in Slot
        /\ [t.slots[p] EXCEPT !.gen = Gone].key = t.slots[p].key
        /\ [t.slots[p] EXCEPT !.gen = Gone].gen = Gone
    BY <2>3 DEF Slot
  <2>5. s \in [0 .. n - 1 -> Slot]
    BY <2>2, <2>4
  <2>6. \A i \in 0 .. n - 1 : s[i] = IF i = p THEN [t.slots[p] EXCEPT !.gen = Gone] ELSE t.slots[i]
    BY <2>2
  <2>7. u = [slots |-> s, used |-> t.used]
    BY <2>1, <2>2
  <2> HIDE DEF s, u, p
  <2>8. u \in TableOf(n) /\ u.used = t.used /\ u.slots = s
    BY <2>2, <2>5, <2>7 DEF TableOf
  <2>9. \A i \in 0 .. n - 1 : /\ u.slots[i].key = t.slots[i].key
                              /\ u.slots[i].key = NoKey => u.slots[i].gen = Gone
    BY <1>1, <2>4, <2>6, <2>8 DEF SoundTable
  <2>10. Sound(u) /\ \A m \in Keys : FindSlot(u, m) = FindSlot(t, m)
    BY <2>8, <2>9, RegenSound
  <2>11. ASSUME NEW m \in Keys PROVE Find(u, m) = IF m = k THEN Gone ELSE Find(t, m)
    <3>1. FindSlot(t, m) \in 0 .. n - 1 /\ t.slots[FindSlot(t, m)].key \in {m, NoKey}
      BY <1>1, SoundProbe
    <3>2. Find(u, m) = s[FindSlot(t, m)].gen
      BY <2>8, <2>10 DEF Find
    <3>3. CASE m = k
      BY <1>2, <2>4, <2>6, <3>2, <3>3 DEF p
    <3>4. CASE m # k
      <4>1. FindSlot(t, m) # p
        BY <1>2, <1>4, <3>1, <3>4
      <4> QED
        BY <2>6, <3>1, <3>2, <3>4, <4>1 DEF Find
    <3> QED
      BY <3>3, <3>4
  <2> QED
    BY <2>10, <2>11 DEF u
<1> QED
  BY <1>3, <1>4

(* What retain_generations(S) leaves of the table.                         *)
Retained(t, S) ==
  [t EXCEPT !.slots =
     [i \in DOMAIN @ |-> IF @[i].gen \in S THEN @[i] ELSE [@[i] EXCEPT !.gen = Gone]]]

(* The keys that are not in a generation of S are gone, and no other.      *)
LEMMA RetainedSound ==
  ASSUME NEW t, Sound(t), NEW S \in SUBSET Generations
  PROVE  /\ Sound(Retained(t, S))
         /\ \A k \in Keys : Find(Retained(t, S), k) = IF Find(t, k) \in S THEN Find(t, k) ELSE Gone
<1> DEFINE n == Size(t)
           u == Retained(t, S)
           s == [i \in DOMAIN t.slots |->
                   IF t.slots[i].gen \in S THEN t.slots[i] ELSE [t.slots[i] EXCEPT !.gen = Gone]]
<1>1. n \in Nat /\ n >= 4 /\ SoundTable(t, n) /\ t \in TableOf(n)
  BY DEF Sound, SoundTable
<1>2. /\ t.slots \in [0 .. n - 1 -> Slot] /\ t.used \in Nat
      /\ t = [slots |-> t.slots, used |-> t.used] /\ DOMAIN t.slots = 0 .. n - 1
  BY <1>1 DEF TableOf
<1>3. u = [slots |-> s, used |-> t.used]
  <2>1. u = [t EXCEPT !.slots = s]
    BY DEF Retained
  <2> HIDE DEF s, u
  <2> QED
    BY <1>2, <2>1
<1>4. ASSUME NEW i \in 0 .. n - 1
      PROVE  /\ s[i] \in Slot /\ s[i].key = t.slots[i].key
             /\ s[i].gen = IF t.slots[i].gen \in S THEN t.slots[i].gen ELSE Gone
  <2>1. t.slots[i] \in Slot /\ i \in DOMAIN t.slots
    BY <1>2
  <2> QED
    BY <2>1 DEF Slot
<1>5. DOMAIN s = 0 .. n - 1 /\ s = [i \in 0 .. n - 1 |-> s[i]]
  BY <1>2
<1> HIDE DEF s, u
<1>6. s \in [0 .. n - 1 -> Slot]
  BY <1>4, <1>5
<1>7. u \in TableOf(n) /\ u.used = t.used /\ u.slots = s
  BY <1>2, <1>3, <1>6 DEF TableOf
<1>8. \A i \in 0 .. n - 1 : /\ u.slots[i].key = t.slots[i].key
                            /\ u.slots[i].key = NoKey => u.slots[i].gen = Gone
  BY <1>1, <1>4, <1>7 DEF SoundTable
<1>9. Sound(u) /\ \A k \in Keys : FindSlot(u, k) = FindSlot(t, k)
  BY <1>7, <1>8, RegenSound
<1>10. ASSUME NEW k \in Keys
       PROVE  Find(u, k) = IF Find(t, k) \in S THEN Find(t, k) ELSE Gone
  <2>1. FindSlot(t, k) \in 0 .. n - 1
    BY <1>1, SoundProbe
  <2>2. Find(u, k) = s[FindSlot(t, k)].gen
    BY <1>7, <1>9 DEF Find
  <2> QED
    BY <1>4, <2>1, <2>2 DEF Find
<1> QED
  BY <1>9, <1>10 DEF u

-----------------------------------------------------------------------------
(* Loading a log *)

(* The lines there may be in a log.                                        *)
LogLine ==
  {Garbage} \cup [op : {"A"}, key : Keys, gen : Generations]
            \cup [op : {"D"}, key : Keys, gen : {Gone}]

(* A line says where its key is, unless it is too long to be read.         *)
LEMMA AppliedSound ==
  ASSUME NEW t, Sound(t), NEW l \in LogLine
  PROVE  /\ Sound(Applied(t, l))
         /\ \A k \in Keys :
              Find(Applied(t, l), k) = IF l.key = k /\ k \notin Long THEN l.gen ELSE Find(t, k)
<1>1. CASE l = Garbage \/ l.key \in Long
  <2>1. Parsed(l).op = "garbage"
    BY <1>1 DEF Parsed, Garbage
  <2>2. Applied(t, l) = t
    BY <2>1 DEF Applied
  <2>3. \A k \in Keys : ~(l.key = k /\ k \notin Long)
    BY <1>1, KeymapAssumption DEF Garbage
  <2> QED
    BY <2>2, <2>3
<1>2. CASE l \in [op : {"A"}, key : Keys, gen : Generations] /\ l.key \notin Long
  <2>1. Parsed(l).op = "A" /\ l.key \in Keys /\ l.gen \in Generations \cup {Gone}
    BY <1>2 DEF Parsed
  <2>2. Applied(t, l) = Insert(t, l.key, l.gen)
    BY <2>1 DEF Applied
  <2> QED
    BY <1>2, <2>1, <2>2, InsertSound
<1>3. CASE l \in [op : {"D"}, key : Keys, gen : {Gone}] /\ l.key \notin Long
  <2>1. Parsed(l).op = "D" /\ l.key \in Keys /\ l.gen = Gone
    BY <1>3 DEF Parsed
  <2>2. Applied(t, l) = MarkRemoved(t, l.key)
    BY <2>1 DEF Applied
  <2> QED
    BY <1>3, <2>1, <2>2, MarkRemovedSound
<1> QED
  BY <1>1, <1>2, <1>3 DEF LogLine

SoundTables == {t \in UNION {TableOf(n) : n \in Nat} : Sound(t)}

(* They are a set.                                                         *)
LEMMA SoundTablesAre == \A t : t \in SoundTables <=> Sound(t)
<1> SUFFICES ASSUME NEW t, Sound(t) PROVE t \in UNION {TableOf(n) : n \in Nat}
  BY DEF SoundTables
<1>1. Size(t) \in Nat /\ t \in TableOf(Size(t))
  BY DEF Sound, SoundTable
<1> QED
  BY <1>1

(* The recursion Loaded() is, over the lines s.                            *)
Loads(s, h) ==
  h = [x \in SUBSET DOMAIN s |->
         IF x = {} THEN EmptyTable(FirstSlots) ELSE Applied(h[x \ {Max(x)}], s[Max(x)])]

Loading(s) == CHOOSE h : Loads(s, h)

(* Loaded() is the end of that recursion.                                  *)
LEMMA LoadedUnfolded ==
  ASSUME NEW s
  PROVE  Loaded(s) = Loading(s)[DOMAIN s]
  BY Zenon DEF Loaded, FoldLeft, MapThenFoldSet, Loading, Loads

(* A new table is sound, and no key has a place in it.                     *)
LEMMA NewTable ==
  /\ Sound(EmptyTable(FirstSlots))
  /\ \A k \in Keys : Find(EmptyTable(FirstSlots), k) = Gone
<1> DEFINE n == FirstSlots
           t == EmptyTable(n)
<1>1. n \in Nat \ {0} /\ n >= 4
  BY TableAssumption
<1> HIDE DEF n
<1>2. SoundTable(t, n) /\ \A i \in 0 .. n - 1 : t.slots[i] = Never
  BY <1>1, EmptySound
<1> HIDE DEF t
<1>3. Size(t) = n
  BY <1>1, <1>2, SizeOfTable DEF SoundTable
<1>4. \A i \in 0 .. n - 1 : \A k \in Keys : t.slots[i].key # k
  BY <1>2, KeymapAssumption DEF Never
<1>5. \A k \in Keys : Find(t, k) = Gone
  BY <1>1, <1>2, <1>4, FindByPresence
<1>6. Sound(t)
  BY <1>1, <1>2, <1>3 DEF Sound
<1> QED
  BY <1>5, <1>6 DEF t, n

(* The recursion has a solution.                                           *)
LEMMA LoadingExists ==
  ASSUME NEW n \in Nat, NEW s \in [1 .. n -> LogLine]
  PROVE  Loads(s, Loading(s))
<1> DEFINE T == SoundTables
           F == [p \in (1 .. n) \X T |-> Applied(p[2], s[p[1]])]
<1>1. F \in [(1 .. n) \X T -> T]
  <2> SUFFICES ASSUME NEW p \in (1 .. n) \X T PROVE Applied(p[2], s[p[1]]) \in T
    OBVIOUS
  <2>1. s[p[1]] \in LogLine /\ p[2] \in T
    OBVIOUS
  <2> QED
    BY <2>1, AppliedSound, SoundTablesAre
<1>2. \A p \in (1 .. n) \X T : F[p] = Applied(p[2], s[p[1]])
  OBVIOUS
<1>3. EmptyTable(FirstSlots) \in T
  BY NewTable, SoundTablesAre
<1> HIDE DEF F, T
<1>4. PICK h : Folded(F, EmptyTable(FirstSlots), n, h) /\ \A x \in SUBSET (1 .. n) : h[x] \in T
  BY <1>1, <1>3, FoldExists
<1>5. DOMAIN s = 1 .. n
  OBVIOUS
<1>6. ASSUME NEW x \in SUBSET (1 .. n), x # {}
      PROVE  F[<<Max(x), h[x \ {Max(x)}]>>] = Applied(h[x \ {Max(x)}], s[Max(x)])
  <2>1. Max(x) \in 1 .. n /\ x \ {Max(x)} \in SUBSET (1 .. n)
    BY <1>6, WithoutMax
  <2>2. <<Max(x), h[x \ {Max(x)}]>> \in (1 .. n) \X T
    BY <1>4, <2>1
  <2> QED
    BY <1>2, <2>2
<1>7. Loads(s, h)
  BY <1>4, <1>5, <1>6 DEF Folded, Loads
<1> QED
  BY <1>7 DEF Loading

(* The first i lines say that k is at g: the last of them that is about k  *)
(* does, or there is none.                                                 *)
SaysLast(s, i, k, g) ==
  \/ /\ k \notin Long
     /\ \E j \in 1 .. i : /\ s[j].key = k /\ s[j].gen = g
                          /\ \A m \in 1 .. i : j < m => s[m].key # k
  \/ /\ k \in Long \/ \A j \in 1 .. i : s[j].key # k
     /\ g = Gone

(* They say one thing of a key.                                            *)
LEMMA SaysOne ==
  ASSUME NEW s, NEW i \in Nat, NEW k, NEW g, NEW h, SaysLast(s, i, k, g), SaysLast(s, i, k, h)
  PROVE  g = h
<1>1. CASE k \in Long \/ \A j \in 1 .. i : s[j].key # k
  BY <1>1 DEF SaysLast
<1>2. CASE ~(k \in Long \/ \A j \in 1 .. i : s[j].key # k)
  <2>1. PICK j \in 1 .. i : /\ s[j].key = k /\ s[j].gen = g
                            /\ \A m \in 1 .. i : j < m => s[m].key # k
    BY <1>2 DEF SaysLast
  <2>2. PICK m \in 1 .. i : /\ s[m].key = k /\ s[m].gen = h
                            /\ \A l \in 1 .. i : m < l => s[l].key # k
    BY <1>2 DEF SaysLast
  <2>3. ~(j < m) /\ ~(m < j)
    BY <2>1, <2>2
  <2>4. j = m
    BY <2>3
  <2> QED
    BY <2>1, <2>2, <2>4
<1> QED
  BY <1>1, <1>2

(* load() builds a sound table, in which each key is where the log says.   *)
LEMMA LoadedSays ==
  ASSUME NEW s \in Seq(LogLine)
  PROVE  Sound(Loaded(s)) /\ \A k \in Keys : SaysLast(s, Len(s), k, Find(Loaded(s), k))
<1> DEFINE n == Len(s)
           h == Loading(s)
           Good(i) == /\ Sound(h[1 .. i])
                      /\ \A k \in Keys : SaysLast(s, i, k, Find(h[1 .. i], k))
           Fails == {i \in 0 .. n : ~Good(i)}
<1>1. n \in Nat /\ s \in [1 .. n -> LogLine] /\ DOMAIN s = 1 .. n
  BY LenProperties
<1>2. Loaded(s) = h[1 .. n]
  BY <1>1, LoadedUnfolded
<1>3. \A x \in SUBSET (1 .. n) :
        h[x] = IF x = {} THEN EmptyTable(FirstSlots) ELSE Applied(h[x \ {Max(x)}], s[Max(x)])
  <2>1. Loads(s, h)
    BY <1>1, LoadingExists
  <2> HIDE DEF h
  <2> QED
    BY <1>1, <2>1 DEF Loads
<1> HIDE DEF h, n
<1>4. SUFFICES ASSUME Fails # {} PROVE FALSE
  BY <1>1, <1>2 DEF n
<1>5. PICK i \in Fails : \A m \in Fails : i <= m
  <2>1. Fails \subseteq Nat
    BY <1>1
  <2> HIDE DEF Fails
  <2> QED
    BY <1>4, <2>1, SmallestNat
<1>6. i \in 0 .. n /\ ~Good(i)
  OBVIOUS
<1>7. CASE i = 0
  <2>1. 1 .. 0 = {} /\ 1 .. 0 \in SUBSET (1 .. n)
    OBVIOUS
  <2>2. h[1 .. 0] = EmptyTable(FirstSlots)
    BY <1>3, <2>1
  <2>3. \A k \in Keys : SaysLast(s, 0, k, Gone)
    BY <2>1 DEF SaysLast
  <2>4. Good(0)
    BY <2>2, <2>3, NewTable
  <2> HIDE DEF Good
  <2> QED
    BY <1>6, <1>7, <2>4
<1>8. CASE i # 0
  <2>1. i - 1 \in 0 .. n /\ ~(i <= i - 1) /\ i \in Nat /\ i - 1 \in Nat /\ i \in 1 .. n
    BY <1>1, <1>6, <1>8
  <2>2. i - 1 \notin Fails
    <3> HIDE DEF Fails
    <3> QED
      BY <1>5, <2>1
  <2>3. Good(i - 1)
    BY <2>1, <2>2
  <2>4. 1 .. i \in SUBSET (1 .. n)
    BY <1>1, <2>1
  <2>5. Max(1 .. i) = i /\ (1 .. i) \ {i} = 1 .. i - 1 /\ 1 .. i # {}
    BY <1>8, <2>1, MaxUpTo
  <2> DEFINE t == h[1 .. i - 1]
             u == h[1 .. i]
             l == s[i]
  <2>6. u = Applied(t, l)
    BY <1>3, <2>4, <2>5
  <2>7. l \in LogLine
    BY <1>1, <2>1
  <2>8. Sound(t) /\ \A k \in Keys : SaysLast(s, i - 1, k, Find(t, k))
    BY <2>3
  <2> HIDE DEF t, u, l
  <2>9. /\ Sound(u)
        /\ \A k \in Keys : Find(u, k) = IF l.key = k /\ k \notin Long THEN l.gen ELSE Find(t, k)
    BY <2>6, <2>7, <2>8, AppliedSound
  <2>10. /\ \A j \in 1 .. i : j = i \/ j \in 1 .. i - 1
         /\ \A j \in 1 .. i - 1 : j \in 1 .. i /\ j < i
         /\ i \in 1 .. i /\ ~(i < i)
    BY <2>1
  <2>11. ASSUME NEW k \in Keys PROVE SaysLast(s, i, k, Find(u, k))
    <3>1. CASE k \in Long
      <4>1. Find(u, k) = Gone
        BY <2>8, <2>9, <3>1 DEF SaysLast
      <4> QED
        BY <3>1, <4>1 DEF SaysLast
    <3>2. CASE k \notin Long /\ l.key = k
      <4>1. Find(u, k) = s[i].gen /\ s[i].key = k
        BY <2>9, <3>2 DEF l
      <4>2. \A m \in 1 .. i : ~(i < m)
        BY <2>1
      <4> QED
        BY <2>10, <3>2, <4>1, <4>2 DEF SaysLast
    <3>3. CASE k \notin Long /\ l.key # k
      <4>1. Find(u, k) = Find(t, k) /\ s[i].key # k /\ SaysLast(s, i - 1, k, Find(t, k))
        BY <2>8, <2>9, <3>3 DEF l
      <4>2. CASE \A j \in 1 .. i - 1 : s[j].key # k
        <5>1. Find(t, k) = Gone
          BY <3>3, <4>1, <4>2 DEF SaysLast
        <5>2. \A j \in 1 .. i : s[j].key # k
          BY <2>10, <4>1, <4>2
        <5> QED
          BY <4>1, <5>1, <5>2 DEF SaysLast
      <4>3. CASE ~ \A j \in 1 .. i - 1 : s[j].key # k
        <5>1. PICK j \in 1 .. i - 1 : /\ s[j].key = k /\ s[j].gen = Find(t, k)
                                      /\ \A m \in 1 .. i - 1 : j < m => s[m].key # k
          BY <3>3, <4>1, <4>3 DEF SaysLast
        <5>2. \A m \in 1 .. i : j < m => s[m].key # k
          BY <2>10, <4>1, <5>1
        <5>3. j \in 1 .. i
          BY <2>10
        <5> QED
          BY <3>3, <4>1, <5>1, <5>2, <5>3 DEF SaysLast
      <4> QED
        BY <4>2, <4>3
    <3> QED
      BY <3>1, <3>2, <3>3
  <2>12. Good(i)
    BY <2>9, <2>11 DEF u
  <2> HIDE DEF Good
  <2> QED
    BY <1>6, <2>12
<1> QED
  BY <1>7, <1>8

-----------------------------------------------------------------------------
(* What a log says when lines are added to it *)

Says(s, k, g) == SaysLast(s, Len(s), k, g)

(* The lines s are not about k.                                            *)
Silent(s, k) == \A j \in 1 .. Len(s) : s[j].key # k

(* Some of them are, and all of these say that it is at g.                 *)
AllSay(s, k, g) ==
  /\ \E j \in 1 .. Len(s) : s[j].key = k
  /\ \A j \in 1 .. Len(s) : s[j].key = k => s[j].gen = g

(* The keys of lines are those of its places.                              *)
LEMMA KeysOfAre ==
  ASSUME NEW T, NEW s \in Seq(T)
  PROVE  /\ \A k : k \in KeysOf(s) <=> ~Silent(s, k)
         /\ \A j \in 1 .. Len(s) : s[j].key \in KeysOf(s)
<1>1. DOMAIN s = 1 .. Len(s)
  BY LenProperties
<1> QED
  BY <1>1 DEF KeysOf, Range, Silent

(* Lines about other keys change nothing for a key.                        *)
LEMMA SilentAppended ==
  ASSUME NEW a \in Seq(LogLine), NEW b \in Seq(LogLine), NEW k, NEW g,
         Says(a, k, g), Silent(b, k)
  PROVE  Says(a \o b, k, g)
<1> DEFINE m == Len(a)
           n == Len(b)
           c == a \o b
<1>1. m \in Nat /\ n \in Nat
  BY LenProperties
<1>2. Len(c) = m + n /\ \A i \in 1 .. m + n : c[i] = IF i <= m THEN a[i] ELSE b[i - m]
  BY ConcatProperties
<1> HIDE DEF m, n, c
<1>3. \A i \in 1 .. m : i \in 1 .. m + n /\ c[i] = a[i]
  BY <1>1, <1>2
<1>4. \A i \in 1 .. m + n : i \in 1 .. m \/ c[i].key # k
  <2> SUFFICES ASSUME NEW i \in 1 .. m + n, i \notin 1 .. m PROVE c[i].key # k
    OBVIOUS
  <2>1. i - m \in 1 .. n /\ ~(i <= m)
    BY <1>1
  <2> QED
    BY <1>2, <2>1 DEF Silent, n
<1>5. CASE k \in Long
  BY <1>5 DEF Says, SaysLast
<1>6. CASE k \notin Long /\ \A j \in 1 .. m : a[j].key # k
  <2>1. \A j \in 1 .. m + n : c[j].key # k
    BY <1>3, <1>4, <1>6
  <2>2. g = Gone
    BY <1>6 DEF Says, SaysLast, m
  <2> QED
    BY <1>2, <2>1, <2>2 DEF Says, SaysLast, c
<1>7. CASE k \notin Long /\ ~ \A j \in 1 .. m : a[j].key # k
  <2>1. PICK j \in 1 .. m : /\ a[j].key = k /\ a[j].gen = g
                            /\ \A i \in 1 .. m : j < i => a[i].key # k
    BY <1>7 DEF Says, SaysLast, m
  <2>2. \A i \in 1 .. m + n : j < i => c[i].key # k
    BY <1>3, <1>4, <2>1
  <2>3. j \in 1 .. m + n /\ c[j].key = k /\ c[j].gen = g
    BY <1>3, <2>1
  <2> QED
    BY <1>2, <1>7, <2>2, <2>3 DEF Says, SaysLast, c
<1> QED
  BY <1>5, <1>6, <1>7

(* The last lines about a key are what counts.                             *)
LEMMA SaidAppended ==
  ASSUME NEW a \in Seq(LogLine), NEW b \in Seq(LogLine), NEW k, NEW g,
         AllSay(b, k, g), k \notin Long
  PROVE  Says(a \o b, k, g)
<1> DEFINE m == Len(a)
           n == Len(b)
           c == a \o b
           about == {j \in 1 .. n : b[j].key = k}
<1>1. m \in Nat /\ n \in Nat
  BY LenProperties
<1>2. Len(c) = m + n /\ \A i \in 1 .. m + n : c[i] = IF i <= m THEN a[i] ELSE b[i - m]
  BY ConcatProperties
<1>3. about # {} /\ about \in SUBSET (1 .. n)
  BY DEF AllSay
<1> HIDE DEF m, n, c
<1>4. PICK j \in about : \A i \in about : i <= j
  <2> HIDE DEF about
  <2> QED
    BY <1>1, <1>3, MaxOfSet
<1>5. j \in 1 .. n /\ b[j].key = k /\ b[j].gen = g
  BY <1>4 DEF AllSay, n
<1>6. m + j \in 1 .. m + n /\ ~(m + j <= m) /\ (m + j) - m = j
  BY <1>1, <1>5
<1>7. c[m + j].key = k /\ c[m + j].gen = g
  BY <1>2, <1>5, <1>6
<1>8. ASSUME NEW i \in 1 .. m + n, m + j < i PROVE c[i].key # k
  <2>1. i - m \in 1 .. n /\ ~(i <= m) /\ ~(i - m <= j)
    BY <1>1, <1>5, <1>8
  <2>2. i - m \notin about
    <3> HIDE DEF about
    <3> QED
      BY <1>4, <2>1
  <2>3. b[i - m].key # k
    BY <2>1, <2>2
  <2> QED
    BY <1>2, <2>1, <2>3
<1> QED
  BY <1>2, <1>6, <1>7, <1>8 DEF Says, SaysLast, c

(* A log whose last line got spoilt.                                       *)
Spoilt(a) == Front(a) \o <<Garbage>>

(* It says the same of all keys but that line's.                           *)
LEMMA SpoiltSays ==
  ASSUME NEW a \in Seq(LogLine), a # <<>>
  PROVE  /\ Spoilt(a) \in Seq(LogLine) /\ Len(Spoilt(a)) = Len(a)
         /\ Last(Spoilt(a)) = Garbage
         /\ \A k \in Keys : \A g : Last(a).key # k /\ Says(a, k, g) => Says(Spoilt(a), k, g)
<1> DEFINE n == Len(a)
           c == Spoilt(a)
<1>1. n \in Nat /\ n # 0 /\ a \in [1 .. n -> LogLine]
  BY LenProperties, EmptySeq
<1>2. /\ Front(a) \in Seq(LogLine) /\ Len(Front(a)) = n - 1
      /\ \A i \in 1 .. n - 1 : Front(a)[i] = a[i]
  <2>1. 1 \in 1 .. n + 1 /\ n - 1 \in 0 .. n
    BY <1>1
  <2> QED
    BY <1>1 DEF Front
<1>3. <<Garbage>> \in Seq(LogLine) /\ Len(<<Garbage>>) = 1 /\ <<Garbage>>[1] = Garbage
  BY DEF LogLine
<1>4. /\ c \in Seq(LogLine) /\ Len(c) = n
      /\ \A i \in 1 .. n : c[i] = IF i = n THEN Garbage ELSE a[i]
  <2>1. /\ c \in Seq(LogLine) /\ Len(c) = (n - 1) + 1
        /\ \A i \in 1 .. (n - 1) + 1 :
             c[i] = IF i <= n - 1 THEN Front(a)[i] ELSE <<Garbage>>[i - (n - 1)]
    <3> HIDE DEF n
    <3> QED
      BY <1>2, <1>3, ConcatProperties DEF Spoilt
  <2> HIDE DEF c, n
  <2>2. (n - 1) + 1 = n
    BY <1>1
  <2>3. ASSUME NEW i \in 1 .. n PROVE c[i] = IF i = n THEN Garbage ELSE a[i]
    <3>1. CASE i = n
      <4>1. ~(i <= n - 1) /\ i - (n - 1) = 1
        BY <1>1, <3>1
      <4> QED
        BY <1>3, <2>1, <2>2, <3>1, <4>1
    <3>2. CASE i # n
      <4>1. i <= n - 1 /\ i \in 1 .. n - 1
        BY <1>1, <3>2
      <4> QED
        BY <1>2, <2>1, <2>2, <3>2, <4>1
    <3> QED
      BY <3>1, <3>2
  <2> QED
    BY <2>1, <2>2, <2>3
<1>5. Last(a) = a[n] /\ Last(c) = c[n] /\ n \in 1 .. n
  <2>1. Last(a) = a[n] /\ Last(c) = c[Len(c)]
    BY DEF Last
  <2>2. n \in 1 .. n
    BY <1>1
  <2> HIDE DEF c, n
  <2> QED
    BY <1>4, <2>1, <2>2
<1> HIDE DEF n, c
<1>6. ASSUME NEW k \in Keys, NEW g, Last(a).key # k, Says(a, k, g) PROVE Says(c, k, g)
  <2>1. \A i \in 1 .. n : c[i].key = k <=> a[i].key = k
    BY <1>4, <1>5, <1>6, KeymapAssumption DEF Garbage
  <2>2. \A i \in 1 .. n : c[i].key = k => c[i] = a[i]
    BY <1>4, <1>6, KeymapAssumption DEF Garbage
  <2>3. SaysLast(a, n, k, g)
    BY <1>6 DEF Says, n
  <2>4. SaysLast(c, n, k, g)
    BY <2>1, <2>2, <2>3 DEF SaysLast
  <2> QED
    BY <1>4, <2>4 DEF Says
<1> QED
  BY <1>4, <1>5, <1>6 DEF c, n

-----------------------------------------------------------------------------
(* Lines written to the file *)

(* A line of the log that is about a key.                                  *)
KeyLine == {l \in LogLine : l.key \in Keys}

(* The keymap writes such lines.                                           *)
LEMMA LinesWritten ==
  ASSUME NEW k \in Keys, NEW g \in Generations
  PROVE  AddLine(k, g) \in KeyLine /\ RemoveLine(k) \in KeyLine
  BY DEF AddLine, RemoveLine, KeyLine, LogLine

(* The file: the line that is not whole is the last one, and it is known   *)
(* to be doubtful.                                                         *)
FileOK ==
  /\ log \in Seq(LogLine) /\ whole \in BOOLEAN /\ doubtful \subseteq Keys
  /\ ~whole => log # <<>> /\ Last(log).key \in doubtful \cup {NoKey}

(* Lines that are not behind a torn one are simply appended, else the      *)
(* first is lost in the torn one.                                          *)
LEMMA JoinedIs ==
  ASSUME FileOK, NEW s \in Seq(LogLine)
  PROVE  /\ whole \/ s = <<>> => Joined(s) = log \o s
         /\ ~(whole \/ s = <<>>) => Joined(s) = Spoilt(log) \o Tail(s)
  BY DEF Joined, Spoilt

(* What the log says after lines have been written to it.                  *)
LEMMA JoinedSays ==
  ASSUME FileOK, NEW s \in Seq(LogLine), NEW k \in Keys \ doubtful
  PROVE  /\ \A g : Says(log, k, g) /\ Silent(s, k) => Says(Joined(s), k, g)
         /\ \A g : /\ AllSay(s, k, g) /\ k \notin Long
                   /\ whole \/ Head(s).key # k
                   => Says(Joined(s), k, g)
<1>1. log \in Seq(LogLine) /\ k \in Keys
  BY DEF FileOK
<1>2. CASE whole \/ s = <<>>
  BY <1>1, <1>2, JoinedIs, SilentAppended, SaidAppended
<1>3. CASE ~(whole \/ s = <<>>)
  <2>1. Joined(s) = Spoilt(log) \o Tail(s)
    BY <1>3, JoinedIs
  <2>2. log # <<>> /\ Last(log).key # k
    BY <1>3, KeymapAssumption DEF FileOK
  <2>3. /\ Spoilt(log) \in Seq(LogLine)
        /\ \A g : Says(log, k, g) => Says(Spoilt(log), k, g)
    BY <1>1, <2>2, SpoiltSays
  <2>4. /\ Tail(s) \in Seq(LogLine) /\ Len(Tail(s)) = Len(s) - 1 /\ Len(s) \in Nat \ {0}
        /\ \A i \in 1 .. Len(Tail(s)) : Tail(s)[i] = s[i + 1]
        /\ s[1] = Head(s)
    BY <1>3, HeadTailProperties, EmptySeq
  <2> DEFINE n == Len(s)
             r == Tail(s)
  <2>5. /\ n \in Nat \ {0} /\ Len(r) = n - 1 /\ \A i \in 1 .. n - 1 : r[i] = s[i + 1]
        /\ r \in Seq(LogLine)
    BY <2>4
  <2>6. \A i \in 1 .. n - 1 : i + 1 \in 1 .. n
    BY <2>5
  <2>7. Silent(s, k) => Silent(r, k)
    BY <2>5, <2>6 DEF Silent
  <2>8. ASSUME NEW g, AllSay(s, k, g), Head(s).key # k PROVE AllSay(r, k, g)
    <3>1. PICK j \in 1 .. n : s[j].key = k
      BY <2>8 DEF AllSay
    <3>2. j # 1
      BY <2>4, <2>8, <3>1
    <3>3. j - 1 \in 1 .. n - 1 /\ (j - 1) + 1 = j
      BY <2>5, <3>2
    <3> HIDE DEF n, r
    <3>4. \A i \in 1 .. n - 1 : r[i].key = k => r[i].gen = g
      BY <2>5, <2>6, <2>8 DEF AllSay, n
    <3>5. r[j - 1].key = k
      BY <2>5, <3>1, <3>3
    <3> QED
      BY <2>5, <3>3, <3>4, <3>5 DEF AllSay
  <2> HIDE DEF n, r
  <2>9. ASSUME NEW g, Says(log, k, g), Silent(s, k) PROVE Says(Joined(s), k, g)
    BY <2>1, <2>3, <2>5, <2>7, <2>9, SilentAppended DEF r
  <2>10. ASSUME NEW g, AllSay(s, k, g), k \notin Long, Head(s).key # k
         PROVE  Says(Joined(s), k, g)
    BY <2>1, <2>3, <2>5, <2>8, <2>10, SaidAppended DEF r
  <2> QED
    BY <1>3, <2>9, <2>10
<1> QED
  BY <1>2, <1>3

(* Where the log ends after lines have been written to it.                 *)
LEMMA JoinedEnds ==
  ASSUME FileOK, NEW s \in Seq(LogLine)
  PROVE  /\ Joined(s) \in Seq(LogLine)
         /\ s = <<>> => Joined(s) = log
         /\ s # <<>> => Joined(s) # <<>> /\ Last(Joined(s)).key \in {Last(s).key, NoKey}
<1>1. log \in Seq(LogLine) /\ Len(log) \in Nat /\ Len(s) \in Nat
  BY LenProperties DEF FileOK
<1>2. CASE s = <<>>
  <2>1. Joined(s) = log
    BY <1>1, <1>2, JoinedIs, ConcatEmptySeq
  <2> QED
    BY <1>1, <1>2, <2>1
<1>3. CASE s # <<>> /\ whole
  <2> DEFINE m == Len(log)
             n == Len(s)
             c == Joined(s)
  <2>1. /\ c \in Seq(LogLine) /\ Len(c) = m + n
        /\ \A i \in 1 .. m + n : c[i] = IF i <= m THEN log[i] ELSE s[i - m]
    BY <1>1, <1>3, JoinedIs, ConcatProperties
  <2>2. m \in Nat /\ n \in Nat \ {0}
    BY <1>1, <1>3, EmptySeq
  <2>3. Last(c) = c[Len(c)] /\ Last(s) = s[n]
    BY DEF Last
  <2> HIDE DEF m, n, c
  <2>4. m + n \in 1 .. m + n /\ ~(m + n <= m) /\ (m + n) - m = n
    BY <2>2
  <2>5. Last(c) = Last(s)
    BY <2>1, <2>3, <2>4
  <2>6. c # <<>>
    BY <2>1, <2>4, EmptySeq
  <2> QED
    BY <1>3, <2>1, <2>5, <2>6 DEF c
<1>4. CASE s # <<>> /\ ~whole
  <2> DEFINE a == Spoilt(log)
             r == Tail(s)
             m == Len(a)
             n == Len(r)
             c == Joined(s)
  <2>1. /\ a \in Seq(LogLine) /\ m = Len(log) /\ Last(a) = Garbage /\ log # <<>>
    BY <1>1, <1>4, SpoiltSays DEF FileOK
  <2>2. /\ r \in Seq(LogLine) /\ n = Len(s) - 1
        /\ \A i \in 1 .. n : r[i] = s[i + 1]
    BY <1>4, HeadTailProperties
  <2>3. m \in Nat \ {0} /\ n \in Nat /\ Len(s) = n + 1
    BY <1>1, <1>4, <2>1, <2>2, EmptySeq
  <2>4. c = a \o r
    BY <1>4, JoinedIs
  <2>5. Last(c) = c[Len(c)] /\ Last(a) = a[m] /\ Last(s) = s[Len(s)]
    BY DEF Last
  <2> HIDE DEF a, r, m, n, c
  <2>6. /\ c \in Seq(LogLine) /\ Len(c) = m + n
        /\ \A i \in 1 .. m + n : c[i] = IF i <= m THEN a[i] ELSE r[i - m]
    <3>1. /\ a \o r \in Seq(LogLine) /\ Len(a \o r) = Len(a) + Len(r)
          /\ \A i \in 1 .. Len(a) + Len(r) : (a \o r)[i] = IF i <= Len(a) THEN a[i] ELSE r[i - Len(a)]
      BY <2>1, <2>2, ConcatProperties
    <3>2. Len(a) = m /\ Len(r) = n
      BY DEF m, n
    <3> QED
      BY <2>4, <3>1, <3>2
  <2>7. c # <<>>
    BY <2>3, <2>6, EmptySeq
  <2>8. CASE n = 0
    <3>1. m + n = m /\ m \in 1 .. m + n /\ m <= m
      BY <2>3, <2>8
    <3>2. Last(c) = Garbage
      BY <2>1, <2>5, <2>6, <3>1
    <3> QED
      BY <1>4, <2>6, <2>7, <3>2 DEF c, Garbage
  <2>9. CASE n # 0
    <3>1. m + n \in 1 .. m + n /\ ~(m + n <= m) /\ (m + n) - m = n /\ n \in 1 .. n
      BY <2>3, <2>9
    <3>2. Last(c) = r[n] /\ r[n] = s[n + 1]
      BY <2>2, <2>5, <2>6, <3>1
    <3>3. Last(c) = Last(s)
      BY <2>3, <2>5, <3>2
    <3> QED
      BY <1>4, <2>6, <2>7, <3>3 DEF c
  <2> QED
    BY <2>8, <2>9
<1> QED
  BY <1>2, <1>3, <1>4

(* What there is of a line that was cut short is a line, if a worthless or *)
(* a false one.                                                            *)
LEMMA FragmentsAre ==
  ASSUME NEW l \in KeyLine, NEW f \in Fragments(l)
  PROVE  f \in LogLine /\ f.key \in {NoKey, l.key} \cup Shorter[l.key]
<1>1. l \in LogLine /\ l.key \in Keys
  BY DEF KeyLine
<1>2. CASE f = Garbage
  BY <1>2 DEF Garbage, LogLine
<1>3. CASE f = l
  BY <1>1, <1>3
<1>4. ASSUME NEW k \in Shorter[l.key], f = [l EXCEPT !.key = k]
      PROVE  f \in LogLine /\ f.key \in {NoKey, l.key} \cup Shorter[l.key]
  <2>1. k \in Keys
    BY <1>1, KeymapAssumption
  <2>2. l \in [op : {"A"}, key : Keys, gen : Generations] \cup [op : {"D"}, key : Keys, gen : {Gone}]
    BY <1>1, KeymapAssumption DEF LogLine, Garbage
  <2>3. f \in LogLine /\ f.key = k
    BY <1>4, <2>1, <2>2 DEF LogLine
  <2> QED
    BY <2>3
<1> QED
  BY <1>2, <1>3, <1>4 DEF Fragments

(* What there is of lines of which the last was cut short: those before    *)
(* it, and nothing or a fragment for the last.                             *)
LEMMA CutIs ==
  ASSUME NEW s \in Seq(KeyLine), s # <<>>, NEW c \in Cut(s)
  PROVE  /\ c[1] \in Seq(LogLine) /\ c[2] \in BOOLEAN
         /\ Len(c[1]) \in {Len(s) - 1, Len(s)} /\ Len(s) \in Nat \ {0}
         /\ \A j \in 1 .. Len(s) - 1 : c[1][j] = s[j]
         /\ \A j \in 1 .. Len(c[1]) :
              j \notin 1 .. Len(s) - 1 =>
                j = Len(s) /\ c[1][j].key \in {NoKey, Last(s).key} \cup Shorter[Last(s).key]
         /\ ~c[2] => c[1] # <<>> /\ Len(c[1]) = Len(s)
<1> DEFINE n == Len(s)
           a == Front(s)
<1>1. n \in Nat \ {0} /\ s \in [1 .. n -> KeyLine]
  BY EmptySeq, LenProperties
<1>2. Last(s) = s[n] /\ Last(s) \in KeyLine
  BY <1>1 DEF Last
<1>3. a \in Seq(LogLine) /\ Len(a) = n - 1 /\ \A i \in 1 .. n - 1 : a[i] = s[i]
  <2>1. a = SubSeq(s, 1, n - 1)
    BY DEF Front
  <2>2. \A i \in 1 .. n - 1 : s[i] \in LogLine
    BY <1>1 DEF KeyLine
  <2> HIDE DEF a, n
  <2>3. 1 \in Int /\ n - 1 \in Int
    BY <1>1
  <2>4. /\ a \in Seq(LogLine)
        /\ Len(a) = IF 1 <= n - 1 THEN (n - 1) - 1 + 1 ELSE 0
        /\ \A i \in 1 .. (n - 1) - 1 + 1 : a[i] = s[1 + i - 1]
    BY <2>1, <2>2, <2>3, SubSeqProperties
  <2>5. Len(a) = n - 1
    BY <1>1, <2>4
  <2>6. \A i \in 1 .. n - 1 : i \in 1 .. (n - 1) - 1 + 1 /\ 1 + i - 1 = i
    BY <1>1
  <2>7. \A i \in 1 .. n - 1 : a[i] = s[i]
    BY <2>4, <2>6
  <2> QED
    BY <2>4, <2>5, <2>7
<1> HIDE DEF n, a
<1>4. CASE c = <<a, TRUE>>
  <2>1. c[1] = a /\ c[2] = TRUE
    BY <1>4
  <2> QED
    BY <1>1, <1>3, <2>1 DEF n
<1>5. ASSUME NEW f \in Fragments(Last(s)), c = <<Append(a, f), FALSE>>
      PROVE  /\ c[1] \in Seq(LogLine) /\ c[2] \in BOOLEAN
             /\ Len(c[1]) = n
             /\ \A j \in 1 .. n - 1 : c[1][j] = s[j]
             /\ c[1][n].key \in {NoKey, Last(s).key} \cup Shorter[Last(s).key]
             /\ c[1] # <<>>
  <2>1. f \in LogLine /\ f.key \in {NoKey, Last(s).key} \cup Shorter[Last(s).key]
    BY <1>2, FragmentsAre
  <2>2. /\ Append(a, f) \in Seq(LogLine) /\ Len(Append(a, f)) = Len(a) + 1
        /\ \A i \in 1 .. Len(a) : Append(a, f)[i] = a[i]
        /\ Append(a, f)[Len(a) + 1] = f
    BY <1>3, <2>1, AppendProperties
  <2>3. c[1] = Append(a, f) /\ c[2] = FALSE
    BY <1>5
  <2>4. Len(a) + 1 = n
    BY <1>1, <1>3
  <2>5. c[1] # <<>>
    BY <1>1, <2>2, <2>3, <2>4, EmptySeq
  <2> QED
    BY <1>1, <1>3, <2>1, <2>2, <2>3, <2>4, <2>5
<1>6. ASSUME NEW j \in 1 .. n, j \notin 1 .. n - 1 PROVE j = n
  BY <1>1, <1>6
<1>7. ASSUME NEW f \in Fragments(Last(s)), c = <<Append(a, f), FALSE>>
      PROVE  /\ c[1] \in Seq(LogLine) /\ c[2] \in BOOLEAN
             /\ Len(c[1]) = n
             /\ \A j \in 1 .. n - 1 : c[1][j] = s[j]
             /\ \A j \in 1 .. n : j \notin 1 .. n - 1 =>
                  j = n /\ c[1][j].key \in {NoKey, Last(s).key} \cup Shorter[Last(s).key]
             /\ c[1] # <<>>
  BY <1>5, <1>6, <1>7
<1>8. c = <<a, TRUE>> \/ \E f \in Fragments(Last(s)) : c = <<Append(a, f), FALSE>>
  BY DEF Cut, a
<1> QED
  BY <1>1, <1>4, <1>7, <1>8 DEF n

(* The log has the lines s, as far as it can be relied on.                 *)
Recorded(s) ==
  /\ FileOK' /\ doubtful \subseteq doubtful'
  /\ \A k \in Keys \ doubtful' : \A g :
       /\ Says(log, k, g) /\ Silent(s, k) => Says(log', k, g)
       /\ AllSay(s, k, g) /\ k \notin Long => Says(log', k, g)
       /\ k \in Long => Silent(s, k)

(* The first line's key is among the keys of the lines.                    *)
LEMMA HeadIn ==
  ASSUME NEW T, NEW s \in Seq(T), s # <<>>
  PROVE  /\ Head(s) = s[1] /\ 1 \in 1 .. Len(s) /\ Head(s) \in T /\ Last(s) \in T
         /\ Len(s) \in 1 .. Len(s) /\ Last(s) = s[Len(s)]
<1>1. Len(s) \in Nat \ {0} /\ s \in [1 .. Len(s) -> T]
  BY EmptySeq, LenProperties
<1>2. 1 \in 1 .. Len(s) /\ Len(s) \in 1 .. Len(s)
  BY <1>1
<1> QED
  BY <1>1, <1>2 DEF Last

(* Sequences of lines about keys are sequences of lines.                   *)
LEMMA KeyLinesAreLines ==
  ASSUME NEW s \in Seq(KeyLine)
  PROVE  s \in Seq(LogLine) /\ KeysOf(s) \subseteq Keys
<1>1. s \in Seq(LogLine)
  BY SeqMonotonic DEF KeyLine
<1>2. ASSUME NEW k \in KeysOf(s) PROVE k \in Keys
  <2>1. PICK j \in 1 .. Len(s) : s[j].key = k
    BY KeysOfAre DEF Silent
  <2>2. s[j] \in KeyLine
    BY ElementOfSeq
  <2> QED
    BY <2>1, <2>2 DEF KeyLine
<1> QED
  BY <1>1, <1>2

(* Lines that are written are recorded.                                    *)
LEMMA WrittenRecords ==
  ASSUME FileOK, NEW s \in Seq(KeyLine), Written(s)
  PROVE  Recorded(s)
<1>1. s \in Seq(LogLine) /\ KeysOf(s) \subseteq Keys
  BY KeyLinesAreLines
<1>2. CASE ~logging
  <2>1. log' = log /\ whole' = whole /\ doubtful' = doubtful \cup KeysOf(s)
    BY <1>2 DEF Written, file
  <2>2. FileOK'
    BY <1>1, <2>1 DEF FileOK
  <2>3. \A k \in Keys \ doubtful' : Silent(s, k)
    BY <2>1, KeysOfAre
  <2>4. \A k : \A g : AllSay(s, k, g) => ~Silent(s, k)
    BY DEF AllSay, Silent
  <2> QED
    BY <2>1, <2>2, <2>3, <2>4 DEF Recorded
<1>3. CASE logging
  <2>1. /\ log' = Joined(s) /\ whole' = (whole \/ s # <<>>)
        /\ doubtful' = doubtful \cup (KeysOf(s) \cap Long)
                         \cup IF whole \/ s = <<>> THEN {} ELSE {Head(s).key}
    BY <1>3 DEF Written
  <2>2. doubtful' \subseteq Keys
    <3>1. s # <<>> => Head(s).key \in Keys
      BY HeadIn DEF KeyLine
    <3> QED
      BY <1>1, <2>1, <3>1 DEF FileOK
  <2>3. FileOK'
    <3>1. log' \in Seq(LogLine) /\ whole' \in BOOLEAN
      BY <1>1, <2>1, JoinedEnds DEF FileOK
    <3>2. ~whole' => log' = log /\ ~whole
      BY <1>1, <2>1, JoinedEnds
    <3>3. doubtful \subseteq doubtful'
      BY <2>1
    <3>4. ~whole' => log' # <<>> /\ Last(log').key \in doubtful' \cup {NoKey}
      BY <3>2, <3>3 DEF FileOK
    <3> QED
      BY <2>2, <3>1, <3>4 DEF FileOK
  <2>4. ASSUME NEW k \in Keys \ doubtful', NEW g
        PROVE  /\ Says(log, k, g) /\ Silent(s, k) => Says(log', k, g)
               /\ AllSay(s, k, g) /\ k \notin Long => Says(log', k, g)
               /\ k \in Long => Silent(s, k)
    <3>1. k \in Keys \ doubtful
      BY <2>1
    <3>2. s = <<>> => ~AllSay(s, k, g)
      BY EmptySeq DEF AllSay
    <3>3. s # <<>> => whole \/ Head(s).key # k
      BY <2>1, <2>4
    <3>4. k \in Long => Silent(s, k)
      BY <2>1, <2>4, KeysOfAre
    <3> QED
      BY <1>1, <2>1, <3>1, <3>2, <3>3, <3>4, JoinedSays
  <2> QED
    BY <2>1, <2>3, <2>4 DEF Recorded
<1> QED
  BY <1>2, <1>3

(* So are, in their way, lines of which the last was cut short.            *)
LEMMA CutShortRecords ==
  ASSUME FileOK, NEW s \in Seq(KeyLine), s # <<>>, CutShort(s)
  PROVE  Recorded(s)
<1>1. s \in Seq(LogLine) /\ KeysOf(s) \subseteq Keys
  BY KeyLinesAreLines
<1>2. PICK c \in Cut(s) : log' = Joined(c[1]) /\ whole' = IF c[1] = <<>> THEN whole ELSE c[2]
  BY DEF CutShort
<1>3. doubtful' = doubtful \cup KeysOf(s) \cup Shorter[Last(s).key]
  BY DEF CutShort
<1> DEFINE a == c[1]
           more == {NoKey} \cup KeysOf(s) \cup Shorter[Last(s).key]
<1>4. Last(s).key \in KeysOf(s)
  BY HeadIn, KeysOfAre
<1>5. Shorter[Last(s).key] \subseteq Keys
  BY <1>1, <1>4, KeymapAssumption
<1>6. /\ a \in Seq(LogLine) /\ c[2] \in BOOLEAN
      /\ \A j \in 1 .. Len(a) : a[j].key \in more
  <2>1. /\ a \in Seq(LogLine) /\ c[2] \in BOOLEAN
        /\ \A j \in 1 .. Len(s) - 1 : a[j] = s[j]
        /\ \A j \in 1 .. Len(a) : j \notin 1 .. Len(s) - 1 =>
             a[j].key \in {NoKey, Last(s).key} \cup Shorter[Last(s).key]
        /\ Len(s) \in Nat
    BY CutIs
  <2>2. \A j \in 1 .. Len(s) - 1 : j \in 1 .. Len(s)
    BY <2>1
  <2> HIDE DEF a
  <2>3. \A j \in 1 .. Len(s) - 1 : a[j].key \in KeysOf(s)
    BY <2>1, <2>2, KeysOfAre
  <2> QED
    BY <1>4, <2>1, <2>3
<1> HIDE DEF a
<1>7. /\ Joined(a) \in Seq(LogLine)
      /\ a = <<>> => Joined(a) = log
      /\ a # <<>> => Joined(a) # <<>> /\ Last(Joined(a)).key \in {Last(a).key, NoKey}
  BY <1>6, JoinedEnds
<1>8. FileOK'
  <2>1. doubtful' \subseteq Keys
    BY <1>1, <1>3, <1>5 DEF FileOK
  <2>2. whole' \in BOOLEAN /\ log' \in Seq(LogLine)
    BY <1>2, <1>6, <1>7 DEF FileOK, a
  <2>3. CASE a = <<>>
    <3>1. log' = log /\ whole' = whole /\ doubtful \subseteq doubtful'
      BY <1>2, <1>3, <1>7, <2>3 DEF a
    <3> QED
      BY <2>1, <2>2, <3>1 DEF FileOK
  <2>4. CASE a # <<>>
    <3>1. Last(a).key \in more
      BY <1>6, <2>4, HeadIn
    <3>2. log' # <<>> /\ Last(log').key \in {Last(a).key, NoKey}
      BY <1>2, <1>7, <2>4 DEF a
    <3>3. Last(log').key \in doubtful' \cup {NoKey}
      BY <1>3, <3>1, <3>2
    <3> QED
      BY <2>1, <2>2, <3>2, <3>3 DEF FileOK
  <2> QED
    BY <2>3, <2>4
<1>9. ASSUME NEW k \in Keys \ doubtful', NEW g, Says(log, k, g) PROVE Says(log', k, g)
  <2>1. k \notin more /\ k \in Keys \ doubtful
    BY <1>3, KeymapAssumption
  <2>2. Silent(a, k)
    BY <1>6, <2>1 DEF Silent
  <2> QED
    BY <1>2, <1>6, <1>9, <2>1, <2>2, JoinedSays DEF a
<1>10. \A k \in Keys \ doubtful' : Silent(s, k)
  BY <1>3, KeysOfAre
<1>11. \A k : \A g : AllSay(s, k, g) => ~Silent(s, k)
  BY DEF AllSay, Silent
<1> QED
  BY <1>3, <1>8, <1>9, <1>10, <1>11 DEF Recorded

-----------------------------------------------------------------------------
(* The inductive invariant *)

(* What LogReproduces says, of the lines.                                  *)
Agrees == \A k \in Keys \ doubtful : Says(log, k, Find(table, k))

(* LogReproduces is not inductive: the table must be one in which probes   *)
(* end where the keys are, and a torn line must be known to be doubtful.   *)
IInv == Sound(table) /\ FileOK /\ logging \in BOOLEAN /\ Agrees

(* A log that says where the keys are is loaded as the map in memory.      *)
LEMMA AgreeingReproduces == IInv => LogReproduces
<1> SUFFICES ASSUME IInv, NEW k \in Keys \ doubtful PROVE Find(Loaded(log), k) = Find(table, k)
  BY DEF LogReproduces
<1>1. log \in Seq(LogLine) /\ Len(log) \in Nat
  BY LenProperties DEF IInv, FileOK
<1>2. SaysLast(log, Len(log), k, Find(Loaded(log), k))
  BY <1>1, LoadedSays
<1>3. SaysLast(log, Len(log), k, Find(table, k))
  BY DEF IInv, Agrees, Says
<1> QED
  BY <1>1, <1>2, <1>3, SaysOne

(* The log still agrees, if what changed is recorded.                      *)
LEMMA RecordedAgrees ==
  ASSUME Agrees, NEW s, Recorded(s),
         \A k \in Keys : \/ Silent(s, k) /\ Find(table', k) = Find(table, k)
                         \/ AllSay(s, k, Find(table', k))
  PROVE  Agrees'
<1> SUFFICES ASSUME NEW k \in Keys \ doubtful' PROVE Says(log', k, Find(table', k))
  BY DEF Agrees
<1>1. doubtful \subseteq doubtful' /\ k \in Keys \ doubtful
  BY DEF Recorded
<1>2. CASE Silent(s, k) /\ Find(table', k) = Find(table, k)
  <2>1. Says(log, k, Find(table, k))
    BY <1>1 DEF Agrees
  <2> QED
    BY <1>2, <2>1 DEF Recorded
<1>3. CASE AllSay(s, k, Find(table', k))
  <2>1. ~Silent(s, k)
    BY <1>3 DEF AllSay, Silent
  <2> QED
    BY <1>3, <2>1 DEF Recorded
<1> QED
  BY <1>2, <1>3

(* One line.                                                               *)
LEMMA OneLine ==
  ASSUME NEW l \in KeyLine
  PROVE  /\ <<l>> \in Seq(KeyLine) /\ <<l>> # <<>>
         /\ \A k : k # l.key => Silent(<<l>>, k)
         /\ AllSay(<<l>>, l.key, l.gen)
<1>1. <<l>> \in Seq(KeyLine) /\ Len(<<l>>) = 1 /\ <<l>>[1] = l
  OBVIOUS
<1>2. \A j \in 1 .. 1 : j = 1
  OBVIOUS
<1>3. \A j \in 1 .. Len(<<l>>) : <<l>>[j] = l
  BY <1>1, <1>2
<1>4. 1 \in 1 .. Len(<<l>>)
  BY <1>1
<1>5. <<l>> # <<>>
  BY <1>1, EmptySeq
<1> QED
  BY <1>1, <1>3, <1>4, <1>5 DEF Silent, AllSay

(* A call that writes one line, or fails to.                               *)
LEMMA OneLineRecords ==
  ASSUME FileOK, NEW l \in KeyLine, Written(<<l>>) \/ WriteFails(l)
  PROVE  Recorded(<<l>>)
<1>1. <<l>> \in Seq(KeyLine) /\ <<l>> # <<>>
  BY OneLine
<1>2. CASE Written(<<l>>)
  BY <1>1, <1>2, WrittenRecords
<1>3. CASE WriteFails(l)
  <2>1. CutShort(<<l>>)
    BY <1>3 DEF WriteFails
  <2> QED
    BY <1>1, <2>1, CutShortRecords
<1> QED
  BY <1>2, <1>3

(* A new map is empty, and so is its log.                                  *)
LEMMA InitInv == Init => IInv
<1> SUFFICES ASSUME Init PROVE IInv
  OBVIOUS
<1>1. FileOK
  BY EmptySeq DEF Init, FileOK
<1>2. Len(<<>>) = 0 /\ 1 .. 0 = {}
  OBVIOUS
<1>3. ASSUME NEW k \in Keys PROVE Says(log, k, Find(table, k))
  BY <1>2, NewTable DEF Init, Says, SaysLast
<1> QED
  BY <1>1, <1>3, NewTable DEF Init, IInv, Agrees

(* add()                                                                   *)
LEMMA AddInv ==
  ASSUME IInv, NEW e \in Entries, Add(e[1], e[2])
  PROVE  IInv' /\ \A m \in Keys : Find(table', m) = IF m = e[1] THEN e[2] ELSE Find(table, m)
<1> DEFINE k == e[1]
           g == e[2]
           l == AddLine(k, g)
<1>1. k \in Keys /\ g \in Generations
  BY KeymapAssumption
<1> HIDE DEF k, g
<1>2. l \in KeyLine /\ l.key = k /\ l.gen = g
  BY <1>1, LinesWritten DEF AddLine
<1>3. table' = Insert(table, k, g) /\ (Written(<<l>>) \/ WriteFails(l)) /\ logging' = logging
  BY DEF Add, k, g
<1> HIDE DEF l
<1>4. Sound(table') /\ \A m \in Keys : Find(table', m) = IF m = k THEN g ELSE Find(table, m)
  BY <1>1, <1>3, InsertSound DEF IInv
<1>5. Recorded(<<l>>)
  BY <1>2, <1>3, OneLineRecords DEF IInv
<1>6. \A m \in Keys : \/ Silent(<<l>>, m) /\ Find(table', m) = Find(table, m)
                      \/ AllSay(<<l>>, m, Find(table', m))
  BY <1>2, <1>4, OneLine
<1>7. Agrees'
  BY <1>5, <1>6, RecordedAgrees DEF IInv
<1> QED
  BY <1>3, <1>4, <1>5, <1>7 DEF IInv, Recorded, k, g

(* remove()                                                                *)
LEMMA RemoveInv ==
  ASSUME IInv, NEW k \in Keys, RemoveKey(k)
  PROVE  IInv' /\ \A m \in Keys : Find(table', m) = IF m = k THEN Gone ELSE Find(table, m)
<1> DEFINE l == RemoveLine(k)
<1>1. l \in KeyLine /\ l.key = k /\ l.gen = Gone
  BY DEF RemoveLine, KeyLine, LogLine
<1>2. table' = MarkRemoved(table, k) /\ (Written(<<l>>) \/ WriteFails(l)) /\ logging' = logging
  BY DEF RemoveKey
<1> HIDE DEF l
<1>3. Sound(table') /\ \A m \in Keys : Find(table', m) = IF m = k THEN Gone ELSE Find(table, m)
  BY <1>2, MarkRemovedSound DEF IInv
<1>4. Recorded(<<l>>)
  BY <1>1, <1>2, OneLineRecords DEF IInv
<1>5. \A m \in Keys : \/ Silent(<<l>>, m) /\ Find(table', m) = Find(table, m)
                      \/ AllSay(<<l>>, m, Find(table', m))
  BY <1>1, <1>3, OneLine
<1>6. Agrees'
  BY <1>4, <1>5, RecordedAgrees DEF IInv
<1> QED
  BY <1>2, <1>3, <1>4, <1>6 DEF IInv, Recorded

(* The lines retain_generations(S) writes are of the keys it removes.      *)
LEMMA RemovalsAre ==
  ASSUME IInv, NEW S \in SUBSET Generations
  PROVE  /\ Removals(S) \in Seq(KeyLine) /\ DOMAIN Removals(S) = 1 .. Len(Removals(S))
         /\ \A k \in Keys : Find(table, k) \in S \cup {Gone} => Silent(Removals(S), k)
         /\ \A k \in Keys : Find(table, k) \notin S \cup {Gone} => AllSay(Removals(S), k, Gone)
<1> DEFINE G == Generations \ S
           q == SlotsIn(table, G)
           r == Removals(S)
           n == Len(q)
           t == Size(table)
<1>1. /\ q \in Seq(EntriesIn(G)) /\ n \in Nat
      /\ \A j \in 1 .. n : Find(table, q[j].key) = q[j].gen
      /\ \A k \in Keys : Find(table, k) \in G => \E j \in 1 .. n : q[j].key = k
  <2>1. t \in Nat /\ SoundTable(table, t) /\ G \in SUBSET Generations
    BY DEF IInv, Sound
  <2> HIDE DEF t, G, n
  <2>2. /\ q \in Seq(EntriesIn(G)) /\ Len(q) \in Nat
        /\ \A j \in 1 .. Len(q) : Find(table, q[j].key) = q[j].gen
        /\ \A k \in Keys : Find(table, k) \in G => \E j \in 1 .. Len(q) : q[j].key = k
    BY <2>1, SlotsOfTable
  <2> QED
    BY <2>2 DEF n
<1>2. DOMAIN q = 1 .. n /\ \A j \in 1 .. n : q[j].key \in Keys /\ q[j].gen \in G
  <2>1. q \in [1 .. n -> EntriesIn(G)]
    BY <1>1, LenProperties
  <2> HIDE DEF q, n
  <2> QED
    BY <2>1 DEF EntriesIn
<1>3. r = [i \in DOMAIN q |-> RemoveLine(q[i].key)]
  BY DEF Removals
<1> HIDE DEF q, r, n
<1>4. ASSUME NEW j \in 1 .. n
      PROVE  r[j] \in KeyLine /\ r[j].key = q[j].key /\ r[j].gen = Gone
  BY <1>2, <1>3 DEF RemoveLine, KeyLine, LogLine
<1>5. r \in [1 .. n -> KeyLine]
  BY <1>2, <1>3, <1>4
<1>6. r \in Seq(KeyLine) /\ Len(r) = n /\ DOMAIN r = 1 .. n
  BY <1>1, <1>5, FunctionIsSeq
<1>7. ASSUME NEW k \in Keys, Find(table, k) \in S \cup {Gone} PROVE Silent(r, k)
  <2>1. ASSUME NEW j \in 1 .. n, q[j].key = k PROVE FALSE
    <3>1. Find(table, k) = q[j].gen /\ q[j].gen \in G
      BY <1>1, <1>2, <2>1
    <3> QED
      BY <1>7, <3>1, KeymapAssumption
  <2> QED
    BY <1>4, <1>6, <2>1 DEF Silent
<1>8. ASSUME NEW k \in Keys, Find(table, k) \notin S \cup {Gone} PROVE AllSay(r, k, Gone)
  <2>1. Find(table, k) \in Generations \cup {Gone}
    <3>1. t \in Nat /\ SoundTable(table, t)
      BY DEF IInv, Sound
    <3> HIDE DEF t
    <3> QED
      BY <3>1, FindByPresence
  <2>2. PICK j \in 1 .. n : q[j].key = k
    BY <1>1, <1>8, <2>1
  <2> QED
    BY <1>4, <1>6, <2>2 DEF AllSay
<1> QED
  BY <1>6, <1>7, <1>8 DEF r

(* retain_generations()                                                    *)
LEMMA RetainInv ==
  ASSUME IInv, NEW S \in SUBSET Generations, RetainGenerations(S)
  PROVE  /\ IInv'
         /\ \A k \in Keys : Find(table', k) = IF Find(table, k) \in S THEN Find(table, k) ELSE Gone
<1>1. table' = Retained(table, S) /\ Written(Removals(S)) /\ logging' = logging
  BY DEF RetainGenerations, Retained
<1>2. /\ Sound(table')
      /\ \A k \in Keys : Find(table', k) = IF Find(table, k) \in S THEN Find(table, k) ELSE Gone
  BY <1>1, RetainedSound DEF IInv
<1>3. Recorded(Removals(S))
  BY <1>1, RemovalsAre, WrittenRecords DEF IInv
<1>4. \A k \in Keys : \/ Silent(Removals(S), k) /\ Find(table', k) = Find(table, k)
                      \/ AllSay(Removals(S), k, Find(table', k))
  BY <1>2, RemovalsAre, KeymapAssumption
<1>5. Agrees'
  BY <1>3, <1>4, RecordedAgrees DEF IInv
<1> QED
  BY <1>1, <1>2, <1>3, <1>5 DEF IInv, Recorded

(* retain_generations() killed between its lines.                          *)
LEMMA KilledInv ==
  ASSUME IInv, NEW S \in SUBSET Generations, KilledRetaining(S)
  PROVE  IInv' /\ \A k \in Keys \ (doubtful \cup doubtful') : Find(table', k) = Find(table, k)
<1>1. PICK n \in DOMAIN Removals(S) : CutShort(SubSeq(Removals(S), 1, n))
  BY DEF KilledRetaining
<1> DEFINE r == Removals(S)
           s == SubSeq(r, 1, n)
<1>2. r \in Seq(KeyLine) /\ n \in 1 .. Len(r) /\ Len(r) \in Nat
  BY <1>1, RemovalsAre, LenProperties
<1>3. s \in Seq(KeyLine) /\ s # <<>>
  <2> HIDE DEF r
  <2>1. \A i \in 1 .. n : r[i] \in KeyLine
    <3>1. \A i \in 1 .. n : i \in 1 .. Len(r)
      BY <1>2
    <3> QED
      BY <1>2, <3>1, ElementOfSeq
  <2>2. 1 \in Int /\ n \in Int /\ 1 <= n
    BY <1>2
  <2>3. s \in Seq(KeyLine) /\ Len(s) = n - 1 + 1
    BY <2>1, <2>2, SubSeqProperties
  <2>4. Len(s) # 0
    BY <1>2, <2>3
  <2> HIDE DEF s
  <2> QED
    BY <2>3, <2>4, EmptySeq
<1>4. Recorded(s)
  BY <1>1, <1>3, CutShortRecords DEF IInv
<1>5. table' = Loaded(log') /\ logging' = logging
  BY DEF KilledRetaining
<1>6. log' \in Seq(LogLine) /\ Len(log') \in Nat
  BY <1>4, LenProperties DEF Recorded, FileOK
<1>7. Sound(table') /\ \A k \in Keys : Says(log', k, Find(table', k))
  BY <1>5, <1>6, LoadedSays DEF Says
<1>8. IInv'
  BY <1>4, <1>5, <1>7 DEF IInv, Agrees, Recorded
<1>9. KeysOf(s) \subseteq doubtful'
  BY <1>1 DEF CutShort
<1>10. ASSUME NEW k \in Keys \ (doubtful \cup doubtful') PROVE Find(table', k) = Find(table, k)
  <2>1. Silent(s, k)
    BY <1>3, <1>9, KeysOfAre
  <2>2. Says(log, k, Find(table, k))
    BY DEF IInv, Agrees
  <2>3. Says(log', k, Find(table, k)) /\ Says(log', k, Find(table', k))
    BY <1>4, <1>7, <2>1, <2>2 DEF Recorded
  <2> QED
    BY <1>6, <2>3, SaysOne DEF Says
<1> QED
  BY <1>8, <1>10

(* The lines compact_log() writes: one for each key that has a place.      *)
LiveLines == [i \in DOMAIN Live(table) |-> AddLine(Live(table)[i].key, Live(table)[i].gen)]

(* They say where the keys are.                                            *)
LEMMA LiveLinesAre ==
  ASSUME IInv
  PROVE  /\ LiveLines \in Seq(KeyLine) /\ DOMAIN LiveLines = 1 .. Len(LiveLines)
         /\ \A k \in Keys : \/ AllSay(LiveLines, k, Find(table, k))
                            \/ Silent(LiveLines, k) /\ Find(table, k) = Gone
         /\ \A i, j \in 1 .. Len(LiveLines) : LiveLines[i].key = LiveLines[j].key => i = j
<1> DEFINE q == Live(table)
           r == LiveLines
           n == Len(q)
           t == Size(table)
<1>1. t \in Nat /\ SoundTable(table, t)
  BY DEF IInv, Sound
<1>2. /\ q \in Seq(Entry) /\ n \in Nat
      /\ \A j \in 1 .. n : Find(table, q[j].key) = q[j].gen
      /\ \A k \in Keys : Find(table, k) \in Generations => \E j \in 1 .. n : q[j].key = k
      /\ \A i, j \in 1 .. n : q[i].key = q[j].key => i = j
  <2>1. Generations \in SUBSET Generations
    OBVIOUS
  <2> HIDE DEF t
  <2> QED
    BY <1>1, <2>1, SlotsOfTable DEF Live, Entry
<1>3. \A k \in Keys : Find(table, k) \in Generations \cup {Gone}
  <2> HIDE DEF t
  <2> QED
    BY <1>1, FindByPresence
<1>4. DOMAIN q = 1 .. n /\ \A j \in 1 .. n : q[j].key \in Keys /\ q[j].gen \in Generations
  <2>1. q \in [1 .. n -> Entry] /\ DOMAIN q = 1 .. n
    BY <1>2, LenProperties
  <2> HIDE DEF q, n
  <2> QED
    BY <2>1 DEF Entry, EntriesIn
<1>5. r = [i \in DOMAIN q |-> AddLine(q[i].key, q[i].gen)]
  BY DEF LiveLines
<1> HIDE DEF q, r, n, t
<1>6. ASSUME NEW j \in 1 .. n
      PROVE  r[j] \in KeyLine /\ r[j].key = q[j].key /\ r[j].gen = q[j].gen
  BY <1>4, <1>5 DEF AddLine, KeyLine, LogLine
<1>7. r \in [1 .. n -> KeyLine]
  BY <1>4, <1>5, <1>6
<1>8. r \in Seq(KeyLine) /\ Len(r) = n /\ DOMAIN r = 1 .. n
  BY <1>2, <1>7, FunctionIsSeq
<1>9. ASSUME NEW k \in Keys
      PROVE  \/ AllSay(r, k, Find(table, k))
             \/ Silent(r, k) /\ Find(table, k) = Gone
  <2>1. CASE \E j \in 1 .. n : q[j].key = k
    BY <1>2, <1>6, <1>8, <2>1 DEF AllSay
  <2>2. CASE \A j \in 1 .. n : q[j].key # k
    BY <1>2, <1>3, <1>6, <1>8, <2>2 DEF Silent
  <2> QED
    BY <2>1, <2>2
<1>10. \A i, j \in 1 .. n : r[i].key = r[j].key => i = j
  BY <1>2, <1>6
<1> QED
  BY <1>8, <1>9, <1>10 DEF r

(* A log that has just these lines, or silence, says so.                   *)
LEMMA AloneSays ==
  ASSUME NEW s \in Seq(LogLine), NEW k \in Keys
  PROVE  /\ \A g : AllSay(s, k, g) /\ k \notin Long => Says(s, k, g)
         /\ Silent(s, k) => Says(s, k, Gone)
<1>1. <<>> \in Seq(LogLine) /\ <<>> \o s = s
  BY EmptySeq, ConcatEmptySeq
<1>2. \A g : AllSay(s, k, g) /\ k \notin Long => Says(s, k, g)
  BY <1>1, SaidAppended
<1>3. Silent(s, k) => Says(s, k, Gone)
  BY DEF Silent, Says, SaysLast
<1> QED
  BY <1>2, <1>3

(* A compaction of which the end was not written: what is lost is known to *)
(* be doubtful.                                                            *)
LEMMA CutCompaction ==
  ASSUME IInv, NEW n \in DOMAIN LiveLines, NEW c \in Cut(SubSeq(LiveLines, 1, n)),
         log' = c[1], whole' = c[2], UNCHANGED table,
         doubtful' = (Long \cap KeysOf(LiveLines))
                       \cup KeysOf(SubSeq(LiveLines, n, Len(LiveLines)))
                       \cup Shorter[LiveLines[n].key]
  PROVE  FileOK' /\ Agrees'
<1> DEFINE r == LiveLines
           l == Len(r)
           s == SubSeq(r, 1, n)
           z == SubSeq(r, n, l)
           a == c[1]
<1>1. /\ r \in Seq(KeyLine) /\ l \in Nat /\ n \in 1 .. l
      /\ \A i, j \in 1 .. l : r[i].key = r[j].key => i = j
      /\ \A k \in Keys : \/ AllSay(r, k, Find(table, k))
                         \/ Silent(r, k) /\ Find(table, k) = Gone
      /\ \A i \in 1 .. l : r[i] \in KeyLine
  BY LiveLinesAre, LenProperties, ElementOfSeq
<1> HIDE DEF r, l
<1>2. s \in Seq(KeyLine) /\ Len(s) = n /\ \A i \in 1 .. n : s[i] = r[i]
  <2>1. \A i \in 1 .. n : i \in 1 .. l /\ 1 + i - 1 = i
    BY <1>1
  <2>2. 1 \in Int /\ n \in Int /\ 1 <= n /\ n - 1 + 1 = n
    BY <1>1
  <2>3. \A i \in 1 .. n : r[i] \in KeyLine
    BY <1>1, <2>1
  <2>4. /\ s \in Seq(KeyLine) /\ Len(s) = n - 1 + 1
        /\ \A i \in 1 .. n - 1 + 1 : s[i] = r[1 + i - 1]
    BY <2>2, <2>3, SubSeqProperties
  <2> HIDE DEF s
  <2> QED
    BY <2>1, <2>2, <2>4
<1>3. \A i \in n .. l : r[i].key \in KeysOf(z)
  <2>1. \A i \in n .. l : r[i] \in KeyLine
    BY <1>1
  <2>2. n \in Int /\ l \in Int /\ n <= l
    BY <1>1
  <2>3. /\ z \in Seq(KeyLine) /\ Len(z) = l - n + 1
        /\ \A i \in 1 .. l - n + 1 : z[i] = r[n + i - 1]
    BY <2>1, <2>2, SubSeqProperties
  <2> HIDE DEF z
  <2> SUFFICES ASSUME NEW i \in n .. l PROVE r[i].key \in KeysOf(z)
    OBVIOUS
  <2>4. i - n + 1 \in 1 .. l - n + 1 /\ n + (i - n + 1) - 1 = i
    BY <1>1
  <2>5. z[i - n + 1] = r[i]
    BY <2>3, <2>4
  <2> QED
    BY <2>3, <2>4, <2>5, KeysOfAre
<1>4. KeysOf(z) \subseteq Keys /\ KeysOf(r) \subseteq Keys
  <2>1. z \in Seq(KeyLine)
    <3>1. \A i \in n .. l : r[i] \in KeyLine
      BY <1>1
    <3>2. n \in Int /\ l \in Int
      BY <1>1
    <3> QED
      BY <3>1, <3>2, SubSeqProperties
  <2> HIDE DEF z
  <2> QED
    BY <1>1, <2>1, KeyLinesAreLines
<1>5. doubtful' = (Long \cap KeysOf(r)) \cup KeysOf(z) \cup Shorter[r[n].key]
  BY DEF r, z, l
<1>6. r[n].key \in Keys /\ r[n].key \in KeysOf(z) /\ Shorter[r[n].key] \subseteq Keys
  <2>1. r[n] \in KeyLine /\ n \in n .. l
    BY <1>1
  <2> QED
    BY <1>3, <2>1, KeymapAssumption DEF KeyLine
<1> HIDE DEF s, z
<1>7. s # <<>> /\ Last(s) = r[n]
  <2>1. n \in 1 .. n /\ Len(s) # 0
    BY <1>1, <1>2
  <2>2. s # <<>>
    BY <2>1, EmptySeq
  <2> QED
    BY <1>2, <2>1, <2>2 DEF Last
<1>8. /\ a \in Seq(LogLine) /\ c[2] \in BOOLEAN
      /\ Len(a) \in {n - 1, n}
      /\ \A j \in 1 .. n - 1 : a[j] = r[j]
      /\ \A j \in 1 .. Len(a) : j \notin 1 .. n - 1 =>
           j = n /\ a[j].key \in {NoKey, r[n].key} \cup Shorter[r[n].key]
      /\ ~c[2] => a # <<>> /\ Len(a) = n
  <2>1. c \in Cut(s)
    BY DEF s, r
  <2>2. /\ a \in Seq(LogLine) /\ c[2] \in BOOLEAN
        /\ Len(a) \in {Len(s) - 1, Len(s)}
        /\ \A j \in 1 .. Len(s) - 1 : a[j] = s[j]
        /\ \A j \in 1 .. Len(a) : j \notin 1 .. Len(s) - 1 =>
             j = Len(s) /\ a[j].key \in {NoKey, Last(s).key} \cup Shorter[Last(s).key]
        /\ ~c[2] => a # <<>> /\ Len(a) = Len(s)
    BY <1>2, <1>7, <2>1, CutIs
  <2>3. \A j \in 1 .. n - 1 : j \in 1 .. n
    BY <1>1
  <2> HIDE DEF a
  <2> QED
    BY <1>2, <1>7, <2>2, <2>3
<1>9. log' = a /\ whole' = c[2]
  OBVIOUS
<1> HIDE DEF a
<1>10. FileOK'
  <2>1. doubtful' \subseteq Keys
    BY <1>4, <1>5, <1>6
  <2>2. ASSUME ~whole' PROVE log' # <<>> /\ Last(log').key \in doubtful' \cup {NoKey}
    <3>1. a # <<>> /\ Len(a) \in 1 .. Len(a) /\ Last(a) = a[Len(a)]
      BY <1>8, <1>9, <2>2, HeadIn
    <3>2. Len(a) = n /\ n \notin 1 .. n - 1
      BY <1>1, <1>8, <1>9, <2>2
    <3>3. Last(a).key \in {NoKey, r[n].key} \cup Shorter[r[n].key]
      BY <1>8, <3>1, <3>2
    <3> QED
      BY <1>5, <1>6, <1>9, <3>1, <3>3
  <2> QED
    BY <1>8, <1>9, <2>1, <2>2 DEF FileOK
<1>11. ASSUME NEW k \in Keys \ doubtful' PROVE Says(log', k, Find(table, k))
  <2>1. k \notin KeysOf(z) /\ k \notin Shorter[r[n].key] /\ k # r[n].key /\ k # NoKey
    BY <1>5, <1>6, KeymapAssumption
  <2>2. \A j \in 1 .. Len(a) : a[j].key = k => j \in 1 .. n - 1 /\ a[j] = r[j] /\ j \in 1 .. l
    <3>1. \A j \in 1 .. n - 1 : j \in 1 .. l
      BY <1>1
    <3> QED
      BY <1>8, <2>1, <3>1
  <2>3. CASE Silent(r, k) /\ Find(table, k) = Gone
    <3>1. Silent(a, k)
      BY <2>2, <2>3 DEF Silent, l
    <3> QED
      BY <1>8, <1>9, <2>3, <3>1, AloneSays
  <2>4. CASE AllSay(r, k, Find(table, k))
    <3>1. PICK j \in 1 .. l : r[j].key = k
      BY <2>4 DEF AllSay, l
    <3>2. j \notin n .. l
      BY <1>3, <2>1, <3>1
    <3>3. j \in 1 .. n - 1 /\ j \in 1 .. Len(a)
      BY <1>1, <1>8, <3>2
    <3>4. a[j].key = k
      BY <1>8, <3>1, <3>3
    <3>5. AllSay(a, k, Find(table, k))
      BY <2>2, <2>4, <3>3, <3>4 DEF AllSay, l
    <3>6. k \notin Long
      <4>1. r[j].key \in KeysOf(r)
        BY <1>1, <3>1, KeysOfAre DEF l
      <4> QED
        BY <1>5, <3>1, <4>1
    <3> QED
      BY <1>8, <1>9, <3>5, <3>6, AloneSays
  <2> QED
    BY <1>1, <2>3, <2>4
<1>12. Agrees'
  BY <1>11 DEF Agrees
<1> QED
  BY <1>10, <1>12

(* compact_log()                                                           *)
LEMMA CompactInv ==
  ASSUME IInv, CompactLog
  PROVE  IInv' /\ UNCHANGED table
<1>1. table' = table
  BY DEF CompactLog
<1>2. CASE /\ log' = LiveLines /\ whole' = TRUE /\ doubtful' = Long \cap KeysOf(LiveLines)
           /\ logging' \in BOOLEAN
  <2>1. /\ LiveLines \in Seq(KeyLine)
        /\ \A k \in Keys : \/ AllSay(LiveLines, k, Find(table, k))
                           \/ Silent(LiveLines, k) /\ Find(table, k) = Gone
    BY LiveLinesAre
  <2>2. LiveLines \in Seq(LogLine) /\ KeysOf(LiveLines) \subseteq Keys
    BY <2>1, KeyLinesAreLines
  <2>3. FileOK'
    BY <1>2, <2>2 DEF FileOK
  <2>4. ASSUME NEW k \in Keys \ doubtful' PROVE Says(log', k, Find(table, k))
    <3>1. CASE AllSay(LiveLines, k, Find(table, k))
      <4>1. ~Silent(LiveLines, k)
        BY <3>1 DEF AllSay, Silent
      <4>2. k \notin Long
        BY <1>2, <2>1, <2>4, <4>1, KeysOfAre
      <4> QED
        BY <1>2, <2>2, <3>1, <4>2, AloneSays
    <3>2. CASE Silent(LiveLines, k) /\ Find(table, k) = Gone
      BY <1>2, <2>2, <3>2, AloneSays
    <3> QED
      BY <2>1, <3>1, <3>2
  <2>5. Agrees'
    BY <1>1, <2>4 DEF Agrees
  <2> QED
    BY <1>1, <1>2, <2>3, <2>5 DEF IInv
<1>3. CASE UNCHANGED <<file, doubtful>> /\ logging' \in BOOLEAN
  BY <1>1, <1>3 DEF IInv, FileOK, Agrees, file
<1>4. CASE /\ logging' = TRUE
           /\ \E n \in DOMAIN LiveLines :
                /\ \E c \in Cut(SubSeq(LiveLines, 1, n)) : log' = c[1] /\ whole' = c[2]
                /\ doubtful' = (Long \cap KeysOf(LiveLines))
                                 \cup KeysOf(SubSeq(LiveLines, n, Len(LiveLines)))
                                 \cup Shorter[LiveLines[n].key]
  <2>1. FileOK' /\ Agrees'
    BY <1>1, <1>4, CutCompaction
  <2> QED
    BY <1>1, <1>4, <2>1 DEF IInv
<1>5. \/ /\ log' = LiveLines /\ whole' = TRUE /\ doubtful' = Long \cap KeysOf(LiveLines)
         /\ logging' \in BOOLEAN
      \/ UNCHANGED <<file, doubtful>> /\ logging' \in BOOLEAN
      \/ /\ logging' = TRUE
         /\ \E n \in DOMAIN LiveLines :
              /\ \E c \in Cut(SubSeq(LiveLines, 1, n)) : log' = c[1] /\ whole' = c[2]
              /\ doubtful' = (Long \cap KeysOf(LiveLines))
                               \cup KeysOf(SubSeq(LiveLines, n, Len(LiveLines)))
                               \cup Shorter[LiveLines[n].key]
  <2>1. logging \in BOOLEAN
    BY DEF IInv
  <2> HIDE DEF LiveLines
  <2> QED
    BY <2>1 DEF CompactLog, LiveLines
<1> QED
  BY <1>1, <1>2, <1>3, <1>4, <1>5

(* What is said of the log's lines before it is loaded.                    *)
LEMMA LogRead ==
  ASSUME IInv
  PROVE  /\ log \in Seq(LogLine) /\ Len(log) \in Nat /\ whole \in BOOLEAN
         /\ \A k \in Keys \ doubtful : SaysLast(log, Len(log), k, Find(table, k))
         /\ \A l \in LogLine : l.key \in Keys \cup {NoKey}
         /\ log # <<>> => Last(log).key \in KeysOf(log) \cap (Keys \cup {NoKey})
<1>2. log \in Seq(LogLine) /\ Len(log) \in Nat /\ whole \in BOOLEAN
  BY LenProperties DEF IInv, FileOK
<1>3. \A k \in Keys \ doubtful : SaysLast(log, Len(log), k, Find(table, k))
  BY DEF IInv, Agrees, Says
<1>4. ASSUME NEW l \in LogLine PROVE l.key \in Keys \cup {NoKey}
  BY DEF LogLine, Garbage
<1>5. log # <<>> => Last(log).key \in KeysOf(log) \cap (Keys \cup {NoKey})
  <2> SUFFICES ASSUME log # <<>> PROVE Last(log).key \in KeysOf(log) \cap (Keys \cup {NoKey})
    OBVIOUS
  <2>1. Len(log) # 0
    BY <1>2, EmptySeq
  <2>2. Len(log) \in 1 .. Len(log)
    BY <1>2, <2>1
  <2>3. log[Len(log)] \in LogLine /\ log[Len(log)].key \in KeysOf(log)
    BY <1>2, <2>2, ElementOfSeq, KeysOfAre
  <2>4. Last(log) = log[Len(log)]
    BY DEF Last
  <2> QED
    BY <1>4, <2>3, <2>4
<1> QED
  BY <1>2, <1>3, <1>4, <1>5

(* load()                                                                  *)
LEMMA LoadInv ==
  ASSUME IInv, Load
  PROVE  IInv' /\ \A k \in Keys \ doubtful : Find(table', k) = Find(table, k)
<1>1. /\ log' = log /\ whole' = whole
      /\ table' = Loaded(log)
      /\ doubtful' = IF whole \/ log = <<>> THEN {} ELSE {Last(log).key} \ {NoKey}
      /\ logging' \in BOOLEAN
  BY DEF Load, file
<1>2. /\ log \in Seq(LogLine) /\ Len(log) \in Nat /\ whole \in BOOLEAN
      /\ \A k \in Keys \ doubtful : SaysLast(log, Len(log), k, Find(table, k))
      /\ log # <<>> => Last(log).key \in KeysOf(log) \cap (Keys \cup {NoKey})
  BY LogRead
<1>3. Sound(table') /\ \A k \in Keys : SaysLast(log, Len(log), k, Find(table', k))
  BY <1>1, <1>2, LoadedSays
<1>4. doubtful' \subseteq Keys
  BY <1>1, <1>2
<1>5. ~whole => log # <<>> /\ Last(log).key \in doubtful' \cup {NoKey}
  BY <1>1 DEF IInv, FileOK
<1>6. IInv'
  BY <1>1, <1>2, <1>3, <1>4, <1>5 DEF IInv, FileOK, Agrees, Says
<1> QED
  BY <1>2, <1>3, <1>6, SaysOne

(* load(), of a log that cannot be opened                                  *)
LEMMA LoadUnreadInv ==
  ASSUME IInv, LoadUnread
  PROVE  IInv' /\ \A k \in Keys : Find(table', k) = Gone
<1>1. /\ log' = log /\ whole' = whole
      /\ table' = EmptyTable(FirstSlots)
      /\ logging' = TRUE /\ doubtful' = KeysOf(log) \ {NoKey}
  BY DEF LoadUnread, file
<1>2. /\ log \in Seq(LogLine) /\ Len(log) \in Nat /\ whole \in BOOLEAN
      /\ \A l \in LogLine : l.key \in Keys \cup {NoKey}
      /\ log # <<>> => Last(log).key \in KeysOf(log) \cap (Keys \cup {NoKey})
  BY LogRead
<1>3. Sound(table') /\ \A k \in Keys : Find(table', k) = Gone
  BY <1>1, NewTable
<1>4. \A k \in KeysOf(log) : k \in Keys \cup {NoKey}
  <2> SUFFICES ASSUME NEW k \in KeysOf(log) PROVE k \in Keys \cup {NoKey}
    OBVIOUS
  <2>1. PICK j \in 1 .. Len(log) : log[j].key = k
    BY <1>2, KeysOfAre DEF Silent
  <2>2. log[j] \in LogLine
    BY <1>2, ElementOfSeq
  <2> QED
    BY <1>2, <2>1, <2>2
<1>5. ASSUME NEW k \in Keys \ doubtful' PROVE SaysLast(log, Len(log), k, Gone)
  <2>1. Silent(log, k)
    BY <1>1, <1>2, <1>5, KeysOfAre, KeymapAssumption
  <2> QED
    BY <2>1 DEF Silent, SaysLast
<1>6. ~whole => log # <<>> /\ Last(log).key \in doubtful' \cup {NoKey}
  BY <1>1, <1>2 DEF IInv, FileOK
<1>7. IInv'
  BY <1>1, <1>2, <1>3, <1>4, <1>5, <1>6 DEF IInv, FileOK, Agrees, Says
<1> QED
  BY <1>3, <1>7

(* open(), when it distrusts the log.                                      *)
LEMMA DiscardInv ==
  ASSUME Discard
  PROVE  IInv' /\ \A k \in Keys : Find(table', k) = Gone
<1>1. /\ table' = EmptyTable(FirstSlots) /\ log' = <<>> /\ whole' = TRUE /\ logging' = TRUE
      /\ doubtful' = {}
  BY DEF Discard
<1>2. Sound(table') /\ \A k \in Keys : Find(table', k) = Gone
  BY <1>1, NewTable
<1>3. <<>> \in Seq(LogLine) /\ Len(<<>>) = 0 /\ 1 .. 0 = {}
  OBVIOUS
<1>4. FileOK'
  BY <1>1, <1>3 DEF FileOK
<1>5. ASSUME NEW k \in Keys PROVE Says(log', k, Find(table', k))
  BY <1>1, <1>2, <1>3 DEF Says, SaysLast
<1>6. Agrees'
  BY <1>5 DEF Agrees
<1> QED
  BY <1>1, <1>2, <1>4, <1>6 DEF IInv

-----------------------------------------------------------------------------
(* The steps *)

(* Every operation keeps the invariant.                                    *)
LEMMA NextInv ==
  ASSUME IInv, Next
  PROVE  IInv'
<1>1. CASE \E e \in Entries : Add(e[1], e[2])
  BY <1>1, AddInv
<1>2. CASE \E k \in Keys : RemoveKey(k)
  BY <1>2, RemoveInv
<1>3. ASSUME NEW S \in SUBSET Generations, RetainGenerations(S) PROVE IInv'
  BY <1>3, RetainInv
<1>4. ASSUME NEW S \in SUBSET Generations, KilledRetaining(S) PROVE IInv'
  BY <1>4, KilledInv
<1>5. CASE CompactLog
  BY <1>5, CompactInv
<1>6. CASE Load
  BY <1>6, LoadInv
<1>7. CASE LoadUnread
  BY <1>7, LoadUnreadInv
<1>8. CASE Discard
  BY <1>8, DiscardInv
<1> QED
  BY <1>1, <1>2, <1>3, <1>4, <1>5, <1>6, <1>7, <1>8 DEF Next

(* The invariant holds.                                                    *)
LEMMA Invariance == Spec => []IInv
<1>1. IInv /\ UNCHANGED vars => IInv'
  BY DEF IInv, FileOK, Agrees, vars, file
<1>2. IInv /\ [Next]_vars => IInv'
  BY <1>1, NextInv
<1> QED
  BY <1>2, InitInv, PTL DEF Spec

-----------------------------------------------------------------------------
(* The results *)

(* Types, and slots_used: it is the number of slots in use, after any      *)
(* number of removals, which leave theirs in use, and growths, which do    *)
(* not (index_keymap.cpp, insert_no_log() and grow()).                     *)
THEOREM TypeCorrect == Spec => []TypeOK
<1>1. ASSUME IInv PROVE TypeOK
  <2> DEFINE n == Size(table)
  <2>1. n \in Nat /\ SoundTable(table, n)
    BY <1>1 DEF IInv, Sound
  <2>2. table \in TableOf(n)
    BY <2>1 DEF SoundTable
  <2>3. DOMAIN table.slots = 0 .. n - 1 /\ table.slots \in [0 .. n - 1 -> Slot]
    BY <2>1, <2>2, SizeOfTable DEF TableOf
  <2>4. table.used = Cardinality({i \in DOMAIN table.slots : table.slots[i].key # NoKey})
    BY <2>1 DEF SoundTable, Occupied
  <2>5. LogLine \subseteq Line
    BY DEF LogLine, Line, Garbage
  <2>6. log \in Seq(Line)
    <3>1. log \in Seq(LogLine) /\ Len(log) \in Nat /\ log \in [1 .. Len(log) -> LogLine]
      BY <1>1, LenProperties DEF IInv, FileOK
    <3>2. log \in [1 .. Len(log) -> Line]
      BY <2>5, <3>1
    <3> QED
      BY <3>1, <3>2, FunctionIsSeq
  <2>7. whole \in BOOLEAN /\ logging \in BOOLEAN /\ doubtful \subseteq Keys
    BY <1>1 DEF IInv, FileOK
  <2> QED
    BY <2>3, <2>4, <2>6, <2>7 DEF TypeOK, Slot
<1> QED
  BY <1>1, Invariance, PTL

(* find_slot() returns: the loop has no other end than a slot that was     *)
(* never used, and there always is one, whatever the number of keys, what  *)
(* they hash to and how many have been removed.                            *)
THEOREM ProbesAlwaysEnd == Spec => []ProbesEnd
<1>1. ASSUME IInv PROVE ProbesEnd
  <2> DEFINE n == Size(table)
  <2>1. n \in Nat /\ SoundTable(table, n)
    BY <1>1 DEF IInv, Sound
  <2>2. table \in TableOf(n) /\ Cardinality(Occupied(table)) < n
    BY <2>1 DEF SoundTable
  <2>3. PICK i \in 0 .. n - 1 : table.slots[i].key = NoKey
    BY <2>1, <2>2, HasFree
  <2>4. DOMAIN table.slots = 0 .. n - 1
    BY <2>1, <2>2, SizeOfTable
  <2> QED
    BY <2>3, <2>4 DEF ProbesEnd
<1> QED
  BY <1>1, Invariance, PTL

(* A restart finds every key where it was: at any moment the log would be  *)
(* loaded as the map in memory, but for the keys a failed or torn write or *)
(* a line too long for load() may have harmed.                             *)
THEOREM LogAlwaysReproduces == Spec => []LogReproduces
  BY AgreeingReproduces, Invariance, PTL

(* At first no key is anywhere.                                            *)
LEMMA MapInit == Init => Map!Init
<1> SUFFICES ASSUME Init PROVE Map!Init
  OBVIOUS
<1>1. \A k \in Keys : Find(table, k) = Gone
  BY NewTable DEF Init
<1> QED
  BY <1>1 DEF Init, Map!Init

(* Each operation does to the map what it says, with what it is called     *)
(* with: this is where the invariant is used.                              *)
LEMMA OperationsAreAsCalled ==
  ASSUME IInv
  PROVE  AsCalled
<1> DEFINE map == [k \in Keys |-> Find(table, k)]
           now == [k \in Keys |-> Find(table', k)]
<1>1. ASSUME NEW e \in Entries, Add(e[1], e[2]) PROVE Map!Add(e[1], e[2])
  <2>1. now = [map EXCEPT ![e[1]] = e[2]]
    BY <1>1, AddInv
  <2> QED
    BY <2>1 DEF Map!Add
<1>2. ASSUME NEW k \in Keys, RemoveKey(k) PROVE Map!RemoveKey(k)
  <2>1. now = [map EXCEPT ![k] = Gone]
    BY <1>2, RemoveInv
  <2> QED
    BY <2>1 DEF Map!RemoveKey
<1>3. ASSUME NEW S \in SUBSET Generations, RetainGenerations(S) PROVE Map!RetainGenerations(S)
  <2>1. now = [k \in Keys |-> IF map[k] \in S THEN map[k] ELSE Gone]
    BY <1>3, RetainInv
  <2> QED
    BY <2>1 DEF Map!RetainGenerations
<1>4. ASSUME IInv' PROVE now \in [Keys -> Generations \cup {Gone}]
  <2>1. Size(table') \in Nat /\ SoundTable(table', Size(table'))
    BY <1>4 DEF IInv, Sound
  <2> QED
    BY <2>1, FindByPresence
<1>5. ASSUME NEW S \in SUBSET Generations, KilledRetaining(S) PROVE Map!KilledRetaining
  <2>1. IInv' /\ \A k \in Keys \ (doubtful \cup doubtful') : Find(table', k) = Find(table, k)
    BY <1>5, KilledInv
  <2>2. doubtful \subseteq doubtful'
    BY <1>5 DEF KilledRetaining, CutShort
  <2>3. \A k \in Keys \ doubtful' : now[k] = map[k]
    BY <2>1, <2>2
  <2> QED
    BY <1>4, <2>1, <2>3 DEF Map!KilledRetaining, Map!Maps
<1>6. ASSUME CompactLog PROVE Map!CompactLog
  BY <1>6, CompactInv DEF Map!CompactLog
<1>7. ASSUME Load PROVE Map!Load
  <2>1. IInv' /\ \A k \in Keys \ doubtful : now[k] = map[k]
    BY <1>7, LoadInv
  <2> QED
    BY <1>4, <2>1 DEF Map!Load, Map!Maps
<1>8. ASSUME LoadUnread \/ Discard PROVE Map!Discard
  <2>1. now = [k \in Keys |-> Gone]
    BY <1>8, LoadUnreadInv, DiscardInv
  <2> QED
    BY <2>1 DEF Map!Discard
<1> QED
  BY <1>1, <1>2, <1>3, <1>5, <1>6, <1>7, <1>8 DEF AsCalled

(* The table implements the map of KeyMap, operation by operation.         *)
(* Whatever keys share a probe's path and whenever the table grows, an     *)
(* add() puts its key in its generation, a removal removes its key,        *)
(* retain_generations() keeps the keys of the generations it is told and   *)
(* compact_log() all; none of them changes another key's place.  A load()  *)
(* changes that of no key but those a failed or torn write or a line too   *)
(* long for it may have harmed before.                                     *)
THEOREM ImplementsMap == Spec => MapSpec
<1>1. IInv => [AsCalled]_vars
  BY OperationsAreAsCalled
<1> QED
  BY <1>1, MapInit, Invariance, PTL DEF Spec, MapSpec

(* And so, in any order, they are a behaviour of KeyMap.                   *)
THEOREM ImplementsKeyMap == Spec => Map!Spec
<1>1. ASSUME IInv, Next PROVE Map!Next
  <2>1. AsCalled /\ doubtful' \subseteq Keys
    BY <1>1, OperationsAreAsCalled, NextInv DEF IInv, FileOK
  <2>2. \A e \in Entries : e[1] \in Keys /\ e[2] \in Generations
    BY KeymapAssumption
  <2> QED
    BY <1>1, <2>1, <2>2 DEF Next, AsCalled, Map!Next
<1>2. UNCHANGED vars => UNCHANGED <<[k \in Keys |-> Find(table, k)], doubtful>>
  BY DEF vars
<1>3. IInv /\ [Next]_vars => [Map!Next]_<<[k \in Keys |-> Find(table, k)], doubtful>>
  BY <1>1, <1>2
<1> QED
  BY <1>3, MapInit, Invariance, PTL DEF Spec, Map!Spec
=============================================================================
