------------------------ MODULE WriteAheadLogProofs ------------------------
(***************************************************************************)
(* Theorems about WriteAheadLog, for records, keys, documents and vectors  *)
(* of any length.                                                          *)
(*                                                                         *)
(* Replay is defined by parsing, not by what was logged, so the argument   *)
(* has two halves.  About the format: what append() writes is read back as *)
(* one record wherever it stands, and a proper prefix of it at the end of  *)
(* the file is read as none.  About the steps: the file begins with the    *)
(* records kept, one behind the other, and behind them is nothing but the  *)
(* first cells of the one record whose append() failed.                    *)
(***************************************************************************)
EXTENDS WriteAheadLog, SequenceTheorems, FiniteSetTheorems, TLAPS

(* A set of numbers has a smallest one, which stands in for induction.     *)
LEMMA SmallestNat ==
  ASSUME NEW T, T \subseteq Nat, T # {}
  PROVE  \E n \in T : \A m \in T : n <= m
<1>1. PICK t \in T : TRUE
  OBVIOUS
<1> DEFINE Below == 1 .. t
           Up    == {s \in SUBSET Below : \E n \in T : s = 1 .. n}
<1>2. IsFiniteSet(Below)
  BY <1>1, FS_Interval
<1>3. IsWellFoundedOn(StrictSubsetOrdering(Below), SUBSET Below)
  BY <1>2, FS_StrictSubsetOrderingWellFounded, FS_FiniteSubsetsOfFinite
<1>4. Up \subseteq SUBSET Below /\ Below \in Up
  BY <1>1
<1> HIDE DEF Up
<1>5. PICK s \in Up : \A u \in Up : <<u, s>> \notin StrictSubsetOrdering(Below)
  BY <1>3, <1>4, WFMin
<1>6. PICK n \in T : s = 1 .. n /\ s \subseteq Below
  BY <1>5 DEF Up
<1>7. ASSUME NEW m \in T, m < n PROVE FALSE
  <2>1. 1 .. m \subseteq 1 .. n /\ n \in 1 .. n /\ n \notin 1 .. m
    BY <1>7
  <2>2. 1 .. m \in Up
    BY <1>6, <2>1 DEF Up
  <2>3. <<1 .. m, s>> \in StrictSubsetOrdering(Below)
    BY <1>6, <2>1 DEF StrictSubsetOrdering
  <2> QED
    BY <1>5, <2>2, <2>3
<1> QED
  BY <1>7

-----------------------------------------------------------------------------
(* The format *)

(* The cells of one record: the parser reads them as one, to the last.     *)
Framed(c) == c \in Seq(Nat) /\ Readable(c, 1) /\ LastAt(c, 1) = Len(c)

(* Behind the first o cells of f stand the first n of c.                   *)
Holds(f, o, c, n) == o + n <= Len(f) /\ \A i \in 1 .. n : f[o + i] = c[i]

(* A field the parser finds is a number, and the next one is behind it.    *)
LEMMA ReadableAdvances ==
  ASSUME NEW f \in Seq(Nat), NEW p \in Nat \ {0}, Readable(f, p)
  PROVE  /\ p + 1 <= Len(f) /\ f[p + 1] \in Nat
         /\ LengthAt(f, p) \in Nat /\ p + 2 <= LengthAt(f, p) /\ LengthAt(f, p) <= Len(f)
         /\ f[LengthAt(f, p)] \in Nat
         /\ FlagAt(f, p) \in Nat /\ LengthAt(f, p) < FlagAt(f, p) /\ FlagAt(f, p) <= Len(f)
         /\ LastAt(f, p) \in Nat /\ FlagAt(f, p) <= LastAt(f, p) /\ LastAt(f, p) <= Len(f)
<1>1. Len(f) \in Nat /\ \A i \in 1 .. Len(f) : f[i] \in Nat
  BY LenProperties, ElementOfSeq
<1>2. p + 1 <= Len(f) /\ f[p + 1] \in Nat
  BY <1>1 DEF Readable
<1>3. LengthAt(f, p) \in Nat /\ p + 2 <= LengthAt(f, p) /\ LengthAt(f, p) <= Len(f)
  BY <1>2 DEF Readable, LengthAt
<1>4. f[LengthAt(f, p)] \in Nat
  BY <1>1, <1>3
<1>5. FlagAt(f, p) \in Nat /\ LengthAt(f, p) < FlagAt(f, p) /\ FlagAt(f, p) <= Len(f)
  <2>1. FlagAt(f, p) = LengthAt(f, p) + 1 + f[LengthAt(f, p)] /\ FlagAt(f, p) <= Len(f)
    BY DEF FlagAt, Readable
  <2> QED
    BY <1>3, <1>4, <2>1
<1>6. LastAt(f, p) \in Nat /\ FlagAt(f, p) <= LastAt(f, p) /\ LastAt(f, p) <= Len(f)
  <2>1. /\ LastAt(f, p) = FlagAt(f, p) + IF f[FlagAt(f, p)] = 1 THEN Dimension ELSE 0
        /\ f[FlagAt(f, p)] = 1 => LastAt(f, p) <= Len(f)
    BY DEF LastAt, Readable
  <2>2. Dimension \in Nat
    BY WriteAheadLogAssumption
  <2> QED
    BY <1>5, <2>1, <2>2
<1> QED
  BY <1>2, <1>3, <1>4, <1>5, <1>6

(* Where f holds the cells of c as far as its fields reach, the parser     *)
(* finds the same fields, o cells further on.                              *)
LEMMA SameFields ==
  ASSUME NEW f \in Seq(Nat), NEW o \in Nat, NEW c, Framed(c),
         NEW n \in Nat, Holds(f, o, c, n)
  PROVE  /\ 2 <= n => /\ f[o + 1] = c[1] /\ f[(o + 1) + 1] = c[2]
                      /\ LengthAt(f, o + 1) = o + LengthAt(c, 1)
         /\ LengthAt(c, 1) <= n => /\ f[LengthAt(f, o + 1)] = c[LengthAt(c, 1)]
                                   /\ FlagAt(f, o + 1) = o + FlagAt(c, 1)
         /\ FlagAt(c, 1) <= n => /\ f[FlagAt(f, o + 1)] = c[FlagAt(c, 1)]
                                 /\ LastAt(f, o + 1) = o + LastAt(c, 1)
<1> DEFINE l == LengthAt(c, 1)
           g == FlagAt(c, 1)
           m == LengthAt(f, o + 1)
           h == FlagAt(f, o + 1)
<1>1. /\ c[2] \in Nat /\ l \in Nat /\ 3 <= l /\ c[l] \in Nat /\ g \in Nat /\ l < g
  BY ReadableAdvances DEF Framed
<1>2. l = 3 + c[2] /\ m = (o + 1) + 2 + f[(o + 1) + 1]
  BY DEF LengthAt
<1>3. g = l + 1 + c[l] /\ h = m + 1 + f[m]
  BY DEF FlagAt
<1>4. /\ LastAt(c, 1) = g + IF c[g] = 1 THEN Dimension ELSE 0
      /\ LastAt(f, o + 1) = h + IF f[h] = 1 THEN Dimension ELSE 0
  BY DEF LastAt
<1>5. Dimension \in Nat
  BY WriteAheadLogAssumption
<1>6. \A i \in 1 .. n : f[o + i] = c[i]
  BY DEF Holds
<1> HIDE DEF l, g, m, h
<1>7. ASSUME 2 <= n PROVE f[o + 1] = c[1] /\ f[(o + 1) + 1] = c[2] /\ m = o + l
  <2>1. 1 \in 1 .. n /\ 2 \in 1 .. n /\ (o + 1) + 1 = o + 2
    BY <1>7
  <2>2. f[o + 1] = c[1] /\ f[o + 2] = c[2]
    BY ONLY <1>6, <2>1
  <2>3. f[(o + 1) + 1] = c[2]
    BY ONLY <2>1, <2>2
  <2>4. m = (o + 1) + 2 + c[2]
    BY ONLY <1>2, <2>3
  <2>5. m = o + l
    <3>1. \A x \in Nat : (o + 1) + 2 + x = o + (3 + x)
      OBVIOUS
    <3>2. (o + 1) + 2 + c[2] = o + (3 + c[2])
      BY ONLY <1>1, <3>1, Zenon
    <3> QED
      BY ONLY <1>2, <2>4, <3>2, Zenon
  <2> QED
    BY <2>2, <2>3, <2>5
<1>8. ASSUME l <= n PROVE f[m] = c[l] /\ h = o + g
  <2>1. l \in 1 .. n /\ m = o + l
    BY <1>1, <1>7, <1>8
  <2>2. f[m] = c[l]
    BY <1>6, <2>1
  <2>3. h = m + 1 + c[l]
    BY ONLY <1>3, <2>2
  <2>4. h = o + g
    <3>1. c[l] \in Nat /\ l \in Nat /\ g = l + 1 + c[l]
      BY <1>1, <1>3
    <3>2. \A x, y \in Nat : (o + y) + 1 + x = o + (y + 1 + x)
      OBVIOUS
    <3>3. (o + l) + 1 + c[l] = o + (l + 1 + c[l])
      BY ONLY <3>1, <3>2, Zenon
    <3> QED
      BY ONLY <2>1, <2>3, <3>1, <3>3, Zenon
  <2> QED
    BY <2>2, <2>4
<1>9. ASSUME g <= n PROVE f[h] = c[g] /\ LastAt(f, o + 1) = o + LastAt(c, 1)
  <2>1. g \in 1 .. n /\ h = o + g
    BY <1>1, <1>8, <1>9
  <2>2. f[h] = c[g]
    BY <1>6, <2>1
  <2>3. LastAt(f, o + 1) = h + IF c[g] = 1 THEN Dimension ELSE 0
    BY ONLY <1>4, <2>2
  <2>4. LastAt(f, o + 1) = o + LastAt(c, 1)
    <3>1. g \in Nat /\ LastAt(c, 1) = g + IF c[g] = 1 THEN Dimension ELSE 0
      BY <1>1, <1>4
    <3> QED
      BY ONLY <1>5, <2>1, <2>3, <3>1, o \in Nat
  <2> QED
    BY <2>2, <2>4
<1> QED
  BY <1>7, <1>8, <1>9 DEF l, g, m, h

(* Where f holds a record, the parser reads it.                            *)
LEMMA RecordIsRead ==
  ASSUME NEW f \in Seq(Nat), NEW o \in Nat, NEW c, Framed(c), Holds(f, o, c, Len(c))
  PROVE  Readable(f, o + 1) /\ LastAt(f, o + 1) = o + Len(c)
<1> DEFINE l == LengthAt(c, 1)
           g == FlagAt(c, 1)
           m == LengthAt(f, o + 1)
           h == FlagAt(f, o + 1)
<1>1. /\ 2 <= Len(c) /\ l \in Nat /\ l <= Len(c) /\ g \in Nat /\ l < g /\ g <= Len(c)
      /\ LastAt(c, 1) = Len(c) /\ c \in Seq(Nat)
  BY ReadableAdvances DEF Framed
<1>2. Len(c) \in Nat /\ Len(f) \in Nat /\ o + Len(c) <= Len(f)
  BY <1>1, LenProperties DEF Holds
<1>3. /\ f[o + 1] = c[1] /\ f[(o + 1) + 1] = c[2] /\ m = o + l
      /\ f[m] = c[l] /\ h = o + g
      /\ f[h] = c[g] /\ LastAt(f, o + 1) = o + Len(c)
  <2>1. /\ 2 <= Len(c) => /\ f[o + 1] = c[1] /\ f[(o + 1) + 1] = c[2]
                           /\ m = o + l
        /\ l <= Len(c) => f[m] = c[l] /\ h = o + g
        /\ g <= Len(c) => f[h] = c[g] /\ LastAt(f, o + 1) = o + LastAt(c, 1)
    BY <1>2, SameFields
  <2> HIDE DEF l, g, m, h
  <2> QED
    BY <1>1, <2>1, Zenon
<1>4. /\ c[1] \in Ops /\ c[2] \in 1 .. MaxKey /\ c[l] \in 0 .. MaxDocument
      /\ c[g] \in {0, 1} /\ (c[g] = 1 => Dimension > 0)
  BY DEF Framed, Readable
<1> HIDE DEF l, g
<1>5. (o + 1) + 1 <= Len(f) /\ m <= Len(f) /\ h <= Len(f) /\ LastAt(f, o + 1) <= Len(f)
  <2>1. (o + 1) + 1 <= o + Len(c) /\ o + l <= o + Len(c) /\ o + g <= o + Len(c)
    BY ONLY o \in Nat, <1>1, <1>2
  <2> QED
    <3>1. m = o + l /\ h = o + g /\ LastAt(f, o + 1) = o + Len(c)
      BY <1>3
    <3>2. l \in Nat /\ g \in Nat
      BY <1>1
    <3> QED
      BY ONLY o \in Nat, <1>2, <3>2, <2>1, <3>1
<1> HIDE DEF m, h
<1>6. /\ (o + 1) + 1 <= Len(f) /\ f[o + 1] \in Ops /\ f[(o + 1) + 1] \in 1 .. MaxKey
      /\ m <= Len(f) /\ f[m] \in 0 .. MaxDocument
      /\ h <= Len(f) /\ f[h] \in {0, 1}
      /\ f[h] = 1 => Dimension > 0 /\ LastAt(f, o + 1) <= Len(f)
  BY <1>3, <1>4, <1>5
<1> QED
  BY <1>3, <1>6 DEF Readable, m, h

(* Where f ends within a record, the parser reads none.                    *)
LEMMA CutRecordIsNotRead ==
  ASSUME NEW f \in Seq(Nat), NEW o \in Nat, NEW c, Framed(c),
         NEW n \in Nat, n < Len(c), Holds(f, o, c, n), Len(f) = o + n
  PROVE  ~Readable(f, o + 1)
<1> SUFFICES ASSUME Readable(f, o + 1) PROVE FALSE
  OBVIOUS
<1> DEFINE l == LengthAt(c, 1)
           g == FlagAt(c, 1)
           m == LengthAt(f, o + 1)
           h == FlagAt(f, o + 1)
<1>1. /\ l \in Nat /\ g \in Nat /\ LastAt(c, 1) = Len(c) /\ c \in Seq(Nat)
  BY ReadableAdvances DEF Framed
<1>2. Len(c) \in Nat
  BY <1>1, LenProperties
<1>3. (o + 1) + 1 <= Len(f) /\ m <= Len(f) /\ h <= Len(f) /\ LastAt(f, o + 1) <= Len(f)
  BY ReadableAdvances
<1>4. /\ 2 <= n => m = o + l
      /\ l <= n => h = o + g
      /\ g <= n => LastAt(f, o + 1) = o + Len(c)
  <2>1. LastAt(c, 1) = Len(c)
    BY <1>1
  <2> QED
    BY <2>1, SameFields
<1> HIDE DEF l, g, m, h
<1>5. 2 <= n
  BY <1>3
<1>6. m = o + l /\ l <= n
  BY <1>1, <1>3, <1>4, <1>5
<1>7. h = o + g /\ g <= n
  BY <1>1, <1>3, <1>4, <1>6
<1> QED
  BY <1>2, <1>3, <1>4, <1>7

(* Concatenation, cell by cell.                                            *)
LEMMA Concat ==
  ASSUME NEW s \in Seq(Nat), NEW t \in Seq(Nat)
  PROVE  /\ s \o t \in Seq(Nat) /\ Len(s \o t) = Len(s) + Len(t)
         /\ Len(s) \in Nat /\ Len(t) \in Nat
         /\ \A i \in 1 .. Len(s) : (s \o t)[i] = s[i]
         /\ \A i \in 1 .. Len(t) : (s \o t)[Len(s) + i] = t[i]
<1>1. Len(s) \in Nat /\ Len(t) \in Nat
  BY LenProperties
<1>2. /\ s \o t \in Seq(Nat) /\ Len(s \o t) = Len(s) + Len(t)
      /\ \A i \in 1 .. Len(s) + Len(t) :
           (s \o t)[i] = IF i <= Len(s) THEN s[i] ELSE t[i - Len(s)]
  BY ConcatProperties
<1>3. ASSUME NEW i \in 1 .. Len(s) PROVE (s \o t)[i] = s[i]
  BY <1>1, <1>2
<1>4. ASSUME NEW i \in 1 .. Len(t) PROVE (s \o t)[Len(s) + i] = t[i]
  <2>1. /\ Len(s) + i \in 1 .. Len(s) + Len(t) /\ ~(Len(s) + i <= Len(s))
        /\ (Len(s) + i) - Len(s) = i
    BY <1>1
  <2> QED
    BY <1>2, <2>1
<1> QED
  BY <1>1, <1>2, <1>3, <1>4

(* The vector of a record: a flag, and as many floats as it announces.     *)
LEMMA VectorCells ==
  ASSUME NEW r \in Requests, Loggable(r)
  PROVE  LET v == IF r.vector = <<>> THEN <<0>> ELSE <<1>> \o r.vector
         IN  /\ v \in Seq(Nat) /\ v[1] \in {0, 1}
             /\ Len(v) = 1 + IF v[1] = 1 THEN Dimension ELSE 0
             /\ v[1] = 1 => Dimension > 0
<1>1. r.vector \in Seq(Nat) /\ Len(r.vector) \in {0, Dimension} /\ Dimension \in Nat
  BY RequestsAssumption, WriteAheadLogAssumption
<1>2. /\ <<0>> \in Seq(Nat) /\ Len(<<0>>) = 1 /\ <<0>>[1] = 0
      /\ <<1>> \in Seq(Nat) /\ Len(<<1>>) = 1 /\ <<1>>[1] = 1
  OBVIOUS
<1>3. CASE r.vector = <<>>
  BY <1>1, <1>2, <1>3
<1>4. CASE r.vector # <<>>
  <2>1. Len(r.vector) = Dimension /\ Dimension > 0
    BY <1>1, <1>4, EmptySeq DEF Loggable
  <2>2. /\ <<1>> \o r.vector \in Seq(Nat) /\ Len(<<1>> \o r.vector) = 1 + Len(r.vector)
        /\ (<<1>> \o r.vector)[1] = 1
    BY <1>1, <1>2, Concat
  <2> QED
    BY <1>4, <2>1, <2>2
<1> QED
  BY <1>3, <1>4

(* What append() writes is a record to the parser.                         *)
LEMMA EncodeIsFramed ==
  ASSUME NEW r \in Requests, Loggable(r)
  PROVE  Framed(Encode(r))
<1> DEFINE document == IF r.op = D THEN <<>> ELSE r.document
           vector   == IF r.vector = <<>> THEN <<0>> ELSE <<1>> \o r.vector
           K  == Len(r.key)
           M  == Len(document)
           c1 == <<r.op, K>>
           c2 == c1 \o r.key
           c3 == c2 \o <<M>>
           c4 == c3 \o document
           c  == c4 \o vector
<1>1. Encode(r) = c
  BY DEF Encode
<1>2. r.key \in Seq(Nat) /\ K \in 1 .. MaxKey /\ r.op \in Ops
  BY RequestsAssumption DEF Loggable
<1>3. document \in Seq(Nat) /\ M \in 0 .. MaxDocument
  <2>1. CASE r.op = D
    BY <2>1, EmptySeq, WriteAheadLogAssumption
  <2>2. CASE r.op # D
    <3>1. r.document \in Seq(Nat) /\ Len(r.document) \in Nat /\ Len(r.document) <= MaxDocument
      BY <2>2, RequestsAssumption, LenProperties DEF Loggable
    <3> QED
      BY <2>2, <3>1, WriteAheadLogAssumption
  <2> QED
    BY <2>1, <2>2
<1>4. /\ vector \in Seq(Nat) /\ vector[1] \in {0, 1}
      /\ Len(vector) = 1 + IF vector[1] = 1 THEN Dimension ELSE 0
      /\ vector[1] = 1 => Dimension > 0
  BY VectorCells
<1>5. K \in Nat /\ M \in Nat /\ r.op \in Nat /\ Dimension \in Nat /\ 0 < K
  <2>1. K \in Nat /\ M \in Nat
    BY <1>2, <1>3, LenProperties
  <2>2. r.op \in Nat /\ Dimension \in Nat
    BY <1>2, WriteAheadLogAssumption
  <2>3. 0 < K
    BY <1>2, <2>1
  <2> QED
    BY <2>1, <2>2, <2>3
<1> HIDE DEF document, vector, K, M
<1>6. c1 \in Seq(Nat) /\ Len(c1) = 2 /\ c1[1] = r.op /\ c1[2] = K
  BY <1>5
<1> HIDE DEF c1
<1>7. /\ c2 \in Seq(Nat) /\ Len(c2) = 2 + K
      /\ c2[1] = r.op /\ c2[2] = K
  <2>1. /\ c2 \in Seq(Nat) /\ Len(c2) = Len(c1) + Len(r.key)
        /\ \A i \in 1 .. Len(c1) : c2[i] = c1[i]
    BY <1>2, <1>6, Concat
  <2>2. 1 \in 1 .. Len(c1) /\ 2 \in 1 .. Len(c1)
    BY <1>6
  <2>3. c2[1] = r.op /\ c2[2] = K
    BY <1>6, <2>1, <2>2
  <2> QED
    BY <1>6, <2>1, <2>3 DEF K
<1> HIDE DEF c2
<1>8. /\ c3 \in Seq(Nat) /\ Len(c3) = 3 + K
      /\ c3[1] = r.op /\ c3[2] = K /\ c3[3 + K] = M
  <2>1. <<M>> \in Seq(Nat) /\ Len(<<M>>) = 1 /\ <<M>>[1] = M
    BY <1>5
  <2>2. /\ c3 \in Seq(Nat) /\ Len(c3) = Len(c2) + Len(<<M>>)
        /\ \A i \in 1 .. Len(c2) : c3[i] = c2[i]
        /\ \A i \in 1 .. Len(<<M>>) : c3[Len(c2) + i] = <<M>>[i]
    BY <1>7, <2>1, Concat
  <2>3. 1 \in 1 .. Len(c2) /\ 2 \in 1 .. Len(c2) /\ Len(c2) + 1 = 3 + K /\ 1 \in 1 .. Len(<<M>>)
    BY <1>5, <1>7, <2>1
  <2>4. c3[1] = r.op /\ c3[2] = K
    BY <1>7, <2>2, <2>3
  <2>5. c3[3 + K] = M
    BY <2>1, <2>2, <2>3
  <2>6. Len(c3) = 3 + K
    BY <1>5, <1>7, <2>1, <2>2
  <2> QED
    BY <2>2, <2>4, <2>5, <2>6
<1> HIDE DEF c3
<1>9. /\ c4 \in Seq(Nat) /\ Len(c4) = 3 + K + M
      /\ c4[1] = r.op /\ c4[2] = K /\ c4[3 + K] = M
  <2>1. /\ c4 \in Seq(Nat) /\ Len(c4) = Len(c3) + Len(document)
        /\ \A i \in 1 .. Len(c3) : c4[i] = c3[i]
    BY <1>3, <1>8, Concat
  <2>2. 1 \in 1 .. Len(c3) /\ 2 \in 1 .. Len(c3) /\ 3 + K \in 1 .. Len(c3)
    BY <1>5, <1>8
  <2>3. c4[1] = r.op /\ c4[2] = K /\ c4[3 + K] = M
    BY <1>8, <2>1, <2>2
  <2>4. Len(c4) = 3 + K + M
    BY <1>8, <2>1 DEF M
  <2> QED
    BY <2>1, <2>3, <2>4
<1> HIDE DEF c4
<1>10. /\ c \in Seq(Nat) /\ Len(c) = 3 + K + M + Len(vector)
       /\ c[1] = r.op /\ c[2] = K /\ c[3 + K] = M /\ c[4 + K + M] = vector[1]
  <2>1. /\ c \in Seq(Nat) /\ Len(c) = Len(c4) + Len(vector)
        /\ \A i \in 1 .. Len(c4) : c[i] = c4[i]
        /\ \A i \in 1 .. Len(vector) : c[Len(c4) + i] = vector[i]
    BY <1>4, <1>9, Concat
  <2>2. /\ 1 \in 1 .. Len(c4) /\ 2 \in 1 .. Len(c4) /\ 3 + K \in 1 .. Len(c4)
        /\ Len(c4) + 1 = 4 + K + M
    BY <1>5, <1>9
  <2>3. c[1] = r.op /\ c[2] = K /\ c[3 + K] = M
    BY <1>9, <2>1, <2>2
  <2>4. 1 \in 1 .. Len(vector)
    BY <1>4, <1>5
  <2>5. c[4 + K + M] = vector[1]
    BY <2>1, <2>2, <2>4
  <2> QED
    BY <1>9, <2>1, <2>3, <2>5
<1> HIDE DEF c
<1> DEFINE V == vector[1]
<1>11. /\ V \in {0, 1} /\ (V = 1 => Dimension > 0)
       /\ Len(c) = 4 + K + M + IF V = 1 THEN Dimension ELSE 0
       /\ c[4 + K + M] = V
  BY <1>4, <1>5, <1>10
<1> HIDE DEF V
<1>12. LengthAt(c, 1) = 3 + K
  BY <1>5, <1>10 DEF LengthAt
<1>13. FlagAt(c, 1) = 4 + K + M
  <2>1. FlagAt(c, 1) = (3 + K) + 1 + c[3 + K]
    BY <1>12 DEF FlagAt
  <2> QED
    BY <1>5, <1>10, <2>1
<1>14. LastAt(c, 1) = Len(c)
  <2>1. LastAt(c, 1) = (4 + K + M) + IF c[4 + K + M] = 1 THEN Dimension ELSE 0
    BY <1>13 DEF LastAt
  <2> QED
    BY <1>11, <2>1
<1>15. /\ 2 <= Len(c) /\ 3 + K <= Len(c) /\ 4 + K + M <= Len(c) /\ LastAt(c, 1) <= Len(c)
  BY <1>5, <1>11, <1>14
<1>16. Readable(c, 1)
  <2>1. 1 + 1 = 2
    OBVIOUS
  <2>2. c[1] \in Ops /\ c[1 + 1] \in 1 .. MaxKey
    BY <1>2, <1>10, <2>1
  <2>3. LengthAt(c, 1) <= Len(c) /\ c[LengthAt(c, 1)] \in 0 .. MaxDocument
    BY <1>3, <1>10, <1>12, <1>15
  <2>4. FlagAt(c, 1) <= Len(c) /\ c[FlagAt(c, 1)] \in {0, 1}
    BY <1>11, <1>13, <1>15
  <2>5. c[FlagAt(c, 1)] = 1 => Dimension > 0 /\ LastAt(c, 1) <= Len(c)
    BY <1>11, <1>13, <1>15
  <2> QED
    BY <1>15, <2>1, <2>2, <2>3, <2>4, <2>5 DEF Readable
<1> QED
  BY <1>1, <1>10, <1>14, <1>16 DEF Framed

-----------------------------------------------------------------------------
(* The parser *)

(* h[p] is what replay finds in f from position p on.                      *)
Parses(f, h) ==
  h = [p \in 1 .. Len(f) + 1 |->
         IF Readable(f, p)
         THEN <<SubSeq(f, p, LastAt(f, p))>> \o h[LastAt(f, p) + 1]
         ELSE <<>>]

Parse(f) == CHOOSE h : Parses(f, h)

(* Replay starts at the first cell.                                        *)
LEMMA ReplayUnfolded ==
  ASSUME NEW f
  PROVE  Replay(f) = Parse(f)[1]
  BY Zenon DEF Replay, Parse, Parses

(* The recursion has a solution: every record leads on.                    *)
LEMMA ParseExists ==
  ASSUME NEW f \in Seq(Nat)
  PROVE  Parses(f, Parse(f))
<1> DEFINE Rest(k) == {p \in 1 .. Len(f) + 1 : Len(f) + 1 <= p + k}
           From(k, h) == h = [p \in Rest(k) |->
                                IF Readable(f, p)
                                THEN <<SubSeq(f, p, LastAt(f, p))>> \o h[LastAt(f, p) + 1]
                                ELSE <<>>]
           T == {k \in Nat : ~ \E h : From(k, h)}
<1>1. Len(f) \in Nat
  BY LenProperties
<1>2. ASSUME NEW p \in 1 .. Len(f) + 1, Readable(f, p)
      PROVE  LastAt(f, p) \in Nat /\ p <= LastAt(f, p) /\ LastAt(f, p) <= Len(f)
  BY <1>1, <1>2, ReadableAdvances
<1>3. SUFFICES \E h : From(Len(f), h)
  <2>1. Rest(Len(f)) = 1 .. Len(f) + 1
    BY <1>1
  <2> QED
    BY <1>3, <2>1 DEF Parses, Parse
<1>4. SUFFICES ASSUME T # {} PROVE FALSE
  BY <1>1
<1>5. PICK k \in T : \A m \in T : k <= m
  <2>1. T \subseteq Nat
    OBVIOUS
  <2> HIDE DEF T
  <2> QED
    BY <1>4, <2>1, SmallestNat
<1>6. CASE k = 0
  <2>1. ASSUME NEW p \in Rest(0) PROVE ~Readable(f, p)
    BY <1>1, <1>2, <2>1
  <2>2. From(0, [p \in Rest(0) |-> <<>>])
    BY <2>1
  <2> QED
    BY <1>5, <1>6, <2>2
<1>7. CASE k # 0
  <2>1. k - 1 \in Nat /\ k - 1 \notin T
    <3>1. k \in Nat
      BY <1>5
    <3>2. k - 1 \in Nat /\ ~(k <= k - 1)
      BY <1>7, <3>1
    <3> HIDE DEF T
    <3> QED
      BY <1>5, <3>2
  <2>2. PICK h : From(k - 1, h)
    BY <2>1
  <2> DEFINE j == [p \in Rest(k) |->
                     IF Readable(f, p)
                     THEN <<SubSeq(f, p, LastAt(f, p))>> \o h[LastAt(f, p) + 1]
                     ELSE <<>>]
  <2>3. ASSUME NEW p \in Rest(k), Readable(f, p)
        PROVE  j[LastAt(f, p) + 1] = h[LastAt(f, p) + 1]
    <3> DEFINE q == LastAt(f, p) + 1
    <3>1. q \in Rest(k - 1) /\ q \in Rest(k)
      BY <1>1, <1>2, <1>7, <2>3
    <3> HIDE DEF q, Rest
    <3>2. j[q] = IF Readable(f, q)
                 THEN <<SubSeq(f, q, LastAt(f, q))>> \o h[LastAt(f, q) + 1]
                 ELSE <<>>
      BY <3>1
    <3>3. h[q] = IF Readable(f, q)
                 THEN <<SubSeq(f, q, LastAt(f, q))>> \o h[LastAt(f, q) + 1]
                 ELSE <<>>
      BY <2>2, <3>1
    <3> QED
      BY <3>2, <3>3 DEF q
  <2> HIDE DEF Rest
  <2>4. From(k, j)
    BY <2>3
  <2> QED
    BY <1>5, <2>4
<1> QED
  BY <1>6, <1>7

(* One step of the parser, and what it yields is a sequence of cells.      *)
LEMMA ParseStep ==
  ASSUME NEW f \in Seq(Nat), NEW p \in 1 .. Len(f) + 1
  PROVE  /\ Parse(f)[p] \in Seq(Seq(Nat))
         /\ Readable(f, p) =>
              Parse(f)[p] = <<SubSeq(f, p, LastAt(f, p))>> \o Parse(f)[LastAt(f, p) + 1]
         /\ ~Readable(f, p) => Parse(f)[p] = <<>>
<1> DEFINE h == Parse(f)
           n == Len(f) + 1
           T == {k \in Nat : \E q \in 1 .. n : q + k = n /\ h[q] \notin Seq(Seq(Nat))}
<1>1. n \in Nat /\ Len(f) \in Nat
  BY LenProperties
<1>2. \A q \in 1 .. n :
        h[q] = IF Readable(f, q)
               THEN <<SubSeq(f, q, LastAt(f, q))>> \o h[LastAt(f, q) + 1]
               ELSE <<>>
  BY ParseExists DEF Parses
<1> HIDE DEF h
<1>3. T = {}
  <2> SUFFICES ASSUME T # {} PROVE FALSE
    OBVIOUS
  <2>1. PICK k \in T : \A m \in T : k <= m
    <3>1. T \subseteq Nat
      OBVIOUS
    <3> HIDE DEF T
    <3> QED
      BY <3>1, SmallestNat
  <2>2. PICK q \in 1 .. n : q + k = n /\ h[q] \notin Seq(Seq(Nat))
    BY <2>1
  <2>3. Readable(f, q)
    BY <1>2, <2>2, EmptySeq
  <2> DEFINE l == LastAt(f, q)
  <2>4. l \in Nat /\ q <= l /\ l <= Len(f)
    BY <1>1, <2>3, ReadableAdvances
  <2>5. SubSeq(f, q, l) \in Seq(Nat)
    <3>1. \A i \in q .. l : f[i] \in Nat
      BY <1>1, <2>4, ElementOfSeq
    <3> QED
      BY <2>4, <3>1, SubSeqProperties
  <2>6. h[l + 1] \in Seq(Seq(Nat))
    <3>1. l + 1 \in 1 .. n /\ n - (l + 1) \in Nat /\ n - (l + 1) < k /\ (l + 1) + (n - (l + 1)) = n
      BY <1>1, <2>1, <2>2, <2>4
    <3>2. n - (l + 1) \notin T
      <4>1. k \in Nat /\ ~(k <= n - (l + 1))
        BY <2>1, <3>1
      <4> HIDE DEF T
      <4> QED
        BY <2>1, <4>1
    <3> HIDE DEF l, n
    <3> QED
      BY <3>1, <3>2
  <2>7. h[q] = <<SubSeq(f, q, l)>> \o h[l + 1]
    BY <1>2, <2>3
  <2> HIDE DEF l
  <2>8. h[q] \in Seq(Seq(Nat))
    BY <2>5, <2>6, <2>7, ConcatProperties
  <2> QED
    BY <2>2, <2>8
<1>4. h[p] \in Seq(Seq(Nat))
  <2>1. n - p \in Nat /\ p + (n - p) = n
    BY <1>1
  <2>2. n - p \notin T
    BY <1>3
  <2> HIDE DEF n
  <2> QED
    BY <2>1, <2>2
<1> QED
  BY <1>2, <1>4 DEF h

-----------------------------------------------------------------------------
(* Records one behind the other *)

(* f begins with the records rs: the i-th of them ends at cell ends[i].    *)
Laid(f, rs, ends) ==
  /\ ends \in [0 .. Len(rs) -> Nat] /\ ends[0] = 0
  /\ \A i \in 1 .. Len(rs) :
       /\ Framed(rs[i])
       /\ ends[i] = ends[i - 1] + Len(rs[i])
       /\ Holds(f, ends[i - 1], rs[i], Len(rs[i]))

Size(rs, ends) == ends[Len(rs)]

(* The records are found, in order, in front of what follows them.         *)
LEMMA LaidIsReplayed ==
  ASSUME NEW f \in Seq(Nat), NEW rs \in Seq(Seq(Nat)), NEW ends, Laid(f, rs, ends)
  PROVE  /\ Size(rs, ends) \in Nat /\ Size(rs, ends) <= Len(f)
         /\ Replay(f) = rs \o Parse(f)[Size(rs, ends) + 1]
<1> DEFINE R == Seq(Nat)
           h == Parse(f)
           T == {i \in Nat : /\ i <= Len(rs)
                             /\ h[1] # SubSeq(rs, 1, i) \o h[ends[i] + 1]}
<1>1. Len(rs) \in Nat /\ Len(f) \in Nat /\ \A i \in 1 .. Len(rs) : rs[i] \in R /\ Len(rs[i]) \in Nat
  BY LenProperties, ElementOfSeq
<1>2. \A i \in 0 .. Len(rs) : ends[i] \in Nat
  BY DEF Laid
<1>3. \A i \in 0 .. Len(rs) : ends[i] <= Len(f)
  <2>1. ends[0] <= Len(f)
    BY <1>1 DEF Laid
  <2>2. ASSUME NEW i \in 1 .. Len(rs) PROVE ends[i] <= Len(f)
    BY DEF Laid, Holds
  <2> QED
    BY <1>1, <2>1, <2>2
<1>4. Size(rs, ends) \in Nat /\ Size(rs, ends) <= Len(f)
  BY <1>1, <1>2, <1>3 DEF Size
<1>5. \A q \in 1 .. Len(f) + 1 : h[q] \in Seq(R)
  BY ParseStep
<1>6. ASSUME NEW i \in 1 .. Len(rs)
      PROVE  h[ends[i - 1] + 1] = <<rs[i]>> \o h[ends[i] + 1]
  <2> DEFINE o == ends[i - 1]
             c == rs[i]
  <2>1. o \in Nat /\ Framed(c) /\ Holds(f, o, c, Len(c)) /\ ends[i] = o + Len(c)
    BY <1>1, <1>2 DEF Laid
  <2>2. o + Len(c) <= Len(f) /\ \A j \in 1 .. Len(c) : f[o + j] = c[j]
    BY <2>1 DEF Holds
  <2>3. c \in Seq(Nat) /\ Len(c) \in Nat
    BY <1>1
  <2> HIDE DEF o, c
  <2>4. Readable(f, o + 1) /\ LastAt(f, o + 1) = o + Len(c)
    BY <2>1, RecordIsRead
  <2>5. o + 1 \in 1 .. Len(f) + 1
    BY <1>1, <2>1, <2>2, <2>3
  <2>6. SubSeq(f, o + 1, o + Len(c)) = c
    <3>1. \A j \in o + 1 .. o + Len(c) : f[j] \in Nat
      BY <1>1, <2>1, <2>2, <2>3, ElementOfSeq
    <3>2. /\ SubSeq(f, o + 1, o + Len(c)) \in Seq(Nat)
          /\ Len(SubSeq(f, o + 1, o + Len(c)))
               = IF o + 1 <= o + Len(c) THEN (o + Len(c)) - (o + 1) + 1 ELSE 0
          /\ \A j \in 1 .. (o + Len(c)) - (o + 1) + 1 :
               SubSeq(f, o + 1, o + Len(c))[j] = f[(o + 1) + j - 1]
      BY <2>1, <2>3, <3>1, SubSeqProperties
    <3>3. Len(SubSeq(f, o + 1, o + Len(c))) = Len(c)
      BY <2>1, <2>3, <3>2
    <3>4. ASSUME NEW j \in 1 .. Len(c) PROVE SubSeq(f, o + 1, o + Len(c))[j] = c[j]
      <4>1. j \in 1 .. (o + Len(c)) - (o + 1) + 1 /\ (o + 1) + j - 1 = o + j
        BY <2>1, <2>3
      <4> QED
        BY <2>2, <3>2, <4>1
    <3> QED
      BY <2>3, <3>2, <3>3, <3>4, SeqEqual
  <2>7. h[o + 1] = <<SubSeq(f, o + 1, LastAt(f, o + 1))>> \o h[LastAt(f, o + 1) + 1]
    BY <2>4, <2>5, ParseStep
  <2>8. h[o + 1] = <<c>> \o h[(o + Len(c)) + 1]
    BY <2>4, <2>6, <2>7
  <2> QED
    BY <2>1, <2>8 DEF o, c
<1> HIDE DEF h, R
<1>7. T = {}
  <2> SUFFICES ASSUME T # {} PROVE FALSE
    OBVIOUS
  <2>1. PICK i \in T : \A m \in T : i <= m
    <3>1. T \subseteq Nat
      OBVIOUS
    <3> HIDE DEF T
    <3> QED
      BY <3>1, SmallestNat
  <2>2. i \in Nat /\ i <= Len(rs) /\ h[1] # SubSeq(rs, 1, i) \o h[ends[i] + 1]
    BY <2>1
  <2>3. CASE i = 0
    <3>1. SubSeq(rs, 1, 0) = <<>> /\ ends[0] = 0
      BY SubSeqEmpty DEF Laid
    <3>2. h[1] \in Seq(R)
      BY <1>1, <1>5
    <3>3. <<>> \o h[1] = h[1]
      BY <3>2, ConcatEmptySeq
    <3>4. h[1] # SubSeq(rs, 1, 0) \o h[ends[0] + 1]
      BY ONLY <2>2, <2>3, Zenon
    <3>5. h[1] # <<>> \o h[0 + 1]
      BY ONLY <3>1, <3>4, Zenon
    <3>6. 0 + 1 = 1
      OBVIOUS
    <3> QED
      BY ONLY <3>3, <3>5, <3>6, Zenon
  <2>4. CASE i # 0
    <3>1. i - 1 \in Nat /\ i - 1 <= Len(rs) /\ ~(i <= i - 1) /\ i \in 1 .. Len(rs) /\ 1 \in 1 .. Len(rs)
      BY <1>1, <2>2, <2>4
    <3>2. h[1] = SubSeq(rs, 1, i - 1) \o h[ends[i - 1] + 1]
      <4>1. i - 1 \notin T
        <5> HIDE DEF T
        <5> QED
          BY <2>1, <3>1
      <4> QED
        BY <3>1, <4>1
    <3>3. SubSeq(rs, 1, i) = SubSeq(rs, 1, i - 1) \o <<rs[i]>>
      <4>1. rs \in Seq(R) /\ i \in 1 .. Len(rs)
        BY <3>1 DEF R
      <4> QED
        BY <3>1, <4>1, SubSeqRecursiveSecond
    <3>4. /\ SubSeq(rs, 1, i - 1) \in Seq(R)
          /\ <<rs[i]>> \in Seq(R)
          /\ h[ends[i] + 1] \in Seq(R)
      <4>1. \A j \in 1 .. i - 1 : rs[j] \in R
        <5>1. \A j \in 1 .. i - 1 : j \in 1 .. Len(rs)
          BY <1>1, <3>1
        <5> QED
          BY <1>1, <5>1
      <4>2. ends[i] + 1 \in 1 .. Len(f) + 1
        <5>1. i \in 0 .. Len(rs)
          BY <1>1, <3>1
        <5>2. ends[i] \in Nat /\ ends[i] <= Len(f)
          BY ONLY <1>2, <1>3, <5>1, Zenon
        <5>3. Len(f) \in Nat
          BY <1>1
        <5> QED
          BY ONLY <5>2, <5>3
      <4>3. SubSeq(rs, 1, i - 1) \in Seq(R)
        BY <3>1, <4>1, SubSeqProperties
      <4>4. <<rs[i]>> \in Seq(R)
        BY <1>1, <3>1
      <4> QED
        BY <1>5, <4>2, <4>3, <4>4
    <3>5. SubSeq(rs, 1, i) \o h[ends[i] + 1] = SubSeq(rs, 1, i - 1) \o (<<rs[i]>> \o h[ends[i] + 1])
      <4> DEFINE a == SubSeq(rs, 1, i - 1)
                 b == <<rs[i]>>
                 d == h[ends[i] + 1]
      <4>1. a \in Seq(R) /\ b \in Seq(R) /\ d \in Seq(R)
        BY <3>4
      <4> HIDE DEF a, b, d
      <4>2. (a \o b) \o d = a \o (b \o d)
        BY ONLY <4>1, ConcatAssociative
      <4> QED
        BY <3>3, <4>2, Zenon DEF a, b, d
    <3> QED
      BY ONLY <1>6, <2>2, <3>1, <3>2, <3>5, Zenon
  <2> QED
    BY <2>3, <2>4
<1>8. h[1] = SubSeq(rs, 1, Len(rs)) \o h[ends[Len(rs)] + 1]
  <2>1. Len(rs) \in Nat /\ Len(rs) <= Len(rs)
    BY <1>1
  <2>2. Len(rs) \notin T
    BY <1>7, Zenon
  <2> QED
    BY <2>1, <2>2, Zenon
<1>9. SubSeq(rs, 1, Len(rs)) = rs
  BY SubSeqFull
<1> QED
  BY <1>4, <1>8, <1>9, ReplayUnfolded DEF h, Size

(* What is appended to f leaves the records it begins with.                *)
LEMMA LaidGrows ==
  ASSUME NEW f \in Seq(Nat), NEW x \in Seq(Nat), NEW rs \in Seq(Seq(Nat)), NEW ends,
         Laid(f, rs, ends)
  PROVE  Laid(f \o x, rs, ends)
<1>1. /\ Len(f \o x) = Len(f) + Len(x) /\ Len(f) \in Nat /\ Len(x) \in Nat
      /\ \A i \in 1 .. Len(f) : (f \o x)[i] = f[i]
  BY Concat
<1>2. ASSUME NEW i \in 1 .. Len(rs)
      PROVE  Holds(f \o x, ends[i - 1], rs[i], Len(rs[i]))
  <2> DEFINE o == ends[i - 1]
             n == Len(rs[i])
  <2>1. Len(rs) \in Nat /\ n \in Nat
    BY LenProperties, ElementOfSeq
  <2>2. o \in Nat /\ o + n <= Len(f) /\ \A j \in 1 .. n : f[o + j] = rs[i][j]
    <3>1. i - 1 \in 0 .. Len(rs)
      BY <2>1
    <3>2. \A j \in 0 .. Len(rs) : ends[j] \in Nat
      BY DEF Laid
    <3>3. Holds(f, o, rs[i], n)
      BY DEF Laid
    <3> QED
      BY <3>1, <3>2, <3>3 DEF Holds
  <2> HIDE DEF o, n
  <2>3. \A j \in 1 .. n : o + j \in 1 .. Len(f)
    BY <1>1, <2>1, <2>2
  <2>4. o + n <= Len(f \o x) /\ \A j \in 1 .. n : (f \o x)[o + j] = rs[i][j]
    BY <1>1, <2>1, <2>2, <2>3
  <2> QED
    BY <2>4 DEF Holds, o, n
<1> QED
  BY <1>2 DEF Laid

(* A record behind the last one is the new last one.                       *)
LEMMA LaidExtends ==
  ASSUME NEW f \in Seq(Nat), NEW rs \in Seq(Seq(Nat)), NEW ends, Laid(f, rs, ends),
         NEW c, Framed(c), Holds(f, Size(rs, ends), c, Len(c))
  PROVE  \E more : /\ Laid(f, Append(rs, c), more)
                   /\ Size(Append(rs, c), more) = Size(rs, ends) + Len(c)
<1> DEFINE N  == Len(rs)
           e  == ends[N]
           qs == Append(rs, c)
           more == [i \in 0 .. N + 1 |-> IF i = N + 1 THEN e + Len(c) ELSE ends[i]]
<1>1. N \in Nat /\ c \in Seq(Nat) /\ Len(c) \in Nat /\ e \in Nat
  <2>1. N \in Nat /\ c \in Seq(Nat) /\ Len(c) \in Nat
    BY LenProperties DEF Framed
  <2> QED
    BY <2>1 DEF Laid
<1>2. Len(qs) = N + 1 /\ qs[N + 1] = c /\ \A i \in 1 .. N : qs[i] = rs[i]
  BY <1>1, AppendProperties
<1> HIDE DEF qs
<1>3. \A i \in 0 .. N : ends[i] \in Nat
  BY DEF Laid
<1>4. more \in [0 .. Len(qs) -> Nat]
  BY <1>1, <1>2, <1>3
<1>5. more[N + 1] = e + Len(c) /\ \A i \in 0 .. N : more[i] = ends[i]
  BY <1>1
<1> HIDE DEF more
<1>6. ASSUME NEW i \in 1 .. Len(qs)
      PROVE  /\ Framed(qs[i])
             /\ more[i] = more[i - 1] + Len(qs[i])
             /\ Holds(f, more[i - 1], qs[i], Len(qs[i]))
  <2>1. CASE i = N + 1
    <3>1. qs[i] = c /\ i - 1 = N /\ N \in 0 .. N
      BY <1>1, <1>2, <2>1
    <3>2. more[i - 1] = e /\ more[i] = e + Len(c)
      BY <1>5, <2>1, <3>1
    <3> QED
      BY <3>1, <3>2 DEF Size
  <2>2. CASE i # N + 1
    <3>1. i \in 1 .. N /\ i \in 0 .. N /\ i - 1 \in 0 .. N
      BY <1>1, <1>2, <2>2
    <3>2. qs[i] = rs[i] /\ more[i] = ends[i] /\ more[i - 1] = ends[i - 1]
      BY <1>2, <1>5, <3>1
    <3> QED
      BY <3>1, <3>2 DEF Laid
  <2> QED
    BY <2>1, <2>2
<1>7. more[0] = 0
  BY <1>1, <1>5 DEF Laid
<1>8. Laid(f, qs, more) /\ Size(qs, more) = Size(rs, ends) + Len(c)
  BY <1>2, <1>4, <1>5, <1>6, <1>7 DEF Laid, Size
<1> QED
  BY <1>8 DEF qs

(* The next n cells of a record, behind the first m of them.               *)
LEMMA PieceHolds ==
  ASSUME NEW f \in Seq(Nat), NEW e \in Nat, NEW c \in Seq(Nat),
         NEW m \in Nat, NEW n \in Nat, m + n <= Len(c),
         Len(f) = e + m, Holds(f, e, c, m)
  PROVE  /\ Len(f \o SubSeq(c, m + 1, m + n)) = e + (m + n)
         /\ Holds(f \o SubSeq(c, m + 1, m + n), e, c, m + n)
<1> DEFINE x == SubSeq(c, m + 1, m + n)
           g == f \o x
<1>1. Len(c) \in Nat
  BY LenProperties
<1>2. x \in Seq(Nat) /\ Len(x) = n /\ \A i \in 1 .. n : x[i] = c[m + i]
  <2>1. \A i \in m + 1 .. m + n : c[i] \in Nat
    BY <1>1, ElementOfSeq
  <2>2. /\ x \in Seq(Nat)
        /\ Len(x) = IF m + 1 <= m + n THEN (m + n) - (m + 1) + 1 ELSE 0
        /\ \A i \in 1 .. (m + n) - (m + 1) + 1 : x[i] = c[(m + 1) + i - 1]
    BY <2>1, SubSeqProperties
  <2> HIDE DEF x
  <2>3. Len(x) = n /\ (m + n) - (m + 1) + 1 = n
    BY ONLY <2>2, m \in Nat, n \in Nat
  <2>4. \A i \in 1 .. n : (m + 1) + i - 1 = m + i
    OBVIOUS
  <2>5. \A i \in 1 .. n : x[i] = c[(m + 1) + i - 1]
    BY ONLY <2>2, <2>3, Zenon
  <2> QED
    BY ONLY <2>2, <2>3, <2>4, <2>5
<1>3. /\ Len(g) = Len(f) + n
      /\ \A i \in 1 .. Len(f) : g[i] = f[i]
      /\ \A i \in 1 .. n : g[Len(f) + i] = x[i]
  <2> HIDE DEF x
  <2>1. g = f \o x
    OBVIOUS
  <2>2. /\ Len(f \o x) = Len(f) + Len(x)
        /\ \A i \in 1 .. Len(f) : (f \o x)[i] = f[i]
        /\ \A i \in 1 .. Len(x) : (f \o x)[Len(f) + i] = x[i]
    BY ONLY f \in Seq(Nat), <1>2, Concat
  <2> QED
    BY ONLY <1>2, <2>1, <2>2, Zenon
<1> HIDE DEF x, g
<1>4. Len(g) = e + (m + n)
  BY <1>3
<1>5. ASSUME NEW i \in 1 .. m + n PROVE g[e + i] = c[i]
  <2>1. CASE i <= m
    <3>1. i \in 1 .. m /\ e + i \in 1 .. Len(f)
      BY <2>1
    <3> QED
      BY <1>3, <3>1 DEF Holds
  <2>2. CASE ~(i <= m)
    <3>1. i - m \in 1 .. n /\ m + (i - m) = i /\ Len(f) + (i - m) = e + i
      BY <2>2
    <3>2. g[Len(f) + (i - m)] = c[m + (i - m)]
      BY <1>2, <1>3, <3>1
    <3> QED
      BY <3>1, <3>2
  <2> QED
    BY <2>1, <2>2
<1> QED
  BY <1>4, <1>5 DEF Holds, g, x

-----------------------------------------------------------------------------
(* The invariant *)

(* The file f begins with the records rs.  Unless an earlier stream left   *)
(* a torn one (t), there is nothing behind them but the first w cells of   *)
(* the record c.                                                           *)
Stood(f, rs, t, c, w, ends) ==
  /\ Laid(f, rs, ends)
  /\ t = "none" => w = 0
  /\ t # "before" => /\ Len(f) = Size(rs, ends) + w
                     /\ Holds(f, Size(rs, ends), c, w)

(* What the stream of a failed append() holds is the rest of a record.     *)
Failed == pending # <<>> => open /\ Framed(pending) /\ written < Len(pending)

Standing == \E ends : Stood(file, kept, tear, pending, written, ends)

IInv == TypeOK /\ Failed /\ Standing

(* Where no record is begun, any record may come next.                     *)
LEMMA NoneBegun ==
  ASSUME NEW f \in Seq(Nat), NEW rs \in Seq(Seq(Nat)), NEW t, NEW c, NEW w, NEW ends,
         Stood(f, rs, t, c, w, ends), t \in {"none", "before"} \/ w = 0
  PROVE  \A d : Stood(f, rs, t, d, 0, ends)
<1>1. Size(rs, ends) \in Nat /\ Size(rs, ends) <= Len(f) /\ Len(f) \in Nat
  BY LaidIsReplayed, LenProperties DEF Stood
<1>2. t # "before" => w = 0
  BY DEF Stood
<1> QED
  BY <1>1, <1>2 DEF Stood, Holds

(* Writing cells of a record leaves the records in front of it, and is one *)
(* more of them when it is written in full.                                *)
LEMMA WroteStands ==
  ASSUME TypeOK, NEW c, Framed(c), NEW m \in Nat, NEW n \in Nat, m + n <= Len(c),
         NEW ends, Stood(file, kept, tear, c, m, ends),
         NEW torn, torn \in {"now", "before"} \/ m + n = Len(c), Wrote(c, m, n, torn),
         file' = file \o SubSeq(c, m + 1, m + n)
  PROVE  /\ file' \in Seq(Nat) /\ kept' \in Seq(Seq(Nat)) /\ late' \in Seq(Seq(Nat))
         /\ tear' \in {"none", tear, torn}
         /\ \E more : IF m + n = Len(c)
                      THEN \A d : Stood(file', kept', tear', d, 0, more)
                      ELSE Stood(file', kept', tear', c, m + n, more)
<1> DEFINE x == SubSeq(c, m + 1, m + n)
           g == file'
           e == Size(kept, ends)
<1>1. /\ file \in Seq(Nat) /\ kept \in Seq(Seq(Nat)) /\ late \in Seq(Seq(Nat))
      /\ tear \in {"none", "now", "before"}
  BY DEF TypeOK
<1>2. c \in Seq(Nat) /\ Len(c) \in Nat /\ 0 < Len(c)
  <2>1. c \in Seq(Nat) /\ Len(c) \in Nat
    BY LenProperties DEF Framed
  <2>2. 1 + 1 <= Len(c)
    BY DEF Framed, Readable
  <2> QED
    BY <2>1, <2>2
<1>3. x \in Seq(Nat)
  <2>1. \A i \in m + 1 .. m + n : c[i] \in Nat
    BY <1>2, ElementOfSeq
  <2> QED
    BY <2>1, SubSeqProperties
<1> HIDE DEF x
<1>4. g \in Seq(Nat)
  BY <1>1, <1>3, Concat DEF x
<1>5. Laid(g, kept, ends)
  BY <1>1, <1>3, LaidGrows DEF x, Stood
<1>6. e \in Nat
  BY <1>1, LaidIsReplayed DEF Stood
<1>7. ASSUME tear # "before"
      PROVE  Len(g) = e + (m + n) /\ Holds(g, e, c, m + n)
  <2>1. Len(file) = e + m /\ Holds(file, e, c, m)
    BY <1>7 DEF Stood
  <2> HIDE DEF e, g
  <2>2. g = file \o SubSeq(c, m + 1, m + n)
    BY DEF g
  <2> QED
    <3>1. /\ Len(file \o SubSeq(c, m + 1, m + n)) = e + (m + n)
          /\ Holds(file \o SubSeq(c, m + 1, m + n), e, c, m + n)
      <4>1. file \in Seq(Nat) /\ c \in Seq(Nat)
        BY <1>1, <1>2
      <4> QED
        BY <1>6, <2>1, <4>1, PieceHolds
    <3> QED
      BY ONLY <2>2, <3>1, Zenon
<1>8. CASE m + n = Len(c) /\ tear # "before"
  <2>1. kept' = Append(kept, c) /\ late' = late /\ tear' = "none"
    BY <1>8 DEF Wrote
  <2>2. Len(g) = e + Len(c) /\ Holds(g, e, c, Len(c))
    BY <1>7, <1>8
  <2>3. kept' \in Seq(Seq(Nat))
    BY <1>1, <1>2, <2>1, AppendProperties
  <2>4. PICK more : /\ Laid(g, Append(kept, c), more)
                    /\ Size(Append(kept, c), more) = e + Len(c)
    <3> HIDE DEF g
    <3>1. Framed(c) /\ Holds(g, Size(kept, ends), c, Len(c))
      BY <2>2
    <3>2. kept \in Seq(Seq(Nat))
      BY <1>1
    <3> QED
      BY ONLY <1>4, <1>5, <3>1, <3>2, LaidExtends
  <2> HIDE DEF e, g
  <2>5. Stood(g, kept', tear', c, 0, more)
    <3>1. Size(kept', more) = e + Len(c) /\ Laid(g, kept', more)
      BY <2>1, <2>4
    <3> QED
      BY <1>2, <1>6, <2>2, <3>1 DEF Stood, Holds
  <2>6. \A d : Stood(g, kept', tear', d, 0, more)
    BY <1>4, <2>3, <2>5, NoneBegun
  <2> QED
    BY <1>1, <1>4, <1>8, <2>1, <2>3, <2>6 DEF g
<1>9. CASE m + n = Len(c) /\ tear = "before"
  <2>1. kept' = kept /\ late' = Append(late, c) /\ tear' = "before"
    BY <1>9 DEF Wrote
  <2>2. late' \in Seq(Seq(Nat))
    BY <1>1, <1>2, <2>1, AppendProperties
  <2>3. \A d : Stood(g, kept', tear', d, 0, ends)
    BY <1>5, <2>1 DEF Stood
  <2> QED
    BY <1>1, <1>4, <1>9, <2>1, <2>2, <2>3
<1>10. CASE m + n # Len(c)
  <2>1. /\ kept' = kept /\ late' = late
        /\ tear' = IF tear = "before" THEN "before" ELSE IF m + n = 0 THEN "none" ELSE torn
    BY <1>10 DEF Wrote
  <2>2. tear' = "none" => m + n = 0
    <3>1. torn # "none"
      BY <1>10
    <3> QED
      BY <2>1, <3>1
  <2>3. tear' # "before" => tear # "before"
    BY <2>1
  <2>4. Stood(g, kept', tear', c, m + n, ends)
    BY <1>5, <1>7, <2>1, <2>2, <2>3 DEF Stood
  <2>5. tear' \in {"none", tear, torn}
    BY <2>1
  <2> QED
    BY <1>1, <1>4, <1>10, <2>1, <2>4, <2>5
<1> QED
  BY <1>8, <1>9, <1>10

-----------------------------------------------------------------------------
(* The steps *)

LEMMA InitInv == Init => IInv
<1> SUFFICES ASSUME Init PROVE IInv
  OBVIOUS
<1>1. TypeOK /\ Failed
  <2>1. <<>> \in Seq(Nat) /\ <<>> \in Seq(Seq(Nat)) /\ Len(<<>>) = 0
    BY EmptySeq
  <2>2. /\ file = <<>> /\ pending = <<>> /\ kept = <<>> /\ late = <<>> /\ written = 0
        /\ open = FALSE /\ healthy = FALSE /\ tear = "none"
    BY DEF Init
  <2>3. written \in 0 .. Len(pending)
    BY <2>1, <2>2
  <2> QED
    BY <2>1, <2>2, <2>3 DEF TypeOK, Failed
<1>2. Standing
  <2> DEFINE ends == [i \in 0 .. 0 |-> 0]
  <2>1. Len(file) = 0 /\ Len(kept) = 0 /\ ends[0] = 0 /\ ends \in [0 .. 0 -> Nat]
    BY DEF Init
  <2> HIDE DEF ends
  <2>2. Laid(file, kept, ends)
    BY <2>1 DEF Laid
  <2>3. Stood(file, kept, tear, pending, written, ends)
    BY <2>1, <2>2 DEF Init, Stood, Size, Holds
  <2> QED
    BY <2>3 DEF Standing
<1> QED
  BY <1>1, <1>2 DEF IInv

(* An emptied file holds no record.                                        *)
LEMMA EmptiedStands ==
  ASSUME Emptied, pending' = <<>>, written' = 0
  PROVE  Failed' /\ Standing' /\ file' \in Seq(Nat) /\ kept' \in Seq(Seq(Nat))
         /\ late' \in Seq(Seq(Nat)) /\ tear' = "none"
<1> DEFINE ends == [i \in 0 .. 0 |-> 0]
<1>1. /\ file' = <<>> /\ kept' = <<>> /\ late' = <<>> /\ tear' = "none"
      /\ ends[0] = 0 /\ ends \in [0 .. 0 -> Nat]
  BY DEF Emptied
<1> HIDE DEF ends
<1>2. Laid(file', kept', ends)
  BY <1>1 DEF Laid
<1>3. Stood(file', kept', tear', pending', written', ends)
  BY <1>1, <1>2 DEF Stood, Size, Holds
<1> QED
  BY <1>1, <1>3 DEF Standing, Failed

LEMMA NothingHeld ==
  ASSUME pending' = <<>>, written' = 0
  PROVE  pending' \in Seq(Nat) /\ written' \in 0 .. Len(pending')
<1>1. <<>> \in Seq(Nat) /\ Len(<<>>) = 0
  BY EmptySeq
<1> QED
  BY <1>1

(* A healthy log has begun no record.                                      *)
LEMMA HealthyStands ==
  ASSUME IInv, healthy
  PROVE  /\ open /\ pending = <<>> /\ written = 0
         /\ \E ends : \A d : Stood(file, kept, tear, d, 0, ends)
<1>1. pending = <<>> /\ written = 0 /\ file \in Seq(Nat) /\ kept \in Seq(Seq(Nat))
  <2>1. pending = <<>> /\ written \in 0 .. Len(pending) /\ Len(<<>>) = 0
    BY DEF IInv, TypeOK
  <2> QED
    BY <2>1 DEF IInv, TypeOK
<1>2. PICK ends : Stood(file, kept, tear, pending, written, ends)
  BY DEF IInv, Standing
<1>3. \A d : Stood(file, kept, tear, d, 0, ends)
  BY <1>1, <1>2, NoneBegun
<1> QED
  BY <1>1, <1>3 DEF IInv, TypeOK

(* The first n cells of a record that append() writes, with m + n = n.     *)
LEMMA FirstCells ==
  ASSUME IInv, healthy, NEW c, Framed(c), NEW n \in 0 .. Len(c),
         NEW torn, torn \in {"now", "before"} \/ n = Len(c), Wrote(c, 0, n, torn),
         file' = file \o SubSeq(c, 1, n)
  PROVE  /\ file' \in Seq(Nat) /\ kept' \in Seq(Seq(Nat)) /\ late' \in Seq(Seq(Nat))
         /\ tear' \in {"none", tear, torn}
         /\ \E more : IF n = Len(c)
                      THEN \A d : Stood(file', kept', tear', d, 0, more)
                      ELSE Stood(file', kept', tear', c, n, more)
<1>1. PICK ends : \A d : Stood(file, kept, tear, d, 0, ends)
  BY HealthyStands
<1>2. TypeOK /\ Stood(file, kept, tear, c, 0, ends)
  BY <1>1 DEF IInv
<1>3. Len(c) \in Nat
  BY LenProperties DEF Framed
<1>4. n \in Nat /\ 0 \in Nat /\ 0 + n = n /\ 0 + 1 = 1 /\ n <= Len(c)
  BY <1>3
<1>5. file' = file \o SubSeq(c, 0 + 1, 0 + n)
  BY <1>4
<1>6. torn \in {"now", "before"} \/ 0 + n = Len(c)
  BY <1>4
<1>7. /\ file' \in Seq(Nat) /\ kept' \in Seq(Seq(Nat)) /\ late' \in Seq(Seq(Nat))
      /\ tear' \in {"none", tear, torn}
      /\ \E more : IF 0 + n = Len(c)
                   THEN \A d : Stood(file', kept', tear', d, 0, more)
                   ELSE Stood(file', kept', tear', c, 0 + n, more)
  BY <1>2, <1>4, <1>5, <1>6, WroteStands
<1> QED
  BY <1>4, <1>7

LEMMA LoggedInv ==
  ASSUME IInv, healthy, NEW r \in Requests, Logged(r)
  PROVE  IInv'
<1> DEFINE c == Encode(r)
<1>1. Framed(c) /\ c \in Seq(Nat) /\ Len(c) \in Nat
  BY EncodeIsFramed, LenProperties DEF Logged, Framed
<1>2. /\ file' = file \o c /\ Wrote(c, 0, Len(c), "none")
      /\ UNCHANGED <<open, healthy, pending, written>>
  BY DEF Logged
<1>3. pending = <<>> /\ written = 0
  BY HealthyStands
<1> HIDE DEF c
<1>4. file' = file \o SubSeq(c, 1, Len(c)) /\ Len(c) \in 0 .. Len(c)
  BY <1>1, <1>2, SubSeqFull
<1>5. /\ file' \in Seq(Nat) /\ kept' \in Seq(Seq(Nat)) /\ late' \in Seq(Seq(Nat))
      /\ tear' \in {"none", tear, "none"}
      /\ \E more : \A d : Stood(file', kept', tear', d, 0, more)
  BY <1>1, <1>2, <1>4, FirstCells
<1>6. Standing' /\ Failed'
  BY <1>2, <1>3, <1>5 DEF Standing, Failed
<1>7. TypeOK'
  BY <1>2, <1>5 DEF IInv, TypeOK
<1> QED
  BY <1>6, <1>7 DEF IInv

LEMMA CutShortInv ==
  ASSUME IInv, healthy, NEW r \in Requests, NEW n \in 0 .. Len(Encode(r)), CutShort(r, n)
  PROVE  IInv'
<1> DEFINE c == Encode(r)
<1>1. Framed(c) /\ c \in Seq(Nat) /\ Len(c) \in Nat
  BY EncodeIsFramed, LenProperties DEF CutShort, Framed
<1>2. /\ file' = file \o SubSeq(c, 1, n) /\ Wrote(c, 0, n, "now")
      /\ IF n = Len(c) THEN UNCHANGED <<pending, written>> ELSE pending' = c /\ written' = n
      /\ healthy' = FALSE /\ open' = open
  BY DEF CutShort
<1>3. open /\ pending = <<>> /\ written = 0
  BY HealthyStands
<1>4. n \in 0 .. Len(c)
  OBVIOUS
<1> HIDE DEF c
<1>5. /\ file' \in Seq(Nat) /\ kept' \in Seq(Seq(Nat)) /\ late' \in Seq(Seq(Nat))
      /\ tear' \in {"none", tear, "now"}
      /\ \E more : IF n = Len(c)
                   THEN \A d : Stood(file', kept', tear', d, 0, more)
                   ELSE Stood(file', kept', tear', c, n, more)
  BY <1>1, <1>2, <1>4, FirstCells
<1>6. pending' \in Seq(Nat) /\ written' \in 0 .. Len(pending') /\ Failed'
  <2>1. CASE n = Len(c)
    BY <1>2, <1>3, <2>1, EmptySeq DEF Failed
  <2>2. CASE n # Len(c)
    <3>1. n \in 0 .. Len(c) /\ n < Len(c)
      BY <1>1, <1>4, <2>2
    <3> QED
      BY <1>1, <1>2, <1>3, <2>2, <3>1 DEF Failed
  <2> QED
    BY <2>1, <2>2
<1>7. Standing'
  <2>1. CASE n = Len(c)
    BY <1>2, <1>3, <1>5, <2>1 DEF Standing
  <2>2. CASE n # Len(c)
    BY <1>2, <1>5, <2>2 DEF Standing
  <2> QED
    BY <2>1, <2>2
<1>8. TypeOK'
  BY <1>2, <1>5, <1>6 DEF IInv, TypeOK
<1> QED
  BY <1>6, <1>7, <1>8 DEF IInv

LEMMA DoAppendInv ==
  ASSUME IInv, DoAppend
  PROVE  IInv'
<1>1. healthy /\ AppendCall
  BY DEF DoAppend
<1>2. PICK r \in Requests : \/ Logged(r)
                            \/ \E n \in 0 .. Len(Encode(r)) : CutShort(r, n)
                            \/ Rejected(r)
  BY <1>1 DEF AppendCall
<1>3. CASE Logged(r)
  BY <1>1, <1>3, LoggedInv
<1>4. CASE \E n \in 0 .. Len(Encode(r)) : CutShort(r, n)
  BY <1>1, <1>4, CutShortInv
<1>5. CASE Rejected(r)
  BY <1>5 DEF Rejected, history, IInv, TypeOK, Failed, Standing
<1> QED
  BY <1>2, <1>3, <1>4, <1>5

(* Closing the stream writes all it holds, or leaves a torn record.        *)
LEMMA ClosedStands ==
  ASSUME IInv, FileClosed
  PROVE  /\ file' \in Seq(Nat) /\ kept' \in Seq(Seq(Nat)) /\ late' \in Seq(Seq(Nat))
         /\ tear' \in {"none", "now", "before"} /\ pending' = <<>> /\ written' = 0
         /\ Failed' /\ Standing'
<1> DEFINE c == pending
<1>1. /\ file \in Seq(Nat) /\ kept \in Seq(Seq(Nat)) /\ late \in Seq(Seq(Nat))
      /\ tear \in {"none", "now", "before"} /\ c \in Seq(Nat) /\ Len(c) \in Nat
      /\ written \in 0 .. Len(c)
  BY LenProperties DEF IInv, TypeOK
<1>2. PICK n \in 0 .. Len(c) - written : StreamClosed(n)
  BY DEF FileClosed
<1>3. /\ file' = file \o SubSeq(c, written + 1, written + n)
      /\ pending' = <<>> /\ written' = 0
  BY <1>2 DEF StreamClosed
<1>4. Failed'
  BY <1>3 DEF Failed
<1>5. PICK ends : Stood(file, kept, tear, c, written, ends)
  BY DEF IInv, Standing
<1>6. CASE c = <<>>
  <2>1. written = 0 /\ n = 0
    BY <1>1, <1>2, <1>6
  <2>2. file' = file
    BY <1>1, <1>3, <2>1, SubSeqEmpty, ConcatEmptySeq
  <2>3. kept' = kept /\ late' = late /\ tear' = tear
    BY <1>2, <1>6 DEF StreamClosed, history
  <2>4. Stood(file', kept', tear', pending', written', ends)
    BY <1>3, <1>5, <1>6, <2>1, <2>2, <2>3
  <2> QED
    BY <1>1, <1>3, <1>4, <2>2, <2>3, <2>4 DEF Standing
<1>7. CASE c # <<>>
  <2>1. Framed(c) /\ Wrote(c, written, n, "before")
    BY <1>2, <1>7 DEF IInv, Failed, StreamClosed
  <2>2. written \in Nat /\ n \in Nat /\ written + n <= Len(c)
    BY <1>1, <1>2
  <2>3. TypeOK
    BY DEF IInv
  <2> HIDE DEF c
  <2>4. /\ file' \in Seq(Nat) /\ kept' \in Seq(Seq(Nat)) /\ late' \in Seq(Seq(Nat))
        /\ tear' \in {"none", tear, "before"}
        /\ \E more : IF written + n = Len(c)
                     THEN \A d : Stood(file', kept', tear', d, 0, more)
                     ELSE Stood(file', kept', tear', c, written + n, more)
    BY <1>3, <1>5, <2>1, <2>2, <2>3, WroteStands
  <2>5. PICK more : IF written + n = Len(c)
                    THEN \A d : Stood(file', kept', tear', d, 0, more)
                    ELSE Stood(file', kept', tear', c, written + n, more)
    BY <2>4
  <2>6. written + n # Len(c) => tear' \in {"none", "before"}
    BY <2>1 DEF Wrote
  <2>7. Stood(file', kept', tear', <<>>, 0, more)
    <3>1. CASE written + n = Len(c)
      BY <2>5, <3>1
    <3>2. CASE written + n # Len(c)
      BY <2>4, <2>5, <2>6, <3>2, NoneBegun
    <3> QED
      BY <3>1, <3>2
  <2>8. Standing'
    BY <1>3, <2>7 DEF Standing
  <2>9. tear' \in {"none", "now", "before"}
    BY <1>1, <2>4
  <2> QED
    BY <1>3, <1>4, <2>4, <2>8, <2>9
<1> QED
  BY <1>6, <1>7

LEMMA TruncateInv ==
  ASSUME IInv, Truncate
  PROVE  IInv'
<1>1. open' = open /\ open
  BY DEF Truncate
<1>2. CASE Emptied /\ pending' = <<>> /\ written' = 0 /\ healthy' \in BOOLEAN
  BY <1>1, <1>2, EmptiedStands, NothingHeld DEF IInv, TypeOK
<1>3. CASE FileClosed /\ healthy' \in BOOLEAN
  BY <1>1, <1>3, ClosedStands, NothingHeld DEF IInv, TypeOK
<1> QED
  BY <1>2, <1>3 DEF Truncate

LEMMA CloseInv ==
  ASSUME IInv, Close
  PROVE  IInv'
BY ClosedStands, NothingHeld DEF Close, IInv, TypeOK

(* What the killed stream held is lost, and what it wrote stays.           *)
LEMMA KillInv ==
  ASSUME IInv, Kill
  PROVE  IInv'
<1>1. open' = FALSE /\ healthy' = FALSE /\ pending' = <<>> /\ written' = 0
  BY DEF Kill
<1>2. Failed'
  BY <1>1 DEF Failed
<1>3. /\ file \in Seq(Nat) /\ kept \in Seq(Seq(Nat)) /\ late \in Seq(Seq(Nat))
      /\ tear \in {"none", "now", "before"}
  BY DEF IInv, TypeOK
<1>4. CASE /\ tear' = IF tear = "now" THEN "before" ELSE tear
           /\ UNCHANGED <<file, kept, late>>
  <2>1. PICK ends : Stood(file, kept, tear, pending, written, ends)
    BY DEF IInv, Standing
  <2>2. Stood(file, kept, tear', pending, written, ends)
    BY <1>4, <2>1 DEF Stood
  <2>3. tear' \in {"none", "before"}
    BY <1>3, <1>4
  <2>4. Stood(file, kept, tear', <<>>, 0, ends)
    BY <1>3, <2>2, <2>3, NoneBegun
  <2>5. Standing'
    BY <1>1, <1>4, <2>4 DEF Standing
  <2>6. TypeOK'
    BY <1>1, <1>3, <1>4, <2>3, NothingHeld DEF TypeOK
  <2> QED
    BY <1>2, <2>5, <2>6 DEF IInv
<1>5. CASE healthy /\ \E r \in {q \in Requests : Loggable(q)} : \E n \in 1 .. Len(Encode(r)) :
             /\ file' = file \o SubSeq(Encode(r), 1, n)
             /\ Wrote(Encode(r), 0, n, "before")
  <2>0. PICK r \in {q \in Requests : Loggable(q)} : \E n \in 1 .. Len(Encode(r)) :
             /\ file' = file \o SubSeq(Encode(r), 1, n)
             /\ Wrote(Encode(r), 0, n, "before")
    BY <1>5
  <2>1. PICK n \in 1 .. Len(Encode(r)) :
          /\ file' = file \o SubSeq(Encode(r), 1, n)
          /\ Wrote(Encode(r), 0, n, "before")
    BY <2>0
  <2> DEFINE c == Encode(r)
  <2>2. Framed(c) /\ Len(c) \in Nat /\ n \in 0 .. Len(c)
    BY <2>1, EncodeIsFramed, LenProperties DEF Framed
  <2>3. file' = file \o SubSeq(c, 1, n) /\ Wrote(c, 0, n, "before")
    BY <2>1
  <2> HIDE DEF c
  <2>4. /\ file' \in Seq(Nat) /\ kept' \in Seq(Seq(Nat)) /\ late' \in Seq(Seq(Nat))
        /\ tear' \in {"none", tear, "before"}
        /\ \E more : IF n = Len(c)
                     THEN \A d : Stood(file', kept', tear', d, 0, more)
                     ELSE Stood(file', kept', tear', c, n, more)
    BY <1>5, <2>2, <2>3, FirstCells
  <2>5. PICK more : IF n = Len(c)
                    THEN \A d : Stood(file', kept', tear', d, 0, more)
                    ELSE Stood(file', kept', tear', c, n, more)
    BY <2>4
  <2>6. n # Len(c) => tear' \in {"none", "before"}
    BY <2>2, <2>3 DEF Wrote
  <2>7. Stood(file', kept', tear', <<>>, 0, more)
    <3>1. CASE n = Len(c)
      BY <2>5, <3>1
    <3>2. CASE n # Len(c)
      BY <2>4, <2>5, <2>6, <3>2, NoneBegun
    <3> QED
      BY <3>1, <3>2
  <2>8. Standing'
    BY <1>1, <2>7 DEF Standing
  <2>9. TypeOK'
    BY <1>1, <1>3, <2>4, NothingHeld DEF TypeOK
  <2> QED
    BY <1>2, <2>8, <2>9 DEF IInv
<1> QED
  BY <1>4, <1>5 DEF Kill

(* A log that is not open has nothing in its stream.                       *)
LEMMA OpenInv ==
  ASSUME IInv, Open
  PROVE  IInv'
BY DEF Open, history, IInv, TypeOK, Failed, Standing

LEMMA NextInv == IInv /\ [Next]_vars => IInv'
<1> SUFFICES ASSUME IInv, [Next]_vars PROVE IInv'
  OBVIOUS
<1>1. CASE DoAppend
  BY <1>1, DoAppendInv
<1>2. CASE Truncate
  BY <1>2, TruncateInv
<1>3. CASE Close
  BY <1>3, CloseInv
<1>4. CASE Kill
  BY <1>4, KillInv
<1>5. CASE Open
  BY <1>5, OpenInv
<1>6. CASE UNCHANGED vars
  BY <1>6 DEF vars, history, IInv, TypeOK, Failed, Standing
<1> QED
  BY <1>1, <1>2, <1>3, <1>4, <1>5, <1>6 DEF Next

THEOREM LogInvariance == Spec => []IInv
BY InitInv, NextInv, PTL DEF Spec

-----------------------------------------------------------------------------
(* What replay makes of the file *)

(* What stands behind a file that ends within a record, or with one, is    *)
(* not a record.                                                           *)
LEMMA NothingBehind ==
  ASSUME IInv, NEW ends, Stood(file, kept, tear, pending, written, ends), tear # "before"
  PROVE  Parse(file)[Size(kept, ends) + 1] = <<>>
<1> DEFINE e == Size(kept, ends)
<1>1. file \in Seq(Nat) /\ kept \in Seq(Seq(Nat)) /\ Len(file) \in Nat
  BY LenProperties DEF IInv, TypeOK
<1>2. e \in Nat /\ e <= Len(file)
  BY <1>1, LaidIsReplayed DEF Stood
<1>3. Len(file) = e + written /\ Holds(file, e, pending, written)
  BY DEF Stood
<1> HIDE DEF e
<1>4. ~Readable(file, e + 1)
  <2>1. CASE pending = <<>>
    <3>1. written \in 0 .. Len(pending) /\ Len(<<>>) = 0
      BY DEF IInv, TypeOK
    <3>2. written = 0
      BY <2>1, <3>1
    <3>3. ~((e + 1) + 1 <= Len(file))
      BY <1>1, <1>2, <1>3, <3>2
    <3> QED
      BY <3>3 DEF Readable
  <2>2. CASE pending # <<>>
    <3>1. Framed(pending) /\ written < Len(pending) /\ written \in Nat
      BY <2>2 DEF IInv, TypeOK, Failed
    <3> QED
      BY <1>1, <1>2, <1>3, <3>1, CutRecordIsNotRead
  <2> QED
    BY <2>1, <2>2
<1>5. e + 1 \in 1 .. Len(file) + 1
  BY <1>1, <1>2
<1>6. Parse(file)[e + 1] = <<>>
  BY <1>1, <1>4, <1>5, ParseStep
<1> QED
  BY <1>6 DEF e

LEMMA InvImpliesExact == IInv => LogIsExact
<1> SUFFICES ASSUME IInv, tear # "before" PROVE Replay(file) = kept
  BY DEF LogIsExact
<1>1. file \in Seq(Nat) /\ kept \in Seq(Seq(Nat))
  BY DEF IInv, TypeOK
<1>2. PICK ends : Stood(file, kept, tear, pending, written, ends)
  BY DEF IInv, Standing
<1>3. Replay(file) = kept \o Parse(file)[Size(kept, ends) + 1]
  BY <1>1, <1>2, LaidIsReplayed DEF Stood
<1>4. Replay(file) = kept \o <<>>
  BY <1>2, <1>3, NothingBehind
<1> QED
  BY <1>1, <1>4, ConcatEmptySeq

LEMMA PrefixOfConcat ==
  ASSUME NEW S, NEW s \in Seq(S), NEW t \in Seq(S)
  PROVE  IsPrefix(s, s \o t)
<1> DEFINE w == s \o t
           n == Len(s)
           x == SubSeq(w, 1, n)
<1>1. n \in Nat /\ Len(t) \in Nat
  BY LenProperties
<1>2. Len(w) = n + Len(t) /\ \A i \in 1 .. n + Len(t) : w[i] = IF i <= n THEN s[i] ELSE t[i - n]
  BY ConcatProperties
<1> HIDE DEF w
<1>3. \A i \in 1 .. n : w[i] = s[i] /\ s[i] \in S
  BY <1>1, <1>2, ElementOfSeq
<1>4. x \in Seq(S) /\ Len(x) = n /\ \A i \in 1 .. n : x[i] = w[i]
  <2>1. \A i \in 1 .. n : w[i] \in S
    BY <1>3
  <2>2. /\ x \in Seq(S)
        /\ Len(x) = IF 1 <= n THEN n - 1 + 1 ELSE 0
        /\ \A i \in 1 .. n - 1 + 1 : x[i] = w[1 + i - 1]
    BY <1>1, <2>1, SubSeqProperties
  <2> HIDE DEF x
  <2>3. Len(x) = n /\ n - 1 + 1 = n
    BY ONLY <1>1, <2>2
  <2>4. \A i \in 1 .. n : 1 + i - 1 = i
    BY <1>1
  <2> QED
    BY ONLY <2>2, <2>3, <2>4
<1> HIDE DEF x
<1>5. x = s
  <2>1. \A i \in 1 .. Len(x) : x[i] = s[i]
    BY <1>3, <1>4
  <2> QED
    BY <1>4, <2>1, SeqEqual
<1>6. SubSeq(s, 1, n) = s
  BY SubSeqFull
<1> QED
  BY <1>1, <1>2, <1>5, <1>6 DEF IsPrefix, x, w

LEMMA InvImpliesPrefix == IInv => EarlierKept
<1> SUFFICES ASSUME IInv PROVE EarlierKept
  OBVIOUS
<1>1. file \in Seq(Nat) /\ kept \in Seq(Seq(Nat)) /\ Len(file) \in Nat
  BY LenProperties DEF IInv, TypeOK
<1>2. PICK ends : Stood(file, kept, tear, pending, written, ends)
  BY DEF IInv, Standing
<1> DEFINE behind == Parse(file)[Size(kept, ends) + 1]
<1>3. Replay(file) = kept \o behind /\ Size(kept, ends) + 1 \in 1 .. Len(file) + 1
  BY <1>1, <1>2, LaidIsReplayed DEF Stood
<1>4. behind \in Seq(Seq(Nat))
  BY <1>1, <1>3, ParseStep
<1> HIDE DEF behind
<1>5. IsPrefix(kept, kept \o behind)
  BY <1>1, <1>4, PrefixOfConcat
<1> QED
  BY <1>3, <1>5 DEF EarlierKept

(* Whatever is logged, and whatever fails, the log's variables have their  *)
(* types, and a healthy log has nothing left over in its stream            *)
(* (is_healthy in wal.cpp).                                                *)
THEOREM LogTypes == Spec => []TypeOK
BY LogInvariance, PTL DEF IInv

(* Replay yields exactly the records append() wrote in full, in order, as  *)
(* long as no earlier stream has left a torn one: the torn-tail rule of    *)
(* replay_next() and the is_healthy of append(), for all lengths and all   *)
(* contents of the records, with operation codes, lengths and characters   *)
(* that cannot be told apart.                                              *)
THEOREM LogAlwaysExact == Spec => []LogIsExact
BY LogInvariance, InvImpliesExact, PTL

(* The records written before anything was torn are replayed first, in     *)
(* order and uncorrupted, whatever stands behind them.                     *)
THEOREM EarlierAlwaysKept == Spec => []EarlierKept
BY LogInvariance, InvImpliesPrefix, PTL
=============================================================================
