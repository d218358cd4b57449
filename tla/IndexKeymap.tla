----------------------------- MODULE IndexKeymap -----------------------------
(***************************************************************************)
(* The keymap of source/index_keymap.cpp: an open-addressing table with    *)
(* linear probing, and keymap.log, the lines from which load() builds the  *)
(* table again.  Removing a key leaves its slot occupied, so that the      *)
(* probes that pass over it still find what lies behind; such slots are    *)
(* only reclaimed when the table grows.                                    *)
(*                                                                         *)
(* A line of the log is one value, or Garbage when load() skips it.  A     *)
(* docid is only told apart from "removed", so a place is a generation, or *)
(* Gone.  Keys with a tab or a newline are refused and do not appear.      *)
(***************************************************************************)
EXTENDS Integers, Sequences, FiniteSets, SequencesExt, FiniteSetsExt

CONSTANTS
  Keys,        \* document keys
  NoKey, Gone, \* a slot never used; a removed key
  Generations, \* generations of segments
  Entries,     \* bound: the entries <<key, generation>> that are added
  Hash,        \* hash()
  Shorter,     \* the keys that are proper prefixes of a key
  Long,        \* keys whose line exceeds the buffer of load()
  FirstSlots,  \* slots of a new table (1024)
  FaultIn,     \* what may fail: "write", "kill", "open", "read", "temp", "rename",
               \* "close"
  MaxLines, MaxFaults  \* bounds

ASSUME TableAssumption == FirstSlots \in Nat /\ FirstSlots >= 4

ASSUME KeymapAssumption ==
  /\ Hash \in [Keys -> Nat] /\ Shorter \in [Keys -> SUBSET Keys] /\ Long \subseteq Keys
  /\ NoKey \notin Keys /\ Gone \notin Generations
  /\ Entries \subseteq Keys \X Generations /\ MaxLines \in Nat /\ MaxFaults \in Nat

VARIABLES
  table,     \* the slots and slots_used
  log,       \* the lines of keymap.log
  whole,     \* the last line has its newline
  logging,   \* log # NULL
  doubtful,  \* history: the keys the log may be wrong about
  faults

file == <<log, whole>>
vars == <<table, file, logging, doubtful, faults>>

-----------------------------------------------------------------------------
(* The table *)

Never == [key |-> NoKey, gen |-> Gone]

EmptyTable(n) == [slots |-> [i \in 0 .. n - 1 |-> Never], used |-> 0]

Size(t) == Cardinality(DOMAIN t.slots)

(* find_slot(): the first slot from the key's own that has it or was never *)
(* used.                                                                   *)
FindSlot(t, k) ==
  LET at(i) == (Hash[k] + i) % Size(t)
      ends(i) == t.slots[at(i)].key \in {k, NoKey}
  IN  at(CHOOSE i \in 0 .. Size(t) - 1 : ends(i) /\ \A j \in 0 .. i - 1 : ~ends(j))

(* The key's slot is taken into use, or overwritten.                       *)
Fill(t, k, g) ==
  LET i == FindSlot(t, k)
  IN  [slots |-> [t.slots EXCEPT ![i] = [key |-> k, gen |-> g]],
       used  |-> t.used + IF t.slots[i].key = NoKey THEN 1 ELSE 0]

Slots(t) == [i \in 1 .. Size(t) |-> t.slots[i - 1]]

(* The slots of the keys that are in a generation of G, in their order.     *)
SlotsIn(t, G) ==
  LET s == Slots(t)
      kept[i \in 0 .. Size(t)] ==
        IF i = 0 THEN <<>>
        ELSE IF s[i].gen \in G THEN Append(kept[i - 1], s[i]) ELSE kept[i - 1]
  IN  kept[Size(t)]

Live(t) == SlotsIn(t, Generations)

(* Mutant: slots_used is not reset.                                        *)
GrowUncounted(t) ==
  FoldLeft(LAMBDA u, s : Fill(u, s.key, s.gen),
           [EmptyTable(2 * Size(t)) EXCEPT !.used = t.used], Live(t))

(* The live entries in a table twice the size.  They fill at most 3/8 of   *)
(* it, so that insert_no_log() does not grow it again.                     *)
Grow(t) ==
  FoldLeft(LAMBDA u, s : Fill(u, s.key, s.gen), EmptyTable(2 * Size(t)), Live(t))

(* Mutant: the table never grows.                                          *)
InsertUngrown(t, k, g) == Fill(t, k, g)

(* insert_no_log(): at 3/4 load the table grows, whether or not the key is *)
(* a new one.                                                              *)
Insert(t, k, g) == Fill(IF t.used * 4 >= Size(t) * 3 THEN Grow(t) ELSE t, k, g)

(* Mutant: the slot of a removed key becomes free.                         *)
MarkRemovedFreed(t, k) ==
  LET i == FindSlot(t, k)
  IN  IF t.slots[i].key = NoKey THEN t
      ELSE [slots |-> [t.slots EXCEPT ![i] = Never], used |-> t.used - 1]

MarkRemoved(t, k) ==
  LET i == FindSlot(t, k)
  IN  IF t.slots[i].key = NoKey THEN t ELSE [t EXCEPT !.slots[i].gen = Gone]

(* find(): a key never seen is as good as removed.                         *)
Find(t, k) == t.slots[FindSlot(t, k)].gen

-----------------------------------------------------------------------------
(* The log *)

Garbage == [op |-> "garbage", key |-> NoKey, gen |-> Gone]

AddLine(k, g) == [op |-> "A", key |-> k, gen |-> g]
RemoveLine(k) == [op |-> "D", key |-> k, gen |-> Gone]

(* load() skips a line too long for its buffer.                            *)
Parsed(l) == IF l.key \in Long THEN Garbage ELSE l

Applied(t, l) ==
  CASE Parsed(l).op = "A"       -> Insert(t, l.key, l.gen)
    [] Parsed(l).op = "D"       -> MarkRemoved(t, l.key)
    [] Parsed(l).op = "garbage" -> t

Loaded(lines) == FoldLeft(Applied, EmptyTable(FirstSlots), lines)

(* The lines after ls are written.  What is written behind a line without  *)
(* its newline becomes part of it, and its key then has a tab in it.       *)
Joined(ls) ==
  IF whole \/ ls = <<>> THEN log \o ls ELSE Front(log) \o <<Garbage>> \o Tail(ls)

(* What load() takes a line for that was cut short: nothing, a record with *)
(* a shorter key, or the record, when only its newline is missing.         *)
Fragments(l) == {Garbage, l} \cup {[l EXCEPT !.key = k] : k \in Shorter[l.key]}

KeysOf(ls) == {l.key : l \in Range(ls)}

Room(n) == Len(log) + n <= MaxLines

Fault(site) == site \in FaultIn /\ faults < MaxFaults /\ faults' = faults + 1

(* Lines written and flushed one by one.                                   *)
Written(ls) ==
  /\ Room(Len(ls)) /\ UNCHANGED faults
  /\ IF logging
     THEN /\ log' = Joined(ls) /\ whole' = (whole \/ ls # <<>>)
          /\ doubtful' = doubtful \cup (KeysOf(ls) \cap Long)
                           \cup IF whole \/ ls = <<>> THEN {} ELSE {Head(ls).key}
     ELSE UNCHANGED file /\ doubtful' = doubtful \cup KeysOf(ls)

(* What there may be of ls when its last line is cut short, perhaps to     *)
(* nothing, and whether it ends in a newline.                              *)
Cut(ls) ==
  {<<Front(ls), TRUE>>} \cup {<<Append(Front(ls), f), FALSE>> : f \in Fragments(Last(ls))}

CutShort(ls) ==
  /\ \E c \in Cut(ls) : /\ log' = Joined(c[1])
                         /\ whole' = IF c[1] = <<>> THEN whole ELSE c[2]
  /\ doubtful' = doubtful \cup KeysOf(ls) \cup Shorter[Last(ls).key]

(* A write error: nothing is made of it.                                   *)
WriteFails(l) == logging /\ Room(1) /\ Fault("write") /\ CutShort(<<l>>)

-----------------------------------------------------------------------------
(* The operations *)

Add(k, g) ==
  /\ Written(<<AddLine(k, g)>>) \/ WriteFails(AddLine(k, g))
  /\ table' = Insert(table, k, g)
  /\ UNCHANGED logging

(* A key that is not in the table is logged as removed all the same.       *)
RemoveKey(k) ==
  /\ Written(<<RemoveLine(k)>>) \/ WriteFails(RemoveLine(k))
  /\ table' = MarkRemoved(table, k)
  /\ UNCHANGED logging

(* Mutant: nothing is logged.                                              *)
RemovalsUnlogged(S) == <<>>

(* The lines retain_generations(S) logs, in the order of the slots.        *)
Removals(S) ==
  LET dead == SlotsIn(table, Generations \ S)
  IN  [i \in DOMAIN dead |-> RemoveLine(dead[i].key)]

RetainGenerations(S) ==
  /\ table' = [table EXCEPT !.slots =
                 [i \in DOMAIN @ |-> IF @[i].gen \in S THEN @[i] ELSE [@[i] EXCEPT !.gen = Gone]]]
  /\ Written(Removals(S))
  /\ UNCHANGED logging

(* compact_log(): a log of the live entries takes the place of the old.    *)
(* That the last of it is only written by fclose() is not noticed: a cut   *)
(* log may take its place too.                                             *)
CompactLog ==
  LET kept == Live(table)
      live == [i \in DOMAIN kept |-> AddLine(kept[i].key, kept[i].gen)] IN
  /\ UNCHANGED table
  /\ \/ /\ log' = live /\ whole' = TRUE /\ doubtful' = Long \cap KeysOf(live)
        /\ \/ logging' = TRUE /\ UNCHANGED faults
           \/ logging' = FALSE /\ Fault("open")
     \/ UNCHANGED <<file, doubtful, logging>> /\ Fault("temp")
     \/ UNCHANGED <<file, doubtful>> /\ logging' = TRUE /\ Fault("rename")
     \/ /\ Fault("close") /\ logging' = TRUE
        /\ \E n \in DOMAIN live :
             /\ \E c \in Cut(SubSeq(live, 1, n)) : log' = c[1] /\ whole' = c[2]
             /\ doubtful' = (Long \cap KeysOf(live)) \cup KeysOf(SubSeq(live, n, Len(live)))
                              \cup Shorter[live[n].key]

(* The map is deleted, or dies with its process, and is loaded again.      *)
Load ==
  /\ UNCHANGED file
  /\ table' = Loaded(log)
  /\ doubtful' = IF whole \/ log = <<>> THEN {} ELSE {Last(log).key} \ {NoKey}
  /\ \/ logging' = TRUE /\ UNCHANGED faults
     \/ logging' = FALSE /\ Fault("open")

(* A log that cannot be opened is taken for one that is not there.         *)
LoadUnread ==
  /\ Fault("read")
  /\ table' = EmptyTable(FirstSlots)
  /\ logging' = TRUE /\ doubtful' = KeysOf(log) \ {NoKey}
  /\ UNCHANGED file

(* The process is killed among the lines of retain_generations(S), and the *)
(* map is loaded again.  (When there is only one line to write, a kill is  *)
(* a write that fails before a Load.)                                      *)
KilledRetaining(S) ==
  /\ logging /\ Fault("kill") /\ Room(Len(Removals(S)))
  /\ \E n \in DOMAIN Removals(S) : CutShort(SubSeq(Removals(S), 1, n))
  /\ table' = Loaded(log')
  /\ UNCHANGED logging

(* open() distrusts the log after a compaction that died, and removes it.  *)
Discard ==
  /\ table' = EmptyTable(FirstSlots)
  /\ log' = <<>> /\ whole' = TRUE /\ logging' = TRUE /\ doubtful' = {}
  /\ UNCHANGED faults

Init ==
  /\ table = EmptyTable(FirstSlots)
  /\ log = <<>> /\ whole = TRUE /\ logging = TRUE
  /\ doubtful = {}
  /\ faults = 0

Next ==
  \/ \E e \in Entries : Add(e[1], e[2])
  \/ \E k \in Keys : RemoveKey(k)
  \/ \E S \in SUBSET Generations : RetainGenerations(S) \/ KilledRetaining(S)
  \/ CompactLog \/ Load \/ LoadUnread \/ Discard

Spec == Init /\ [][Next]_vars

-----------------------------------------------------------------------------
(* Properties *)

Line == [op : {"A", "D", "garbage"}, key : Keys \cup {NoKey}, gen : Generations \cup {Gone}]

(* Types, and slots_used counts the slots that are not free.               *)
TypeOK ==
  /\ table.slots \in [DOMAIN table.slots -> [key : Keys \cup {NoKey}, gen : Generations \cup {Gone}]]
  /\ DOMAIN table.slots = 0 .. Size(table) - 1
  /\ table.used = Cardinality({i \in DOMAIN table.slots : table.slots[i].key # NoKey})
  /\ log \in Seq(Line) /\ whole \in BOOLEAN /\ logging \in BOOLEAN
  /\ doubtful \subseteq Keys

(* A probe for a key that is not there ends: however many keys come and    *)
(* go, the table always has a slot that was never used (find_slot()'s loop *)
(* has no other end).                                                      *)
ProbesEnd == \E i \in DOMAIN table.slots : table.slots[i].key = NoKey

Map == INSTANCE KeyMap WITH map <- [k \in Keys |-> Find(table, k)]

(* Each operation does to the map what it says, with the key, generation   *)
(* or generations it is called with.                                       *)
AsCalled ==
  /\ \A e \in Entries : Add(e[1], e[2]) => Map!Add(e[1], e[2])
  /\ \A k \in Keys : RemoveKey(k) => Map!RemoveKey(k)
  /\ \A S \in SUBSET Generations :
       /\ RetainGenerations(S) => Map!RetainGenerations(S)
       /\ KilledRetaining(S) => Map!KilledRetaining
  /\ CompactLog => Map!CompactLog
  /\ Load => Map!Load
  /\ LoadUnread \/ Discard => Map!Discard

(* The table implements the map, operation by operation: growth, slots     *)
(* that stay occupied after their key is gone and keys that share a probe  *)
(* change the place of no key but the one that is meant, and a restart     *)
(* that of none the log has not become wrong about.                        *)
MapSpec == Map!Init /\ [][AsCalled]_vars

(* The log would at any moment be loaded as the map that is in memory,     *)
(* except for a key whose own line, whose longer relative's line or the    *)
(* line written after a torn one was lost to a failed write.               *)
LogReproduces == \A k \in Keys \ doubtful : Find(Loaded(log), k) = Find(table, k)
=============================================================================
