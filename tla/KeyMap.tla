------------------------------- MODULE KeyMap -------------------------------
(***************************************************************************)
(* What the keymap is to the segment index: a map from document keys to    *)
(* the generation of the segment that holds the live copy, which comes     *)
(* back as it was when it is loaded again.  The keys in doubtful are those *)
(* the log may be wrong about; only they may come back different.          *)
(*                                                                         *)
(* There is one action for each operation of index_keymap.h.               *)
(***************************************************************************)
CONSTANTS Keys, Generations, Gone

VARIABLES
  map,      \* map[k]: a generation, or Gone
  doubtful

Maps == [Keys -> Generations \cup {Gone}]

Init == map = [k \in Keys |-> Gone] /\ doubtful \subseteq Keys

(* These change what they are told to, and nothing else.                   *)
Add(k, g)            == map' = [map EXCEPT ![k] = g]
RemoveKey(k)         == map' = [map EXCEPT ![k] = Gone]
RetainGenerations(S) == map' = [k \in Keys |-> IF map[k] \in S THEN map[k] ELSE Gone]
CompactLog           == map' = map
Discard              == map' = [k \in Keys |-> Gone]

(* The map in memory is lost and loaded from the log.                      *)
Load == map' \in Maps /\ \A k \in Keys \ doubtful : map'[k] = map[k]

(* The same in the middle of retain_generations(): what was being removed  *)
(* has become doubtful.                                                    *)
KilledRetaining == map' \in Maps /\ \A k \in Keys \ doubtful' : map'[k] = map[k]

Next ==
  /\ doubtful' \subseteq Keys
  /\ \/ \E k \in Keys, g \in Generations : Add(k, g)
     \/ \E k \in Keys : RemoveKey(k)
     \/ \E S \in SUBSET Generations : RetainGenerations(S)
     \/ CompactLog \/ Discard \/ Load \/ KilledRetaining

Spec == Init /\ [][Next]_<<map, doubtful>>
=============================================================================
