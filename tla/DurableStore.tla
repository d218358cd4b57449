---------------------------- MODULE DurableStore ----------------------------
(***************************************************************************)
(* What a durable segment index promises to its caller, without segments,  *)
(* logs or generations: a map from keys to the version of the document the *)
(* index serves, changed by one call at a time, each of which takes effect *)
(* completely once it has returned.  A crash may strike at any moment; the *)
(* call it interrupts is then either lost or complete, and every call that *)
(* had returned before stays in effect.                                    *)
(***************************************************************************)
EXTENDS Integers

CONSTANTS
  Keys,    \* the external document keys
  Absent   \* the view of a key the index serves no document for

VARIABLES
  view,      \* view[k]: the version served for key k, or Absent
  inflight,  \* the call that has been made and has not returned
  opening    \* the index is down, or open() has not returned

storeVars == <<view, inflight, opening>>

Idle == [op |-> "none", key |-> Absent, ver |-> 0]

(* The map after call c has taken effect on the map m.                     *)
Apply(c, m) ==
  CASE c.op \in {"add", "update"} -> [m EXCEPT ![c.key] = c.ver]
    [] c.op = "delete"            -> [m EXCEPT ![c.key] = Absent]
    [] OTHER                      -> m

Init ==
  /\ view = [k \in Keys |-> Absent]
  /\ inflight = Idle
  /\ opening = TRUE

Invoke ==
  /\ ~opening /\ inflight = Idle
  /\ inflight' \in [op  : {"add", "update", "delete", "flush", "maintain", "compact"},
                    key : Keys \cup {Absent},
                    ver : Nat]
  /\ UNCHANGED <<view, opening>>

Return ==
  /\ ~opening /\ inflight # Idle
  /\ view' = Apply(inflight, view)
  /\ inflight' = Idle
  /\ UNCHANGED opening

Crash ==
  /\ ~opening
  /\ opening' = TRUE
  /\ UNCHANGED <<view, inflight>>

Recover ==
  /\ opening
  /\ view' \in {view, Apply(inflight, view)}
  /\ inflight' = Idle
  /\ opening' = FALSE

Next == Invoke \/ Return \/ Crash \/ Recover

Spec == Init /\ [][Next]_storeVars
=============================================================================
