---------------------------- MODULE WriteAheadLog ----------------------------
(***************************************************************************)
(* wal.log as source/wal.cpp writes and reads it: length-prefixed records  *)
(* one after another, without separators or checksums.  Replay finds the   *)
(* records by parsing, and stops at the first one that is cut short or has *)
(* a field out of bounds (the torn-tail rule).                             *)
(*                                                                         *)
(* A file is a sequence of cells.  An operation code, a length, the        *)
(* has_vector flag and each character or float is one cell, a small        *)
(* number: which part of a record a cell was written as is not recorded,   *)
(* the parser takes it for whatever it expects there.                      *)
(***************************************************************************)
EXTENDS Integers, Sequences, SequencesExt

CONSTANTS
  A, U, D,         \* the operation codes
  MaxKey, MaxDocument, \* 8192 characters, 256MB
  Dimension,       \* of the vectors; 0 when the index has none
  Requests,        \* what append() may be asked to log
  FaultIn,         \* what may fail: "write", "fsync", "empty", "reopen"
  MaxRecords, MaxFaults, MaxKills  \* bounds

Ops == {A, U, D}

ASSUME WriteAheadLogAssumption ==
  /\ Ops \subseteq Nat /\ {MaxKey, MaxDocument, Dimension} \subseteq Nat
  /\ {MaxRecords, MaxFaults, MaxKills} \subseteq Nat

(* Characters and floats are cells too.  append() copies as many floats as *)
(* the log has dimensions.                                                 *)
ASSUME RequestsAssumption ==
  \A r \in Requests :
    /\ r.key \in Seq(Nat) /\ r.document \in Seq(Nat) /\ r.vector \in Seq(Nat)
    /\ Len(r.vector) \in {0, Dimension}

VARIABLES
  file,     \* the cells of wal.log
  open,     \* a log object exists
  healthy,  \* is_healthy
  pending,  \* the record whose append() failed, while the stream holds the rest of it
  written,  \* how many cells of it the file has
  \* ---- history, since the file was last emptied
  kept,     \* the records written in full before anything was torn
  late,     \* the records written in full behind a torn one
  tear,     \* no record is cut short, or one is, by this stream or an earlier one
  faults, kills

history == <<kept, late, tear>>
vars    == <<file, open, healthy, pending, written, history, faults, kills>>

-----------------------------------------------------------------------------
(* The format *)

(* What append() accepts; anything else marks the log unhealthy.           *)
LoggableAnyKey(r) ==
  /\ r.op \in Ops
  /\ r.op # D => Len(r.document) <= MaxDocument
  /\ r.vector # <<>> => Dimension > 0

Loggable(r) ==
  /\ r.op \in Ops
  /\ Len(r.key) \in 1 .. MaxKey
  /\ r.op # D => Len(r.document) <= MaxDocument
  /\ r.vector # <<>> => Dimension > 0

Encode(r) ==
  LET document == IF r.op = D THEN <<>> ELSE r.document
      vector   == IF r.vector = <<>> THEN <<0>> ELSE <<1>> \o r.vector
  IN  <<r.op, Len(r.key)>> \o r.key \o <<Len(document)>> \o document \o vector

(* replay_next() at position p of f: where it expects the document length  *)
(* and the vector flag, and the last cell of the record.                   *)
LengthAt(f, p) == p + 2 + f[p + 1]
FlagAt(f, p)   == LengthAt(f, p) + 1 + f[LengthAt(f, p)]
LastAt(f, p)   == FlagAt(f, p) + IF f[FlagAt(f, p)] = 1 THEN Dimension ELSE 0

(* It reads a record there: each field is present and within its bounds.   *)
Readable(f, p) ==
  /\ p + 1 <= Len(f) /\ f[p] \in Ops /\ f[p + 1] \in 1 .. MaxKey
  /\ LengthAt(f, p) <= Len(f) /\ f[LengthAt(f, p)] \in 0 .. MaxDocument
  /\ FlagAt(f, p) <= Len(f) /\ f[FlagAt(f, p)] \in {0, 1}
  /\ f[FlagAt(f, p)] = 1 => Dimension > 0 /\ LastAt(f, p) <= Len(f)

(* The records, in their encoded form, that open() replays.                *)
Replay(f) ==
  LET from[p \in 1 .. Len(f) + 1] ==
        IF Readable(f, p)
        THEN <<SubSeq(f, p, LastAt(f, p))>> \o from[LastAt(f, p) + 1]
        ELSE <<>>
  IN  from[1]

-----------------------------------------------------------------------------
(* The effect on the history of n more cells of record c, of which the     *)
(* file already had m; torn says whose a record cut short is.              *)
Wrote(c, m, n, torn) ==
  LET whole == m + n = Len(c) IN
  /\ kept' = IF whole /\ tear # "before" THEN Append(kept, c) ELSE kept
  /\ late' = IF whole /\ tear = "before" THEN Append(late, c) ELSE late
  /\ tear' = IF tear = "before" THEN "before"
             ELSE IF whole \/ m + n = 0 THEN "none" ELSE torn

Fault(where) == where \in FaultIn /\ faults < MaxFaults /\ faults' = faults + 1

NoFault == UNCHANGED faults

Room == Len(kept) + Len(late) < MaxRecords

(* append(): the whole record is written.                                  *)
Logged(r) ==
  /\ Loggable(r)
  /\ file' = file \o Encode(r)
  /\ Wrote(Encode(r), 0, Len(Encode(r)), "none")
  /\ NoFault
  /\ UNCHANGED <<open, healthy, pending, written, kills>>

(* append(): a write fails after n cells, and the stream keeps the others; *)
(* or the fsync does, after all of them.                                   *)
CutShort(r, n) ==
  /\ Loggable(r)
  /\ IF n = Len(Encode(r))
     THEN Fault("fsync") /\ UNCHANGED <<pending, written>>
     ELSE Fault("write") /\ pending' = Encode(r) /\ written' = n
  /\ file' = file \o SubSeq(Encode(r), 1, n)
  /\ Wrote(Encode(r), 0, n, "now")
  /\ healthy' = FALSE
  /\ UNCHANGED <<open, kills>>

(* append(): a field is out of bounds.                                     *)
Rejected(r) ==
  /\ ~Loggable(r)
  /\ healthy' = FALSE
  /\ NoFault
  /\ UNCHANGED <<file, open, pending, written, history, kills>>

AppendCall ==
  \E r \in Requests :
    \/ Logged(r)
    \/ \E n \in 0 .. Len(Encode(r)) : CutShort(r, n)
    \/ Rejected(r)

(* append(), also after one has failed                                     *)
DoAppendUnguarded == open /\ Room /\ AppendCall

(* append(); once the log is unhealthy it refuses, and changes nothing.    *)
DoAppend == open /\ healthy /\ Room /\ AppendCall

(* fclose() writes what the stream holds, or the first n cells of it.      *)
StreamClosed(n) ==
  /\ file' = file \o SubSeq(pending, written + 1, written + n)
  /\ IF pending = <<>> THEN UNCHANGED history ELSE Wrote(pending, written, n, "before")
  /\ pending' = <<>> /\ written' = 0

FileClosed == \E n \in 0 .. Len(pending) - written : StreamClosed(n)

Emptied ==
  /\ file' = <<>>
  /\ kept' = <<>> /\ late' = <<>> /\ tear' = "none"

(* The file is emptied under an open stream.                               *)
TruncateUnclosed ==
  /\ open
  /\ Emptied /\ healthy' = TRUE
  /\ NoFault
  /\ UNCHANGED <<open, pending, written, kills>>

(* truncate(), once a flush has made the content durable.  It does not     *)
(* notice when it cannot empty the file, and then carries on behind what   *)
(* is there; it is unhealthy when it cannot open the file again.           *)
Truncate ==
  /\ open
  /\ \/ Emptied /\ pending' = <<>> /\ written' = 0 /\ healthy' = TRUE /\ NoFault
     \/ Emptied /\ pending' = <<>> /\ written' = 0 /\ healthy' = FALSE /\ Fault("reopen")
     \/ FileClosed /\ healthy' \in BOOLEAN /\ Fault("empty")
  /\ UNCHANGED <<open, kills>>

(* The log object is deleted.                                              *)
Close ==
  /\ open
  /\ FileClosed
  /\ open' = FALSE /\ healthy' = FALSE
  /\ NoFault
  /\ UNCHANGED kills

(* The process is killed, perhaps within append(): what the stream holds   *)
(* is lost.                                                                *)
Kill ==
  /\ open
  /\ kills < MaxKills /\ kills' = kills + 1
  /\ \/ /\ tear' = IF tear = "now" THEN "before" ELSE tear
        /\ UNCHANGED <<file, kept, late>>
     \/ /\ healthy /\ Room
        /\ \E r \in {q \in Requests : Loggable(q)} : \E n \in 1 .. Len(Encode(r)) :
             /\ file' = file \o SubSeq(Encode(r), 1, n)
             /\ Wrote(Encode(r), 0, n, "before")
  /\ open' = FALSE /\ healthy' = FALSE /\ pending' = <<>> /\ written' = 0
  /\ NoFault

(* open(), in mode "a+b": new records go behind what is there.  The caller *)
(* then replays Replay(file), before it appends anything.                  *)
Open ==
  /\ ~open
  /\ open' = TRUE /\ healthy' = TRUE
  /\ UNCHANGED <<file, pending, written, history, faults, kills>>

Init ==
  /\ file = <<>>
  /\ open = FALSE /\ healthy = FALSE
  /\ pending = <<>> /\ written = 0
  /\ kept = <<>> /\ late = <<>> /\ tear = "none"
  /\ faults = 0 /\ kills = 0

Next == DoAppend \/ Truncate \/ Close \/ Kill \/ Open

Spec == Init /\ [][Next]_vars

-----------------------------------------------------------------------------
(* Properties *)

(* Types; a healthy log has nothing left over in its stream.               *)
TypeOK ==
  /\ file \in Seq(Nat) /\ pending \in Seq(Nat)
  /\ open \in BOOLEAN /\ healthy \in BOOLEAN
  /\ written \in 0 .. Len(pending)
  /\ kept \in Seq(Seq(Nat)) /\ late \in Seq(Seq(Nat))
  /\ tear \in {"none", "now", "before"}
  /\ healthy => open /\ pending = <<>>

(* Within one session, and until the file is next emptied, failed writes   *)
(* cost the log nothing but themselves: replay yields exactly the records  *)
(* written in full, in order.  What is cut short is never read as a record *)
(* and, because append() refuses from then on, nothing comes to stand      *)
(* behind it (append()'s is_healthy, and the torn-tail rule).              *)
LogIsExact == tear # "before" => Replay(file) = kept

(* Whatever is torn, and by whomever, the records written before it are    *)
(* replayed first, in order and uncorrupted.                               *)
EarlierKept == IsPrefix(kept, Replay(file))
=============================================================================
