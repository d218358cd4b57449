-------------------------- MODULE SegmentIndexWrap --------------------------
(***************************************************************************)
(* The Node addon (nodejs/addon/segment_index.cpp): one JavaScript object  *)
(* around one engine.  Its methods run on the JavaScript thread, in the    *)
(* middle of which nothing else of JavaScript runs; flush(), maintain()    *)
(* and the builds return a promise and run on a worker thread, with        *)
(* nothing but a state flag between the two threads.                       *)
(*                                                                         *)
(* The engine is a set of documents in each of the places a document can   *)
(* be; its calls are as many steps as there are points where they fail.    *)
(* It is not durable (option "durable" is off, the default): SegmentIndex  *)
(* has the engine in full.                                                 *)
(***************************************************************************)
EXTENDS Integers, Sequences, FiniteSets

CONSTANTS
  Docs,           \* documents the program adds
  NoDoc,          \* no document
  FlushThreshold, \* option flushThreshold: documents per auto-flush, 0 is manual
  MaxPromises, MaxFails, MaxStops   \* bounds: promises, failures of the engine, deaths of the process

ASSUME WrapAssumption ==
  /\ NoDoc \notin Docs
  /\ FlushThreshold \in Nat /\ MaxPromises \in Nat /\ MaxFails \in Nat /\ MaxStops \in Nat

VARIABLES
  \* ---- the wrapper
  state,      \* "constructed", "open", "maintenance", "closed"
  engine,     \* the pointer is not NULL
  held,       \* the program has a reference to the object
  \* ---- the threads
  at,         \* at[t]: where thread t is in the engine, "out" if it is not
  adding,     \* the document addDocument() is adding
  worker,     \* the MaintenanceWorker: "none", "queued", "running", "done"
  result,     \* what its engine call returned
  \* ---- promises
  promises,   \* in the order of the calls: what they were for, how they stand
  \* ---- the engine
  writing,    \* it has a writer
  buffered,   \* documents in the writer
  listed,     \* documents of the segments of the manifest in memory
  disk,       \* documents of the segments of the manifest on disk
  \* ---- history and bounds
  accepted,   \* documents whose handle was returned, and which no death or close has lost
  fails, stops

wrapper == <<state, engine, held>>
threads == <<at, adding, worker, result>>
store   == <<writing, buffered, listed, disk>>
vars    == <<wrapper, threads, promises, store, accepted, fails, stops>>

-----------------------------------------------------------------------------
(* Values *)

Threads == {"main", "worker"}
States  == {"constructed", "open", "maintenance", "closed"}
AsyncOps == {"flush", "maintain", "build"}
Places  == {"out", "add", "use", "flush", "register", "renew", "maintain", "build"}

Promise == [op : AsyncOps, status : {"pending", "resolved", "rejected"},
            docs : SUBSET Docs,   \* history: for a flush, the documents accepted before it
            sure : BOOLEAN]       \* history: the engine had a writer

Idle    == at["main"] = "out"     \* no JavaScript call is running
Go(t, place) == at' = [at EXCEPT ![t] = place]
Fail    == fails < MaxFails /\ fails' = fails + 1

(* The promise the worker will settle.                                     *)
Pending == CHOOSE p \in DOMAIN promises : promises[p].status = "pending"

-----------------------------------------------------------------------------
(* open(), close(), the end of the object *)

(* Mutant: a failed open() does not set the pointer back to NULL.          *)
OpenLeaky ==
  /\ state = "constructed" /\ held /\ Idle
  /\ UNCHANGED <<held, threads, promises, disk, accepted, stops>>
  /\ engine' = TRUE
  /\ \/ /\ state' = "open" /\ writing' = TRUE /\ buffered' = {} /\ listed' = disk
        /\ UNCHANGED fails
     \/ Fail /\ UNCHANGED <<state, writing, buffered, listed>>

(* A new engine is configured and opened; whatever fails, it is deleted    *)
(* and open() can be tried again.                                          *)
Open ==
  /\ state = "constructed" /\ held /\ Idle
  /\ UNCHANGED <<held, threads, promises, disk, accepted, stops>>
  /\ \/ /\ state' = "open" /\ engine' = TRUE
        /\ writing' = TRUE /\ buffered' = {} /\ listed' = disk
        /\ UNCHANGED fails
     \/ Fail /\ UNCHANGED <<state, engine, writing, buffered, listed>>

(* delete engine: what was not flushed is gone.                            *)
DeleteEngine ==
  /\ engine' = FALSE /\ state' = "closed"
  /\ writing' = FALSE /\ buffered' = {} /\ listed' = {}
  /\ accepted' = disk
  /\ UNCHANGED <<disk, threads, promises, fails, stops>>

(* Mutant: close() does not look at the state.                             *)
CloseAnytime == held /\ Idle /\ DeleteEngine /\ UNCHANGED held

Close == held /\ Idle /\ state # "maintenance" /\ DeleteEngine /\ UNCHANGED held

(* The program forgets the object; its promises it may keep.               *)
Drop ==
  /\ held /\ Idle /\ engine
  /\ held' = FALSE
  /\ UNCHANGED <<state, engine, threads, promises, store, accepted, fails, stops>>

(* ~SegmentIndexWrap(), run by the garbage collector.  A worker in flight  *)
(* has an ObjectReference that keeps the object.                           *)
Finalize == ~held /\ Idle /\ worker = "none" /\ engine /\ DeleteEngine /\ UNCHANGED held

(* new SegmentIndex(options), when the last one is closed or collected:    *)
(* a directory has one index at a time.                                    *)
SegmentIndex ==
  /\ state = "closed" /\ Idle
  /\ state' = "constructed" /\ held' = TRUE
  /\ UNCHANGED <<engine, threads, promises, store, accepted, fails, stops>>

-----------------------------------------------------------------------------
(* Synchronous methods, on the JavaScript thread *)

(* Mutant: a call during maintenance is let through.                       *)
require_openAlways == state \in {"open", "maintenance"}

require_open == state = "open"

AddDocument(d) ==
  /\ held /\ Idle /\ require_open
  /\ d \notin accepted
  /\ Go("main", "add") /\ adding' = d
  /\ UNCHANGED <<wrapper, worker, result, promises, store, accepted, fails, stops>>

(* The searches, the counts and deleteDocument(): they read the segments   *)
(* and the writer, and bring no document in.                               *)
Search ==
  /\ held /\ Idle /\ require_open
  /\ Go("main", "use")
  /\ UNCHANGED <<wrapper, adding, worker, result, promises, store, accepted, fails, stops>>

(* Any method when it is refused: it throws.                               *)
Refused == held /\ Idle /\ ~require_open /\ UNCHANGED vars

SearchReturns ==
  /\ at["main"] = "use" /\ Go("main", "out")
  /\ UNCHANGED <<wrapper, adding, worker, result, promises, store, accepted, fails, stops>>

(* ATIRE_segment_index::add_document(): -1 without a writer; otherwise the *)
(* document is in it, and when that is full the call flushes.              *)
add_document ==
  /\ at["main"] = "add"
  /\ UNCHANGED <<wrapper, worker, result, promises, listed, disk, fails, stops>>
  /\ IF ~writing
     THEN Go("main", "out") /\ adding' = NoDoc /\ UNCHANGED <<writing, buffered, accepted>>
     ELSE /\ buffered' = buffered \cup {adding}
          /\ UNCHANGED writing
          /\ IF FlushThreshold > 0 /\ Cardinality(buffered') >= FlushThreshold
             THEN Go("main", "flush") /\ UNCHANGED <<adding, accepted>>
             ELSE /\ Go("main", "out")
                  /\ adding' = NoDoc /\ accepted' = accepted \cup {adding}

-----------------------------------------------------------------------------
(* Promise-returning methods *)

(* Flush(), Maintain(), BuildSignatures(), BuildHnsw(), BuildQuantized(),  *)
(* BuildPq(), BuildMultivectorPq(): the same but for the operation.        *)
CallAsync(op) ==
  /\ held /\ Idle /\ Len(promises) < MaxPromises
  /\ LET new(status) == [op |-> op, status |-> status, sure |-> writing,
                         docs |-> IF op = "flush" THEN accepted ELSE {}] IN
       IF state # "open"
       THEN promises' = Append(promises, new("rejected")) /\ UNCHANGED <<state, worker>>
       ELSE /\ promises' = Append(promises, new("pending"))
            /\ state' = "maintenance" /\ worker' = "queued"
  /\ UNCHANGED <<engine, held, at, adding, result, store, accepted, fails, stops>>

(* Execute(), on a thread of libuv's pool.                                 *)
Execute ==
  /\ worker = "queued" /\ worker' = "running"
  /\ Go("worker", promises[Pending].op)
  /\ UNCHANGED <<wrapper, adding, result, promises, store, accepted, fails, stops>>

(* Mutant: an engine call that failed settles nothing.                     *)
OnOKOfSuccess ==
  /\ worker = "done" /\ Idle
  /\ worker' = "none" /\ state' = "open"
  /\ promises' = [promises EXCEPT ![Pending].status = IF result = 0 THEN "resolved" ELSE @]
  /\ UNCHANGED <<engine, held, at, adding, result, store, accepted, fails, stops>>

(* OnOK(), on the JavaScript thread when it has nothing else to do.        *)
OnOK ==
  /\ worker = "done" /\ Idle
  /\ worker' = "none" /\ state' = "open"
  /\ promises' = [promises EXCEPT ![Pending].status = IF result = 0 THEN "resolved" ELSE "rejected"]
  /\ UNCHANGED <<engine, held, at, adding, result, store, accepted, fails, stops>>

-----------------------------------------------------------------------------
(* The engine's flush(), maintain() and builds, in thread t *)

(* Thread t leaves the engine with r.  add_document() takes no notice of   *)
(* what its flush() returned: the document has been accepted.              *)
Return(t, r) ==
  /\ Go(t, "out")
  /\ IF t = "worker"
     THEN worker' = "done" /\ result' = r /\ UNCHANGED <<adding, accepted>>
     ELSE adding' = NoDoc /\ accepted' = accepted \cup {adding} /\ UNCHANGED <<worker, result>>

Onward(t, place) == Go(t, place) /\ UNCHANGED <<adding, worker, result, accepted>>

(* The segment's files.  Nothing is written, and 0 returned, if there is   *)
(* no document - or no writer.  After a failure the writer and its         *)
(* documents are still there; that a second flush() finishes a list which  *)
(* the first had finished when its vectors could not be saved is left out. *)
flush(t) ==
  /\ at[t] = "flush"
  /\ UNCHANGED <<wrapper, promises, store, stops>>
  /\ \/ buffered = {} /\ Return(t, 0) /\ UNCHANGED fails
     \/ buffered # {} /\ Onward(t, "register") /\ UNCHANGED fails
     \/ buffered # {} /\ Fail /\ Return(t, 1)

(* Mutant: a manifest that could not be saved is taken for saved.          *)
registerUnchecked(t) ==
  /\ at[t] = "register"
  /\ writing' = FALSE /\ buffered' = {} /\ listed' = listed \cup buffered
  /\ Onward(t, "renew")
  /\ \/ disk' = listed' /\ UNCHANGED fails
     \/ Fail /\ UNCHANGED disk
  /\ UNCHANGED <<wrapper, promises, stops>>

(* The writer is deleted, the segment opened and listed, the manifest      *)
(* saved; each of the last two can fail.                                   *)
register(t) ==
  /\ at[t] = "register"
  /\ writing' = FALSE /\ buffered' = {}
  /\ UNCHANGED <<wrapper, promises, stops>>
  /\ \/ Fail /\ Return(t, 1) /\ UNCHANGED <<listed, disk>>
     \/ /\ listed' = listed \cup buffered
        /\ \/ disk' = listed' /\ UNCHANGED fails /\ Onward(t, "renew")
           \/ Fail /\ UNCHANGED disk /\ Return(t, 1)

start_new_writer(t) ==
  /\ at[t] = "renew"
  /\ UNCHANGED <<wrapper, promises, buffered, listed, disk, stops>>
  /\ \/ writing' = TRUE /\ UNCHANGED fails /\ Return(t, 0)
     \/ UNCHANGED writing /\ Fail /\ Return(t, 1)

(* A compaction saves the manifest twice, before and after the merge;      *)
(* there may be none, or it may fail before either.                        *)
maintain ==
  /\ at["worker"] = "maintain"
  /\ UNCHANGED <<wrapper, promises, writing, buffered, listed, stops>>
  /\ \/ disk' \in {disk, listed} /\ UNCHANGED fails /\ Return("worker", 0)
     \/ disk' \in {disk, listed} /\ Fail /\ Return("worker", 1)

(* The builds write sidecars of segments that are there.                   *)
build ==
  /\ at["worker"] = "build"
  /\ UNCHANGED <<wrapper, promises, store, stops>>
  /\ \/ UNCHANGED fails /\ Return("worker", 0)
     \/ Fail /\ Return("worker", 1)

(* The process dies or exits; the next one starts over.                    *)
Stop ==
  /\ stops < MaxStops /\ stops' = stops + 1
  /\ state' = "constructed" /\ engine' = FALSE /\ held' = TRUE
  /\ at' = [t \in Threads |-> "out"] /\ adding' = NoDoc
  /\ worker' = "none" /\ result' = 0 /\ promises' = <<>>
  /\ writing' = FALSE /\ buffered' = {} /\ listed' = {} /\ accepted' = disk
  /\ UNCHANGED <<disk, fails>>

-----------------------------------------------------------------------------
Init ==
  /\ state = "constructed" /\ engine = FALSE /\ held = TRUE
  /\ at = [t \in Threads |-> "out"] /\ adding = NoDoc
  /\ worker = "none" /\ result = 0 /\ promises = <<>>
  /\ writing = FALSE /\ buffered = {} /\ listed = {} /\ disk = {} /\ accepted = {}
  /\ fails = 0 /\ stops = 0

EngineStep(t) == flush(t) \/ register(t) \/ start_new_writer(t)

WorkerThread == Execute \/ EngineStep("worker") \/ maintain \/ build
MainThread   == SearchReturns \/ add_document \/ EngineStep("main")

Program ==
  \/ Open \/ Close \/ Drop \/ Finalize \/ SegmentIndex
  \/ (\E d \in Docs : AddDocument(d)) \/ Search \/ Refused
  \/ \E op \in AsyncOps : CallAsync(op)

Next == Program \/ MainThread \/ WorkerThread \/ OnOK \/ Stop

Spec == Init /\ [][Next]_vars

(* Threads in the engine go on, and the event loop gets to a completion    *)
(* once the program's call is over.  Nothing makes the program do anything.*)
FairSpec == Spec /\ WF_vars(WorkerThread) /\ WF_vars(MainThread) /\ WF_vars(OnOK)
-----------------------------------------------------------------------------
(* Properties *)

TypeOK ==
  /\ state \in States /\ held \in BOOLEAN
  /\ engine \in BOOLEAN /\ (engine <=> state \in {"open", "maintenance"})
  /\ at \in [Threads -> Places] /\ adding \in Docs \cup {NoDoc}
  /\ worker \in {"none", "queued", "running", "done"} /\ result \in {0, 1}
  /\ promises \in Seq(Promise)
  /\ writing \in BOOLEAN /\ buffered \subseteq Docs /\ listed \subseteq Docs /\ disk \subseteq Docs
  /\ accepted \subseteq Docs
  /\ fails \in 0 .. MaxFails /\ stops \in 0 .. MaxStops

(* require_open() and the state set before the worker is queued: "the      *)
(* engine never sees two concurrent calls".                                *)
OneAtATime == ~ \A t \in Threads : at[t] # "out"

(* close() and the destructor: the engine is there as long as a thread is  *)
(* in it or a worker is about to enter it.                                 *)
EngineAlive == (worker # "none" \/ \E t \in Threads : at[t] # "out") => engine

(* A resolved flush() means that every document accepted before it is on   *)
(* disk - if the engine had a writer when it was called.                   *)
KeptIfWriting ==
  \A p \in DOMAIN promises :
    promises[p].status = "resolved" /\ promises[p].sure => promises[p].docs \subseteq disk

(* OnOK() sets the state back and settles, whatever the engine returned:   *)
(* no promise is left pending, not even of an object that was dropped.     *)
PendingAt(p) == p \in DOMAIN promises /\ promises[p].status = "pending"

PromisesSettle == \A p \in 1 .. MaxPromises : PendingAt(p) ~> ~PendingAt(p)
=============================================================================
