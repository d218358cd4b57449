----------------------- MODULE SegmentIndexWrapProofs -----------------------
(***************************************************************************)
(* The state flag of the Node addon keeps the two threads apart, the       *)
(* engine outlives whoever is in it, and a resolved flush() can be relied  *)
(* on as long as the engine had a writer: for any number of documents,     *)
(* promises, failures and deaths of the process.                           *)
(***************************************************************************)
EXTENDS SegmentIndexWrap, TLAPS

-----------------------------------------------------------------------------
(* The inductive invariant *)

(* The flag is up exactly as long as there is a worker; the main thread is *)
(* in the engine only with the flag down, the worker only between          *)
(* Execute() and its return.                                               *)
Handover ==
  /\ state = "maintenance" <=> worker # "none"
  /\ at["worker"] # "out" <=> worker = "running"
  /\ at["main"] # "out" => state = "open"
  /\ at["main"] \in {"add", "flush", "register", "renew"} => adding \in Docs

(* The worker has one promise to settle, the only one that is pending.     *)
OnePending ==
  /\ \A p, q \in DOMAIN promises :
       promises[p].status = "pending" /\ promises[q].status = "pending" => p = q
  /\ worker # "none" <=> \E p \in DOMAIN promises : promises[p].status = "pending"

(* As long as there is a writer, a document that was accepted is in it or  *)
(* on disk; between the writer's end and the next one all are on disk.     *)
AcceptedKept ==
  /\ buffered # {} => writing
  /\ ~engine => accepted = disk
  /\ engine => disk \subseteq listed
  /\ writing => listed = disk /\ accepted \subseteq buffered \cup disk
  /\ \A t \in Threads : at[t] = "register" => writing
  /\ \A t \in Threads : at[t] = "renew" => listed = disk /\ accepted \subseteq disk
  /\ at["main"] \in {"flush", "register"} => writing /\ adding \in buffered
  /\ at["main"] = "renew" => adding \in disk

(* The documents of the pending flush on their way to the disk.            *)
UnderWay(p) ==
  /\ worker = "queued" \/ at["worker"] \in {"flush", "register"}
       => writing /\ promises[p].docs \subseteq buffered \cup disk
  /\ at["worker"] = "renew" => promises[p].docs \subseteq disk
  /\ at["worker"] \in {"maintain", "build"} => promises[p].docs = {}
  /\ worker = "done" /\ result = 0 => promises[p].docs \subseteq disk

FlushUnderWay ==
  /\ at["worker"] \notin {"add", "use"}
  /\ \A p \in DOMAIN promises :
       /\ promises[p].op # "flush" => promises[p].docs = {}
       /\ promises[p].status = "pending" /\ promises[p].sure => UnderWay(p)

IInv == TypeOK /\ Handover /\ OnePending /\ AcceptedKept /\ FlushUnderWay /\ KeptIfWriting

-----------------------------------------------------------------------------
(* Every step keeps it *)

USE DEF wrapper, threads, store, Threads

(* The promise the worker settles is the one that is pending.              *)
LEMMA PendingIs ==
  ASSUME OnePending, worker # "none"
  PROVE  /\ Pending \in DOMAIN promises
         /\ promises[Pending].status = "pending"
         /\ \A p \in DOMAIN promises : promises[p].status = "pending" => p = Pending
BY DEF OnePending, Pending

(* open(): there is no worker, and nothing was accepted that is not on disk.*)
LEMMA OpenStep ==
  ASSUME IInv, Open PROVE IInv'
<1> USE DEF IInv, Open, Idle, Fail
<1>1. TypeOK'
  <2>1. fails' \in 0 .. MaxFails
    BY WrapAssumption DEF TypeOK
  <2>2. CASE state' = "open"
    BY <2>1, <2>2 DEF TypeOK, Places, States
  <2>3. CASE UNCHANGED <<state, engine, writing, buffered, listed>>
    BY <2>1, <2>3 DEF TypeOK, Places, States
  <2> QED BY <2>2, <2>3
<1>2. Handover'
  BY DEF TypeOK, Handover
<1>3. OnePending'
  BY DEF OnePending, Handover, TypeOK
<1>4. AcceptedKept'
  BY DEF TypeOK, Handover, AcceptedKept
<1>5. FlushUnderWay'
  BY DEF TypeOK, Handover, AcceptedKept, FlushUnderWay, UnderWay, OnePending
<1>6. KeptIfWriting'
  BY DEF KeptIfWriting, TypeOK
<1> QED BY <1>1, <1>2, <1>3, <1>4, <1>5, <1>6

(* close() needs the flag down, so no worker is about to enter the engine. *)
LEMMA CloseStep ==
  ASSUME IInv, Close PROVE IInv'
<1> USE DEF IInv, Close, DeleteEngine, Idle
<1>1. TypeOK'
  BY DEF TypeOK, Places, States, Handover
<1>2. Handover'
  BY DEF TypeOK, Handover
<1>3. OnePending'
  BY DEF OnePending, Handover, TypeOK
<1>4. AcceptedKept'
  BY DEF TypeOK, Handover, AcceptedKept
<1>5. FlushUnderWay'
  BY DEF TypeOK, Handover, AcceptedKept, FlushUnderWay, UnderWay, OnePending
<1>6. KeptIfWriting'
  BY DEF KeptIfWriting, TypeOK
<1> QED BY <1>1, <1>2, <1>3, <1>4, <1>5, <1>6

LEMMA DropStep ==
  ASSUME IInv, Drop PROVE IInv'
<1> USE DEF IInv, Drop, Idle
<1>1. TypeOK'
  BY DEF TypeOK, Places, States, Handover
<1>2. Handover'
  BY DEF TypeOK, Handover
<1>3. OnePending'
  BY DEF OnePending, Handover, TypeOK
<1>4. AcceptedKept'
  BY DEF TypeOK, Handover, AcceptedKept
<1>5. FlushUnderWay'
  BY DEF TypeOK, Handover, AcceptedKept, FlushUnderWay, UnderWay, OnePending
<1>6. KeptIfWriting'
  BY DEF KeptIfWriting, TypeOK
<1> QED BY <1>1, <1>2, <1>3, <1>4, <1>5, <1>6

(* The collector needs the worker gone.                                    *)
LEMMA FinalizeStep ==
  ASSUME IInv, Finalize PROVE IInv'
<1> USE DEF IInv, Finalize, DeleteEngine, Idle
<1>1. TypeOK'
  BY DEF TypeOK, Places, States, Handover
<1>2. Handover'
  BY DEF TypeOK, Handover
<1>3. OnePending'
  BY DEF OnePending, Handover, TypeOK
<1>4. AcceptedKept'
  BY DEF TypeOK, Handover, AcceptedKept
<1>5. FlushUnderWay'
  BY DEF TypeOK, Handover, AcceptedKept, FlushUnderWay, UnderWay, OnePending
<1>6. KeptIfWriting'
  BY DEF KeptIfWriting, TypeOK
<1> QED BY <1>1, <1>2, <1>3, <1>4, <1>5, <1>6

LEMMA SegmentIndexStep ==
  ASSUME IInv, SegmentIndex PROVE IInv'
<1> USE DEF IInv, SegmentIndex, Idle
<1>1. TypeOK'
  BY DEF TypeOK, Places, States, Handover
<1>2. Handover'
  BY DEF TypeOK, Handover
<1>3. OnePending'
  BY DEF OnePending, Handover, TypeOK
<1>4. AcceptedKept'
  BY DEF TypeOK, Handover, AcceptedKept
<1>5. FlushUnderWay'
  BY DEF TypeOK, Handover, AcceptedKept, FlushUnderWay, UnderWay, OnePending
<1>6. KeptIfWriting'
  BY DEF KeptIfWriting, TypeOK
<1> QED BY <1>1, <1>2, <1>3, <1>4, <1>5, <1>6

(* The main thread enters the engine with the flag down.                   *)
LEMMA AddDocumentStep ==
  ASSUME IInv, NEW d \in Docs, AddDocument(d) PROVE IInv'
<1> USE DEF IInv, AddDocument, Idle, require_open, Go
<1>1. TypeOK'
  BY DEF TypeOK, Places, States, Handover
<1>2. Handover'
  BY DEF TypeOK, Handover
<1>3. OnePending'
  BY DEF OnePending, Handover, TypeOK
<1>4. AcceptedKept'
  BY DEF TypeOK, Handover, AcceptedKept
<1>5. FlushUnderWay'
  BY DEF TypeOK, Handover, AcceptedKept, FlushUnderWay, UnderWay, OnePending
<1>6. KeptIfWriting'
  BY DEF KeptIfWriting, TypeOK
<1> QED BY <1>1, <1>2, <1>3, <1>4, <1>5, <1>6

LEMMA SearchStep ==
  ASSUME IInv, Search PROVE IInv'
<1> USE DEF IInv, Search, Idle, require_open, Go
<1>1. TypeOK'
  BY DEF TypeOK, Places, States, Handover
<1>2. Handover'
  BY DEF TypeOK, Handover
<1>3. OnePending'
  BY DEF OnePending, Handover, TypeOK
<1>4. AcceptedKept'
  BY DEF TypeOK, Handover, AcceptedKept
<1>5. FlushUnderWay'
  BY DEF TypeOK, Handover, AcceptedKept, FlushUnderWay, UnderWay, OnePending
<1>6. KeptIfWriting'
  BY DEF KeptIfWriting, TypeOK
<1> QED BY <1>1, <1>2, <1>3, <1>4, <1>5, <1>6

LEMMA SearchReturnsStep ==
  ASSUME IInv, SearchReturns PROVE IInv'
<1> USE DEF IInv, SearchReturns, Go
<1>1. TypeOK'
  BY DEF TypeOK, Places, States, Handover
<1>2. Handover'
  BY DEF TypeOK, Handover
<1>3. OnePending'
  BY DEF OnePending, Handover, TypeOK
<1>4. AcceptedKept'
  BY DEF TypeOK, Handover, AcceptedKept
<1>5. FlushUnderWay'
  BY DEF TypeOK, Handover, AcceptedKept, FlushUnderWay, UnderWay, OnePending
<1>6. KeptIfWriting'
  BY DEF KeptIfWriting, TypeOK
<1> QED BY <1>1, <1>2, <1>3, <1>4, <1>5, <1>6

LEMMA add_documentStep ==
  ASSUME IInv, add_document PROVE IInv'
<1> USE DEF IInv, add_document, Go
<1>1. TypeOK'
  BY DEF TypeOK, Places, States, Handover
<1>2. Handover'
  BY DEF TypeOK, Handover
<1>3. OnePending'
  BY DEF OnePending, Handover, TypeOK
<1>4. AcceptedKept'
  BY DEF TypeOK, Handover, AcceptedKept
<1>5. FlushUnderWay'
  BY DEF TypeOK, Handover, AcceptedKept, FlushUnderWay, UnderWay, OnePending
<1>6. KeptIfWriting'
  BY DEF KeptIfWriting, TypeOK
<1> QED BY <1>1, <1>2, <1>3, <1>4, <1>5, <1>6

(* A promise-returning method raises the flag with the worker, or is rejected.*)
LEMMA CallAsyncStep ==
  ASSUME IInv, NEW op \in AsyncOps, CallAsync(op) PROVE IInv'
<1> DEFINE new(status) == [op |-> op, status |-> status, sure |-> writing,
                            docs |-> IF op = "flush" THEN accepted ELSE {}]
<1>a. /\ new("pending") \in Promise /\ new("rejected") \in Promise
      /\ promises \in Seq(Promise)
  BY DEF IInv, TypeOK, Promise
<1>b. PICK status \in {"pending", "rejected"} : promises' = Append(promises, new(status))
                                            /\ (status = "pending" <=> state = "open")
  BY DEF CallAsync
<1> HIDE DEF new
<1>c. /\ promises' \in Seq(Promise) /\ Len(promises') = Len(promises) + 1
      /\ DOMAIN promises' = DOMAIN promises \cup {Len(promises')}
      /\ Len(promises') \notin DOMAIN promises
      /\ promises'[Len(promises')] = new(status)
      /\ \A p \in DOMAIN promises : promises'[p] = promises[p]
  BY <1>a, <1>b
<1> USE DEF new
<1> USE DEF IInv, CallAsync, Idle
<1>1. TypeOK'
  BY <1>b, <1>c DEF TypeOK, Places, States, Handover
<1>2. Handover'
  BY <1>b, <1>c DEF TypeOK, Handover
<1>3. OnePending'
  BY <1>b, <1>c DEF OnePending, Handover, TypeOK
<1>4. AcceptedKept'
  BY <1>b, <1>c DEF TypeOK, Handover, AcceptedKept
<1>5. FlushUnderWay'
  BY <1>b, <1>c DEF TypeOK, Handover, AcceptedKept, FlushUnderWay, UnderWay, OnePending
<1>6. KeptIfWriting'
  BY <1>b, <1>c DEF KeptIfWriting, TypeOK
<1> QED BY <1>1, <1>2, <1>3, <1>4, <1>5, <1>6

(* The worker enters the engine at the operation of its promise.           *)
LEMMA ExecuteStep ==
  ASSUME IInv, Execute PROVE IInv'
<1>a. /\ Pending \in DOMAIN promises /\ promises[Pending] \in Promise
      /\ promises[Pending].status = "pending"
      /\ \A p \in DOMAIN promises : promises[p].status = "pending" => p = Pending
  BY PendingIs DEF IInv, TypeOK, Execute
<1>b. promises[Pending].op \in AsyncOps
  BY <1>a DEF Promise
<1> USE DEF IInv, Execute, Go
<1>1. TypeOK'
  BY <1>a, <1>b DEF TypeOK, Places, States, Handover, AsyncOps
<1>2. Handover'
  BY <1>a, <1>b DEF TypeOK, Handover, AsyncOps
<1>3. OnePending'
  BY <1>a, <1>b DEF OnePending, Handover, TypeOK, AsyncOps
<1>4. AcceptedKept'
  BY <1>a, <1>b DEF TypeOK, Handover, AcceptedKept, AsyncOps
<1>5. FlushUnderWay'
  BY <1>a, <1>b DEF TypeOK, Handover, AcceptedKept, FlushUnderWay, UnderWay, OnePending, AsyncOps
<1>6. KeptIfWriting'
  BY <1>a, <1>b DEF KeptIfWriting, TypeOK, AsyncOps
<1> QED BY <1>1, <1>2, <1>3, <1>4, <1>5, <1>6

LEMMA flushStep ==
  ASSUME IInv, NEW t \in Threads, flush(t) PROVE IInv'
<1> USE DEF IInv, flush, Return, Onward, Go, Fail
<1>1. TypeOK'
  BY WrapAssumption DEF TypeOK, Places, States, Handover
<1>2. Handover'
  BY DEF TypeOK, Handover
<1>3. OnePending'
  BY DEF OnePending, Handover, TypeOK
<1>4. AcceptedKept'
  BY DEF TypeOK, Handover, AcceptedKept
<1>5. FlushUnderWay'
  BY DEF TypeOK, Handover, AcceptedKept, FlushUnderWay, UnderWay, OnePending
<1>6. KeptIfWriting'
  BY DEF KeptIfWriting, TypeOK
<1> QED BY <1>1, <1>2, <1>3, <1>4, <1>5, <1>6

LEMMA registerStep ==
  ASSUME IInv, NEW t \in Threads, register(t) PROVE IInv'
<1> USE DEF IInv, register, Return, Onward, Go, Fail
<1>1. TypeOK'
  <2>1. fails' \in 0 .. MaxFails
    BY WrapAssumption DEF TypeOK
  <2>2. UNCHANGED promises /\ promises \in Seq(Promise)
    BY DEF TypeOK
  <2> QED BY <2>1, <2>2 DEF TypeOK, Places, States, Handover
<1>2. Handover'
  BY DEF TypeOK, Handover
<1>3. OnePending'
  BY DEF OnePending, Handover, TypeOK
<1>4. AcceptedKept'
  BY DEF TypeOK, Handover, AcceptedKept
<1>5. FlushUnderWay'
  BY DEF TypeOK, Handover, AcceptedKept, FlushUnderWay, UnderWay, OnePending
<1>6. KeptIfWriting'
  BY DEF KeptIfWriting, TypeOK, AcceptedKept, Handover
<1> QED BY <1>1, <1>2, <1>3, <1>4, <1>5, <1>6

LEMMA start_new_writerStep ==
  ASSUME IInv, NEW t \in Threads, start_new_writer(t) PROVE IInv'
<1> USE DEF IInv, start_new_writer, Return, Go, Fail
<1>1. TypeOK'
  <2>1. fails' \in 0 .. MaxFails
    BY WrapAssumption DEF TypeOK
  <2>2. UNCHANGED promises /\ promises \in Seq(Promise)
    BY DEF TypeOK
  <2> QED BY <2>1, <2>2 DEF TypeOK, Places, States, Handover
<1>2. Handover'
  BY DEF TypeOK, Handover
<1>3. OnePending'
  BY DEF OnePending, Handover, TypeOK
<1>4. AcceptedKept'
  BY DEF TypeOK, Handover, AcceptedKept
<1>5. FlushUnderWay'
  BY DEF TypeOK, Handover, AcceptedKept, FlushUnderWay, UnderWay, OnePending
<1>6. KeptIfWriting'
  BY DEF KeptIfWriting, TypeOK
<1> QED BY <1>1, <1>2, <1>3, <1>4, <1>5, <1>6

(* A compaction makes durable what is listed; with a writer that is on disk already.*)
LEMMA maintainStep ==
  ASSUME IInv, maintain PROVE IInv'
<1> USE DEF IInv, maintain, Return, Go, Fail
<1>1. TypeOK'
  BY WrapAssumption DEF TypeOK, Places, States, Handover
<1>2. Handover'
  BY DEF TypeOK, Handover
<1>3. OnePending'
  BY DEF OnePending, Handover, TypeOK
<1>4. AcceptedKept'
  BY DEF TypeOK, Handover, AcceptedKept
<1>5. FlushUnderWay'
  BY DEF TypeOK, Handover, AcceptedKept, FlushUnderWay, UnderWay, OnePending
<1>6. KeptIfWriting'
  BY DEF KeptIfWriting, TypeOK, AcceptedKept, Handover
<1> QED BY <1>1, <1>2, <1>3, <1>4, <1>5, <1>6

LEMMA buildStep ==
  ASSUME IInv, build PROVE IInv'
<1> USE DEF IInv, build, Return, Go, Fail
<1>1. TypeOK'
  BY WrapAssumption DEF TypeOK, Places, States, Handover
<1>2. Handover'
  BY DEF TypeOK, Handover
<1>3. OnePending'
  BY DEF OnePending, Handover, TypeOK
<1>4. AcceptedKept'
  BY DEF TypeOK, Handover, AcceptedKept
<1>5. FlushUnderWay'
  BY DEF TypeOK, Handover, AcceptedKept, FlushUnderWay, UnderWay, OnePending
<1>6. KeptIfWriting'
  BY DEF KeptIfWriting, TypeOK
<1> QED BY <1>1, <1>2, <1>3, <1>4, <1>5, <1>6

(* The flag goes down with the worker, and the pending promise is settled. *)
LEMMA OnOKStep ==
  ASSUME IInv, OnOK PROVE IInv'
<1>a. /\ Pending \in DOMAIN promises /\ promises[Pending] \in Promise
      /\ promises[Pending].status = "pending"
      /\ \A p \in DOMAIN promises : promises[p].status = "pending" => p = Pending
  BY PendingIs DEF IInv, TypeOK, OnOK
<1> DEFINE status == IF result = 0 THEN "resolved" ELSE "rejected"
<1>b. promises' = [promises EXCEPT ![Pending].status = status]
  BY DEF OnOK
<1>c. status \in {"resolved", "rejected"} /\ (status = "resolved" <=> result = 0)
  OBVIOUS
<1> HIDE DEF status
<1>d. /\ DOMAIN promises' = DOMAIN promises
      /\ \A p \in DOMAIN promises : p # Pending => promises'[p] = promises[p]
      /\ promises'[Pending] = [promises[Pending] EXCEPT !.status = status]
  BY <1>a, <1>b
<1>e. /\ promises'[Pending] \in Promise
      /\ promises'[Pending].status = status
      /\ promises'[Pending].op = promises[Pending].op
      /\ promises'[Pending].docs = promises[Pending].docs
      /\ promises'[Pending].sure = promises[Pending].sure
  BY <1>a, <1>c, <1>d DEF Promise
<1> USE DEF IInv, OnOK, Idle
<1>1. TypeOK'
  BY <1>a, <1>c, <1>d, <1>e DEF TypeOK, Places, States, Handover
<1>2. Handover'
  BY <1>a, <1>c, <1>d, <1>e DEF TypeOK, Handover
<1>3. OnePending'
  BY <1>a, <1>c, <1>d, <1>e DEF OnePending, Handover, TypeOK
<1>4. AcceptedKept'
  BY <1>a, <1>c, <1>d, <1>e DEF TypeOK, Handover, AcceptedKept
<1>5. FlushUnderWay'
  BY <1>a, <1>c, <1>d, <1>e DEF TypeOK, Handover, AcceptedKept, FlushUnderWay, UnderWay, OnePending
<1>6. KeptIfWriting'
  BY <1>a, <1>c, <1>d, <1>e DEF KeptIfWriting, TypeOK, FlushUnderWay, UnderWay
<1> QED BY <1>1, <1>2, <1>3, <1>4, <1>5, <1>6

LEMMA StopStep ==
  ASSUME IInv, Stop PROVE IInv'
<1> USE DEF IInv, Stop
<1>1. TypeOK'
  <2>1. promises' \in Seq(Promise) /\ stops' \in 0 .. MaxStops
    BY WrapAssumption DEF TypeOK
  <2> QED BY <2>1 DEF TypeOK, Places, States
<1>2. Handover'
  BY DEF TypeOK, Handover
<1>3. OnePending'
  BY DEF OnePending, Handover, TypeOK
<1>4. AcceptedKept'
  BY DEF TypeOK, Handover, AcceptedKept
<1>5. FlushUnderWay'
  BY DEF TypeOK, Handover, AcceptedKept, FlushUnderWay, UnderWay, OnePending
<1>6. KeptIfWriting'
  BY DEF KeptIfWriting, TypeOK
<1> QED BY <1>1, <1>2, <1>3, <1>4, <1>5, <1>6

LEMMA StutterStep ==
  ASSUME IInv, UNCHANGED vars PROVE IInv'
BY DEF vars, IInv, TypeOK, Handover, OnePending, AcceptedKept, FlushUnderWay, UnderWay, KeptIfWriting

-----------------------------------------------------------------------------
LEMMA InitIInv == Init => IInv
<1> SUFFICES ASSUME Init PROVE IInv
  OBVIOUS
<1>1. promises \in Seq(Promise) /\ fails \in 0 .. MaxFails /\ stops \in 0 .. MaxStops
  BY WrapAssumption DEF Init
<1>2. TypeOK
  BY <1>1 DEF Init, TypeOK, Places, States
<1>3. Handover /\ OnePending /\ AcceptedKept /\ FlushUnderWay /\ KeptIfWriting
  BY DEF Init, Handover, OnePending, AcceptedKept, FlushUnderWay, KeptIfWriting
<1> QED BY <1>2, <1>3 DEF IInv

LEMMA Inductive == IInv /\ [Next]_vars => IInv'
<1> SUFFICES ASSUME IInv, [Next]_vars PROVE IInv'
  OBVIOUS
<1>1. CASE Program
  BY <1>1, OpenStep, CloseStep, DropStep, FinalizeStep, SegmentIndexStep, AddDocumentStep,
     SearchStep, CallAsyncStep, StutterStep DEF Program, Refused
<1>2. CASE MainThread
  BY <1>2, SearchReturnsStep, add_documentStep, flushStep, registerStep, start_new_writerStep
     DEF MainThread, EngineStep
<1>3. CASE WorkerThread
  BY <1>3, ExecuteStep, flushStep, registerStep, start_new_writerStep, maintainStep, buildStep
     DEF WorkerThread, EngineStep
<1> QED
  BY <1>1, <1>2, <1>3, OnOKStep, StopStep, StutterStep DEF Next

LEMMA Invariance == Spec => []IInv
BY InitIInv, Inductive, PTL DEF Spec

-----------------------------------------------------------------------------
(* The addon's variables keep their types, and there is an engine exactly  *)
(* when the state says so: open() and close() leave no dangling pointer.   *)
THEOREM WrapTypeCorrect == Spec => []TypeOK
BY Invariance, PTL DEF IInv

(* The design's "the engine never sees two concurrent calls": the check of *)
(* the state in every method keeps the JavaScript thread and the worker    *)
(* apart, whatever the program calls and whenever the worker is scheduled. *)
THEOREM MutualExclusion == Spec => []OneAtATime
<1>1. IInv => OneAtATime
  BY DEF IInv, Handover, OneAtATime
<1> QED BY <1>1, Invariance, PTL

(* No engine is deleted under a thread that is in it or about to enter it: *)
(* close() refuses, and the worker's reference holds off the destructor.   *)
THEOREM EngineOutlivesCalls == Spec => []EngineAlive
<1>1. IInv => EngineAlive
  BY DEF IInv, TypeOK, Handover, EngineAlive
<1> QED BY <1>1, Invariance, PTL

(* A flush() that resolved has all documents accepted before it on disk,   *)
(* if the engine had a writer when it was called - auto-flushes, failed    *)
(* flushes, compactions, closes and deaths of the process in between.      *)
THEOREM ResolvedFlushIsDurable == Spec => []KeptIfWriting
BY Invariance, PTL DEF IInv
=============================================================================
