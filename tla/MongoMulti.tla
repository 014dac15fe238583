----------------------------- MODULE MongoMulti -----------------------------
(***************************************************************************)
(* The multi-collection output, src/outputs/mongodb_multi.py, between the  *)
(* connections that write to it (src/multi_pipeline.py) and the supervisor *)
(* of src/multi_runtime.py.  Every route has an unbounded queue and one    *)
(* worker; a budget shared by all routes bounds the documents and bytes    *)
(* that are queued, held back or in flight, and a semaphore bounds the     *)
(* inserts that run at the same time.                                      *)
(*                                                                         *)
(* A step is what the event loop runs between two suspensions.  The        *)
(* budget's condition is never held across a suspension, so acquiring or   *)
(* releasing it and what follows is one step; notify_all lets every        *)
(* blocked write look at the budget again.                                 *)
(*                                                                         *)
(* The Bug_ operators are plausible slips in the code, used nowhere: each  *)
(* shows that a property fails when it takes the place of its namesake.    *)
(***************************************************************************)
EXTENDS Naturals, Sequences, FiniteSets, Functions

CONSTANTS
  Routes,         (* The collections, one worker each.                        *)
  Connections,    (* The WebSocket connections that hand over events.         *)
  Documents,      (* The documents that may be written, each with ...         *)
  RouteOf,        (* ... the route of its stream type and ...                 *)
  SizeOf,         (* ... its BSON size, and ...                               *)
  SourcesOf,      (* ... the connections its stream arrives on.               *)
  Unencodable,    (* The documents BSON cannot hold (an integer over 64 bits). *)
  BufferMaxDocuments, BufferMaxBytes, (* The limits of the shared budget.     *)
  BatchMaxDocuments, BatchMaxBytes,   (* The limits of one insert.            *)
  MaxConcurrentWrites,                (* Permits of the write semaphore.      *)
  MaxEvents                           (* Bound on the messages of one run.    *)

ASSUME RoutesAssumption == IsFiniteSet(Routes)
ASSUME RouteOfAssumption == RouteOf \in [Documents -> Routes]
ASSUME SizeOfAssumption == SizeOf \in [Documents -> Nat]
ASSUME SourcesOfAssumption == SourcesOf \in [Documents -> SUBSET Connections]
ASSUME LimitsAssumption ==
  /\ BufferMaxDocuments \in Nat \ {0} /\ BufferMaxBytes \in Nat \ {0}
  /\ BatchMaxDocuments \in Nat \ {0} /\ BatchMaxBytes \in Nat \ {0}
  /\ MaxConcurrentWrites \in Nat \ {0} /\ MaxEvents \in Nat

VARIABLES
  state,            (* _state                                                  *)
  closer,           (* where close() stands                                    *)
  closeResult,      (* how close() ended                                       *)
  monitor,          (* the task that awaits wait_failed()                      *)
  failureReported,  (* _failure_reported                                       *)
  workerErrors,     (* the keys of _worker_errors; non-empty exactly when      *)
                    (* _failure_event and the budget's _failed are set         *)
  documents, bytes, (* BufferBudget.documents and .bytes                       *)
  pendingDocuments, (* _pending_documents                                      *)
  pendingBytes,     (* _pending_bytes                                          *)
  queue,            (* _queues                                                 *)
  carry,            (* the document a worker holds back for its next batch     *)
  batch,            (* the batch a worker assembles, then its _inflight entry  *)
  worker,           (* where each worker stands                                *)
  permits,          (* the routes waiting for _write_semaphore, in order       *)
  caller,           (* each connection, as far as its dispatcher call shows it *)
  waiting,          (* the document of a write blocked on the budget           *)
  received,         (* messages handed to the dispatcher                       *)
  persisted,        (* confirmed documents of each route                       *)
  accepted,         (* history: the documents each queue took, in order        *)
  collection        (* external: the documents in each MongoDB collection      *)

closeVars == <<state, closer, closeResult>>
monitorVars == <<monitor, failureReported>>
budgetVars == <<documents, bytes, pendingDocuments, pendingBytes>>
workerVars == <<worker, carry, batch, permits>>
storeVars == <<persisted, collection>>
callerVars == <<caller, waiting, received>>
vars == <<closeVars, monitorVars, workerErrors, budgetVars, queue, workerVars,
          callerVars, storeVars, accepted>>

----------------------------------------------------------------------------
Failed == workerErrors # {}
CloseRequested == state \in {"closing", "closed"}
CallersEnded == \A c \in Connections : caller[c] \in {"stopped", "failed"}
Inserting == {r \in Routes : worker[r] = "inserting"}

BatchLimit ==
  IF BatchMaxDocuments < BufferMaxDocuments THEN BatchMaxDocuments ELSE BufferMaxDocuments
BatchByteLimit ==
  IF BatchMaxBytes < BufferMaxBytes THEN BatchMaxBytes ELSE BufferMaxBytes

(* The BSON bytes of a sequence of documents. *)
BytesOf(s) == SumFunction([i \in DOMAIN s |-> SizeOf[s[i]]])

Bug_Fits(d) ==
  /\ documents <= BufferMaxDocuments
  /\ bytes + SizeOf[d] <= BufferMaxBytes

(* BufferBudget: room for one more document of this size. *)
Fits(d) ==
  /\ documents < BufferMaxDocuments
  /\ bytes + SizeOf[d] <= BufferMaxBytes

----------------------------------------------------------------------------
Init ==
  /\ state = "new" /\ closer = "none" /\ closeResult = "none"
  /\ monitor = "none" /\ failureReported = FALSE /\ workerErrors = {}
  /\ documents = 0 /\ bytes = 0
  /\ pendingDocuments = [r \in Routes |-> 0] /\ pendingBytes = [r \in Routes |-> 0]
  /\ queue = [r \in Routes |-> << >>]
  /\ carry = [r \in Routes |-> << >>] /\ batch = [r \in Routes |-> << >>]
  /\ worker = [r \in Routes |-> "none"] /\ permits = << >>
  /\ caller = [c \in Connections |-> "idle"]
  /\ waiting = [c \in Connections |-> << >>] /\ received = 0
  /\ persisted = [r \in Routes |-> 0]
  /\ accepted = [r \in Routes |-> << >>]
  /\ collection = [r \in Routes |-> << >>]

(* Ping and index creation succeed; workers, connections and monitor start. *)
OpenSucceeds ==
  /\ state = "new"
  /\ state' = "open"
  /\ worker' = [r \in Routes |-> "first"]
  /\ monitor' = "watching"
  /\ UNCHANGED <<closer, closeResult, failureReported, workerErrors, budgetVars, queue,
                 carry, batch, permits, callerVars, storeVars, accepted>>

(* Ping or an index fails: the client is closed and the run ends. *)
OpenFails ==
  /\ state = "new"
  /\ state' = "closed"
  /\ caller' = [c \in Connections |-> "failed"]
  /\ UNCHANGED <<closer, closeResult, monitorVars, workerErrors, budgetVars, queue,
                 workerVars, waiting, received, storeVars, accepted>>

----------------------------------------------------------------------------
(* MultiStreamEventDispatcher.handle and MongoMultiCollectionOutput.write. *)

(* Between the granted acquire and the return of write() nothing suspends: *)
(* the document is counted, queued and reported as forwarded in one step.  *)
Accept(d) ==
  LET r == RouteOf[d] IN
  /\ documents' = documents + 1
  /\ bytes' = bytes + SizeOf[d]
  /\ pendingDocuments' = [pendingDocuments EXCEPT ![r] = @ + 1]
  /\ pendingBytes' = [pendingBytes EXCEPT ![r] = @ + SizeOf[d]]
  /\ queue' = [queue EXCEPT ![r] = Append(@, d)]
  /\ accepted' = [accepted EXCEPT ![r] = Append(@, d)]

Receive(c, d) ==
  /\ state = "open"
  /\ caller[c] = "idle" /\ c \in SourcesOf[d]
  /\ received < MaxEvents
  /\ received' = received + 1

WriteAccepted(c, d) ==
  /\ Receive(c, d) /\ ~ Failed /\ d \notin Unencodable /\ Fits(d)
  /\ Accept(d)
  /\ UNCHANGED <<closeVars, monitorVars, workerErrors, workerVars, caller, waiting, storeVars>>

WriteBlocks(c, d) ==
  /\ Receive(c, d) /\ ~ Failed /\ d \notin Unencodable
  /\ SizeOf[d] <= BufferMaxBytes /\ ~ Fits(d)
  /\ caller' = [caller EXCEPT ![c] = "blocked"]
  /\ waiting' = [waiting EXCEPT ![c] = <<d>>]
  /\ UNCHANGED <<closeVars, monitorVars, workerErrors, budgetVars, queue, workerVars,
                 storeVars, accepted>>

(* A failed output, an event that cannot be encoded, or a document larger  *)
(* than the whole buffer.                                                  *)
WriteRefused(c, d) ==
  /\ Receive(c, d) /\ (Failed \/ d \in Unencodable \/ SizeOf[d] > BufferMaxBytes)
  /\ caller' = [caller EXCEPT ![c] = "failed"]
  /\ UNCHANGED <<closeVars, monitorVars, workerErrors, budgetVars, queue, workerVars,
                 waiting, storeVars, accepted>>

(* A blocked write is notified and finds room. *)
WriteResumes(c) ==
  /\ caller[c] = "blocked" /\ ~ Failed
  /\ Fits(Head(waiting[c]))
  /\ Accept(Head(waiting[c]))
  /\ caller' = [caller EXCEPT ![c] = "idle"]
  /\ waiting' = [waiting EXCEPT ![c] = << >>]
  /\ UNCHANGED <<closeVars, monitorVars, workerErrors, workerVars, received, storeVars>>

(* mark_failed notifies it, and acquire raises. *)
WriteFails(c) ==
  /\ caller[c] = "blocked" /\ Failed
  /\ caller' = [caller EXCEPT ![c] = "failed"]
  /\ waiting' = [waiting EXCEPT ![c] = << >>]
  /\ UNCHANGED <<closeVars, monitorVars, workerErrors, budgetVars, queue, workerVars,
                 received, storeVars, accepted>>

(* The stop request, seen between two messages, or the cancellation of the *)
(* connection's task, also inside a write that waits for the budget.       *)
StopConnection(c) ==
  /\ state = "open" /\ caller[c] \in {"idle", "blocked"}
  /\ caller' = [caller EXCEPT ![c] = "stopped"]
  /\ waiting' = [waiting EXCEPT ![c] = << >>]
  /\ UNCHANGED <<closeVars, monitorVars, workerErrors, budgetVars, queue, workerVars,
                 received, storeVars, accepted>>

----------------------------------------------------------------------------
(* _run_worker: assembling a batch.  _first_document and                   *)
(* _next_batch_document wait only while the queue is empty.                *)

Ended(r) == worker[r] \in {"finished", "failed", "cancelled"}

(* The batch is complete: it becomes the _inflight entry and the worker    *)
(* queues up for the semaphore.                                            *)
Submit(r) ==
  /\ worker' = [worker EXCEPT ![r] = "ready"]
  /\ permits' = Append(permits, r)

(* Where the worker goes on with this batch; only a document appended in   *)
(* the loop, not the first one, ends the batch by its bytes.               *)
Continue(r, docs, full) ==
  /\ batch' = [batch EXCEPT ![r] = docs]
  /\ IF full THEN Submit(r)
             ELSE worker' = [worker EXCEPT ![r] = "filling"] /\ UNCHANGED permits

TakeFirst(r) ==
  /\ worker[r] = "first"
  /\ \/ /\ carry[r] # << >>
        /\ Continue(r, carry[r], BatchLimit = 1)
        /\ UNCHANGED queue
     \/ /\ carry[r] = << >> /\ queue[r] # << >>
        /\ Continue(r, <<Head(queue[r])>>, BatchLimit = 1)
        /\ queue' = [queue EXCEPT ![r] = Tail(@)]
  /\ carry' = [carry EXCEPT ![r] = << >>]
  /\ UNCHANGED <<closeVars, monitorVars, workerErrors, budgetVars, callerVars, storeVars,
                 accepted>>

Bug_WorkerReturns(r) ==
  /\ worker[r] = "first" /\ CloseRequested /\ carry[r] = << >>
  /\ worker' = [worker EXCEPT ![r] = "finished"]
  /\ UNCHANGED <<closeVars, monitorVars, workerErrors, budgetVars, queue, carry, batch,
                 permits, callerVars, storeVars, accepted>>

WorkerReturns(r) ==
  /\ worker[r] = "first" /\ CloseRequested
  /\ carry[r] = << >> /\ queue[r] = << >>
  /\ worker' = [worker EXCEPT ![r] = "finished"]
  /\ UNCHANGED <<closeVars, monitorVars, workerErrors, budgetVars, queue, carry, batch,
                 permits, callerVars, storeVars, accepted>>

Bug_FillTake(r) ==
  LET d == Head(queue[r])
      filled == BytesOf(batch[r]) + SizeOf[d] IN
  /\ worker[r] = "filling" /\ queue[r] # << >>
  /\ queue' = [queue EXCEPT ![r] = Tail(@)]
  /\ Continue(r, IF filled > BatchByteLimit THEN batch[r] ELSE Append(batch[r], d),
              Len(batch[r]) + 1 = BatchLimit \/ filled >= BatchByteLimit)
  /\ UNCHANGED <<closeVars, monitorVars, workerErrors, budgetVars, carry, callerVars,
                 storeVars, accepted>>

FillTake(r) ==
  LET d == Head(queue[r])
      filled == BytesOf(batch[r]) + SizeOf[d] IN
  /\ worker[r] = "filling" /\ queue[r] # << >>
  /\ queue' = [queue EXCEPT ![r] = Tail(@)]
  /\ \/ /\ filled > BatchByteLimit
        /\ carry' = [carry EXCEPT ![r] = <<d>>]
        /\ Continue(r, batch[r], TRUE)
     \/ /\ filled <= BatchByteLimit
        /\ Continue(r, Append(batch[r], d),
                    Len(batch[r]) + 1 = BatchLimit \/ filled = BatchByteLimit)
        /\ UNCHANGED carry
  /\ UNCHANGED <<closeVars, monitorVars, workerErrors, budgetVars, callerVars, storeVars,
                 accepted>>

(* The queue is empty, and the flush interval has passed or close() was    *)
(* called.                                                                 *)
FillStops(r) ==
  /\ worker[r] = "filling" /\ queue[r] = << >>
  /\ Submit(r)
  /\ UNCHANGED <<closeVars, monitorVars, workerErrors, budgetVars, queue, carry, batch,
                 callerVars, storeVars, accepted>>

----------------------------------------------------------------------------
(* _persist_batch.                                                         *)

Bug_StartInsert(r) ==
  /\ permits # << >> /\ Head(permits) = r
  /\ worker' = [worker EXCEPT ![r] = "inserting"]
  /\ permits' = Tail(permits)
  /\ UNCHANGED <<closeVars, monitorVars, workerErrors, budgetVars, queue, carry, batch,
                 callerVars, storeVars, accepted>>

(* asyncio.Semaphore serves its waiters in order. *)
StartInsert(r) ==
  /\ permits # << >> /\ Head(permits) = r
  /\ Cardinality(Inserting) < MaxConcurrentWrites
  /\ worker' = [worker EXCEPT ![r] = "inserting"]
  /\ permits' = Tail(permits)
  /\ UNCHANGED <<closeVars, monitorVars, workerErrors, budgetVars, queue, carry, batch,
                 callerVars, storeVars, accepted>>

Bug_Confirm(r, k) ==
  /\ documents' = documents - k
  /\ bytes' = bytes - BytesOf(batch[r])
  /\ pendingDocuments' = [pendingDocuments EXCEPT ![r] = @ - k]
  /\ pendingBytes' = [pendingBytes EXCEPT ![r] = @ - BytesOf(SubSeq(batch[r], 1, k))]
  /\ persisted' = [persisted EXCEPT ![r] = @ + k]
  /\ batch' = [batch EXCEPT ![r] = SubSeq(@, k + 1, Len(@))]

(* _confirm_batch for the first k documents of the batch. *)
Confirm(r, k) ==
  LET size == BytesOf(SubSeq(batch[r], 1, k)) IN
  /\ documents' = documents - k
  /\ bytes' = bytes - size
  /\ pendingDocuments' = [pendingDocuments EXCEPT ![r] = @ - k]
  /\ pendingBytes' = [pendingBytes EXCEPT ![r] = @ - size]
  /\ persisted' = [persisted EXCEPT ![r] = @ + k]
  /\ batch' = [batch EXCEPT ![r] = SubSeq(@, k + 1, Len(@))]

(* insert_many is ordered: what it stored is a prefix of the batch. *)
StoredBy(r, k) == collection[r] \o SubSeq(batch[r], 1, k)

Bug_WorkerFails(r) ==
  /\ worker' = [worker EXCEPT ![r] = "failed"]
  /\ UNCHANGED workerErrors

(* The except clause of _run_worker; mark_failed wakes blocked writes. *)
WorkerFails(r) ==
  /\ worker' = [worker EXCEPT ![r] = "failed"]
  /\ workerErrors' = workerErrors \union {r}

InsertConfirmed(r) ==
  /\ worker[r] = "inserting"
  /\ collection' = [collection EXCEPT ![r] = StoredBy(r, Len(batch[r]))]
  /\ Confirm(r, Len(batch[r]))
  /\ worker' = [worker EXCEPT ![r] = "first"]
  /\ UNCHANGED <<closeVars, monitorVars, workerErrors, queue, carry, permits, callerVars,
                 accepted>>

(* BulkWriteError: the server names the number k of inserted documents;    *)
(* they are confirmed and the rest stays in flight.                        *)
InsertPartial(r, k) ==
  /\ worker[r] = "inserting" /\ k <= Len(batch[r])
  /\ collection' = [collection EXCEPT ![r] = StoredBy(r, k)]
  /\ Confirm(r, k)
  /\ WorkerFails(r)
  /\ UNCHANGED <<closeVars, monitorVars, queue, carry, permits, callerVars, accepted>>

Bug_InsertLost(r, k) ==
  /\ worker[r] = "inserting" /\ k <= Len(batch[r])
  /\ collection' = [collection EXCEPT ![r] = StoredBy(r, k)]
  /\ Submit(r)
  /\ UNCHANGED <<closeVars, monitorVars, workerErrors, budgetVars, queue, carry, batch,
                 callerVars, persisted, accepted>>

(* Any other error, or operation_timeout: nothing is confirmed although k  *)
(* documents were stored.                                                  *)
InsertLost(r, k) ==
  /\ worker[r] = "inserting" /\ k <= Len(batch[r])
  /\ collection' = [collection EXCEPT ![r] = StoredBy(r, k)]
  /\ WorkerFails(r)
  /\ UNCHANGED <<closeVars, monitorVars, budgetVars, queue, carry, batch, permits,
                 callerVars, persisted, accepted>>

InsertEnds(r) ==
  \/ InsertConfirmed(r)
  \/ \E k \in 0 .. BatchLimit : InsertPartial(r, k) \/ InsertLost(r, k)

----------------------------------------------------------------------------
(* The supervisor's monitor and close().                                   *)

MonitorReports ==
  /\ monitor = "watching" /\ Failed
  /\ monitor' = "raised"
  /\ failureReported' = TRUE
  /\ UNCHANGED <<closeVars, workerErrors, budgetVars, queue, workerVars, callerVars,
                 storeVars, accepted>>

MonitorCancelled ==
  /\ monitor = "watching" /\ CallersEnded
  /\ monitor' = "cancelled"
  /\ UNCHANGED <<closeVars, failureReported, workerErrors, budgetVars, queue, workerVars,
                 callerVars, storeVars, accepted>>

CloseBegins ==
  /\ state = "open" /\ CallersEnded /\ monitor # "watching"
  /\ state' = "closing"
  /\ closer' = "flushing"
  /\ UNCHANGED <<closeResult, monitorVars, workerErrors, budgetVars, queue, workerVars,
                 callerVars, storeVars, accepted>>

Bug_FlushEnds ==
  /\ closer = "flushing" /\ \A r \in Routes : worker[r] = "finished"
  /\ closer' = "disconnecting"
  /\ UNCHANGED <<state, closeResult, monitorVars, workerErrors, budgetVars, queue,
                 workerVars, callerVars, storeVars, accepted>>

FlushEnds ==
  /\ closer = "flushing" /\ \A r \in Routes : Ended(r)
  /\ closer' = "disconnecting"
  /\ UNCHANGED <<state, closeResult, monitorVars, workerErrors, budgetVars, queue,
                 workerVars, callerVars, storeVars, accepted>>

(* close() before open(), which the output allows and the runtime never    *)
(* does.                                                                   *)
CloseUnopened ==
  /\ state = "new"
  /\ state' = "closed"
  /\ caller' = [c \in Connections |-> "stopped"]
  /\ UNCHANGED <<closer, closeResult, monitorVars, workerErrors, budgetVars, queue,
                 workerVars, waiting, received, storeVars, accepted>>

(* shutdown_timeout: every worker that has not returned is cancelled where *)
(* it stands.  A worker that waits for its next document does not watch    *)
(* _close_requested, and the constructor accepts a flush_interval above    *)
(* the shutdown_timeout, so it may still be assembling a batch.            *)
FlushTimesOut ==
  /\ closer = "flushing"
  /\ \E r \in Routes : ~ Ended(r)
  /\ worker' = [r \in Routes |-> IF Ended(r) THEN worker[r] ELSE "cancelled"]
  /\ permits' = << >>
  /\ \E k \in [Inserting -> 0 .. BatchLimit] :
       /\ \A r \in Inserting : k[r] <= Len(batch[r])
       /\ collection' = [r \in Routes |->
                           IF r \in Inserting THEN StoredBy(r, k[r]) ELSE collection[r]]
  /\ closer' = "disconnecting"
  /\ UNCHANGED <<state, closeResult, monitorVars, workerErrors, budgetVars, queue, carry,
                 batch, callerVars, persisted, accepted>>

Bug_CloseOutcome(disconnected) ==
  IF \E r \in Routes : worker[r] = "cancelled" THEN "shutdownError"
  ELSE IF ~ disconnected THEN "closeError"
  ELSE IF Failed /\ ~ failureReported THEN "workerError"
  ELSE "ok"

CloseOutcome(disconnected) ==
  IF Failed /\ ~ failureReported THEN "workerError"
  ELSE IF \E r \in Routes : worker[r] = "cancelled" THEN "shutdownError"
  ELSE IF ~ disconnected THEN "closeError"
  ELSE "ok"

Disconnect(disconnected) ==
  /\ closer = "disconnecting"
  /\ closer' = "done"
  /\ state' = "closed"
  /\ closeResult' = CloseOutcome(disconnected)
  /\ UNCHANGED <<monitorVars, workerErrors, budgetVars, queue, workerVars, callerVars,
                 storeVars, accepted>>

(* run_multi_stream_collection returns or raises. *)
RunEnded ==
  /\ state = "closed"
  /\ UNCHANGED vars

----------------------------------------------------------------------------
Next ==
  \/ OpenSucceeds \/ OpenFails
  \/ \E c \in Connections :
       \/ \E d \in Documents : WriteAccepted(c, d) \/ WriteBlocks(c, d) \/ WriteRefused(c, d)
       \/ WriteResumes(c) \/ WriteFails(c) \/ StopConnection(c)
  \/ \E r \in Routes :
       \/ TakeFirst(r) \/ WorkerReturns(r) \/ FillTake(r) \/ FillStops(r)
       \/ StartInsert(r) \/ InsertEnds(r)
  \/ MonitorReports \/ MonitorCancelled
  \/ CloseUnopened \/ CloseBegins \/ FlushEnds \/ FlushTimesOut
  \/ \E disconnected \in BOOLEAN : Disconnect(disconnected)
  \/ RunEnded

(* MultiStreamCollector and the supervisor end every connection once the   *)
(* monitor has raised or one connection has ended.                         *)
CollectionEnding ==
  monitor = "raised" \/ \E c \in Connections : caller[c] \in {"stopped", "failed"}

(* Ready tasks run; the flush interval passes; an insert ends within       *)
(* operation_timeout; a connection that waits for its next message sees    *)
(* that the collection is ending.                                          *)
Fairness ==
  /\ \A c \in Connections :
       /\ WF_vars(WriteResumes(c)) /\ WF_vars(WriteFails(c))
       /\ WF_vars(CollectionEnding /\ caller[c] = "idle" /\ StopConnection(c))
  /\ \A r \in Routes :
       /\ WF_vars(TakeFirst(r) \/ WorkerReturns(r))
       /\ WF_vars(FillTake(r) \/ FillStops(r))
       /\ WF_vars(StartInsert(r)) /\ WF_vars(InsertEnds(r))
  /\ WF_vars(MonitorReports) /\ WF_vars(MonitorCancelled)
  /\ WF_vars(CloseBegins) /\ WF_vars(FlushEnds)
  /\ WF_vars(\E disconnected \in BOOLEAN : Disconnect(disconnected))

SafeSpec == Init /\ [][Next]_vars

Spec == SafeSpec /\ Fairness

----------------------------------------------------------------------------
(* The documents a route holds outside MongoDB, in order. *)
Held(r) == batch[r] \o carry[r] \o queue[r]

(* Types, and the limits of the shared buffer. *)
TypeOK ==
  /\ state \in {"new", "open", "closing", "closed"}
  /\ closer \in {"none", "flushing", "disconnecting", "done"}
  /\ closeResult \in {"none", "ok", "workerError", "shutdownError", "closeError"}
  /\ monitor \in {"none", "watching", "raised", "cancelled"}
  /\ failureReported \in BOOLEAN /\ workerErrors \subseteq Routes
  /\ documents \in 0 .. BufferMaxDocuments /\ bytes \in 0 .. BufferMaxBytes
  /\ pendingDocuments \in [Routes -> Nat] /\ pendingBytes \in [Routes -> Nat]
  /\ queue \in [Routes -> Seq(Documents)]
  /\ carry \in [Routes -> Seq(Documents)] /\ batch \in [Routes -> Seq(Documents)]
  /\ worker \in [Routes -> {"none", "first", "filling", "ready", "inserting",
                            "finished", "failed", "cancelled"}]
  /\ permits \in Seq(Routes)
  /\ caller \in [Connections -> {"idle", "blocked", "stopped", "failed"}]
  /\ waiting \in [Connections -> Seq(Documents)]
  /\ received \in Nat /\ persisted \in [Routes -> Nat]
  /\ accepted \in [Routes -> Seq(Documents)] /\ collection \in [Routes -> Seq(Documents)]

(* The budget's two counters, the per-route counters shown to the user and *)
(* the documents really held agree after every step: nothing is released   *)
(* twice or forgotten on its way from the queue over the carry and the     *)
(* batch, nor when a bulk write fails half way (acquire, _confirm_batch).  *)
BudgetExact ==
  /\ \A r \in Routes :
       /\ pendingDocuments[r] = Len(Held(r))
       /\ pendingBytes[r] = BytesOf(Held(r))
  /\ documents = SumFunction([r \in Routes |-> Len(Held(r))])
  /\ bytes = SumFunction([r \in Routes |-> BytesOf(Held(r))])

(* No insert exceeds the batch limits, except one with a single document   *)
(* that is itself larger, and no more inserts run than the semaphore has   *)
(* permits (_run_worker, _persist_batch).                                  *)
InsertsWithinLimits ==
  /\ Cardinality(Inserting) <= MaxConcurrentWrites
  /\ \A r \in Inserting :
       /\ Len(batch[r]) \in 1 .. BatchLimit
       /\ BytesOf(batch[r]) <= BatchByteLimit \/ Len(batch[r]) = 1

(* On every route: what its queue ever took is, in order, confirmed, in    *)
(* its batch, held back or queued, whatever happens to other routes.       *)
EveryDocumentAccounted ==
  \A r \in Routes :
    /\ persisted[r] <= Len(collection[r])
    /\ accepted[r] = SubSeq(collection[r], 1, persisted[r]) \o Held(r)

(* A failed route never keeps a healthy one from writing everything it has *)
(* accepted: after a close() without shutdown timeout only routes whose    *)
(* own insert failed are incomplete, and such a failure was reported.      *)
CleanCloseStoredAll ==
  closeResult \in {"ok", "closeError"} =>
    /\ \A r \in Routes \ workerErrors : collection[r] = accepted[r]
    /\ Failed => failureReported

(* However many workers fail, before or while close() runs, the failure is *)
(* raised exactly once, and a shutdown timeout is not lost behind it when  *)
(* it was reported before (wait_failed, close).                            *)
FailureReportedOnce ==
  closer = "done" =>
    /\ closeResult = "workerError" <=> Failed /\ ~ failureReported
    /\ closeResult = "shutdownError" <=>
         /\ \E r \in Routes : worker[r] = "cancelled"
         /\ ~ Failed \/ failureReported
    /\ \A r \in Routes : worker[r] = "failed" <=> r \in workerErrors

(* Each collection receives at most once and in order what its queue took; *)
(* one whose worker never gave up receives everything.                     *)
Delivery ==
  INSTANCE OrderedDelivery WITH
    Lanes <- Routes,
    Events <- Documents,
    stored <- collection,
    severed <- [r \in Routes |-> worker[r] \in {"failed", "cancelled"}]

DeliverySpec == Delivery!Spec
DeliverySafeSpec == Delivery!SafeSpec

(* A write blocked on the shared budget, whichever routes hold it, is      *)
(* granted, refused or cancelled: no wake-up is lost (release,             *)
(* mark_failed).                                                           *)
BlockedWriteEnds ==
  \A c \in Connections : caller[c] = "blocked" ~> caller[c] # "blocked"

(* The failure of one route ends the whole run, other routes flushing      *)
(* first, even when no further message arrives.                            *)
FailureEndsRun == Failed ~> closer = "done"
============================================================================
