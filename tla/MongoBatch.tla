----------------------------- MODULE MongoBatch -----------------------------
(***************************************************************************)
(* The single-collection output, src/outputs/mongodb.py, with the calls    *)
(* that src/pipeline.py and src/main.py make to it: one collector that     *)
(* writes event after event and may be interrupted inside a write, a       *)
(* background worker that drains the bounded queue every flush interval,   *)
(* a monitor that waits for the worker's failure, and close().             *)
(*                                                                         *)
(* A step is what the event loop runs between two suspensions.  What the   *)
(* server does with an insert (all stored and confirmed, or any prefix     *)
(* stored and nothing confirmed) is external and nondeterministic.         *)
(*                                                                         *)
(* The Bug_ operators are plausible slips in the code, used nowhere: each  *)
(* shows that a property fails when it takes the place of its namesake.    *)
(***************************************************************************)
EXTENDS Naturals, Sequences

CONSTANTS
  Events,    (* Documents; equal documents may be written repeatedly.       *)
  QueueMax,  (* queue_maxsize.                                              *)
  BatchMax,  (* batch_maxsize, before it is cut to the queue's size.        *)
  MaxEvents  (* Bound on the messages handed to the dispatcher in one run.  *)

ASSUME QueueMaxAssumption == QueueMax \in Nat \ {0}
ASSUME BatchMaxAssumption == BatchMax \in Nat \ {0}
ASSUME MaxEventsAssumption == MaxEvents \in Nat

VARIABLES
  state,           (* _state: "new", "open", "closing", "closed"                *)
  queue,           (* the items of _queue                                      *)
  putter,          (* the document of a queue.put() task that waits for room   *)
  inflight,        (* _inflight_batch                                          *)
  worker,          (* where the worker task stands                             *)
  workerError,     (* _worker_error and _failure_event, always set together    *)
  failureReported, (* _failure_reported                                        *)
  caller,          (* the collector, as far as EventDispatcher.handle shows it *)
  monitor,         (* the task that awaits wait_failed()                       *)
  closer,          (* where close() stands                                     *)
  closeResult,     (* how close() ended                                        *)
  received,        (* StatsCollector.record_received                           *)
  forwarded,       (* StatsCollector.record_forwarded                          *)
  persisted,       (* StatsCollector.record_persisted                          *)
  accepted,        (* history: every document the queue has taken, in order    *)
  collection       (* external: the documents in the MongoDB collection        *)

callerVars == <<caller, received, forwarded>>
closeVars == <<state, closer, closeResult>>
monitorVars == <<monitor, failureReported>>
queueVars == <<queue, putter, accepted>>
workerVars == <<worker, workerError, inflight, persisted, collection>>
vars == <<callerVars, closeVars, monitorVars, queueVars, workerVars>>

(* The collector still has work to do, is inside write(), or has ended. *)
InWrite == caller \in {"blocked", "enqueued"}
CallerEnded == caller \in {"stopped", "failed"}
CloseRequested == state \in {"closing", "closed"}

(* StatsSnapshot.pending_messages, what the screen shows as unconfirmed. *)
Pending == IF forwarded > persisted THEN forwarded - persisted ELSE 0

----------------------------------------------------------------------------
(* The bounded queue.                                                      *)

BatchLimit == IF BatchMax < QueueMax THEN BatchMax ELSE QueueMax

Bug_HasRoom == Len(queue) <= QueueMax

HasRoom == Len(queue) < QueueMax

(* A drain wakes the waiting put; it runs in the next pass of the event    *)
(* loop, while the answer of a server takes at least one more.             *)
PutReady == putter # << >> /\ HasRoom

Bug_BatchSize(q) == IF Len(q) <= BatchLimit THEN Len(q) ELSE BatchLimit + 1

(* _drain_batch takes this many documents from the head of queue q. *)
BatchSize(q) == IF Len(q) < BatchLimit THEN Len(q) ELSE BatchLimit

Bug_StartBatch ==
  /\ inflight' = SubSeq(queue, 1, BatchSize(queue))
  /\ queue' = SubSeq(queue, BatchSize(queue) + 2, Len(queue))
  /\ worker' = "inserting"

StartBatch ==
  /\ inflight' = SubSeq(queue, 1, BatchSize(queue))
  /\ queue' = SubSeq(queue, BatchSize(queue) + 1, Len(queue))
  /\ worker' = "inserting"

----------------------------------------------------------------------------
Init ==
  /\ state = "new" /\ closer = "none" /\ closeResult = "none"
  /\ queue = << >> /\ putter = << >> /\ accepted = << >>
  /\ worker = "none" /\ workerError = FALSE /\ inflight = << >>
  /\ monitor = "none" /\ failureReported = FALSE
  /\ caller = "idle" /\ received = 0 /\ forwarded = 0 /\ persisted = 0
  /\ collection = << >>

(* The ping succeeds; the worker, the collector and the monitor start. *)
OpenSucceeds ==
  /\ state = "new"
  /\ state' = "open"
  /\ worker' = "waiting"
  /\ monitor' = "watching"
  /\ UNCHANGED <<callerVars, queueVars, closer, closeResult, failureReported,
                 workerError, inflight, persisted, collection>>

(* The ping fails: the client is closed and run_collector ends the run     *)
(* without calling close().                                                *)
OpenFails ==
  /\ state = "new"
  /\ state' = "closed"
  /\ caller' = "failed"
  /\ UNCHANGED <<queueVars, workerVars, monitorVars, closer, closeResult,
                 received, forwarded>>

----------------------------------------------------------------------------
(* EventDispatcher.handle and MongoBatchOutput.write.                      *)

Receive ==
  /\ state = "open"
  /\ caller = "idle"
  /\ received < MaxEvents
  /\ received' = received + 1

(* The put task finds room at once. *)
WriteEnqueues(e) ==
  /\ Receive /\ ~ workerError /\ HasRoom
  /\ caller' = "enqueued"
  /\ queue' = Append(queue, e)
  /\ accepted' = Append(accepted, e)
  /\ UNCHANGED <<workerVars, monitorVars, closeVars, putter, forwarded>>

(* The put task waits for room, and write() waits for it or for a failure. *)
WriteBlocks(e) ==
  /\ Receive /\ ~ workerError /\ ~ HasRoom
  /\ caller' = "blocked"
  /\ putter' = <<e>>
  /\ UNCHANGED <<workerVars, monitorVars, closeVars, queue, accepted, forwarded>>

WriteRefused ==
  /\ Receive /\ workerError
  /\ caller' = "failed"
  /\ UNCHANGED <<workerVars, monitorVars, closeVars, queueVars, forwarded>>

(* The waiting put task puts its document, whether or not the write() that *)
(* created it still waits.                                                 *)
PutWakes ==
  /\ PutReady
  /\ queue' = Append(queue, Head(putter))
  /\ accepted' = Append(accepted, Head(putter))
  /\ putter' = << >>
  /\ caller' = IF caller = "blocked" THEN "enqueued" ELSE caller
  /\ UNCHANGED <<workerVars, monitorVars, closeVars, received, forwarded>>

WriteReturns ==
  /\ caller = "enqueued" /\ ~ workerError
  /\ caller' = "idle"
  /\ forwarded' = forwarded + 1
  /\ UNCHANGED <<workerVars, monitorVars, closeVars, queueVars, received>>

(* The failure event ends the write; a put that is not done is cancelled. *)
WriteFails ==
  /\ InWrite /\ workerError
  /\ caller' = "failed"
  /\ putter' = << >>
  /\ UNCHANGED <<workerVars, monitorVars, closeVars, queue, accepted,
                 received, forwarded>>

Bug_StopReception ==
  /\ state = "open" /\ ~ CallerEnded
  /\ caller' = "idle"
  /\ UNCHANGED <<workerVars, monitorVars, closeVars, queueVars, received, forwarded>>

(* A stop request or the cancellation of the collector task ends the run   *)
(* between two messages or inside a write.  The put task created by a      *)
(* cancelled write is not cancelled with it.                               *)
StopReception ==
  /\ state = "open" /\ ~ CallerEnded
  /\ caller' = "stopped"
  /\ UNCHANGED <<workerVars, monitorVars, closeVars, queueVars, received, forwarded>>

----------------------------------------------------------------------------
(* The worker.                                                             *)

(* The flush timer fires, or close is requested, while the worker waits.   *)
(* A timer that finds an empty queue changes nothing.                      *)
FlushStarts ==
  /\ worker = "waiting" /\ queue # << >>
  /\ StartBatch
  /\ UNCHANGED <<callerVars, monitorVars, closeVars, putter, accepted,
                 workerError, persisted, collection>>

WorkerFinishes ==
  /\ worker = "waiting" /\ queue = << >> /\ CloseRequested
  /\ worker' = "finished"
  /\ UNCHANGED <<callerVars, monitorVars, closeVars, queueVars,
                 workerError, inflight, persisted, collection>>

Bug_AfterBatch ==
  /\ worker' = IF CloseRequested THEN "finished" ELSE "waiting"
  /\ inflight' = << >> /\ UNCHANGED queue

(* The worker goes back to its timer; while closing it takes the next      *)
(* batch without waiting, or returns when the queue is empty.              *)
AfterBatch ==
  IF CloseRequested /\ queue # << >>
  THEN StartBatch
  ELSE /\ worker' = IF CloseRequested THEN "finished" ELSE "waiting"
       /\ inflight' = << >> /\ UNCHANGED queue

InsertConfirmed ==
  /\ worker = "inserting" /\ ~ PutReady
  /\ collection' = collection \o inflight
  /\ persisted' = persisted + Len(inflight)
  /\ AfterBatch
  /\ UNCHANGED <<callerVars, monitorVars, closeVars, putter, accepted, workerError>>

(* The first k documents of the batch in flight reach the collection, but  *)
(* the answer that would say so does not come.                             *)
StoredUnconfirmed ==
  \E k \in 0 .. Len(inflight) : collection' = collection \o SubSeq(inflight, 1, k)

Bug_RetryBatch ==
  /\ worker = "inserting" /\ ~ PutReady
  /\ StoredUnconfirmed
  /\ UNCHANGED <<callerVars, monitorVars, closeVars, queueVars, inflight, persisted,
                 worker, workerError>>

Bug_SilentFailure ==
  /\ worker = "inserting" /\ ~ PutReady
  /\ StoredUnconfirmed
  /\ worker' = "failed"
  /\ UNCHANGED <<callerVars, monitorVars, closeVars, queueVars, inflight, persisted,
                 workerError>>

(* An error of the insert or its timeout ends the worker for good. *)
InsertFails ==
  /\ worker = "inserting" /\ ~ PutReady
  /\ StoredUnconfirmed
  /\ worker' = "failed"
  /\ workerError' = TRUE
  /\ UNCHANGED <<callerVars, monitorVars, closeVars, queueVars, inflight, persisted>>

----------------------------------------------------------------------------
(* The monitor of _run_collector_with_output_monitor.                      *)

(* wait_failed() marks the failure as reported and raises in one step. *)
MonitorReports ==
  /\ monitor = "watching" /\ workerError
  /\ monitor' = "raised"
  /\ failureReported' = TRUE
  /\ UNCHANGED <<callerVars, closeVars, queueVars, workerVars>>

MonitorCancelled ==
  /\ monitor = "watching" /\ CallerEnded
  /\ monitor' = "cancelled"
  /\ UNCHANGED <<callerVars, closeVars, queueVars, workerVars, failureReported>>

----------------------------------------------------------------------------
(* close(), called once the collector and the monitor have ended.          *)

CloseBegins ==
  /\ state = "open" /\ CallerEnded /\ monitor # "watching"
  /\ state' = "closing"
  /\ closer' = "flushing"
  /\ UNCHANGED <<callerVars, monitorVars, queueVars, workerVars, closeResult>>

Bug_FlushEnds ==
  /\ closer = "flushing" /\ worker = "finished"
  /\ closer' = "disconnecting"
  /\ UNCHANGED <<callerVars, monitorVars, queueVars, workerVars, state, closeResult>>

FlushEnds ==
  /\ closer = "flushing" /\ worker \in {"finished", "failed"}
  /\ closer' = "disconnecting"
  /\ UNCHANGED <<callerVars, monitorVars, queueVars, workerVars, state, closeResult>>

(* close() before open(), which the output allows and run_collector never  *)
(* does.                                                                   *)
CloseUnopened ==
  /\ state = "new"
  /\ state' = "closed"
  /\ caller' = "stopped"
  /\ UNCHANGED <<queueVars, workerVars, monitorVars, closer, closeResult,
                 received, forwarded>>

(* shutdown_timeout: wait_for cancels the worker inside its insert. *)
FlushTimesOut ==
  /\ closer = "flushing" /\ worker = "inserting" /\ ~ PutReady
  /\ worker' = "cancelled"
  /\ StoredUnconfirmed
  /\ closer' = "disconnecting"
  /\ UNCHANGED <<callerVars, monitorVars, queueVars, state, closeResult,
                 workerError, inflight, persisted>>

Bug_CloseOutcome(disconnected) ==
  IF worker = "cancelled" THEN "shutdownError"
  ELSE IF ~ disconnected THEN "closeError"
  ELSE IF workerError /\ ~ failureReported THEN "workerError"
  ELSE "ok"

(* What close() raises; only a worker that timed out is in "cancelled". *)
CloseOutcome(disconnected) ==
  IF workerError /\ ~ failureReported THEN "workerError"
  ELSE IF worker = "cancelled" THEN "shutdownError"
  ELSE IF ~ disconnected THEN "closeError"
  ELSE "ok"

Disconnect(disconnected) ==
  /\ closer = "disconnecting"
  /\ closer' = "done"
  /\ state' = "closed"
  /\ closeResult' = CloseOutcome(disconnected)
  /\ UNCHANGED <<callerVars, monitorVars, queueVars, workerVars>>

(* The run is over; run_collector returns or raises. *)
RunEnded ==
  /\ state = "closed"
  /\ UNCHANGED vars

----------------------------------------------------------------------------
Next ==
  \/ OpenSucceeds \/ OpenFails
  \/ \E e \in Events : WriteEnqueues(e) \/ WriteBlocks(e)
  \/ WriteRefused \/ PutWakes \/ WriteReturns \/ WriteFails \/ StopReception
  \/ FlushStarts \/ WorkerFinishes \/ InsertConfirmed \/ InsertFails
  \/ MonitorReports \/ MonitorCancelled
  \/ CloseUnopened \/ CloseBegins \/ FlushEnds \/ FlushTimesOut
  \/ \E disconnected \in BOOLEAN : Disconnect(disconnected)
  \/ RunEnded

(* Ready tasks run; the flush timer fires; an insert ends within           *)
(* operation_timeout; and the supervisor cancels the collector once the    *)
(* monitor has raised.  Nothing obliges messages or stop requests to come. *)
Fairness ==
  /\ WF_vars(PutWakes) /\ WF_vars(WriteReturns) /\ WF_vars(WriteFails)
  /\ WF_vars(FlushStarts) /\ WF_vars(WorkerFinishes)
  /\ WF_vars(InsertConfirmed \/ InsertFails)
  /\ WF_vars(MonitorReports) /\ WF_vars(MonitorCancelled)
  /\ WF_vars(monitor = "raised" /\ StopReception)
  /\ WF_vars(CloseBegins) /\ WF_vars(FlushEnds)
  /\ WF_vars(\E disconnected \in BOOLEAN : Disconnect(disconnected))

SafeSpec == Init /\ [][Next]_vars

Spec == SafeSpec /\ Fairness

----------------------------------------------------------------------------
PhasesOK ==
  /\ state \in {"new", "open", "closing", "closed"}
  /\ worker \in {"none", "waiting", "inserting", "finished", "failed", "cancelled"}
  /\ workerError \in BOOLEAN /\ failureReported \in BOOLEAN
  /\ caller \in {"idle", "blocked", "enqueued", "stopped", "failed"}
  /\ monitor \in {"none", "watching", "raised", "cancelled"}
  /\ closer \in {"none", "flushing", "disconnecting", "done"}
  /\ closeResult \in {"none", "ok", "workerError", "shutdownError", "closeError"}

DataOK ==
  /\ queue \in Seq(Events) /\ Len(queue) <= QueueMax
  /\ putter \in Seq(Events) /\ Len(putter) <= 1
  /\ inflight \in Seq(Events) /\ Len(inflight) <= BatchLimit
  /\ accepted \in Seq(Events) /\ collection \in Seq(Events)
  /\ received \in Nat /\ forwarded \in Nat /\ persisted \in Nat

(* Types; the queue and a batch never exceed their limits, and at most one *)
(* put waits beside them (the memory bound of __init__ and _drain_batch).  *)
TypeOK ==
  /\ PhasesOK
  /\ DataOK

(* Everything the queue ever took is, in order, confirmed, in the batch in *)
(* flight or still queued: no drain, failure or shutdown drops or reorders *)
(* a document, and exactly the confirmed ones are counted as persisted.    *)
EveryDocumentAccounted ==
  /\ persisted <= Len(collection)
  /\ accepted = SubSeq(collection, 1, persisted) \o inflight \o queue

(* A close() that raises nothing, or only the error of the client's close, *)
(* leaves no document behind, not even the one of a put task that a        *)
(* cancelled write() abandoned, unless a failure was reported earlier.     *)
CleanCloseStoredAll ==
  closeResult \in {"ok", "closeError"} /\ ~ failureReported
    => collection = accepted /\ putter = << >>

(* After the run a batch failure has been raised exactly once: by the      *)
(* monitor or else by close(), whichever of the two raced ahead, and no    *)
(* other shutdown error hides it (wait_failed, close).  A write that was   *)
(* under way may have given the same error to its caller.                  *)
FailureReportedOnce ==
  closer = "done" =>
    /\ closeResult = "workerError" <=> workerError /\ ~ failureReported
    /\ worker = "failed" <=> workerError
    /\ worker = "cancelled" <=> closeResult = "shutdownError"

(* The count the TUI shows as accepted by the queue lags behind the queue  *)
(* by at most the one document of an interrupted or unfinished write, and  *)
(* never runs ahead of it (handle counts after write returns).             *)
ForwardedWithinOne ==
  /\ forwarded <= Len(accepted)
  /\ Len(accepted) <= forwarded + 1

(* IMPLEMENTATION_PLAN.md: a batch whose outcome is unknown stays           *)
(* unconfirmed when the run ends with the error; README.md: unconfirmed are *)
(* the documents the queue accepted that were not answered with success.    *)
(* Stated for a run that was stopped and whose close() raises the failure.  *)
LostBatchStaysUnconfirmed ==
  caller = "stopped" /\ closeResult = "workerError"
    => Pending = Len(accepted) - persisted

(* The output implements at-most-once delivery in the order of acceptance, *)
(* and a collection whose worker never gave up receives everything.        *)
Delivery ==
  INSTANCE OrderedDelivery WITH
    Lanes <- {"events"},
    accepted <- [l \in {"events"} |-> accepted],
    stored <- [l \in {"events"} |-> collection],
    severed <- [l \in {"events"} |-> worker \in {"failed", "cancelled"}]

DeliverySpec == Delivery!Spec
DeliverySafeSpec == Delivery!SafeSpec

(* A collector blocked on a full queue is never forgotten: room, a failure *)
(* of the worker or a cancellation ends the wait in write().               *)
BlockedWriteEnds == caller = "blocked" ~> caller # "blocked"

(* A failed batch ends the run even when no further message arrives: the   *)
(* monitor stops the collector and close() completes.                      *)
FailureEndsRun == workerError ~> closer = "done"

----------------------------------------------------------------------------
(* The inductive invariant behind the safety properties.                   *)

(* The phases of close() and of the worker follow the lifecycle. *)
LifecycleInv ==
  /\ state = "new" => worker = "none" /\ closer = "none"
  /\ state = "open" => closer = "none" /\ worker \in {"waiting", "inserting", "failed"}
  /\ state = "closing" => closer \in {"flushing", "disconnecting"} /\ CallerEnded
  /\ state = "closed" => closer \in {"none", "done"} /\ CallerEnded
  /\ state = "closed" /\ closer = "none" => worker = "none"
  /\ closer = "flushing" => worker \in {"waiting", "inserting", "finished", "failed"}
  /\ closer \in {"disconnecting", "done"} => worker \in {"finished", "failed", "cancelled"}
  /\ InWrite => state = "open"
  /\ state = "new" => monitor = "none"
  /\ state \in {"closing", "closed"} => monitor # "watching"

(* A waiting put belongs to the write in progress or to an interrupted one, *)
(* and is left waiting only while the queue is full.                        *)
PutterInv ==
  /\ caller \in {"idle", "enqueued"} => putter = << >>
  /\ caller = "blocked" => putter # << >>
  /\ worker \notin {"inserting"} => ~ PutReady
  /\ worker = "none" => queue = << >> /\ putter = << >> /\ collection = << >>
  /\ worker = "finished" => queue = << >> /\ putter = << >>

(* The collection is a prefix of what was accepted; it is longer than the   *)
(* confirmed part only after the worker gave up on a batch.                 *)
StoredInv ==
  /\ Len(collection) <= Len(accepted)
  /\ collection = SubSeq(accepted, 1, Len(collection))
  /\ worker \notin {"failed", "cancelled"} => persisted = Len(collection)
  /\ worker \in {"none", "waiting", "finished"} => inflight = << >>
  /\ worker = "inserting" => inflight # << >>

FailureInv ==
  /\ workerError <=> worker = "failed"
  /\ failureReported => workerError
  /\ closeResult = "none" <=> closer # "done"

CountInv ==
  /\ caller \in {"idle", "blocked"} => Len(accepted) = forwarded
  /\ caller = "enqueued" => Len(accepted) = forwarded + 1
  /\ CallerEnded => Len(accepted) \in {forwarded, forwarded + 1}
  /\ putter # << >> => Len(accepted) = forwarded

IInv ==
  /\ TypeOK
  /\ LifecycleInv
  /\ PutterInv
  /\ EveryDocumentAccounted
  /\ StoredInv
  /\ FailureInv
  /\ FailureReportedOnce
  /\ CountInv
============================================================================
