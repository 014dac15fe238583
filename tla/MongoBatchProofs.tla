-------------------------- MODULE MongoBatchProofs --------------------------
(***************************************************************************)
(* Proofs about MongoBatch for all documents, queue sizes, batch sizes and *)
(* run lengths.  IInv is inductive; the checked safety properties and the  *)
(* step simulation of OrderedDelivery follow from it.  The phases of the   *)
(* tasks, the typing of the data and the bookkeeping are separate lemmas.  *)
(***************************************************************************)
EXTENDS MongoBatch, SequenceFacts, SequenceTheorems, TLAPS

USE QueueMaxAssumption, BatchMaxAssumption, MaxEventsAssumption

USE DEF callerVars, closeVars, monitorVars, queueVars, workerVars

----------------------------------------------------------------------------
(* The phases of the worker, the monitor and close().                      *)

Phases == PhasesOK /\ LifecycleInv /\ FailureInv /\ FailureReportedOnce

LEMMA PhasesInit == Init => Phases
  BY DEF Init, Phases, PhasesOK, LifecycleInv, FailureInv, FailureReportedOnce,
         InWrite, CallerEnded

LEMMA PhasesPreserved == Phases /\ [Next]_vars => Phases'
<1> SUFFICES ASSUME Phases, [Next]_vars PROVE Phases'
  OBVIOUS
<1> USE DEF Phases, PhasesOK, LifecycleInv, FailureInv, FailureReportedOnce,
            InWrite, CallerEnded, CloseRequested
<1>1. CASE OpenSucceeds
  BY <1>1 DEF OpenSucceeds
<1>2. CASE OpenFails
  BY <1>2 DEF OpenFails
<1>3. ASSUME NEW e \in Events, WriteEnqueues(e)
      PROVE  Phases'
  BY <1>3 DEF WriteEnqueues, Receive
<1>4. ASSUME NEW e \in Events, WriteBlocks(e)
      PROVE  Phases'
  BY <1>4 DEF WriteBlocks, Receive
<1>5. CASE WriteRefused
  BY <1>5 DEF WriteRefused, Receive
<1>6. CASE PutWakes
  BY <1>6 DEF PutWakes
<1>7. CASE WriteReturns
  BY <1>7 DEF WriteReturns
<1>8. CASE WriteFails
  BY <1>8 DEF WriteFails
<1>9. CASE StopReception
  BY <1>9 DEF StopReception
<1>10. CASE FlushStarts
  BY <1>10 DEF FlushStarts, StartBatch
<1>11. CASE WorkerFinishes
  BY <1>11 DEF WorkerFinishes
<1>12. CASE InsertConfirmed
  BY <1>12 DEF InsertConfirmed, AfterBatch, StartBatch
<1>13. CASE InsertFails
  BY <1>13 DEF InsertFails
<1>14. CASE MonitorReports
  BY <1>14 DEF MonitorReports
<1>15. CASE MonitorCancelled
  BY <1>15 DEF MonitorCancelled
<1>16. CASE CloseUnopened
  BY <1>16 DEF CloseUnopened
<1>17. CASE CloseBegins
  BY <1>17 DEF CloseBegins
<1>18. CASE FlushEnds
  BY <1>18 DEF FlushEnds
<1>19. CASE FlushTimesOut
  BY <1>19 DEF FlushTimesOut
<1>20. ASSUME NEW disconnected \in BOOLEAN, Disconnect(disconnected)
       PROVE  Phases'
  BY <1>20 DEF Disconnect, CloseOutcome
<1>21. CASE UNCHANGED vars
  BY <1>21 DEF vars
<1>22. QED
  BY <1>1, <1>2, <1>3, <1>4, <1>5, <1>6, <1>7, <1>8, <1>9, <1>10, <1>11, <1>12,
     <1>13, <1>14, <1>15, <1>16, <1>17, <1>18, <1>19, <1>20, <1>21
     DEF Next, RunEnded

----------------------------------------------------------------------------
(* The types and limits of the data.                                       *)

LEMMA DataInit == Init => DataOK
  BY DEF Init, DataOK, BatchLimit

(* A drain takes at most a batch, and the rest stays within the queue. *)
LEMMA StartBatchTypes ==
  ASSUME DataOK, StartBatch
  PROVE  /\ BatchSize(queue) \in 0 .. Len(queue)
         /\ inflight' \in Seq(Events) /\ Len(inflight') <= BatchLimit
         /\ queue' \in Seq(Events) /\ Len(queue') <= QueueMax
<1>1. /\ BatchLimit \in Nat \ {0}
      /\ queue \in Seq(Events) /\ Len(queue) \in Nat /\ Len(queue) <= QueueMax
  BY DEF DataOK, BatchLimit
<1>2. BatchSize(queue) \in 0 .. Len(queue) /\ BatchSize(queue) <= BatchLimit
  BY <1>1 DEF BatchSize
<1>3. QED
  BY <1>1, <1>2, SplitSequence DEF StartBatch

LEMMA StoredUnconfirmedTypes ==
  ASSUME DataOK, StoredUnconfirmed
  PROVE  collection' \in Seq(Events)
<1>1. PICK k \in 0 .. Len(inflight) : collection' = collection \o SubSeq(inflight, 1, k)
  BY DEF StoredUnconfirmed
<1>2. QED
  BY <1>1, SplitSequence, ConcatProperties DEF DataOK

LEMMA DataPreserved == DataOK /\ [Next]_vars => DataOK'
<1> SUFFICES ASSUME DataOK, [Next]_vars PROVE DataOK'
  OBVIOUS
<1> USE DEF DataOK
<1>1. CASE OpenSucceeds
  BY <1>1 DEF OpenSucceeds
<1>2. CASE OpenFails
  BY <1>2 DEF OpenFails
<1>3. ASSUME NEW e \in Events, WriteEnqueues(e)
      PROVE  DataOK'
  <2>1. /\ queue' \in Seq(Events) /\ Len(queue') <= QueueMax
        /\ accepted' \in Seq(Events)
    BY <1>3, AppendProperties DEF WriteEnqueues, HasRoom
  <2>2. QED
    BY <1>3, <2>1 DEF WriteEnqueues, Receive
<1>4. ASSUME NEW e \in Events, WriteBlocks(e)
      PROVE  DataOK'
  BY <1>4 DEF WriteBlocks, Receive
<1>5. CASE WriteRefused
  BY <1>5 DEF WriteRefused, Receive
<1>6. CASE PutWakes
  <2>1. Head(putter) \in Events
    BY <1>6, HeadTailProperties DEF PutWakes, PutReady
  <2>2. /\ queue' \in Seq(Events) /\ Len(queue') <= QueueMax
        /\ accepted' \in Seq(Events)
    BY <1>6, <2>1, AppendProperties DEF PutWakes, PutReady, HasRoom
  <2>3. QED
    BY <1>6, <2>2 DEF PutWakes
<1>7. CASE WriteReturns
  BY <1>7 DEF WriteReturns
<1>8. CASE WriteFails
  BY <1>8 DEF WriteFails
<1>9. CASE StopReception
  BY <1>9 DEF StopReception
<1>10. CASE FlushStarts
  BY <1>10, StartBatchTypes DEF FlushStarts
<1>11. CASE WorkerFinishes
  BY <1>11 DEF WorkerFinishes
<1>12. CASE InsertConfirmed
  <2>1. /\ inflight' \in Seq(Events) /\ Len(inflight') <= BatchLimit
        /\ queue' \in Seq(Events) /\ Len(queue') <= QueueMax
    <3>1. CASE StartBatch
      BY <3>1, StartBatchTypes
    <3>2. CASE inflight' = << >> /\ UNCHANGED queue
      BY <3>2 DEF BatchLimit
    <3>3. QED
      BY <1>12, <3>1, <3>2 DEF InsertConfirmed, AfterBatch
  <2>2. collection' \in Seq(Events) /\ persisted' \in Nat
    BY <1>12, ConcatProperties, LenProperties DEF InsertConfirmed
  <2>3. QED
    BY <1>12, <2>1, <2>2 DEF InsertConfirmed
<1>13. CASE InsertFails
  BY <1>13, StoredUnconfirmedTypes DEF InsertFails
<1>14. CASE MonitorReports
  BY <1>14 DEF MonitorReports
<1>15. CASE MonitorCancelled
  BY <1>15 DEF MonitorCancelled
<1>16. CASE CloseUnopened
  BY <1>16 DEF CloseUnopened
<1>17. CASE CloseBegins
  BY <1>17 DEF CloseBegins
<1>18. CASE FlushEnds
  BY <1>18 DEF FlushEnds
<1>19. CASE FlushTimesOut
  BY <1>19, StoredUnconfirmedTypes DEF FlushTimesOut
<1>20. ASSUME NEW disconnected \in BOOLEAN, Disconnect(disconnected)
       PROVE  DataOK'
  BY <1>20 DEF Disconnect
<1>21. CASE UNCHANGED vars
  BY <1>21 DEF vars
<1>22. QED
  BY <1>1, <1>2, <1>3, <1>4, <1>5, <1>6, <1>7, <1>8, <1>9, <1>10, <1>11, <1>12,
     <1>13, <1>14, <1>15, <1>16, <1>17, <1>18, <1>19, <1>20, <1>21
     DEF Next, RunEnded
----------------------------------------------------------------------------
(* The queue's waiting put and the counts.                                 *)

Waiting == PutterInv /\ CountInv

LEMMA WaitingInit == Init => Waiting
  BY DEF Init, Waiting, PutterInv, PutReady, CountInv, CallerEnded

LEMMA WaitingPreserved == Phases /\ DataOK /\ Waiting /\ [Next]_vars => Waiting'
<1> SUFFICES ASSUME Phases, DataOK, Waiting, [Next]_vars PROVE Waiting'
  OBVIOUS
<1>0. /\ caller \in {"idle", "blocked", "enqueued", "stopped", "failed"}
      /\ state = "new" => worker = "none"
      /\ InWrite => state = "open"
      /\ state = "open" => worker # "none" /\ worker # "finished"
      /\ workerError => worker = "failed"
      /\ Len(accepted) \in Nat /\ Len(queue) \in Nat /\ forwarded \in Nat
      /\ closer = "flushing" => worker # "none"
      /\ \A e \in Events : Len(Append(accepted, e)) = Len(accepted) + 1
      /\ \A e \in Events : Len(Append(queue, e)) = Len(queue) + 1
      /\ \A e \in Events : <<e>> # << >>
      /\ putter # << >> => Head(putter) \in Events
  BY AppendProperties, HeadTailProperties
     DEF Phases, PhasesOK, LifecycleInv, FailureInv, InWrite, DataOK
<1> USE <1>0 DEF Waiting, PutterInv, CountInv, InWrite, CallerEnded, PutReady, HasRoom
<1>1. CASE OpenSucceeds
  BY <1>1 DEF OpenSucceeds
<1>2. CASE OpenFails
  BY <1>2 DEF OpenFails
<1>3. ASSUME NEW e \in Events, WriteEnqueues(e)
      PROVE  Waiting'
  BY <1>3 DEF WriteEnqueues, Receive
<1>4. ASSUME NEW e \in Events, WriteBlocks(e)
      PROVE  Waiting'
  BY <1>4 DEF WriteBlocks, Receive
<1>5. CASE WriteRefused
  BY <1>5 DEF WriteRefused, Receive
<1>6. CASE PutWakes
  BY <1>6 DEF PutWakes
<1>7. CASE WriteReturns
  BY <1>7 DEF WriteReturns
<1>8. CASE WriteFails
  BY <1>8 DEF WriteFails
<1>9. CASE StopReception
  BY <1>9 DEF StopReception
<1>10. CASE FlushStarts
  BY <1>10 DEF FlushStarts, StartBatch
<1>11. CASE WorkerFinishes
  BY <1>11 DEF WorkerFinishes
<1>12. CASE InsertConfirmed
  BY <1>12 DEF InsertConfirmed, AfterBatch, StartBatch
<1>13. CASE InsertFails
  BY <1>13 DEF InsertFails
<1>14. CASE MonitorReports
  BY <1>14 DEF MonitorReports
<1>15. CASE MonitorCancelled
  BY <1>15 DEF MonitorCancelled
<1>16. CASE CloseUnopened
  BY <1>16 DEF CloseUnopened
<1>17. CASE CloseBegins
  BY <1>17 DEF CloseBegins
<1>18. CASE FlushEnds
  BY <1>18 DEF FlushEnds
<1>19. CASE FlushTimesOut
  BY <1>19 DEF FlushTimesOut
<1>20. ASSUME NEW disconnected \in BOOLEAN, Disconnect(disconnected)
       PROVE  Waiting'
  BY <1>20 DEF Disconnect
<1>21. CASE UNCHANGED vars
  BY <1>21 DEF vars
<1>22. QED
  BY <1>1, <1>2, <1>3, <1>4, <1>5, <1>6, <1>7, <1>8, <1>9, <1>10, <1>11, <1>12,
     <1>13, <1>14, <1>15, <1>16, <1>17, <1>18, <1>19, <1>20, <1>21
     DEF Next, RunEnded
----------------------------------------------------------------------------
(* The documents.                                                          *)

Ledger == EveryDocumentAccounted /\ StoredInv

LEMMA LedgerInit == Init => Ledger
<1> SUFFICES ASSUME Init PROVE Ledger
  OBVIOUS
<1>1. /\ SubSeq(collection, 1, 0) = << >>
      /\ SubSeq(accepted, 1, 0) = << >>
      /\ << >> \o << >> \o << >> = << >>
  BY SubSeqEmpty, ConcatEmptySeq, EmptySeq DEF Init
<1>2. QED
  BY <1>1 DEF Init, Ledger, EveryDocumentAccounted, StoredInv

Accepts(e) ==
  /\ queue' = Append(queue, e)
  /\ accepted' = Append(accepted, e)
  /\ UNCHANGED workerVars

(* An accepted document joins the end of the queue and of the history. *)
LEMMA AcceptKeepsLedger ==
  ASSUME DataOK, Ledger, NEW e \in Events, Accepts(e)
  PROVE  Ledger'
<1> DEFINE before == SubSeq(collection, 1, persisted) \o inflight
<1>1. before \in Seq(Events)
  BY SplitSequence, ConcatProperties DEF DataOK, Ledger, EveryDocumentAccounted
<1>2. accepted = before \o queue
  BY DEF Ledger, EveryDocumentAccounted
<1>3. before' = before
  BY DEF Accepts
<1> HIDE DEF before
<1>4. queue \in Seq(Events) /\ <<e>> \in Seq(Events)
  BY DEF DataOK
<1>5. accepted' = before' \o queue'
  <2>1. queue' = queue \o <<e>>
    BY <1>4, AppendIsConcat DEF Accepts
  <2>2. accepted' = accepted \o <<e>>
    BY AppendIsConcat DEF Accepts, DataOK
  <2>3. (before \o queue) \o <<e>> = before \o (queue \o <<e>>)
    BY <1>1, <1>4, ConcatAssociative
  <2>4. QED
    BY <1>2, <1>3, <2>1, <2>2, <2>3
<1>6. EveryDocumentAccounted'
  BY <1>5 DEF before, Ledger, EveryDocumentAccounted, Accepts
<1>7. /\ Len(collection') <= Len(accepted')
      /\ collection' = SubSeq(accepted', 1, Len(collection'))
  <2>1. Len(collection) \in 0 .. Len(accepted)
    <3>1. Len(collection) \in Nat /\ Len(accepted) \in Nat
      BY LenProperties DEF DataOK
    <3>2. Len(collection) <= Len(accepted)
      BY DEF Ledger, StoredInv
    <3>3. QED
      BY <3>1, <3>2
  <2>2. SubSeq(Append(accepted, e), 1, Len(collection))
        = SubSeq(accepted, 1, Len(collection))
    <3>1. accepted \in Seq(Events)
      BY DEF DataOK
    <3>2. QED
      BY <2>1, <3>1, AppendKeepsPrefix
  <2>3. Len(Append(accepted, e)) = Len(accepted) + 1
    BY AppendProperties DEF DataOK
  <2>4. QED
    BY <2>1, <2>2, <2>3 DEF Ledger, StoredInv, Accepts
<1>8. QED
  BY <1>6, <1>7 DEF Ledger, StoredInv, Accepts

(* While nothing has failed, what is confirmed, in flight and queued is    *)
(* what is stored, in flight and queued; a part of the batch in flight     *)
(* continues the stored prefix.                                            *)
LEMMA StoringKeepsPrefix ==
  ASSUME DataOK, Ledger, worker = "inserting", NEW k \in 0 .. Len(inflight),
         NEW c, c = collection \o SubSeq(inflight, 1, k)
  PROVE  /\ persisted = Len(collection)
         /\ accepted = collection \o inflight \o queue
         /\ c \in Seq(Events) /\ Len(c) = Len(collection) + k
         /\ Len(c) <= Len(accepted)
         /\ c = SubSeq(accepted, 1, Len(c))
         /\ SubSeq(c, 1, persisted) = collection
<1>1. /\ collection \in Seq(Events) /\ inflight \in Seq(Events) /\ queue \in Seq(Events)
      /\ Len(collection) \in Nat /\ Len(inflight) \in Nat /\ Len(queue) \in Nat
  BY LenProperties DEF DataOK
<1>2. persisted = Len(collection)
  BY DEF Ledger, StoredInv
<1>3. SubSeq(collection, 1, persisted) = collection
  BY <1>1, <1>2, SubSeqFull
<1>4. accepted = collection \o inflight \o queue
  BY <1>3 DEF Ledger, EveryDocumentAccounted
<1>5. /\ collection \o SubSeq(inflight, 1, k) \in Seq(Events)
      /\ Len(collection \o SubSeq(inflight, 1, k)) = Len(collection) + k
      /\ SubSeq(collection \o inflight \o queue, 1, Len(collection) + k)
         = collection \o SubSeq(inflight, 1, k)
  BY <1>1, PrefixOfConcat, SMTT(60)
<1>6. Len(collection \o inflight \o queue) = Len(collection) + Len(inflight) + Len(queue)
  BY <1>1, ConcatProperties
<1>7. SubSeq(c, 1, Len(collection)) = collection
  <2>1. /\ SubSeq(inflight, 1, k) \in Seq(Events)
        /\ << >> \in Seq(Events) /\ 0 \in 0 .. Len(SubSeq(inflight, 1, k))
    BY <1>1, SplitSequence
  <2>2. SubSeq(collection \o SubSeq(inflight, 1, k) \o << >>, 1, Len(collection) + 0)
        = collection \o SubSeq(SubSeq(inflight, 1, k), 1, 0)
    BY <1>1, <2>1, PrefixOfConcat
  <2>3. SubSeq(SubSeq(inflight, 1, k), 1, 0) = << >>
    BY SubSeqEmpty
  <2>4. /\ collection \o << >> = collection
        /\ collection \o SubSeq(inflight, 1, k) \o << >>
           = collection \o SubSeq(inflight, 1, k)
    BY <1>1, <1>5, ConcatEmptySeq
  <2>5. QED
    BY <1>1, <2>2, <2>3, <2>4
<1>8. QED
  BY <1>1, <1>2, <1>4, <1>5, <1>6, <1>7

LEMMA StartBatchKeepsOrder ==
  ASSUME DataOK, StartBatch, NEW c \in Seq(Events)
  PROVE  /\ c \o inflight' \o queue' = c \o queue
         /\ queue # << >> => inflight' # << >>
<1>1. BatchSize(queue) \in 0 .. Len(queue) /\ queue \in Seq(Events)
  BY StartBatchTypes DEF DataOK
<1>2. c \o SubSeq(queue, 1, BatchSize(queue))
        \o SubSeq(queue, BatchSize(queue) + 1, Len(queue)) = c \o queue
  BY <1>1, DrainKeepsOrder
<1>3. ASSUME queue # << >> PROVE inflight' # << >>
  <2>1. Len(queue) \in Nat \ {0}
    BY <1>1, <1>3, EmptySeq
  <2>2. BatchSize(queue) > 0
    BY <2>1 DEF BatchSize, BatchLimit
  <2>3. Len(inflight') = BatchSize(queue)
    BY <1>1, SplitSequence DEF StartBatch
  <2>4. QED
    BY <1>1, <2>2, <2>3
<1>4. QED
  BY <1>2, <1>3 DEF StartBatch

LEMMA FlushKeepsLedger ==
  ASSUME DataOK, Ledger, FlushStarts
  PROVE  Ledger'
<1> DEFINE confirmed == SubSeq(collection, 1, persisted)
<1>1. confirmed \in Seq(Events) /\ queue \in Seq(Events)
  BY SplitSequence DEF DataOK, Ledger, EveryDocumentAccounted
<1>2. accepted = confirmed \o << >> \o queue
  BY DEF Ledger, EveryDocumentAccounted, StoredInv, FlushStarts
<1>3. confirmed' = confirmed
  BY DEF FlushStarts
<1> HIDE DEF confirmed
<1>4. accepted = confirmed \o queue
  BY <1>1, <1>2, ConcatEmptySeq
<1>5. accepted = confirmed \o inflight' \o queue' /\ inflight' # << >>
  BY <1>1, <1>4, StartBatchKeepsOrder DEF FlushStarts
<1>6. EveryDocumentAccounted'
  BY <1>3, <1>5 DEF confirmed, Ledger, EveryDocumentAccounted, FlushStarts
<1>7. StoredInv'
  BY <1>5 DEF Ledger, StoredInv, FlushStarts, StartBatch
<1>8. QED
  BY <1>6, <1>7 DEF Ledger

LEMMA ConfirmKeepsLedger ==
  ASSUME DataOK, Ledger, InsertConfirmed
  PROVE  Ledger'
<1>1. /\ collection \in Seq(Events) /\ inflight \in Seq(Events) /\ queue \in Seq(Events)
      /\ Len(inflight) \in 0 .. Len(inflight)
      /\ SubSeq(inflight, 1, Len(inflight)) = inflight
  BY SubSeqFull, LenProperties DEF DataOK
<1>2. collection' = collection \o SubSeq(inflight, 1, Len(inflight))
  BY <1>1 DEF InsertConfirmed
<1>3. /\ persisted = Len(collection)
      /\ accepted = collection \o inflight \o queue
      /\ collection' \in Seq(Events)
      /\ Len(collection') = Len(collection) + Len(inflight)
      /\ Len(collection') <= Len(accepted)
      /\ collection' = SubSeq(accepted, 1, Len(collection'))
  <2>1. worker = "inserting"
    BY DEF InsertConfirmed
  <2>2. QED
    BY <1>1, <1>2, <2>1, StoringKeepsPrefix
<1>4. /\ persisted' = Len(collection') /\ persisted' <= Len(collection')
      /\ SubSeq(collection', 1, persisted') = collection'
  <2>1. persisted' = Len(collection')
    BY <1>3 DEF InsertConfirmed
  <2>2. QED
    BY <1>3, <2>1, SubSeqFull, LenProperties
<1>5. accepted = collection' \o queue
  BY <1>3 DEF InsertConfirmed
<1>6. CASE StartBatch /\ queue # << >>
  <2>1. accepted = collection' \o inflight' \o queue' /\ inflight' # << >>
    BY <1>3, <1>5, <1>6, StartBatchKeepsOrder
  <2>2. worker' = "inserting" /\ accepted' = accepted
    BY <1>6 DEF StartBatch, InsertConfirmed
  <2>3. EveryDocumentAccounted'
    BY <1>4, <2>1, <2>2 DEF EveryDocumentAccounted
  <2>4. StoredInv'
    BY <1>3, <1>4, <2>1, <2>2 DEF StoredInv
  <2>5. QED
    BY <2>3, <2>4 DEF Ledger
<1>7. CASE /\ worker' \in {"finished", "waiting"}
           /\ inflight' = << >> /\ UNCHANGED queue
  <2>1. accepted' = accepted
    BY DEF InsertConfirmed
  <2>2. accepted' = collection' \o inflight' \o queue'
    BY <1>3, <1>5, <1>7, <2>1, ConcatEmptySeq
  <2>3. EveryDocumentAccounted'
    BY <1>4, <2>2 DEF EveryDocumentAccounted
  <2>4. StoredInv'
    BY <1>3, <1>4, <1>7, <2>1 DEF StoredInv
  <2>5. QED
    BY <2>3, <2>4 DEF Ledger
<1>8. QED
  BY <1>6, <1>7 DEF InsertConfirmed, AfterBatch

(* An insert whose answer is lost leaves a stored prefix of its batch      *)
(* behind and nothing counted.                                             *)
LEMMA GiveUpKeepsLedger ==
  ASSUME DataOK, Ledger, worker = "inserting", StoredUnconfirmed,
         worker' \in {"failed", "cancelled"},
         UNCHANGED <<queue, accepted, inflight, persisted>>
  PROVE  Ledger'
<1>1. PICK k \in 0 .. Len(inflight) : collection' = collection \o SubSeq(inflight, 1, k)
  BY DEF StoredUnconfirmed
<1>2. /\ persisted = Len(collection)
      /\ Len(collection') = Len(collection) + k
      /\ Len(collection') <= Len(accepted)
      /\ collection' = SubSeq(accepted, 1, Len(collection'))
      /\ SubSeq(collection', 1, persisted) = collection
  BY <1>1, StoringKeepsPrefix
<1>3. accepted = collection \o inflight \o queue
  BY <1>1, StoringKeepsPrefix
<1>4. persisted' <= Len(collection')
  <2>1. Len(collection) \in Nat /\ k \in Nat
    BY LenProperties DEF DataOK
  <2>2. QED
    BY <1>2, <2>1
<1>5. EveryDocumentAccounted'
  <2>1. accepted' = SubSeq(collection', 1, persisted') \o inflight' \o queue'
    BY <1>2, <1>3
  <2>2. QED
    BY <1>4, <2>1 DEF EveryDocumentAccounted
<1>6. StoredInv'
  BY <1>2 DEF StoredInv
<1>7. QED
  BY <1>5, <1>6 DEF Ledger

LEMMA LedgerPreserved == Phases /\ DataOK /\ Ledger /\ [Next]_vars => Ledger'
<1> SUFFICES ASSUME Phases, DataOK, Ledger, [Next]_vars PROVE Ledger'
  OBVIOUS
<1> DEFINE Quiet == UNCHANGED <<queue, accepted, collection, inflight, persisted>>
<1>0. ASSUME Quiet, UNCHANGED worker PROVE Ledger'
  BY <1>0 DEF Ledger, EveryDocumentAccounted, StoredInv
<1>1. CASE OpenSucceeds
  <2>1. worker = "none"
    BY <1>1 DEF OpenSucceeds, Phases, LifecycleInv
  <2>2. QED
    BY <1>1, <2>1 DEF OpenSucceeds, Ledger, EveryDocumentAccounted, StoredInv
<1>2. CASE OpenFails
  BY <1>0, <1>2 DEF OpenFails
<1>3. ASSUME NEW e \in Events, WriteEnqueues(e)
      PROVE  Ledger'
  BY <1>3, AcceptKeepsLedger DEF WriteEnqueues, Accepts
<1>4. ASSUME NEW e \in Events, WriteBlocks(e)
      PROVE  Ledger'
  BY <1>0, <1>4 DEF WriteBlocks
<1>5. CASE WriteRefused
  BY <1>0, <1>5 DEF WriteRefused
<1>6. CASE PutWakes
  <2>1. Head(putter) \in Events
    BY <1>6, HeadTailProperties DEF PutWakes, PutReady, DataOK
  <2>2. QED
    BY <1>6, <2>1, AcceptKeepsLedger DEF PutWakes, Accepts
<1>7. CASE WriteReturns
  BY <1>0, <1>7 DEF WriteReturns
<1>8. CASE WriteFails
  BY <1>0, <1>8 DEF WriteFails
<1>9. CASE StopReception
  BY <1>0, <1>9 DEF StopReception
<1>10. CASE FlushStarts
  BY <1>10, FlushKeepsLedger
<1>11. CASE WorkerFinishes
  BY <1>11 DEF WorkerFinishes, Ledger, EveryDocumentAccounted, StoredInv
<1>12. CASE InsertConfirmed
  BY <1>12, ConfirmKeepsLedger
<1>13. CASE InsertFails
  BY <1>13, GiveUpKeepsLedger DEF InsertFails
<1>14. CASE MonitorReports
  BY <1>0, <1>14 DEF MonitorReports
<1>15. CASE MonitorCancelled
  BY <1>0, <1>15 DEF MonitorCancelled
<1>16. CASE CloseUnopened
  BY <1>0, <1>16 DEF CloseUnopened
<1>17. CASE CloseBegins
  BY <1>0, <1>17 DEF CloseBegins
<1>18. CASE FlushEnds
  BY <1>0, <1>18 DEF FlushEnds
<1>19. CASE FlushTimesOut
  BY <1>19, GiveUpKeepsLedger DEF FlushTimesOut
<1>20. ASSUME NEW disconnected \in BOOLEAN, Disconnect(disconnected)
       PROVE  Ledger'
  BY <1>0, <1>20 DEF Disconnect
<1>21. CASE UNCHANGED vars
  BY <1>0, <1>21 DEF vars
<1>22. QED
  BY <1>1, <1>2, <1>3, <1>4, <1>5, <1>6, <1>7, <1>8, <1>9, <1>10, <1>11, <1>12,
     <1>13, <1>14, <1>15, <1>16, <1>17, <1>18, <1>19, <1>20, <1>21
     DEF Next, RunEnded

----------------------------------------------------------------------------
(* The theorems.                                                           *)

LEMMA IInvParts == IInv <=> Phases /\ DataOK /\ Waiting /\ Ledger
  BY DEF IInv, TypeOK, Phases, Waiting, Ledger

(* The strengthened invariant of src/outputs/mongodb.py and its caller     *)
(* holds in every reachable state.                                         *)
THEOREM Invariance == Spec => []IInv
<1>1. Init => IInv
  BY IInvParts, PhasesInit, DataInit, WaitingInit, LedgerInit
<1>2. IInv /\ [Next]_vars => IInv'
  <2> SUFFICES ASSUME IInv, [Next]_vars PROVE IInv'
    OBVIOUS
  <2>1. Phases /\ DataOK /\ Waiting /\ Ledger
    BY IInvParts
  <2>2. Phases' /\ DataOK' /\ Waiting' /\ Ledger'
    BY <2>1, PhasesPreserved, DataPreserved, WaitingPreserved, LedgerPreserved
  <2>3. QED
    BY <2>2 DEF IInv, TypeOK, Phases, Waiting, Ledger
<1>3. QED
  BY <1>1, <1>2, PTL DEF Spec, SafeSpec

(* Every state is well typed, the queue holds at most queue_maxsize and a  *)
(* batch at most batch_maxsize documents.                                  *)
THEOREM TypeCorrect == Spec => []TypeOK
<1>1. IInv => TypeOK
  BY DEF IInv
<1>2. QED
  BY <1>1, Invariance, PTL

(* No document taken by the queue is dropped, duplicated or reordered      *)
(* between the queue, the batch and the confirmed part of the collection.  *)
THEOREM NothingLost == Spec => []EveryDocumentAccounted
<1>1. IInv => EveryDocumentAccounted
  BY DEF IInv
<1>2. QED
  BY <1>1, Invariance, PTL

(* A close() that reports no failure has stored every accepted document,   *)
(* the one of an interrupted write included.                               *)
THEOREM CleanClose == Spec => []CleanCloseStoredAll
<1>1. IInv => CleanCloseStoredAll
  <2> SUFFICES ASSUME IInv, closeResult \in {"ok", "closeError"}, ~ failureReported
               PROVE  collection = accepted /\ putter = << >>
    BY DEF CleanCloseStoredAll
  <2>1. worker = "finished"
    BY DEF IInv, FailureInv, FailureReportedOnce, LifecycleInv
  <2>2. queue = << >> /\ putter = << >> /\ inflight = << >>
    BY <2>1 DEF IInv, PutterInv, StoredInv
  <2>3. collection \in Seq(Events) /\ persisted = Len(collection)
    BY <2>1 DEF IInv, TypeOK, DataOK, StoredInv
  <2>4. SubSeq(collection, 1, persisted) = collection
    BY <2>3, SubSeqFull
  <2>5. accepted = collection \o << >> \o << >>
    BY <2>2, <2>4 DEF IInv, EveryDocumentAccounted
  <2>6. QED
    BY <2>2, <2>3, <2>5, ConcatEmptySeq
<1>2. QED
  BY <1>1, Invariance, PTL

(* A batch failure is reported by exactly one of wait_failed() and close(). *)
THEOREM OneReport == Spec => []FailureReportedOnce
<1>1. IInv => FailureReportedOnce
  BY DEF IInv
<1>2. QED
  BY <1>1, Invariance, PTL

(* The accepted count shown to the user lags by at most one document. *)
THEOREM CountWithinOne == Spec => []ForwardedWithinOne
<1>1. IInv => ForwardedWithinOne
  <2> SUFFICES ASSUME IInv PROVE ForwardedWithinOne
    OBVIOUS
  <2>1. /\ caller \in {"idle", "blocked", "enqueued", "stopped", "failed"}
        /\ Len(accepted) \in Nat /\ forwarded \in Nat
    BY LenProperties DEF IInv, TypeOK, PhasesOK, DataOK
  <2>2. QED
    BY <2>1 DEF IInv, CountInv, CallerEnded, ForwardedWithinOne
<1>2. QED
  BY <1>1, Invariance, PTL

----------------------------------------------------------------------------
(* The refinement of OrderedDelivery.                                      *)

Severed == worker \in {"failed", "cancelled"}

LEMMA AcceptMaps ==
  ASSUME NEW e \in Events, Accepts(e), ~ Severed
  PROVE  Delivery!Next
<1>1. Delivery!Accept("events", e)
  BY DEF Delivery!Accept, Accepts, Severed
<1>2. QED
  BY <1>1 DEF Delivery!Next

LEMMA StoreMaps ==
  ASSUME DataOK, DataOK', Ledger, Ledger', InsertConfirmed
  PROVE  Delivery!Next
<1>1. /\ Len(collection) \in Nat /\ Len(collection') \in Nat
      /\ Len(accepted) \in Nat /\ accepted' = accepted
      /\ inflight \in Seq(Events) /\ inflight # << >>
      /\ worker = "inserting"
  BY LenProperties DEF DataOK, Ledger, StoredInv, InsertConfirmed
<1>2. Len(collection') = Len(collection) + Len(inflight) /\ Len(inflight) \in Nat \ {0}
  BY <1>1, ConcatProperties, EmptySeq DEF InsertConfirmed, DataOK
<1>3. /\ Len(collection') <= Len(accepted)
      /\ collection' = SubSeq(accepted, 1, Len(collection'))
  BY <1>1 DEF Ledger, StoredInv
<1>4. Len(collection') \in (Len(collection) + 1) .. Len(accepted)
  BY <1>1, <1>2, <1>3
<1>5. worker' \notin {"failed", "cancelled"}
  BY DEF InsertConfirmed, AfterBatch, StartBatch
<1>6. Delivery!Store("events")
  <2> DEFINE n == Len(collection')
  <2>1. n \in (Len(collection) + 1) .. Len(accepted) /\ collection' = SubSeq(accepted, 1, n)
    BY <1>3, <1>4
  <2>2. accepted' = accepted /\ worker \notin {"failed", "cancelled"}
    BY <1>1
  <2> HIDE DEF n
  <2>3. QED
    <3>1. /\ [l \in {"events"} |-> collection]'
             = [[l \in {"events"} |-> collection] EXCEPT !["events"] = SubSeq(accepted, 1, n)]
          /\ UNCHANGED <<[l \in {"events"} |-> accepted],
                         [l \in {"events"} |-> worker \in {"failed", "cancelled"}]>>
      BY <1>5, <2>1, <2>2
    <3>2. QED
      BY <2>1, <2>2, <3>1, Zenon DEF Delivery!Store
<1>7. QED
  BY <1>6 DEF Delivery!Next

LEMMA SeverMaps ==
  ASSUME DataOK, DataOK', Ledger, Ledger', worker = "inserting", StoredUnconfirmed,
         worker' \in {"failed", "cancelled"}, accepted' = accepted
  PROVE  Delivery!Next
<1>1. PICK k \in 0 .. Len(inflight) : collection' = collection \o SubSeq(inflight, 1, k)
  BY DEF StoredUnconfirmed
<1>2. /\ Len(collection) \in Nat /\ Len(collection') \in Nat /\ Len(accepted) \in Nat
  BY LenProperties DEF DataOK
<1>3. Len(collection') = Len(collection) + k
  <2>1. SubSeq(inflight, 1, k) \in Seq(Events) /\ Len(SubSeq(inflight, 1, k)) = k
    BY SplitSequence DEF DataOK
  <2>2. QED
    BY <1>1, <2>1, ConcatProperties DEF DataOK
<1>4. /\ Len(collection') <= Len(accepted)
      /\ collection' = SubSeq(accepted, 1, Len(collection'))
  BY DEF Ledger, StoredInv
<1>5. Len(collection') \in Len(collection) .. Len(accepted)
  BY <1>2, <1>3, <1>4
<1>6. /\ worker \notin {"failed", "cancelled"}
      /\ [l \in {"events"} |-> worker' \in {"failed", "cancelled"}]
         = [l \in {"events"} |-> (worker \in {"failed", "cancelled"}) \/ l \in {"events"}]
  BY Zenon
<1>7. Delivery!Sever({"events"})
  BY <1>4, <1>5, <1>6 DEF Delivery!Sever, DataOK
<1>8. QED
  BY <1>7 DEF Delivery!Next

LEMMA StepMaps == IInv /\ IInv' /\ [Next]_vars => [Delivery!Next]_(Delivery!vars)
<1> SUFFICES ASSUME IInv, IInv', [Next]_vars PROVE [Delivery!Next]_(Delivery!vars)
  OBVIOUS
<1> DEFINE Quiet == UNCHANGED <<accepted, collection>> /\ (Severed' <=> Severed)
<1>0. ASSUME Quiet PROVE UNCHANGED Delivery!vars
  BY <1>0 DEF Delivery!vars, Severed
<1>a. /\ DataOK /\ Ledger /\ DataOK' /\ Ledger'
      /\ worker = "failed" <=> workerError
      /\ InWrite => state = "open"
      /\ state = "open" => worker # "cancelled"
      /\ state = "new" => worker = "none"
      /\ PutReady => worker = "inserting"
  BY DEF IInv, TypeOK, Ledger, FailureInv, LifecycleInv, PutterInv
<1>1. CASE OpenSucceeds
  BY <1>0, <1>1, <1>a DEF OpenSucceeds, Severed
<1>2. CASE OpenFails
  BY <1>0, <1>2 DEF OpenFails, Severed
<1>3. ASSUME NEW e \in Events, WriteEnqueues(e)
      PROVE  Delivery!Next
  BY <1>3, <1>a, AcceptMaps DEF WriteEnqueues, Receive, Accepts, Severed
<1>4. ASSUME NEW e \in Events, WriteBlocks(e)
      PROVE  UNCHANGED Delivery!vars
  BY <1>0, <1>4 DEF WriteBlocks, Severed
<1>5. CASE WriteRefused
  BY <1>0, <1>5 DEF WriteRefused, Severed
<1>6. CASE PutWakes
  <2>1. Head(putter) \in Events
    BY <1>6, <1>a, HeadTailProperties DEF PutWakes, PutReady, DataOK
  <2>2. QED
    BY <1>6, <1>a, <2>1, AcceptMaps DEF PutWakes, Accepts, Severed
<1>7. CASE WriteReturns
  BY <1>0, <1>7 DEF WriteReturns, Severed
<1>8. CASE WriteFails
  BY <1>0, <1>8 DEF WriteFails, Severed
<1>9. CASE StopReception
  BY <1>0, <1>9 DEF StopReception, Severed
<1>10. CASE FlushStarts
  BY <1>0, <1>10 DEF FlushStarts, StartBatch, Severed
<1>11. CASE WorkerFinishes
  BY <1>0, <1>11 DEF WorkerFinishes, Severed
<1>12. CASE InsertConfirmed
  BY <1>12, <1>a, StoreMaps
<1>13. CASE InsertFails
  BY <1>13, <1>a, SeverMaps DEF InsertFails
<1>14. CASE MonitorReports
  BY <1>0, <1>14 DEF MonitorReports, Severed
<1>15. CASE MonitorCancelled
  BY <1>0, <1>15 DEF MonitorCancelled, Severed
<1>16. CASE CloseUnopened
  BY <1>0, <1>16 DEF CloseUnopened, Severed
<1>17. CASE CloseBegins
  BY <1>0, <1>17 DEF CloseBegins, Severed
<1>18. CASE FlushEnds
  BY <1>0, <1>18 DEF FlushEnds, Severed
<1>19. CASE FlushTimesOut
  BY <1>19, <1>a, SeverMaps DEF FlushTimesOut
<1>20. ASSUME NEW disconnected \in BOOLEAN, Disconnect(disconnected)
       PROVE  UNCHANGED Delivery!vars
  BY <1>0, <1>20 DEF Disconnect, Severed
<1>21. CASE UNCHANGED vars
  BY <1>0, <1>21 DEF vars, Severed
<1>22. QED
  BY <1>0, <1>1, <1>2, <1>3, <1>4, <1>5, <1>6, <1>7, <1>8, <1>9, <1>10, <1>11, <1>12,
     <1>13, <1>14, <1>15, <1>16, <1>17, <1>18, <1>19, <1>20, <1>21
     DEF Next, RunEnded

(* Whatever the interleaving of writes, interruptions, failures and        *)
(* shutdown, the collection only ever receives what was accepted, once and *)
(* in order, and nothing after a batch of unknown outcome.                 *)
THEOREM RefinesDelivery == Spec => DeliverySafeSpec
<1>1. Init => Delivery!Init
  <2> SUFFICES ASSUME Init PROVE Delivery!Init
    OBVIOUS
  <2>1. accepted = << >> /\ collection = << >>
    BY DEF Init
  <2>2. (worker \in {"failed", "cancelled"}) = FALSE
    BY DEF Init
  <2>3. [l \in {"events"} |-> worker \in {"failed", "cancelled"}]
        = [l \in {"events"} |-> FALSE]
    BY <2>2, Zenon
  <2>4. QED
    BY <2>1, <2>3 DEF Delivery!Init
<1>2. QED
  BY <1>1, StepMaps, Invariance, PTL DEF Spec, SafeSpec, DeliverySafeSpec, Delivery!SafeSpec
============================================================================
