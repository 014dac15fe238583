-------------------------- MODULE MongoMultiProofs --------------------------
(***************************************************************************)
(* Proofs about MongoMulti for every number of routes, connections and     *)
(* documents, all sizes and all limits.  IInv is inductive.  The phases of *)
(* the tasks, the order of the semaphore's waiters, what a worker holds,   *)
(* the budget, and what is stored are its parts, each preserved by a lemma *)
(* of its own; all but the first use what an action does to the sequence   *)
(* of documents that a route holds, Held.                                  *)
(***************************************************************************)
EXTENDS MongoMulti, SequenceFacts, TLAPS

USE RoutesAssumption, RouteOfAssumption, SizeOfAssumption, SourcesOfAssumption,
    LimitsAssumption

USE DEF closeVars, monitorVars, budgetVars, workerVars, storeVars, callerVars

----------------------------------------------------------------------------
(* The inductive invariant.                                                *)

Phase == {"none", "first", "filling", "ready", "inserting", "finished", "failed", "cancelled"}

PhasesOK ==
  /\ state \in {"new", "open", "closing", "closed"}
  /\ closer \in {"none", "flushing", "disconnecting", "done"}
  /\ closeResult \in {"none", "ok", "workerError", "shutdownError", "closeError"}
  /\ monitor \in {"none", "watching", "raised", "cancelled"}
  /\ failureReported \in BOOLEAN /\ workerErrors \subseteq Routes
  /\ worker \in [Routes -> Phase]
  /\ caller \in [Connections -> {"idle", "blocked", "stopped", "failed"}]

(* Workers run from open() to the end of close(), and connections end      *)
(* before close() begins; only its timeout cancels a worker.               *)
LifecycleInv ==
  /\ state = "new" =>
       /\ closer = "none" /\ monitor = "none"
       /\ \A r \in Routes : worker[r] = "none"
       /\ \A c \in Connections : caller[c] = "idle"
  /\ state = "open" =>
       /\ closer = "none"
       /\ \A r \in Routes : worker[r] \in {"first", "filling", "ready", "inserting", "failed"}
  /\ state = "closing" => closer \in {"flushing", "disconnecting"} /\ monitor # "watching"
  /\ state = "closed" => closer \in {"none", "done"}
  /\ CloseRequested => CallersEnded
  /\ CloseRequested /\ closer = "none" => \A r \in Routes : worker[r] = "none"
  /\ closer \in {"disconnecting", "done"} => \A r \in Routes : Ended(r)
  /\ closer \in {"none", "flushing"} => \A r \in Routes : worker[r] # "cancelled"
  /\ closer = "done" <=> closeResult # "none"
  /\ CloseRequested => monitor # "watching"

FailureInv == \A r \in Routes : worker[r] = "failed" <=> r \in workerErrors

(* The waiters of the semaphore are distinct workers with a batch ready.   *)
PermitsInv ==
  /\ permits \in Seq(Routes)
  /\ \A i \in 1 .. Len(permits) : worker[permits[i]] = "ready"
  /\ \A i, j \in 1 .. Len(permits) : permits[i] = permits[j] => i = j
  /\ Cardinality(Inserting) <= MaxConcurrentWrites

DataOK ==
  /\ queue \in [Routes -> Seq(Documents)]
  /\ carry \in [Routes -> Seq(Documents)] /\ batch \in [Routes -> Seq(Documents)]
  /\ received \in Nat /\ persisted \in [Routes -> Nat]
  /\ accepted \in [Routes -> Seq(Documents)] /\ collection \in [Routes -> Seq(Documents)]
  /\ waiting \in [Connections -> Seq(Documents)]
  /\ \A c \in Connections : caller[c] = "blocked" => waiting[c] # << >>

WithinBytes(docs) == BytesOf(docs) <= BatchByteLimit \/ Len(docs) = 1

(* What a worker may hold where it stands. *)
Holding(r) ==
  /\ Len(carry[r]) <= 1
  /\ worker[r] \in {"none", "first", "finished"} => batch[r] = << >>
  /\ worker[r] \in {"none", "finished"} => carry[r] = << >> /\ queue[r] = << >>
  /\ worker[r] = "filling" =>
       /\ carry[r] = << >>
       /\ Len(batch[r]) \in 1 .. BatchLimit - 1 /\ WithinBytes(batch[r])
  /\ worker[r] \in {"ready", "inserting"} =>
       Len(batch[r]) \in 1 .. BatchLimit /\ WithinBytes(batch[r])

HoldingInv == \A r \in Routes : Holding(r)

BudgetInv ==
  /\ pendingDocuments \in [Routes -> Nat] /\ pendingBytes \in [Routes -> Nat]
  /\ documents \in 0 .. BufferMaxDocuments /\ bytes \in 0 .. BufferMaxBytes
  /\ BudgetExact

(* What a queue took is confirmed or held; the collection is a prefix of   *)
(* it, and until the worker gives up all of it is confirmed.               *)
Stored(r) ==
  /\ persisted[r] <= Len(collection[r])
  /\ accepted[r] = SubSeq(collection[r], 1, persisted[r]) \o Held(r)
  /\ Len(collection[r]) <= Len(accepted[r])
  /\ collection[r] = SubSeq(accepted[r], 1, Len(collection[r]))
  /\ worker[r] \notin {"failed", "cancelled"} => persisted[r] = Len(collection[r])

StoredInv == \A r \in Routes : Stored(r)

IInv ==
  /\ PhasesOK /\ LifecycleInv /\ FailureInv /\ FailureReportedOnce
  /\ DataOK /\ PermitsInv /\ HoldingInv
  /\ BudgetInv /\ StoredInv

----------------------------------------------------------------------------
(* The phases of the workers, the monitor and close().                     *)

Phases == PhasesOK /\ LifecycleInv /\ FailureInv /\ FailureReportedOnce

LEMMA PhasesInit == Init => Phases
<1> SUFFICES ASSUME Init PROVE Phases
  OBVIOUS
<1>1. PhasesOK
  BY DEF Init, PhasesOK, Phase
<1>2. LifecycleInv
  BY DEF Init, LifecycleInv, CloseRequested
<1>3. FailureInv /\ FailureReportedOnce
  BY DEF Init, FailureInv, FailureReportedOnce
<1>4. QED
  BY <1>1, <1>2, <1>3 DEF Phases

(* The next permit goes to a worker whose batch is ready. *)
LEMMA NextPermit ==
  ASSUME PermitsInv, NEW r \in Routes, StartInsert(r)
  PROVE  worker[r] = "ready"
<1>1. permits # << >> /\ Len(permits) \in Nat /\ Len(permits) # 0
  BY LenProperties, EmptySeq DEF PermitsInv, StartInsert
<1>2. Head(permits) = permits[1] /\ 1 \in 1 .. Len(permits)
  BY <1>1 DEF PermitsInv
<1>3. QED
  BY <1>2 DEF PermitsInv, StartInsert

LEMMA PhasesPreserved ==
  ASSUME Phases, PermitsInv, [Next]_vars
  PROVE  Phases'
<1> USE DEF Phases, PhasesOK, Phase, LifecycleInv, FailureInv, FailureReportedOnce,
            CloseRequested, CallersEnded, Ended, Failed
<1>1. CASE OpenSucceeds
  BY <1>1 DEF OpenSucceeds
<1>2. CASE OpenFails
  BY <1>2 DEF OpenFails
<1>3. ASSUME NEW c \in Connections, NEW d \in Documents, WriteAccepted(c, d)
      PROVE  Phases'
  BY <1>3 DEF WriteAccepted, Receive
<1>4. ASSUME NEW c \in Connections, NEW d \in Documents, WriteBlocks(c, d)
      PROVE  Phases'
  BY <1>4 DEF WriteBlocks, Receive
<1>5. ASSUME NEW c \in Connections, NEW d \in Documents, WriteRefused(c, d)
      PROVE  Phases'
  BY <1>5 DEF WriteRefused, Receive
<1>6. ASSUME NEW c \in Connections, WriteResumes(c)
      PROVE  Phases'
  BY <1>6 DEF WriteResumes
<1>7. ASSUME NEW c \in Connections, WriteFails(c)
      PROVE  Phases'
  BY <1>7 DEF WriteFails
<1>8. ASSUME NEW c \in Connections, StopConnection(c)
      PROVE  Phases'
  BY <1>8 DEF StopConnection
<1>9. ASSUME NEW r \in Routes, TakeFirst(r)
      PROVE  Phases'
  BY <1>9 DEF TakeFirst, Continue, Submit
<1>10. ASSUME NEW r \in Routes, WorkerReturns(r)
       PROVE  Phases'
  BY <1>10 DEF WorkerReturns
<1>11. ASSUME NEW r \in Routes, FillTake(r)
       PROVE  Phases'
  BY <1>11 DEF FillTake, Continue, Submit
<1>12. ASSUME NEW r \in Routes, FillStops(r)
       PROVE  Phases'
  BY <1>12 DEF FillStops, Submit
<1>13. ASSUME NEW r \in Routes, StartInsert(r)
       PROVE  Phases'
  <2>1. worker[r] = "ready"
    BY <1>13, NextPermit
  <2>2. QED
    BY <1>13, <2>1 DEF StartInsert
<1>14. ASSUME NEW r \in Routes, InsertConfirmed(r)
       PROVE  Phases'
  BY <1>14 DEF InsertConfirmed
<1>15. ASSUME NEW r \in Routes, NEW k \in 0 .. BatchLimit, InsertPartial(r, k)
       PROVE  Phases'
  BY <1>15 DEF InsertPartial, WorkerFails
<1>16. ASSUME NEW r \in Routes, NEW k \in 0 .. BatchLimit, InsertLost(r, k)
       PROVE  Phases'
  BY <1>16 DEF InsertLost, WorkerFails
<1>17. CASE MonitorReports
  BY <1>17 DEF MonitorReports
<1>18. CASE MonitorCancelled
  BY <1>18 DEF MonitorCancelled
<1>19. CASE CloseUnopened
  BY <1>19 DEF CloseUnopened
<1>20. CASE CloseBegins
  BY <1>20 DEF CloseBegins
<1>21. CASE FlushEnds
  BY <1>21 DEF FlushEnds
<1>22. CASE FlushTimesOut
  BY <1>22 DEF FlushTimesOut
<1>23. ASSUME NEW disconnected \in BOOLEAN, Disconnect(disconnected)
       PROVE  Phases'
  BY <1>23 DEF Disconnect, CloseOutcome
<1>24. CASE UNCHANGED vars
  BY <1>24 DEF vars
<1>25. CASE RunEnded
  BY <1>24, <1>25 DEF RunEnded
<1>26. QED
  BY <1>1, <1>2, <1>3, <1>4, <1>5, <1>6, <1>7, <1>8, <1>9, <1>10, <1>11, <1>12, <1>13,
     <1>14, <1>15, <1>16, <1>17, <1>18, <1>19, <1>20, <1>21, <1>22, <1>23, <1>24, <1>25
     DEF Next, InsertEnds

----------------------------------------------------------------------------
(* The types of the data.                                                  *)

LEMMA DataInit == Init => DataOK
  BY EmptySeq DEF Init, DataOK

(* What an ordered insert stores, and what it leaves of the batch. *)
LEMMA StoredTypes ==
  ASSUME DataOK, NEW r \in Routes, NEW k \in Nat, k <= Len(batch[r])
  PROVE  /\ SubSeq(batch[r], 1, k) \in Seq(Documents)
         /\ SubSeq(batch[r], k + 1, Len(batch[r])) \in Seq(Documents)
         /\ StoredBy(r, k) \in Seq(Documents)
<1>1. batch[r] \in Seq(Documents) /\ collection[r] \in Seq(Documents)
  BY DEF DataOK
<1>2. k \in 0 .. Len(batch[r])
  BY <1>1, LenProperties
<1>3. /\ SubSeq(batch[r], 1, k) \in Seq(Documents)
      /\ SubSeq(batch[r], k + 1, Len(batch[r])) \in Seq(Documents)
  BY <1>1, <1>2, SplitSequence
<1>4. QED
  BY <1>1, <1>3, ConcatProperties DEF StoredBy

LEMMA AcceptTypes ==
  ASSUME DataOK, NEW d \in Documents, Accept(d)
  PROVE  queue' \in [Routes -> Seq(Documents)] /\ accepted' \in [Routes -> Seq(Documents)]
<1>1. RouteOf[d] \in Routes
  OBVIOUS
<1>2. \A s \in Seq(Documents) : Append(s, d) \in Seq(Documents)
  BY AppendProperties
<1>3. QED
  BY <1>1, <1>2 DEF Accept, DataOK

LEMMA LimitsAreNat == BatchLimit \in Nat \ {0} /\ BatchByteLimit \in Nat \ {0}
  BY DEF BatchLimit, BatchByteLimit

LEMMA DataPreserved ==
  ASSUME DataOK, Phases, [Next]_vars
  PROVE  DataOK'
<1>a. << >> \in Seq(Documents) /\ \A d \in Documents : <<d>> \in Seq(Documents) /\ <<d>> # << >>
  BY EmptySeq
<1>b. \A s \in Seq(Documents) : s # << >> => Head(s) \in Documents /\ Tail(s) \in Seq(Documents)
  BY HeadTailProperties
<1>c. \A s \in Seq(Documents), d \in Documents : Append(s, d) \in Seq(Documents)
  BY AppendProperties
<1>d. \A s \in Seq(Documents) : Len(s) \in Nat
  BY LenProperties
<1>e. caller \in [Connections -> {"idle", "blocked", "stopped", "failed"}]
  BY DEF Phases, PhasesOK
<1>1. CASE OpenSucceeds \/ OpenFails \/ MonitorReports \/ MonitorCancelled \/ CloseUnopened
           \/ CloseBegins \/ FlushEnds \/ RunEnded \/ UNCHANGED vars
  BY <1>1 DEF DataOK, OpenSucceeds, OpenFails, MonitorReports, MonitorCancelled,
              CloseUnopened, CloseBegins, FlushEnds, RunEnded, vars
<1>2. ASSUME NEW disconnected \in BOOLEAN, Disconnect(disconnected)
      PROVE  DataOK'
  BY <1>2 DEF Disconnect, DataOK
<1>3. ASSUME NEW c \in Connections, NEW d \in Documents, WriteAccepted(c, d)
      PROVE  DataOK'
  <2>1. queue' \in [Routes -> Seq(Documents)] /\ accepted' \in [Routes -> Seq(Documents)]
    BY <1>3, AcceptTypes DEF WriteAccepted
  <2>2. QED
    BY <1>3, <2>1 DEF WriteAccepted, Receive, DataOK
<1>4. ASSUME NEW c \in Connections, NEW d \in Documents, WriteBlocks(c, d)
      PROVE  DataOK'
  BY <1>4, <1>a DEF WriteBlocks, Receive, DataOK
<1>5. ASSUME NEW c \in Connections, NEW d \in Documents, WriteRefused(c, d)
      PROVE  DataOK'
  <2>1. /\ caller' = [caller EXCEPT ![c] = "failed"]
        /\ received' = received + 1 /\ UNCHANGED <<queue, carry, batch, persisted, accepted,
                                                   collection, waiting>>
    BY <1>5 DEF WriteRefused, Receive
  <2>2. \A b \in Connections : caller'[b] = "blocked" => caller[b] = "blocked"
    BY <1>e, <2>1
  <2>3. QED
    BY <2>1, <2>2 DEF DataOK
<1>6. ASSUME NEW c \in Connections, WriteResumes(c)
      PROVE  DataOK'
  <2>1. Head(waiting[c]) \in Documents
    BY <1>6, <1>b DEF WriteResumes, DataOK
  <2>2. queue' \in [Routes -> Seq(Documents)] /\ accepted' \in [Routes -> Seq(Documents)]
    BY <1>6, <2>1, AcceptTypes DEF WriteResumes
  <2>3. QED
    BY <1>6, <2>2, <1>a, <1>e DEF WriteResumes, DataOK
<1>7. ASSUME NEW c \in Connections, WriteFails(c) \/ StopConnection(c)
      PROVE  DataOK'
  BY <1>7, <1>a, <1>e DEF WriteFails, StopConnection, DataOK
<1>8. ASSUME NEW r \in Routes, TakeFirst(r)
      PROVE  DataOK'
  <2>1. queue[r] \in Seq(Documents) /\ carry[r] \in Seq(Documents)
    BY DEF DataOK
  <2>2. CASE carry[r] # << >> /\ batch' = [batch EXCEPT ![r] = carry[r]] /\ queue' = queue
    BY <1>8, <1>a, <2>1, <2>2 DEF TakeFirst, DataOK
  <2>3. CASE /\ queue[r] # << >> /\ batch' = [batch EXCEPT ![r] = <<Head(queue[r])>>]
             /\ queue' = [queue EXCEPT ![r] = Tail(@)]
    <3>1. <<Head(queue[r])>> \in Seq(Documents) /\ Tail(queue[r]) \in Seq(Documents)
      BY <1>a, <1>b, <2>1, <2>3
    <3>2. QED
      BY <1>8, <1>a, <2>3, <3>1 DEF TakeFirst, DataOK
  <2>4. QED
    BY <1>8, <2>2, <2>3 DEF TakeFirst, Continue
<1>9. ASSUME NEW r \in Routes, WorkerReturns(r) \/ FillStops(r) \/ StartInsert(r)
      PROVE  DataOK'
  BY <1>9 DEF WorkerReturns, FillStops, StartInsert, Submit, DataOK
<1>10. ASSUME NEW r \in Routes, FillTake(r)
       PROVE  DataOK'
  <2>1. /\ queue[r] \in Seq(Documents) /\ Head(queue[r]) \in Documents
        /\ Tail(queue[r]) \in Seq(Documents) /\ batch[r] \in Seq(Documents)
    BY <1>10, <1>b DEF FillTake, DataOK
  <2>2. /\ <<Head(queue[r])>> \in Seq(Documents)
        /\ Append(batch[r], Head(queue[r])) \in Seq(Documents)
    BY <2>1, <1>a, <1>c
  <2>3. CASE /\ carry' = [carry EXCEPT ![r] = <<Head(queue[r])>>]
             /\ batch' = [batch EXCEPT ![r] = batch[r]]
    BY <1>10, <2>1, <2>2, <2>3 DEF FillTake, DataOK
  <2>4. CASE /\ carry' = carry
             /\ batch' = [batch EXCEPT ![r] = Append(batch[r], Head(queue[r]))]
    BY <1>10, <2>1, <2>2, <2>4 DEF FillTake, DataOK
  <2>5. QED
    BY <1>10, <2>3, <2>4 DEF FillTake, Continue
<1>11. ASSUME NEW r \in Routes, InsertConfirmed(r)
       PROVE  DataOK'
  <2>1. batch[r] \in Seq(Documents) /\ Len(batch[r]) \in Nat /\ Len(batch[r]) <= Len(batch[r])
    BY <1>d DEF DataOK
  <2>2. /\ SubSeq(batch[r], Len(batch[r]) + 1, Len(batch[r])) \in Seq(Documents)
        /\ StoredBy(r, Len(batch[r])) \in Seq(Documents)
    BY <2>1, StoredTypes
  <2>3. QED
    BY <1>11, <2>1, <2>2 DEF InsertConfirmed, Confirm, DataOK
<1>12. ASSUME NEW r \in Routes, NEW k \in 0 .. BatchLimit, InsertPartial(r, k) \/ InsertLost(r, k)
       PROVE  DataOK'
  <2>1. k \in Nat /\ k <= Len(batch[r])
    BY <1>12, LimitsAreNat DEF InsertPartial, InsertLost
  <2>2. /\ SubSeq(batch[r], k + 1, Len(batch[r])) \in Seq(Documents)
        /\ StoredBy(r, k) \in Seq(Documents)
    BY <2>1, StoredTypes
  <2>3. CASE InsertPartial(r, k)
    BY <2>1, <2>2, <2>3 DEF InsertPartial, Confirm, DataOK
  <2>4. CASE InsertLost(r, k)
    BY <2>2, <2>4 DEF InsertLost, DataOK
  <2>5. QED
    BY <1>12, <2>3, <2>4
<1>13. CASE FlushTimesOut
  <2>1. PICK k \in [Inserting -> 0 .. BatchLimit] :
          /\ \A r \in Inserting : k[r] <= Len(batch[r])
          /\ collection' = [r \in Routes |->
                              IF r \in Inserting THEN StoredBy(r, k[r]) ELSE collection[r]]
    BY <1>13 DEF FlushTimesOut
  <2>2. \A r \in Inserting : StoredBy(r, k[r]) \in Seq(Documents)
    BY <2>1, StoredTypes, LimitsAreNat DEF Inserting
  <2>3. collection' \in [Routes -> Seq(Documents)]
    BY <2>1, <2>2 DEF DataOK
  <2>4. QED
    BY <1>13, <2>3 DEF FlushTimesOut, DataOK
<1>14. QED
  BY <1>1, <1>2, <1>3, <1>4, <1>5, <1>6, <1>7, <1>8, <1>9, <1>10, <1>11, <1>12, <1>13
     DEF Next, InsertEnds

----------------------------------------------------------------------------
(* The semaphore.                                                          *)

LEMMA InsertingFinite ==
  IsFiniteSet(Inserting) /\ Cardinality(Inserting) \in Nat
  BY FS_Subset, FS_CardinalityType DEF Inserting

LEMMA PermitsInit == Init => PermitsInv
<1> SUFFICES ASSUME Init PROVE PermitsInv
  OBVIOUS
<1>1. permits = << >> /\ Inserting = {}
  BY DEF Init, Inserting
<1>2. permits \in Seq(Routes) /\ Len(permits) = 0 /\ Cardinality(Inserting) = 0
  BY <1>1, EmptySeq, FS_EmptySet
<1>3. QED
  BY <1>1, <1>2 DEF PermitsInv

(* A step that takes no permit and moves no waiting worker. *)
LEMMA PermitsKept ==
  ASSUME PermitsInv, permits' = permits, Inserting' \subseteq Inserting,
         \A r \in Routes : worker[r] = "ready" => worker'[r] = "ready"
  PROVE  PermitsInv'
<1>1. \A i \in 1 .. Len(permits) : permits[i] \in Routes
  BY ElementOfSeq DEF PermitsInv
<1>2. Cardinality(Inserting') <= Cardinality(Inserting) /\ Cardinality(Inserting') \in Nat
  BY InsertingFinite, FS_Subset, FS_CardinalityType
<1>3. QED
  BY <1>1, <1>2, InsertingFinite DEF PermitsInv

(* A worker with a complete batch queues up. *)
LEMMA PermitsAppended ==
  ASSUME PermitsInv, PhasesOK, NEW r \in Routes, worker[r] \in {"first", "filling"}, Submit(r)
  PROVE  PermitsInv'
<1>1. permits' = Append(permits, r) /\ worker' = [worker EXCEPT ![r] = "ready"]
  BY DEF Submit
<1>2. \A i \in 1 .. Len(permits) : permits[i] \in Routes /\ permits[i] # r
  BY ElementOfSeq DEF PermitsInv
<1>3. /\ permits' \in Seq(Routes) /\ Len(permits') = Len(permits) + 1
      /\ \A i \in 1 .. Len(permits) : permits'[i] = permits[i]
      /\ permits'[Len(permits) + 1] = r
      /\ Len(permits) \in Nat
  BY <1>1, AppendProperties, LenProperties DEF PermitsInv
<1>4. Inserting' = Inserting
  BY <1>1 DEF Inserting, PhasesOK
<1>5. \A i \in 1 .. Len(permits') : i \in 1 .. Len(permits) \/ i = Len(permits) + 1
  BY <1>3
<1>6. \A i \in 1 .. Len(permits') : worker'[permits'[i]] = "ready"
  BY <1>1, <1>2, <1>3, <1>5 DEF PermitsInv, PhasesOK
<1>7. ASSUME NEW i \in 1 .. Len(permits'), NEW j \in 1 .. Len(permits'), permits'[i] = permits'[j]
      PROVE  i = j
  <2>1. CASE i \in 1 .. Len(permits) /\ j \in 1 .. Len(permits)
    BY <1>3, <1>7, <2>1 DEF PermitsInv
  <2>2. CASE i = Len(permits) + 1 \/ j = Len(permits) + 1
    BY <1>2, <1>3, <1>5, <1>7, <2>2
  <2>3. QED
    BY <1>5, <2>1, <2>2
<1>8. QED
  BY <1>3, <1>4, <1>6, <1>7 DEF PermitsInv

(* The first waiter gets a free permit. *)
LEMMA PermitTaken ==
  ASSUME PermitsInv, PhasesOK, NEW r \in Routes, StartInsert(r)
  PROVE  PermitsInv'
<1>1. /\ permits # << >> /\ permits \in Seq(Routes) /\ permits' = Tail(permits)
      /\ worker' = [worker EXCEPT ![r] = "inserting"]
      /\ Head(permits) = r
      /\ Cardinality(Inserting) < MaxConcurrentWrites
  BY DEF StartInsert, PermitsInv
<1>2. /\ permits' \in Seq(Routes) /\ Len(permits') = Len(permits) - 1
      /\ \A i \in 1 .. Len(permits') : permits'[i] = permits[i + 1]
      /\ Len(permits) \in Nat
  BY <1>1, HeadTailProperties, LenProperties
<1>3. permits[1] = r /\ 1 \in 1 .. Len(permits)
  BY <1>1, <1>2, EmptySeq
<1>4. \A i \in 1 .. Len(permits') : i + 1 \in 1 .. Len(permits) /\ i + 1 # 1
  BY <1>2
<1>5. \A i \in 1 .. Len(permits') : permits'[i] # r /\ permits'[i] \in Routes
  BY <1>2, <1>3, <1>4, ElementOfSeq DEF PermitsInv
<1>6. \A i \in 1 .. Len(permits') : worker'[permits'[i]] = "ready"
  BY <1>1, <1>2, <1>4, <1>5 DEF PermitsInv, PhasesOK
<1>7. \A i, j \in 1 .. Len(permits') : permits'[i] = permits'[j] => i = j
  <2>1. TAKE i, j \in 1 .. Len(permits')
  <2>2. permits'[i] = permits[i + 1] /\ permits'[j] = permits[j + 1]
    BY <1>2
  <2>3. permits[i + 1] = permits[j + 1] => i + 1 = j + 1
    BY <1>4 DEF PermitsInv
  <2>4. QED
    BY <2>2, <2>3, <1>2
<1>8. Inserting' = Inserting \union {r}
  BY <1>1 DEF Inserting, PhasesOK
<1>9. Cardinality(Inserting') <= Cardinality(Inserting) + 1 /\ Cardinality(Inserting') \in Nat
  <2>1. /\ Cardinality(Inserting \union {r}) <= Cardinality(Inserting) + 1
        /\ Cardinality(Inserting \union {r}) \in Nat
    <3>1. Cardinality(Inserting \union {r}) \in {Cardinality(Inserting), Cardinality(Inserting) + 1}
      <4>1. CASE r \in Inserting
        BY <4>1, Inserting \union {r} = Inserting
      <4>2. CASE r \notin Inserting
        BY <4>2, InsertingFinite, FS_AddElement
      <4>3. QED
        BY <4>1, <4>2
    <3>2. QED
      BY <3>1, InsertingFinite
  <2>2. QED
    BY <1>8, <2>1
<1>10. QED
  BY <1>1, <1>2, <1>6, <1>7, <1>9, InsertingFinite DEF PermitsInv

LEMMA PermitsPreserved ==
  ASSUME PermitsInv, Phases, [Next]_vars
  PROVE  PermitsInv'
<1> USE DEF Phases
<1>a. worker \in [Routes -> Phase]
  BY DEF PhasesOK
<1>1. CASE permits' = permits /\ worker' = worker
  BY <1>1, PermitsKept DEF Inserting
<1>2. CASE OpenSucceeds
  <2>1. Inserting' \subseteq Inserting /\ \A r \in Routes : worker[r] # "ready"
    BY <1>2 DEF OpenSucceeds, Inserting, LifecycleInv
  <2>2. QED
    BY <1>2, <2>1, PermitsKept DEF OpenSucceeds
<1>3. ASSUME NEW r \in Routes, NEW docs, NEW full \in BOOLEAN,
             worker[r] \in {"first", "filling"}, Continue(r, docs, full)
      PROVE  PermitsInv'
  <2>1. CASE full
    BY <1>3, <2>1, PermitsAppended DEF Continue
  <2>2. CASE ~ full
    <3>1. permits' = permits /\ worker' = [worker EXCEPT ![r] = "filling"]
      BY <1>3, <2>2 DEF Continue
    <3>2. /\ Inserting' \subseteq Inserting
          /\ \A q \in Routes : worker[q] = "ready" => worker'[q] = "ready"
      BY <1>3, <1>a, <3>1 DEF Inserting
    <3>3. QED
      BY <3>1, <3>2, PermitsKept
  <2>3. QED
    BY <2>1, <2>2
<1>4. ASSUME NEW r \in Routes, TakeFirst(r)
      PROVE  PermitsInv'
  <2>1. \E docs : Continue(r, docs, BatchLimit = 1)
    BY <1>4 DEF TakeFirst
  <2>2. QED
    BY <1>3, <1>4, <2>1 DEF TakeFirst
<1>5. ASSUME NEW r \in Routes, FillTake(r)
      PROVE  PermitsInv'
  <2>1. \E docs : \E full \in BOOLEAN : Continue(r, docs, full)
    BY <1>5 DEF FillTake
  <2>2. QED
    BY <1>3, <1>5, <2>1 DEF FillTake
<1>6. ASSUME NEW r \in Routes, FillStops(r)
      PROVE  PermitsInv'
  BY <1>6, PermitsAppended DEF FillStops
<1>7. ASSUME NEW r \in Routes, StartInsert(r)
      PROVE  PermitsInv'
  BY <1>7, PermitTaken
<1>8. ASSUME NEW r \in Routes, worker[r] # "ready", permits' = permits,
             NEW phase \in {"first", "finished", "failed"},
             worker' = [worker EXCEPT ![r] = phase]
      PROVE  PermitsInv'
  <2>1. /\ Inserting' \subseteq Inserting
        /\ \A q \in Routes : worker[q] = "ready" => worker'[q] = "ready"
    BY <1>8, <1>a DEF Inserting
  <2>2. QED
    BY <1>8, <2>1, PermitsKept
<1>9. ASSUME NEW r \in Routes, WorkerReturns(r) \/ InsertConfirmed(r)
      PROVE  PermitsInv'
  BY <1>8, <1>9 DEF WorkerReturns, InsertConfirmed
<1>10. ASSUME NEW r \in Routes, NEW k \in 0 .. BatchLimit, InsertPartial(r, k) \/ InsertLost(r, k)
       PROVE  PermitsInv'
  BY <1>8, <1>10 DEF InsertPartial, InsertLost, WorkerFails
<1>11. CASE FlushTimesOut
  <2>1. permits' = << >> /\ Inserting' = {}
    BY <1>11 DEF FlushTimesOut, Inserting, Ended
  <2>2. permits' \in Seq(Routes) /\ Len(permits') = 0 /\ Cardinality(Inserting') = 0
    BY <2>1, EmptySeq, FS_EmptySet
  <2>3. QED
    BY <2>1, <2>2 DEF PermitsInv
<1>12. QED
  <2>1. ASSUME NEW c \in Connections, NEW d \in Documents,
               WriteAccepted(c, d) \/ WriteBlocks(c, d) \/ WriteRefused(c, d)
        PROVE  PermitsInv'
    BY <1>1, <2>1 DEF WriteAccepted, WriteBlocks, WriteRefused
  <2>2. ASSUME NEW c \in Connections, WriteResumes(c) \/ WriteFails(c) \/ StopConnection(c)
        PROVE  PermitsInv'
    BY <1>1, <2>2 DEF WriteResumes, WriteFails, StopConnection
  <2>3. CASE OpenFails \/ MonitorReports \/ MonitorCancelled \/ CloseUnopened
             \/ CloseBegins \/ FlushEnds \/ RunEnded \/ UNCHANGED vars
    BY <1>1, <2>3 DEF OpenFails, MonitorReports, MonitorCancelled, CloseUnopened,
                      CloseBegins, FlushEnds, RunEnded, vars
  <2>4. ASSUME NEW disconnected \in BOOLEAN, Disconnect(disconnected)
        PROVE  PermitsInv'
    BY <1>1, <2>4 DEF Disconnect
  <2>5. QED
    BY <1>2, <1>4, <1>5, <1>6, <1>7, <1>9, <1>10, <1>11, <2>1, <2>2, <2>3, <2>4
       DEF Next, InsertEnds

----------------------------------------------------------------------------
(* Bytes, and what a worker holds.                                         *)

LEMMA BytesProperties ==
  ASSUME NEW s \in Seq(Documents)
  PROVE  /\ BytesOf(s) \in Nat
         /\ \A d \in Documents : BytesOf(Append(s, d)) = BytesOf(s) + SizeOf[d]
         /\ \A t \in Seq(Documents) : BytesOf(s \o t) = BytesOf(s) + BytesOf(t)
<1>1. \A t : BytesOf(t) = Weight(SizeOf, t)
  BY DEF BytesOf, Weight
<1>2. BytesOf(s) \in Nat
  BY <1>1, WeightConcat
<1>3. \A d \in Documents : BytesOf(Append(s, d)) = BytesOf(s) + SizeOf[d]
  BY <1>1, WeightAppend
<1>4. \A t \in Seq(Documents) : BytesOf(s \o t) = BytesOf(s) + BytesOf(t)
  BY <1>1, WeightConcat
<1>5. QED
  BY <1>2, <1>3, <1>4

LEMMA HoldingInit == Init => HoldingInv
  BY EmptySeq DEF Init, HoldingInv, Holding

(* Only the step of a worker, or of an insert, can disturb what it holds. *)
LEMMA HoldingElsewhere ==
  ASSUME HoldingInv, NEW r \in Routes, worker'[r] = worker[r], carry'[r] = carry[r],
         batch'[r] = batch[r], queue'[r] = queue[r] \/ worker[r] \notin {"none", "finished"}
  PROVE  Holding(r)'
  BY DEF HoldingInv, Holding, WithinBytes

LEMMA HoldingPreserved ==
  ASSUME HoldingInv, DataOK, PermitsInv, Phases, [Next]_vars
  PROVE  HoldingInv'
<1> SUFFICES ASSUME NEW q \in Routes PROVE Holding(q)'
  BY DEF HoldingInv
<1>a. /\ queue[q] \in Seq(Documents) /\ carry[q] \in Seq(Documents)
      /\ batch[q] \in Seq(Documents)
      /\ worker \in [Routes -> Phase] /\ worker[q] \in Phase
      /\ queue \in [Routes -> Seq(Documents)] /\ carry \in [Routes -> Seq(Documents)]
      /\ batch \in [Routes -> Seq(Documents)]
  BY DEF DataOK, Phases, PhasesOK
<1>b. Len(<< >>) = 0 /\ \A d : Len(<<d>>) = 1
  OBVIOUS
<1>c. Holding(q) /\ BatchLimit \in Nat \ {0}
  BY LimitsAreNat DEF HoldingInv
<1>d. Len(batch[q]) \in Nat /\ Len(carry[q]) \in Nat
  BY <1>a, LenProperties
<1>1. CASE UNCHANGED <<worker, carry, batch, queue>>
  BY <1>1, HoldingElsewhere
<1>2. CASE OpenSucceeds
  BY <1>2, <1>b, <1>c DEF OpenSucceeds, Holding, Phases, LifecycleInv
<1>3. ASSUME state = "open", UNCHANGED <<worker, carry, batch>>
      PROVE  Holding(q)'
  BY <1>3, HoldingElsewhere DEF Phases, LifecycleInv
<1>4. ASSUME NEW r \in Routes, r # q, worker'[q] = worker[q], carry'[q] = carry[q],
             batch'[q] = batch[q], queue'[q] = queue[q]
      PROVE  Holding(q)'
  BY <1>4, HoldingElsewhere
<1>5. CASE TakeFirst(q)
  <2>1. /\ worker[q] = "first" /\ carry'[q] = << >>
        /\ Len(batch'[q]) = 1
    <3>1. CASE carry[q] # << >> /\ batch' = [batch EXCEPT ![q] = carry[q]]
      <4>1. Len(carry[q]) = 1
        <5>1. Len(carry[q]) \in Nat \ {0}
          BY <1>a, <3>1, EmptySeq
        <5>2. Len(carry[q]) <= 1
          BY <1>c DEF Holding
        <5>3. \A n \in Nat \ {0} : n <= 1 => n = 1
          OBVIOUS
        <5>4. QED
          BY <5>1, <5>2, <5>3
      <4>2. QED
        BY <1>a, <1>5, <3>1, <4>1 DEF TakeFirst
    <3>2. CASE batch' = [batch EXCEPT ![q] = <<Head(queue[q])>>]
      BY <1>a, <1>b, <1>5, <3>2 DEF TakeFirst
    <3>3. QED
      BY <1>5, <3>1, <3>2 DEF TakeFirst, Continue
  <2>2. worker'[q] = IF BatchLimit = 1 THEN "ready" ELSE "filling"
    BY <1>a, <1>5 DEF TakeFirst, Continue, Submit
  <2>3. QED
    BY <1>b, <1>c, <2>1, <2>2 DEF Holding, WithinBytes
<1>6. CASE WorkerReturns(q)
  BY <1>6, <1>a, <1>b, <1>c DEF WorkerReturns, Holding
<1>7. CASE FillTake(q)
  <2> DEFINE d == Head(queue[q])
  <2>1. /\ d \in Documents /\ carry[q] = << >> /\ Len(batch[q]) \in 1 .. BatchLimit - 1
        /\ WithinBytes(batch[q])
    BY <1>7, <1>a, <1>c, HeadTailProperties DEF FillTake, Holding
  <2>2. /\ Append(batch[q], d) \in Seq(Documents)
        /\ Len(Append(batch[q], d)) = Len(batch[q]) + 1
        /\ BytesOf(Append(batch[q], d)) = BytesOf(batch[q]) + SizeOf[d]
        /\ BytesOf(batch[q]) \in Nat /\ SizeOf[d] \in Nat
    <3>1. /\ Append(batch[q], d) \in Seq(Documents)
          /\ Len(Append(batch[q], d)) = Len(batch[q]) + 1
      BY <1>a, <2>1, AppendProperties
    <3>2. BytesOf(Append(batch[q], d)) = BytesOf(batch[q]) + SizeOf[d] /\ BytesOf(batch[q]) \in Nat
      BY <1>a, <2>1, BytesProperties
    <3>3. QED
      BY <2>1, <3>1, <3>2
  <2>3. CASE /\ carry' = [carry EXCEPT ![q] = <<d>>]
             /\ Continue(q, batch[q], TRUE)
    <3>1. worker'[q] = "ready" /\ batch'[q] = batch[q] /\ Len(carry'[q]) = 1
      BY <1>a, <2>3 DEF Continue, Submit
    <3>2. QED
      BY <1>c, <2>1, <3>1 DEF Holding
  <2>4. CASE /\ BytesOf(batch[q]) + SizeOf[d] <= BatchByteLimit
             /\ UNCHANGED carry
             /\ Continue(q, Append(batch[q], d),
                         Len(batch[q]) + 1 = BatchLimit
                           \/ BytesOf(batch[q]) + SizeOf[d] = BatchByteLimit)
    <3>1. batch'[q] = Append(batch[q], d) /\ carry'[q] = << >>
      BY <1>a, <2>1, <2>4 DEF Continue
    <3>2. \/ worker'[q] = "ready"
          \/ worker'[q] = "filling" /\ Len(batch[q]) + 1 # BatchLimit
      BY <1>a, <2>4 DEF Continue, Submit
    <3>3. Len(batch'[q]) \in 1 .. BatchLimit /\ WithinBytes(batch'[q])
      BY <1>c, <2>1, <2>2, <2>4, <3>1 DEF WithinBytes
    <3>4. worker'[q] = "filling" => Len(batch'[q]) \in 1 .. BatchLimit - 1
      BY <1>c, <2>1, <2>2, <3>1, <3>2
    <3>5. QED
      BY <1>b, <3>1, <3>2, <3>3, <3>4 DEF Holding
  <2>5. QED
    BY <1>7, <2>3, <2>4 DEF FillTake
<1>8. CASE FillStops(q)
  <2>1. worker[q] = "filling" /\ worker'[q] = "ready" /\ UNCHANGED <<batch, carry, queue>>
    BY <1>8, <1>a DEF FillStops, Submit
  <2>2. QED
    BY <1>c, <2>1 DEF Holding
<1>9. CASE StartInsert(q)
  <2>1. worker[q] = "ready" /\ worker'[q] = "inserting" /\ UNCHANGED <<batch, carry, queue>>
    BY <1>9, <1>a, NextPermit DEF StartInsert
  <2>2. QED
    BY <1>c, <2>1 DEF Holding
<1>10. CASE InsertConfirmed(q)
  <2>1. worker'[q] = "first" /\ batch'[q] = SubSeq(batch[q], Len(batch[q]) + 1, Len(batch[q]))
        /\ UNCHANGED <<carry, queue>>
    BY <1>10, <1>a DEF InsertConfirmed, Confirm
  <2>2. batch'[q] = << >>
    BY <1>d, <2>1, SubSeqEmpty
  <2>3. QED
    BY <1>c, <2>1, <2>2 DEF Holding
<1>11. ASSUME NEW k \in 0 .. BatchLimit, InsertPartial(q, k) \/ InsertLost(q, k)
       PROVE  Holding(q)'
  <2>1. worker'[q] = "failed" /\ UNCHANGED carry
    BY <1>11, <1>a DEF InsertPartial, InsertLost, WorkerFails
  <2>2. QED
    BY <1>c, <2>1 DEF Holding
<1>12. CASE FlushTimesOut
  <2>1. /\ UNCHANGED <<batch, carry, queue>>
        /\ worker'[q] = worker[q] \/ worker'[q] = "cancelled"
    BY <1>12, <1>a DEF FlushTimesOut
  <2>2. QED
    BY <1>c, <2>1, HoldingElsewhere DEF Holding
<1>13. ASSUME NEW r \in Routes, r # q,
              \/ TakeFirst(r) \/ WorkerReturns(r) \/ FillTake(r) \/ FillStops(r)
              \/ StartInsert(r) \/ InsertEnds(r)
       PROVE  Holding(q)'
  <2> USE <1>4, <1>a
  <2>1. CASE TakeFirst(r)
    BY <1>13, <2>1 DEF TakeFirst, Continue, Submit
  <2>2. CASE WorkerReturns(r)
    BY <1>13, <2>2 DEF WorkerReturns
  <2>3. CASE FillTake(r)
    BY <1>13, <2>3 DEF FillTake, Continue, Submit
  <2>4. CASE FillStops(r)
    BY <1>13, <2>4 DEF FillStops, Submit
  <2>5. CASE StartInsert(r)
    BY <1>13, <2>5 DEF StartInsert
  <2>6. CASE InsertConfirmed(r)
    BY <1>13, <2>6 DEF InsertConfirmed, Confirm
  <2>7. ASSUME NEW k \in 0 .. BatchLimit, InsertPartial(r, k)
        PROVE  Holding(q)'
    BY <1>13, <2>7 DEF InsertPartial, Confirm, WorkerFails
  <2>8. ASSUME NEW k \in 0 .. BatchLimit, InsertLost(r, k)
        PROVE  Holding(q)'
    BY <1>13, <2>8 DEF InsertLost, WorkerFails
  <2>9. QED
    BY <1>13, <2>1, <2>2, <2>3, <2>4, <2>5, <2>6, <2>7, <2>8 DEF InsertEnds
<1>14. QED
  <2>1. ASSUME NEW c \in Connections, NEW d \in Documents,
               WriteAccepted(c, d) \/ WriteBlocks(c, d) \/ WriteRefused(c, d)
        PROVE  Holding(q)'
    BY <1>3, <2>1 DEF WriteAccepted, WriteBlocks, WriteRefused, Receive
  <2>2. ASSUME NEW c \in Connections, WriteFails(c) \/ StopConnection(c)
        PROVE  Holding(q)'
    BY <1>1, <2>2 DEF WriteFails, StopConnection
  <2>3. ASSUME NEW c \in Connections, WriteResumes(c)
        PROVE  Holding(q)'
    <3>1. state = "open"
      BY <2>3 DEF WriteResumes, Phases, PhasesOK, LifecycleInv, CloseRequested, CallersEnded
    <3>2. QED
      BY <1>3, <2>3, <3>1 DEF WriteResumes
  <2>4. CASE OpenFails \/ MonitorReports \/ MonitorCancelled \/ CloseUnopened
             \/ CloseBegins \/ FlushEnds \/ RunEnded \/ UNCHANGED vars
    BY <1>1, <2>4 DEF OpenFails, MonitorReports, MonitorCancelled, CloseUnopened,
                      CloseBegins, FlushEnds, RunEnded, vars
  <2>5. ASSUME NEW disconnected \in BOOLEAN, Disconnect(disconnected)
        PROVE  Holding(q)'
    BY <1>1, <2>5 DEF Disconnect
  <2>6. ASSUME NEW r \in Routes,
               \/ TakeFirst(r) \/ WorkerReturns(r) \/ FillTake(r) \/ FillStops(r)
               \/ StartInsert(r) \/ InsertEnds(r)
        PROVE  Holding(q)'
    BY <1>5, <1>6, <1>7, <1>8, <1>9, <1>10, <1>11, <1>13, <2>6 DEF InsertEnds
  <2>7. QED
    BY <1>2, <1>12, <2>1, <2>2, <2>3, <2>4, <2>5, <2>6 DEF Next

----------------------------------------------------------------------------
(* What the steps do to the documents that a route holds.                  *)

LEMMA FirstAndRest ==
  ASSUME NEW s \in Seq(Documents), s # << >>
  PROVE  /\ Head(s) \in Documents /\ <<Head(s)>> \in Seq(Documents)
         /\ Tail(s) \in Seq(Documents)
         /\ <<Head(s)>> \o Tail(s) = s
<1>1. Len(s) \in Nat \ {0}
  BY EmptySeq
<1>2. SubSeq(s, 1, Len(s)) = <<s[1]>> \o SubSeq(s, 2, Len(s))
  BY <1>1, SubSeqRecursiveFirst, 1 \in 1 .. Len(s), Len(s) \in 1 .. Len(s), 1 + 1 = 2
<1>3. Tail(s) = SubSeq(s, 2, Len(s)) /\ Head(s) = s[1] /\ SubSeq(s, 1, Len(s)) = s
  BY TailIsSubSeq, SubSeqFull
<1>4. Head(s) \in Documents /\ Tail(s) \in Seq(Documents)
  BY HeadTailProperties
<1>5. QED
  BY <1>2, <1>3, <1>4

LEMMA Associative ==
  \A s, t, u \in Seq(Documents) : (s \o t) \o u = s \o (t \o u)
  BY ConcatAssociative

LEMMA HeldTypes ==
  ASSUME DataOK, NEW r \in Routes
  PROVE  /\ batch[r] \in Seq(Documents) /\ carry[r] \in Seq(Documents)
         /\ queue[r] \in Seq(Documents)
         /\ Held(r) \in Seq(Documents)
         /\ Held(r) = batch[r] \o (carry[r] \o queue[r])
<1>1. /\ batch[r] \in Seq(Documents) /\ carry[r] \in Seq(Documents)
      /\ queue[r] \in Seq(Documents)
  BY DEF DataOK
<1>2. Held(r) \in Seq(Documents)
  BY <1>1, ConcatProperties DEF Held
<1>3. Held(r) = batch[r] \o (carry[r] \o queue[r])
  BY <1>1, Associative DEF Held
<1>4. QED
  BY <1>1, <1>2, <1>3

(* A worker's own steps only move documents along. *)
LEMMA HeldMoved ==
  ASSUME DataOK, HoldingInv, NEW r \in Routes,
         TakeFirst(r) \/ WorkerReturns(r) \/ FillTake(r) \/ FillStops(r) \/ StartInsert(r),
         NEW q \in Routes
  PROVE  Held(q)' = Held(q)
<1>a. /\ queue \in [Routes -> Seq(Documents)] /\ carry \in [Routes -> Seq(Documents)]
      /\ batch \in [Routes -> Seq(Documents)]
  BY DEF DataOK
<1>1. CASE UNCHANGED <<batch, carry, queue>>
  BY <1>1 DEF Held
<1>2. CASE r # q
  BY <1>a, <1>2 DEF Held, TakeFirst, WorkerReturns, FillTake, FillStops, StartInsert,
                    Continue, Submit
<1> DEFINE b == batch[q]
           c == carry[q]
           s == queue[q]
           d == Head(s)
           t == Tail(s)
<1>b. b \in Seq(Documents) /\ c \in Seq(Documents) /\ s \in Seq(Documents)
  BY <1>a
<1>3. CASE TakeFirst(q)
  <2>1. b = << >>
    BY <1>3 DEF TakeFirst, HoldingInv, Holding
  <2>2. CASE c # << >> /\ batch'[q] = c /\ carry'[q] = << >> /\ queue'[q] = s
    <3>1. (<< >> \o c) \o s = (c \o << >>) \o s
      BY <1>b, ConcatEmptySeq
    <3>2. QED
      BY <2>1, <2>2, <3>1 DEF Held
  <2>3. CASE /\ c = << >> /\ s # << >> /\ batch'[q] = <<d>> /\ carry'[q] = << >>
             /\ queue'[q] = t
    <3>1. (<< >> \o << >>) \o s = s
      BY <1>b, ConcatEmptySeq, EmptySeq
    <3>2. <<d>> \in Seq(Documents) /\ t \in Seq(Documents) /\ <<d>> \o t = s
      BY <1>b, <2>3, FirstAndRest
    <3>3. (<<d>> \o << >>) \o t = s
      BY <3>2, ConcatEmptySeq
    <3>4. QED
      BY <2>1, <2>3, <3>1, <3>3 DEF Held
  <2>4. QED
    BY <1>a, <1>3, <2>2, <2>3 DEF TakeFirst, Continue
<1>4. CASE FillTake(q)
  <2>1. c = << >> /\ s # << >>
    BY <1>4 DEF FillTake, HoldingInv, Holding
  <2>2. /\ d \in Documents /\ <<d>> \in Seq(Documents) /\ t \in Seq(Documents)
        /\ <<d>> \o t = s
    BY <1>b, <2>1, FirstAndRest
  <2>3. (b \o <<d>>) \o t = (b \o << >>) \o s
    <3>1. b \o << >> = b
      BY <1>b, ConcatEmptySeq
    <3>2. (b \o <<d>>) \o t = b \o (<<d>> \o t)
      BY <1>b, <2>2, Associative
    <3>3. QED
      BY <2>2, <3>1, <3>2
  <2>4. CASE batch'[q] = b /\ carry'[q] = <<d>> /\ queue'[q] = t
    BY <2>1, <2>3, <2>4 DEF Held
  <2>5. CASE batch'[q] = Append(b, d) /\ carry'[q] = c /\ queue'[q] = t
    <3>1. (Append(b, d) \o << >>) \o t = (b \o <<d>>) \o t
      <4>1. Append(b, d) = b \o <<d>> /\ Append(b, d) \in Seq(Documents)
        BY <1>b, <2>2, AppendIsConcat, AppendProperties
      <4>2. QED
        BY <4>1, ConcatEmptySeq
    <3>2. QED
      BY <2>1, <2>3, <2>5, <3>1 DEF Held
  <2>6. QED
    BY <1>a, <1>4, <2>4, <2>5 DEF FillTake, Continue
<1>5. QED
  BY <1>1, <1>2, <1>3, <1>4 DEF WorkerReturns, FillStops, StartInsert, Submit

(* A granted write adds its document at the end. *)
LEMMA HeldAccepted ==
  ASSUME DataOK, NEW d \in Documents, Accept(d), UNCHANGED <<batch, carry>>
  PROVE  /\ Held(RouteOf[d])' = Append(Held(RouteOf[d]), d)
         /\ \A q \in Routes \ {RouteOf[d]} : Held(q)' = Held(q)
<1> DEFINE r == RouteOf[d]
<1>1. r \in Routes
  OBVIOUS
<1>2. queue' = [queue EXCEPT ![r] = Append(@, d)] /\ queue \in [Routes -> Seq(Documents)]
  BY DEF Accept, DataOK
<1>3. batch[r] \o carry[r] \in Seq(Documents) /\ queue[r] \in Seq(Documents)
  BY <1>1, ConcatProperties DEF DataOK
<1>4. (batch[r] \o carry[r]) \o Append(queue[r], d) = Append((batch[r] \o carry[r]) \o queue[r], d)
  <2> DEFINE u == batch[r] \o carry[r]
             v == queue[r]
  <2>1. u \in Seq(Documents) /\ v \in Seq(Documents) /\ <<d>> \in Seq(Documents)
    BY <1>3
  <2> HIDE DEF u, v
  <2>2. Append(v, d) = v \o <<d>> /\ Append(u \o v, d) = (u \o v) \o <<d>>
    BY <2>1, AppendIsConcat, ConcatProperties
  <2>3. (u \o v) \o <<d>> = u \o (v \o <<d>>)
    BY <2>1, ConcatAssociative
  <2>4. QED
    BY <2>2, <2>3 DEF u, v
<1>5. QED
  BY <1>1, <1>2, <1>4 DEF Held

(* Confirmed documents are the first of those that the route held. *)
LEMMA HeldConfirmed ==
  ASSUME DataOK, NEW r \in Routes, NEW k \in 0 .. Len(batch[r]), Confirm(r, k),
         UNCHANGED <<carry, queue>>
  PROVE  /\ SubSeq(batch[r], 1, k) \in Seq(Documents) /\ Held(r)' \in Seq(Documents)
         /\ Len(SubSeq(batch[r], 1, k)) = k
         /\ Held(r) = SubSeq(batch[r], 1, k) \o Held(r)'
         /\ \A q \in Routes \ {r} : Held(q)' = Held(q)
<1> DEFINE b == batch[r]
           head == SubSeq(b, 1, k)
           tail == SubSeq(b, k + 1, Len(b))
           rest == carry[r] \o queue[r]
<1>1. batch' = [batch EXCEPT ![r] = tail] /\ batch \in [Routes -> Seq(Documents)]
  BY DEF Confirm, DataOK
<1>2. /\ head \in Seq(Documents) /\ tail \in Seq(Documents) /\ head \o tail = b
      /\ Len(head) = k
  BY <1>1, SplitSequence
<1>3. carry[r] \in Seq(Documents) /\ queue[r] \in Seq(Documents) /\ rest \in Seq(Documents)
  BY ConcatProperties DEF DataOK
<1>4. Held(r)' = tail \o rest
  <2>1. Held(r)' = (tail \o carry[r]) \o queue[r]
    BY <1>1 DEF Held
  <2> HIDE DEF tail
  <2>2. QED
    BY <1>2, <1>3, <2>1, Associative
<1>5. Held(r) = b \o rest
  BY HeldTypes
<1>6. tail \o rest \in Seq(Documents) /\ head \o (tail \o rest) = (head \o tail) \o rest
  <2> HIDE DEF head, tail, rest
  <2>1. QED
    BY <1>2, <1>3, Associative, ConcatProperties
<1>7. \A q \in Routes \ {r} : Held(q)' = Held(q)
  BY <1>1 DEF Held
<1>8. QED
  BY <1>2, <1>4, <1>5, <1>6, <1>7

----------------------------------------------------------------------------
(* The shared budget.                                                      *)

HeldDocuments == [r \in Routes |-> Len(Held(r))]
HeldBytes == [r \in Routes |-> BytesOf(Held(r))]

LEMMA HeldCounts ==
  ASSUME DataOK
  PROVE  HeldDocuments \in [Routes -> Nat] /\ HeldBytes \in [Routes -> Nat]
<1>1. \A r \in Routes : Held(r) \in Seq(Documents)
  BY HeldTypes
<1>2. \A r \in Routes : Len(Held(r)) \in Nat
  BY <1>1, LenProperties
<1>3. \A r \in Routes : BytesOf(Held(r)) \in Nat
  BY <1>1, BytesProperties
<1>4. QED
  BY <1>2, <1>3 DEF HeldDocuments, HeldBytes

LEMMA BudgetInit == Init => BudgetInv
<1> SUFFICES ASSUME Init PROVE BudgetInv
  OBVIOUS
<1>1. \A r \in Routes : Held(r) = << >>
  BY EmptySeq, ConcatEmptySeq DEF Init, Held
<1>2. Len(<< >>) = 0 /\ BytesOf(<< >>) = 0
  BY WeightEmpty DEF BytesOf, Weight
<1>3. \A r \in Routes : HeldDocuments[r] = 0 /\ HeldBytes[r] = 0
  BY <1>1, <1>2 DEF HeldDocuments, HeldBytes
<1>4. SumFunction(HeldDocuments) = 0 /\ SumFunction(HeldBytes) = 0
  <2>1. SumFunctionOnSet(HeldDocuments, Routes) = 0 /\ SumFunctionOnSet(HeldBytes, Routes) = 0
    BY <1>3, SumOfZeros
  <2>2. DOMAIN HeldDocuments = Routes /\ DOMAIN HeldBytes = Routes
    BY DEF HeldDocuments, HeldBytes
  <2>3. QED
    BY <2>1, <2>2 DEF SumFunction
<1>5. BudgetExact
  BY <1>1, <1>2, <1>4 DEF Init, BudgetExact, HeldDocuments, HeldBytes
<1>6. QED
  BY <1>5 DEF Init, BudgetInv

LEMMA BudgetKept ==
  ASSUME BudgetInv, UNCHANGED budgetVars, \A r \in Routes : Held(r)' = Held(r)
  PROVE  BudgetInv'
<1>1. HeldDocuments' = HeldDocuments /\ HeldBytes' = HeldBytes
  BY DEF HeldDocuments, HeldBytes
<1>2. BudgetExact'
  BY <1>1 DEF BudgetInv, BudgetExact, HeldDocuments, HeldBytes
<1>3. QED
  BY <1>2 DEF BudgetInv

(* When one route's documents change, the budget must change as much. *)
LEMMA BudgetChange ==
  ASSUME DataOK, DataOK', BudgetInv, NEW r \in Routes,
         \A q \in Routes \ {r} : Held(q)' = Held(q)
  PROVE  /\ SumFunction(HeldDocuments') \in Nat /\ SumFunction(HeldBytes') \in Nat
         /\ Len(Held(r)) \in Nat /\ Len(Held(r)') \in Nat
         /\ BytesOf(Held(r)) \in Nat /\ BytesOf(Held(r)') \in Nat
         /\ SumFunction(HeldDocuments') + Len(Held(r)) = documents + Len(Held(r)')
         /\ SumFunction(HeldBytes') + BytesOf(Held(r)) = bytes + BytesOf(Held(r)')
<1>1. HeldDocuments \in [Routes -> Nat] /\ HeldBytes \in [Routes -> Nat]
  BY HeldCounts
<1>2. HeldDocuments' \in [Routes -> Nat] /\ HeldBytes' \in [Routes -> Nat]
  <2>1. \A q \in Routes : Held(q)' \in Seq(Documents)
    BY ConcatProperties DEF DataOK, Held
  <2>2. \A q \in Routes : Len(Held(q)') \in Nat
    BY <2>1, LenProperties
  <2>3. \A q \in Routes : BytesOf(Held(q)') \in Nat
    BY <2>1, BytesProperties
  <2>4. QED
    BY <2>2, <2>3 DEF HeldDocuments, HeldBytes
<1>3. \A q \in Routes \ {r} : HeldDocuments'[q] = HeldDocuments[q] /\ HeldBytes'[q] = HeldBytes[q]
  BY DEF HeldDocuments, HeldBytes
<1>4. /\ HeldDocuments[r] = Len(Held(r)) /\ HeldDocuments'[r] = Len(Held(r)')
      /\ HeldBytes[r] = BytesOf(Held(r)) /\ HeldBytes'[r] = BytesOf(Held(r)')
  BY DEF HeldDocuments, HeldBytes
<1>5. documents = SumFunction(HeldDocuments) /\ bytes = SumFunction(HeldBytes)
  BY DEF BudgetInv, BudgetExact, HeldDocuments, HeldBytes
<1>6. /\ SumFunction(HeldDocuments') \in Nat
      /\ SumFunction(HeldDocuments') + HeldDocuments[r]
           = SumFunction(HeldDocuments) + HeldDocuments'[r]
  <2>1. \A q \in Routes \ {r} : HeldDocuments'[q] = HeldDocuments[q]
    BY <1>3
  <2>2. HeldDocuments \in [Routes -> Nat] /\ HeldDocuments' \in [Routes -> Nat]
    BY <1>1, <1>2
  <2>3. QED
    BY <2>1, <2>2, SumUpdate
<1>7. /\ SumFunction(HeldBytes') \in Nat
      /\ SumFunction(HeldBytes') + HeldBytes[r] = SumFunction(HeldBytes) + HeldBytes'[r]
  <2>1. \A q \in Routes \ {r} : HeldBytes'[q] = HeldBytes[q]
    BY <1>3
  <2>2. HeldBytes \in [Routes -> Nat] /\ HeldBytes' \in [Routes -> Nat]
    BY <1>1, <1>2
  <2>3. QED
    BY <2>1, <2>2, SumUpdate
<1>8. QED
  BY <1>1, <1>2, <1>4, <1>5, <1>6, <1>7

LEMMA BudgetAccepted ==
  ASSUME DataOK, DataOK', BudgetInv, NEW d \in Documents, Fits(d), Accept(d),
         UNCHANGED <<batch, carry>>
  PROVE  BudgetInv'
<1> DEFINE r == RouteOf[d]
<1>1. r \in Routes /\ SizeOf[d] \in Nat
  OBVIOUS
<1>2. Held(r)' = Append(Held(r), d) /\ \A q \in Routes \ {r} : Held(q)' = Held(q)
  BY HeldAccepted
<1>3. Held(r) \in Seq(Documents)
  BY <1>1, HeldTypes
<1>4. Len(Held(r)') = Len(Held(r)) + 1 /\ BytesOf(Held(r)') = BytesOf(Held(r)) + SizeOf[d]
  BY <1>2, <1>3, AppendProperties, BytesProperties
<1>5. /\ SumFunction(HeldDocuments') \in Nat /\ SumFunction(HeldBytes') \in Nat
      /\ Len(Held(r)) \in Nat /\ BytesOf(Held(r)) \in Nat
      /\ SumFunction(HeldDocuments') + Len(Held(r)) = documents + Len(Held(r)')
      /\ SumFunction(HeldBytes') + BytesOf(Held(r)) = bytes + BytesOf(Held(r)')
  BY <1>1, <1>2, BudgetChange
<1>6. documents \in Nat /\ bytes \in Nat
  BY DEF BudgetInv
<1>7. documents' = SumFunction(HeldDocuments') /\ bytes' = SumFunction(HeldBytes')
  BY <1>1, <1>4, <1>5, <1>6 DEF Accept
<1>8. /\ pendingDocuments' = [pendingDocuments EXCEPT ![r] = Len(Held(r)')]
      /\ pendingBytes' = [pendingBytes EXCEPT ![r] = BytesOf(Held(r)')]
  BY <1>1, <1>4 DEF Accept, BudgetInv, BudgetExact
<1>9. BudgetExact'
  BY <1>1, <1>2, <1>7, <1>8 DEF BudgetExact, BudgetInv, HeldDocuments, HeldBytes
<1>10. pendingDocuments' \in [Routes -> Nat] /\ pendingBytes' \in [Routes -> Nat]
  BY <1>1, <1>4, <1>5, <1>8 DEF BudgetInv
<1>11. documents' \in 0 .. BufferMaxDocuments /\ bytes' \in 0 .. BufferMaxBytes
  BY <1>1, <1>6 DEF Accept, Fits
<1>12. QED
  BY <1>9, <1>10, <1>11 DEF BudgetInv

LEMMA BudgetConfirmed ==
  ASSUME DataOK, DataOK', BudgetInv, NEW r \in Routes, NEW k \in 0 .. Len(batch[r]),
         Confirm(r, k), UNCHANGED <<carry, queue>>
  PROVE  BudgetInv'
<1> DEFINE head == SubSeq(batch[r], 1, k)
<1>1. /\ head \in Seq(Documents) /\ Held(r)' \in Seq(Documents) /\ Len(head) = k
      /\ Held(r) = head \o Held(r)'
      /\ \A q \in Routes \ {r} : Held(q)' = Held(q)
  BY HeldConfirmed
<1>2. Len(Held(r)) = k + Len(Held(r)')
  BY <1>1, ConcatProperties
<1>3. BytesOf(Held(r)) = BytesOf(head) + BytesOf(Held(r)') /\ BytesOf(head) \in Nat
  BY <1>1, BytesProperties
<1>4. /\ SumFunction(HeldDocuments') \in Nat /\ SumFunction(HeldBytes') \in Nat
      /\ Len(Held(r)') \in Nat /\ BytesOf(Held(r)') \in Nat
      /\ SumFunction(HeldDocuments') + Len(Held(r)) = documents + Len(Held(r)')
      /\ SumFunction(HeldBytes') + BytesOf(Held(r)) = bytes + BytesOf(Held(r)')
  BY <1>1, BudgetChange
<1>5. /\ documents \in 0 .. BufferMaxDocuments /\ bytes \in 0 .. BufferMaxBytes
      /\ BufferMaxDocuments \in Nat /\ BufferMaxBytes \in Nat
      /\ k \in Nat
  <2>1. k \in Nat
    <3>1. Len(batch[r]) \in Nat
      BY LenProperties DEF DataOK
    <3>2. QED
      BY <3>1
  <2>2. QED
    BY <2>1 DEF BudgetInv
<1>6. documents' = documents - k /\ bytes' = bytes - BytesOf(head)
  BY DEF Confirm
<1>7. documents' = SumFunction(HeldDocuments') /\ bytes' = SumFunction(HeldBytes')
  BY <1>2, <1>3, <1>4, <1>5, <1>6
<1>8. documents' \in 0 .. BufferMaxDocuments /\ bytes' \in 0 .. BufferMaxBytes
  BY <1>3, <1>4, <1>5, <1>6, <1>7
<1>9. /\ pendingDocuments[r] - k = Len(Held(r)')
      /\ pendingBytes[r] - BytesOf(head) = BytesOf(Held(r)')
  <2>1. pendingDocuments[r] = Len(Held(r)) /\ pendingBytes[r] = BytesOf(Held(r))
    BY DEF BudgetInv, BudgetExact
  <2>2. QED
    BY <1>2, <1>3, <1>4, <1>5, <2>1
<1>10. /\ pendingDocuments' = [pendingDocuments EXCEPT ![r] = Len(Held(r)')]
       /\ pendingBytes' = [pendingBytes EXCEPT ![r] = BytesOf(Held(r)')]
  BY <1>9 DEF Confirm, BudgetInv
<1>11. BudgetExact'
  BY <1>1, <1>7, <1>10 DEF BudgetExact, BudgetInv, HeldDocuments, HeldBytes
<1>12. pendingDocuments' \in [Routes -> Nat] /\ pendingBytes' \in [Routes -> Nat]
  BY <1>4, <1>10 DEF BudgetInv
<1>13. QED
  BY <1>8, <1>11, <1>12 DEF BudgetInv
LEMMA BudgetPreserved ==
  ASSUME BudgetInv, DataOK, DataOK', HoldingInv, Phases, [Next]_vars
  PROVE  BudgetInv'
<1>1. CASE UNCHANGED <<budgetVars, batch, carry, queue>>
  BY <1>1, BudgetKept DEF Held
<1>2. ASSUME NEW c \in Connections, NEW d \in Documents, WriteAccepted(c, d)
      PROVE  BudgetInv'
  BY <1>2, BudgetAccepted DEF WriteAccepted
<1>3. ASSUME NEW c \in Connections, WriteResumes(c)
      PROVE  BudgetInv'
  <2>1. Head(waiting[c]) \in Documents
    BY <1>3, HeadTailProperties DEF WriteResumes, DataOK
  <2>2. QED
    BY <1>3, <2>1, BudgetAccepted DEF WriteResumes
<1>4. ASSUME NEW r \in Routes,
             TakeFirst(r) \/ WorkerReturns(r) \/ FillTake(r) \/ FillStops(r) \/ StartInsert(r)
      PROVE  BudgetInv'
  <2>1. \A q \in Routes : Held(q)' = Held(q)
    BY <1>4, HeldMoved
  <2>2. UNCHANGED budgetVars
    BY <1>4 DEF TakeFirst, WorkerReturns, FillTake, FillStops, StartInsert
  <2>3. QED
    BY <2>1, <2>2, BudgetKept
<1>5. ASSUME NEW r \in Routes, InsertConfirmed(r)
      PROVE  BudgetInv'
  <2>1. Len(batch[r]) \in 0 .. Len(batch[r])
    BY LenProperties DEF DataOK
  <2>2. QED
    BY <1>5, <2>1, BudgetConfirmed DEF InsertConfirmed
<1>6. ASSUME NEW r \in Routes, NEW k \in 0 .. BatchLimit, InsertPartial(r, k)
      PROVE  BudgetInv'
  <2>1. k \in 0 .. Len(batch[r])
    BY <1>6, LimitsAreNat, LenProperties DEF DataOK, InsertPartial
  <2>2. QED
    BY <1>6, <2>1, BudgetConfirmed DEF InsertPartial
<1>7. ASSUME NEW r \in Routes, NEW k \in 0 .. BatchLimit, InsertLost(r, k)
      PROVE  BudgetInv'
  BY <1>1, <1>7 DEF InsertLost
<1>8. ASSUME NEW c \in Connections, NEW d \in Documents, WriteBlocks(c, d) \/ WriteRefused(c, d)
      PROVE  BudgetInv'
  BY <1>1, <1>8 DEF WriteBlocks, WriteRefused
<1>9. ASSUME NEW c \in Connections, WriteFails(c) \/ StopConnection(c)
      PROVE  BudgetInv'
  BY <1>1, <1>9 DEF WriteFails, StopConnection
<1>10. CASE OpenSucceeds \/ OpenFails \/ MonitorReports \/ MonitorCancelled \/ CloseUnopened
            \/ CloseBegins \/ FlushEnds \/ FlushTimesOut \/ RunEnded \/ UNCHANGED vars
  BY <1>1, <1>10 DEF OpenSucceeds, OpenFails, MonitorReports, MonitorCancelled, CloseUnopened,
                     CloseBegins, FlushEnds, FlushTimesOut, RunEnded, vars
<1>11. ASSUME NEW disconnected \in BOOLEAN, Disconnect(disconnected)
       PROVE  BudgetInv'
  BY <1>1, <1>11 DEF Disconnect
<1>12. QED
  BY <1>2, <1>3, <1>4, <1>5, <1>6, <1>7, <1>8, <1>9, <1>10, <1>11 DEF Next, InsertEnds

----------------------------------------------------------------------------
(* What is stored.                                                         *)

LEMMA StoredInit == Init => StoredInv
<1> SUFFICES ASSUME Init, NEW r \in Routes PROVE Stored(r)
  BY DEF StoredInv
<1>1. /\ persisted[r] = 0 /\ collection[r] = << >> /\ accepted[r] = << >>
      /\ batch[r] = << >> /\ carry[r] = << >> /\ queue[r] = << >>
  BY DEF Init
<1>2. << >> \in Seq(Documents) /\ Len(<< >>) = 0 /\ SubSeq(<< >>, 1, 0) = << >>
  BY EmptySeq, SubSeqEmpty
<1>3. << >> \o << >> = << >>
  BY <1>2, ConcatEmptySeq
<1>4. QED
  BY <1>1, <1>2, <1>3 DEF Stored, Held

LEMMA PrefixOfSum ==
  ASSUME NEW s \in Seq(Documents), NEW t \in Seq(Documents)
  PROVE  Len(s) <= Len(s \o t) /\ SubSeq(s \o t, 1, Len(s)) = s
<1>1. << >> \in Seq(Documents) /\ Len(<< >>) = 0 /\ 0 \in 0 .. Len(<< >>)
  BY EmptySeq
<1>2. Len(s) \in Nat /\ Len(t) \in Nat /\ Len(s \o t) = Len(s) + Len(t)
  BY LenProperties, ConcatProperties
<1>3. SubSeq(s \o << >> \o t, 1, Len(s) + 0) = s \o SubSeq(<< >>, 1, 0)
  BY <1>1, PrefixOfConcat
<1>4. s \o << >> = s /\ SubSeq(<< >>, 1, 0) = << >> /\ Len(s) + 0 = Len(s)
  BY <1>2, ConcatEmptySeq, SubSeqEmpty
<1>5. QED
  BY <1>2, <1>3, <1>4

(* While an insert runs, everything in the collection is confirmed; the    *)
(* insert stores some first documents of the batch, the next ones the      *)
(* queue took.                                                             *)
LEMMA StoredExtends ==
  ASSUME DataOK, NEW r \in Routes, Stored(r), worker[r] = "inserting",
         NEW k \in 0 .. Len(batch[r]), NEW rest \in Seq(Documents),
         Held(r) = SubSeq(batch[r], 1, k) \o rest
  PROVE  /\ persisted[r] = Len(collection[r])
         /\ StoredBy(r, k) \in Seq(Documents) /\ Len(StoredBy(r, k)) = Len(collection[r]) + k
         /\ accepted[r] = StoredBy(r, k) \o rest
         /\ Len(StoredBy(r, k)) <= Len(accepted[r])
         /\ StoredBy(r, k) = SubSeq(accepted[r], 1, Len(StoredBy(r, k)))
         /\ SubSeq(StoredBy(r, k), 1, Len(collection[r])) = collection[r]
         /\ SubSeq(StoredBy(r, k), 1, Len(collection[r]) + k) = StoredBy(r, k)
<1> DEFINE c == collection[r]
           head == SubSeq(batch[r], 1, k)
           all == StoredBy(r, k)
<1>1. c \in Seq(Documents) /\ head \in Seq(Documents) /\ Len(head) = k /\ Len(c) \in Nat
  <2>1. batch[r] \in Seq(Documents) /\ c \in Seq(Documents)
    BY DEF DataOK
  <2>2. Len(c) \in Nat
    BY <2>1, LenProperties
  <2>3. head \in Seq(Documents) /\ Len(head) = k
    BY <2>1, SplitSequence
  <2>4. QED
    BY <2>1, <2>2, <2>3
<1>2. all = c \o head
  BY DEF StoredBy
<1>3. persisted[r] = Len(c)
  BY DEF Stored
<1>4. accepted[r] = c \o (head \o rest)
  BY <1>1, <1>3, SubSeqFull DEF Stored
<1> HIDE DEF head, all, c
<1>5. all \in Seq(Documents) /\ Len(all) = Len(c) + k
  BY <1>1, <1>2, ConcatProperties
<1>6. accepted[r] = all \o rest
  BY <1>1, <1>2, <1>4, Associative
<1>7. Len(all) <= Len(all \o rest) /\ SubSeq(all \o rest, 1, Len(all)) = all
  BY <1>5, PrefixOfSum
<1>8. SubSeq(all, 1, Len(c)) = c
  BY <1>1, <1>2, PrefixOfSum
<1>9. SubSeq(all, 1, Len(c) + k) = all
  BY <1>5, SubSeqFull
<1>10. QED
  BY <1>3, <1>5, <1>6, <1>7, <1>8, <1>9 DEF all, c
LEMMA HeldSplit ==
  ASSUME DataOK, NEW r \in Routes, NEW k \in 0 .. Len(batch[r])
  PROVE  \E rest \in Seq(Documents) : Held(r) = SubSeq(batch[r], 1, k) \o rest
<1> DEFINE head == SubSeq(batch[r], 1, k)
           tail == SubSeq(batch[r], k + 1, Len(batch[r]))
           other == carry[r] \o queue[r]
<1>1. /\ batch[r] \in Seq(Documents) /\ other \in Seq(Documents)
      /\ Held(r) = batch[r] \o other
  BY HeldTypes, ConcatProperties
<1>2. head \in Seq(Documents) /\ tail \in Seq(Documents) /\ head \o tail = batch[r]
  BY <1>1, SplitSequence
<1> HIDE DEF head, tail, other
<1>3. tail \o other \in Seq(Documents)
  BY <1>1, <1>2, ConcatProperties
<1>4. (head \o tail) \o other = head \o (tail \o other)
  BY <1>1, <1>2, Associative
<1>5. Held(r) = head \o (tail \o other)
  BY <1>1, <1>2, <1>4
<1>6. QED
  BY <1>3, <1>5 DEF head

LEMMA StoredKept ==
  ASSUME NEW r \in Routes, Stored(r), Held(r)' = Held(r), persisted'[r] = persisted[r],
         accepted'[r] = accepted[r], collection'[r] = collection[r],
         worker[r] \in {"failed", "cancelled"} => worker'[r] \in {"failed", "cancelled"}
  PROVE  Stored(r)'
  BY DEF Stored

LEMMA StoredAccepted ==
  ASSUME DataOK, NEW r \in Routes, Stored(r), NEW d \in Documents,
         Held(r)' = Append(Held(r), d), accepted'[r] = Append(accepted[r], d),
         UNCHANGED <<persisted, collection, worker>>
  PROVE  Stored(r)'
<1> DEFINE c == collection[r]
           p == SubSeq(c, 1, persisted[r])
           h == Held(r)
           a == accepted[r]
<1>1. c \in Seq(Documents) /\ a \in Seq(Documents) /\ h \in Seq(Documents)
  BY HeldTypes DEF DataOK
<1>2. Len(c) \in Nat /\ Len(a) \in Nat /\ persisted[r] \in 0 .. Len(c) /\ Len(c) \in 0 .. Len(a)
  <2>1. Len(c) \in Nat /\ Len(a) \in Nat
    BY <1>1, LenProperties
  <2>2. persisted[r] \in Nat /\ persisted[r] <= Len(c) /\ Len(c) <= Len(a)
    BY DEF DataOK, Stored
  <2>3. QED
    BY <2>1, <2>2
<1>3. p \in Seq(Documents)
  BY <1>1, <1>2, SplitSequence
<1>4. a = p \o h
  BY DEF Stored
<1> HIDE DEF p, h
<1>5. Append(a, d) = p \o Append(h, d)
  <2>1. <<d>> \in Seq(Documents) /\ p \o h \in Seq(Documents)
    BY <1>1, <1>3, ConcatProperties
  <2>2. Append(h, d) = h \o <<d>> /\ Append(p \o h, d) = (p \o h) \o <<d>>
    BY <1>1, <2>1, AppendIsConcat
  <2>3. (p \o h) \o <<d>> = p \o (h \o <<d>>)
    BY <1>1, <1>3, <2>1, Associative
  <2>4. QED
    BY <1>4, <2>2, <2>3
<1>6. Len(Append(a, d)) = Len(a) + 1
  BY <1>1, AppendProperties
<1>7. SubSeq(Append(a, d), 1, Len(c)) = SubSeq(a, 1, Len(c))
  BY <1>1, <1>2, AppendKeepsPrefix
<1>8. accepted'[r] = p \o Held(r)'
  BY <1>5 DEF h
<1>9. /\ Len(c) <= Len(accepted'[r]) /\ c = SubSeq(accepted'[r], 1, Len(c))
      /\ persisted[r] <= Len(c)
      /\ worker[r] \notin {"failed", "cancelled"} => persisted[r] = Len(c)
  <2>1. /\ Len(c) <= Len(a) /\ c = SubSeq(a, 1, Len(c)) /\ persisted[r] <= Len(c)
        /\ worker[r] \notin {"failed", "cancelled"} => persisted[r] = Len(c)
    BY DEF Stored
  <2> HIDE DEF c, a
  <2>2. Len(c) <= Len(Append(a, d)) /\ c = SubSeq(Append(a, d), 1, Len(c))
    BY <1>2, <1>6, <1>7, <2>1
  <2>3. accepted'[r] = Append(a, d)
    BY DEF a
  <2>4. QED
    BY <2>1, <2>2, <2>3
<1>10. QED
  BY <1>8, <1>9 DEF Stored, p

LEMMA StoredConfirmed ==
  ASSUME DataOK, NEW r \in Routes, Stored(r), worker[r] = "inserting",
         NEW k \in 0 .. Len(batch[r]), Confirm(r, k), collection'[r] = StoredBy(r, k),
         UNCHANGED <<carry, queue, accepted>>
  PROVE  Stored(r)'
<1>1. Held(r)' \in Seq(Documents) /\ Held(r) = SubSeq(batch[r], 1, k) \o Held(r)'
  BY HeldConfirmed
<1>2. /\ persisted[r] = Len(collection[r])
      /\ Len(StoredBy(r, k)) = Len(collection[r]) + k
      /\ accepted[r] = StoredBy(r, k) \o Held(r)'
      /\ Len(StoredBy(r, k)) <= Len(accepted[r])
      /\ StoredBy(r, k) = SubSeq(accepted[r], 1, Len(StoredBy(r, k)))
      /\ SubSeq(StoredBy(r, k), 1, Len(collection[r]) + k) = StoredBy(r, k)
  BY <1>1, StoredExtends
<1>3. persisted'[r] = persisted[r] + k /\ persisted'[r] \in Nat
  <2>1. k \in Nat
    BY LenProperties DEF DataOK
  <2>2. QED
    BY <2>1 DEF Confirm, DataOK
<1>4. /\ persisted'[r] = Len(collection'[r])
      /\ accepted'[r] = SubSeq(collection'[r], 1, persisted'[r]) \o Held(r)'
  BY <1>2, <1>3
<1>5. Len(collection'[r]) <= Len(accepted'[r]) /\ persisted'[r] <= Len(collection'[r])
  BY <1>2, <1>3, <1>4
<1>6. collection'[r] = SubSeq(accepted'[r], 1, Len(collection'[r]))
  BY <1>2
<1>7. QED
  BY <1>4, <1>5, <1>6 DEF Stored

LEMMA StoredLost ==
  ASSUME DataOK, NEW r \in Routes, Stored(r), worker[r] = "inserting",
         NEW k \in 0 .. Len(batch[r]), collection'[r] = StoredBy(r, k),
         UNCHANGED <<batch, carry, queue, accepted, persisted>>,
         worker'[r] \in {"failed", "cancelled"}
  PROVE  Stored(r)'
<1>1. PICK rest \in Seq(Documents) : Held(r) = SubSeq(batch[r], 1, k) \o rest
  BY HeldSplit
<1>2. /\ persisted[r] = Len(collection[r])
      /\ Len(StoredBy(r, k)) = Len(collection[r]) + k
      /\ Len(StoredBy(r, k)) <= Len(accepted[r])
      /\ StoredBy(r, k) = SubSeq(accepted[r], 1, Len(StoredBy(r, k)))
      /\ SubSeq(StoredBy(r, k), 1, Len(collection[r])) = collection[r]
  BY <1>1, StoredExtends
<1>3. collection[r] \in Seq(Documents) /\ Len(collection[r]) \in Nat /\ k \in Nat
  BY LenProperties DEF DataOK
<1>4. SubSeq(collection'[r], 1, persisted'[r]) = SubSeq(collection[r], 1, persisted[r])
  BY <1>2, <1>3, SubSeqFull
<1>5. Held(r)' = Held(r)
  BY DEF Held
<1>6. accepted'[r] = SubSeq(collection'[r], 1, persisted'[r]) \o Held(r)'
  BY <1>4, <1>5 DEF Stored
<1>7. persisted'[r] <= Len(collection'[r]) /\ Len(collection'[r]) <= Len(accepted'[r])
  BY <1>2, <1>3
<1>8. collection'[r] = SubSeq(accepted'[r], 1, Len(collection'[r]))
  BY <1>2
<1>9. QED
  BY <1>6, <1>7, <1>8 DEF Stored

LEMMA StoredPreserved ==
  ASSUME StoredInv, DataOK, HoldingInv, PermitsInv, Phases, [Next]_vars
  PROVE  StoredInv'
<1> SUFFICES ASSUME NEW q \in Routes PROVE Stored(q)'
  BY DEF StoredInv
<1>a. /\ worker \in [Routes -> Phase]
      /\ persisted \in [Routes -> Nat]
      /\ accepted \in [Routes -> Seq(Documents)] /\ collection \in [Routes -> Seq(Documents)]
      /\ carry \in [Routes -> Seq(Documents)] /\ batch \in [Routes -> Seq(Documents)]
      /\ queue \in [Routes -> Seq(Documents)]
  BY DEF Phases, PhasesOK, DataOK
<1>b. Stored(q) /\ batch[q] \in Seq(Documents) /\ Len(batch[q]) \in Nat
  BY <1>a, LenProperties DEF StoredInv
<1>1. CASE UNCHANGED <<worker, batch, carry, queue, persisted, accepted, collection>>
  BY <1>1, <1>b, StoredKept DEF Held
<1>2. CASE OpenSucceeds
  BY <1>2, <1>b, StoredKept DEF OpenSucceeds, Held, Phases, LifecycleInv
<1>3. ASSUME NEW d \in Documents, Accept(d),
             UNCHANGED <<worker, batch, carry, persisted, collection>>
      PROVE  Stored(q)'
  <2>1. /\ Held(RouteOf[d])' = Append(Held(RouteOf[d]), d)
        /\ \A r \in Routes \ {RouteOf[d]} : Held(r)' = Held(r)
    BY <1>3, HeldAccepted
  <2>2. CASE q = RouteOf[d]
    <3>1. accepted'[q] = Append(accepted[q], d) /\ Held(q)' = Append(Held(q), d)
      BY <1>3, <1>a, <2>1, <2>2 DEF Accept
    <3>2. QED
      BY <1>3, <1>b, <3>1, StoredAccepted
  <2>3. CASE q # RouteOf[d]
    <3>1. accepted'[q] = accepted[q] /\ Held(q)' = Held(q)
      BY <1>3, <1>a, <2>1, <2>3 DEF Accept
    <3>2. QED
      BY <1>3, <1>b, <3>1, StoredKept
  <2>4. QED
    BY <2>2, <2>3
<1>4. ASSUME NEW r \in Routes,
             TakeFirst(r) \/ WorkerReturns(r) \/ FillTake(r) \/ FillStops(r) \/ StartInsert(r)
      PROVE  Stored(q)'
  <2>1. Held(q)' = Held(q)
    BY <1>4, HeldMoved
  <2>2. UNCHANGED <<persisted, accepted, collection>>
    BY <1>4 DEF TakeFirst, WorkerReturns, FillTake, FillStops, StartInsert
  <2>3. worker[q] \in {"failed", "cancelled"} => worker'[q] = worker[q]
    <3>1. CASE TakeFirst(r)
      BY <1>a, <3>1 DEF TakeFirst, Continue, Submit
    <3>2. CASE FillTake(r)
      BY <1>a, <3>2 DEF FillTake, Continue, Submit
    <3>3. CASE WorkerReturns(r)
      BY <1>a, <3>3 DEF WorkerReturns
    <3>4. CASE FillStops(r)
      BY <1>a, <3>4 DEF FillStops, Submit
    <3>5. CASE StartInsert(r)
      BY <1>a, <3>5, NextPermit DEF StartInsert
    <3>6. QED
      BY <1>4, <3>1, <3>2, <3>3, <3>4, <3>5
  <2>4. QED
    BY <1>b, <2>1, <2>2, <2>3, StoredKept
<1>5. CASE InsertConfirmed(q)
  <2>1. Len(batch[q]) \in 0 .. Len(batch[q])
    BY <1>b
  <2>2. collection'[q] = StoredBy(q, Len(batch[q]))
    BY <1>5, <1>a DEF InsertConfirmed
  <2>3. QED
    BY <1>5, <1>b, <2>1, <2>2, StoredConfirmed DEF InsertConfirmed
<1>6. ASSUME NEW k \in 0 .. BatchLimit, InsertPartial(q, k)
      PROVE  Stored(q)'
  <2>1. k \in 0 .. Len(batch[q])
    BY <1>6, <1>b, LimitsAreNat DEF InsertPartial
  <2>2. collection'[q] = StoredBy(q, k)
    BY <1>6, <1>a DEF InsertPartial
  <2>3. QED
    BY <1>6, <1>b, <2>1, <2>2, StoredConfirmed DEF InsertPartial
<1>7. ASSUME NEW k \in 0 .. BatchLimit, InsertLost(q, k)
      PROVE  Stored(q)'
  <2>1. k \in 0 .. Len(batch[q])
    BY <1>7, <1>b, LimitsAreNat DEF InsertLost
  <2>2. collection'[q] = StoredBy(q, k) /\ worker'[q] = "failed"
    BY <1>7, <1>a DEF InsertLost, WorkerFails
  <2>3. QED
    BY <1>7, <1>b, <2>1, <2>2, StoredLost DEF InsertLost
<1>8. ASSUME NEW r \in Routes, r # q, InsertEnds(r)
      PROVE  Stored(q)'
  <2> USE <1>8, <1>a, <1>b, StoredKept
  <2>1. CASE InsertConfirmed(r)
    BY <2>1 DEF InsertConfirmed, Confirm, Held
  <2>2. ASSUME NEW k \in 0 .. BatchLimit, InsertPartial(r, k)
        PROVE  Stored(q)'
    BY <2>2 DEF InsertPartial, Confirm, WorkerFails, Held
  <2>3. ASSUME NEW k \in 0 .. BatchLimit, InsertLost(r, k)
        PROVE  Stored(q)'
    BY <2>3 DEF InsertLost, WorkerFails, Held
  <2>4. QED
    BY <2>1, <2>2, <2>3 DEF InsertEnds
<1>9. CASE FlushTimesOut
  <2>1. PICK k \in [Inserting -> 0 .. BatchLimit] :
          /\ \A r \in Inserting : k[r] <= Len(batch[r])
          /\ collection' = [r \in Routes |->
                              IF r \in Inserting THEN StoredBy(r, k[r]) ELSE collection[r]]
    BY <1>9 DEF FlushTimesOut
  <2>2. /\ UNCHANGED <<batch, carry, queue, accepted, persisted>>
        /\ worker' = [r \in Routes |-> IF Ended(r) THEN worker[r] ELSE "cancelled"]
    BY <1>9 DEF FlushTimesOut
  <2>3. CASE q \in Inserting
    <3>1. worker[q] = "inserting" /\ worker'[q] = "cancelled"
      BY <2>2, <2>3 DEF Inserting, Ended
    <3>2. k[q] \in 0 .. Len(batch[q]) /\ collection'[q] = StoredBy(q, k[q])
      BY <1>b, <2>1, <2>3, LimitsAreNat
    <3>3. QED
      BY <1>b, <2>2, <3>1, <3>2, StoredLost
  <2>4. CASE q \notin Inserting
    <3>1. collection'[q] = collection[q]
      BY <2>1, <2>4
    <3>2. QED
      BY <1>b, <2>2, <3>1, StoredKept DEF Held, Ended
  <2>5. QED
    BY <2>3, <2>4
<1>10. QED
  <2>1. ASSUME NEW c \in Connections, NEW d \in Documents, WriteAccepted(c, d)
        PROVE  Stored(q)'
    BY <1>3, <2>1 DEF WriteAccepted
  <2>2. ASSUME NEW c \in Connections, WriteResumes(c)
        PROVE  Stored(q)'
    <3>1. Head(waiting[c]) \in Documents
      BY <2>2, HeadTailProperties DEF WriteResumes, DataOK
    <3>2. QED
      BY <1>3, <2>2, <3>1 DEF WriteResumes
  <2>3. ASSUME NEW c \in Connections, NEW d \in Documents, WriteBlocks(c, d) \/ WriteRefused(c, d)
        PROVE  Stored(q)'
    BY <1>1, <2>3 DEF WriteBlocks, WriteRefused
  <2>4. ASSUME NEW c \in Connections, WriteFails(c) \/ StopConnection(c)
        PROVE  Stored(q)'
    BY <1>1, <2>4 DEF WriteFails, StopConnection
  <2>5. CASE OpenFails \/ MonitorReports \/ MonitorCancelled \/ CloseUnopened
             \/ CloseBegins \/ FlushEnds \/ RunEnded \/ UNCHANGED vars
    BY <1>1, <2>5 DEF OpenFails, MonitorReports, MonitorCancelled, CloseUnopened,
                      CloseBegins, FlushEnds, RunEnded, vars
  <2>6. ASSUME NEW disconnected \in BOOLEAN, Disconnect(disconnected)
        PROVE  Stored(q)'
    BY <1>1, <2>6 DEF Disconnect
  <2>7. ASSUME NEW r \in Routes, InsertEnds(r)
        PROVE  Stored(q)'
    BY <1>5, <1>6, <1>7, <1>8, <2>7 DEF InsertEnds
  <2>8. QED
    BY <1>2, <1>4, <1>9, <2>1, <2>2, <2>3, <2>4, <2>5, <2>6, <2>7 DEF Next

----------------------------------------------------------------------------
(* The invariant and the properties.                                       *)

LEMMA InvInit == Init => IInv
  BY PhasesInit, DataInit, PermitsInit, HoldingInit, BudgetInit, StoredInit DEF IInv, Phases

LEMMA InvPreserved == IInv /\ [Next]_vars => IInv'
<1> SUFFICES ASSUME IInv, [Next]_vars PROVE IInv'
  OBVIOUS
<1>1. Phases /\ DataOK /\ PermitsInv /\ HoldingInv /\ BudgetInv /\ StoredInv
  BY DEF IInv, Phases
<1>2. Phases'
  BY <1>1, PhasesPreserved
<1>3. DataOK'
  BY <1>1, DataPreserved
<1>4. PermitsInv'
  BY <1>1, PermitsPreserved
<1>5. HoldingInv'
  BY <1>1, HoldingPreserved
<1>6. BudgetInv'
  BY <1>1, <1>3, BudgetPreserved
<1>7. StoredInv'
  BY <1>1, StoredPreserved
<1>8. QED
  BY <1>2, <1>3, <1>4, <1>5, <1>6, <1>7 DEF IInv, Phases

(* IInv holds in every state that a run can reach, whatever the routes,    *)
(* connections, documents, sizes and limits.                               *)
THEOREM Invariance == Spec => []IInv
  BY InvInit, InvPreserved, PTL DEF Spec, SafeSpec

(* Every variable keeps its type, and the shared buffer its two limits     *)
(* (BufferBudget).                                                         *)
THEOREM TypeCorrect == Spec => []TypeOK
<1>1. IInv => TypeOK
  BY DEF IInv, TypeOK, PhasesOK, Phase, DataOK, PermitsInv, BudgetInv
<1>2. QED
  BY <1>1, Invariance, PTL

(* The counters of the shared budget and of every route are exactly what   *)
(* the routes hold in queues, carries and batches, for any documents of    *)
(* any size (acquire, _confirm_batch).                                     *)
THEOREM BudgetIsExact == Spec => []BudgetExact
<1>1. IInv => BudgetExact
  BY DEF IInv, BudgetInv
<1>2. QED
  BY <1>1, Invariance, PTL

(* No insert exceeds the batch limits beyond one large document, and the   *)
(* semaphore bounds the inserts that run (_run_worker, _persist_batch).    *)
THEOREM InsertsAreBounded == Spec => []InsertsWithinLimits
<1>1. IInv => InsertsWithinLimits
  BY DEF IInv, InsertsWithinLimits, PermitsInv, HoldingInv, Holding, WithinBytes, Inserting
<1>2. QED
  BY <1>1, Invariance, PTL

(* On every route, what the queue took is confirmed or still held, in      *)
(* order (write, _run_worker, _confirm_batch).                             *)
THEOREM NothingForgotten == Spec => []EveryDocumentAccounted
<1>1. IInv => EveryDocumentAccounted
  BY DEF IInv, StoredInv, Stored, EveryDocumentAccounted
<1>2. QED
  BY <1>1, Invariance, PTL

(* A worker that returned at the end of close() left nothing behind. *)
LEMMA FinishedStoredAll ==
  ASSUME IInv, NEW r \in Routes, worker[r] = "finished"
  PROVE  collection[r] = accepted[r]
<1>1. batch[r] = << >> /\ carry[r] = << >> /\ queue[r] = << >>
  BY DEF IInv, HoldingInv, Holding
<1>2. << >> \in Seq(Documents) /\ collection[r] \in Seq(Documents)
  BY EmptySeq DEF IInv, DataOK
<1>3. Held(r) = << >>
  BY <1>1, <1>2, ConcatEmptySeq DEF Held
<1>4. accepted[r] = SubSeq(collection[r], 1, Len(collection[r])) \o << >>
  BY <1>3 DEF IInv, StoredInv, Stored
<1>5. QED
  BY <1>2, <1>4, SubSeqFull, ConcatEmptySeq

(* A close() that neither timed out nor raised a worker's error left only  *)
(* the failed routes incomplete, and their failure was reported before     *)
(* (close, wait_failed).                                                   *)
THEOREM CleanCloseIsComplete == Spec => []CleanCloseStoredAll
<1>1. ASSUME IInv PROVE CleanCloseStoredAll
  <2>1. SUFFICES ASSUME closeResult \in {"ok", "closeError"}
                 PROVE  /\ \A r \in Routes \ workerErrors : collection[r] = accepted[r]
                        /\ Failed => failureReported
    BY DEF CleanCloseStoredAll
  <2>2. closer = "done" /\ \A r \in Routes : Ended(r)
    BY <1>1, <2>1 DEF IInv, PhasesOK, LifecycleInv
  <2>3. /\ Failed => failureReported
        /\ ~ \E r \in Routes : worker[r] = "cancelled"
    BY <1>1, <2>1, <2>2 DEF IInv, FailureReportedOnce
  <2>4. \A r \in Routes \ workerErrors : worker[r] = "finished"
    BY <1>1, <2>2, <2>3 DEF IInv, FailureInv, Ended
  <2>5. QED
    BY <1>1, <2>3, <2>4, FinishedStoredAll
<1>2. QED
  BY <1>1, Invariance, PTL

(* The failure of workers is raised exactly once, by the monitor or by     *)
(* close(), and close() hides no shutdown timeout behind a failure that    *)
(* was already reported (wait_failed, close).                              *)
THEOREM FailureRaisedOnce == Spec => []FailureReportedOnce
<1>1. IInv => FailureReportedOnce
  BY DEF IInv
<1>2. QED
  BY <1>1, Invariance, PTL

----------------------------------------------------------------------------
(* The refinement of OrderedDelivery, each collection a lane.              *)

GaveUp(r) == worker[r] \in {"failed", "cancelled"}

LEMMA AcceptMaps ==
  ASSUME NEW d \in Documents, Accept(d), ~ GaveUp(RouteOf[d]), UNCHANGED <<worker, collection>>
  PROVE  Delivery!Next
<1> DEFINE r == RouteOf[d]
<1>1. r \in Routes
  OBVIOUS
<1>2. accepted' = [accepted EXCEPT ![r] = Append(@, d)]
  BY DEF Accept
<1>3. Delivery!Accept(r, d)
  BY <1>1, <1>2 DEF Delivery!Accept, GaveUp
<1>4. QED
  BY <1>1, <1>3 DEF Delivery!Next

(* The collections of the routes in L grow to longer or equal prefixes of  *)
(* what the queues took, and only their workers give up.                   *)
LEMMA SeverMaps ==
  ASSUME DataOK', StoredInv', NEW L \in SUBSET Routes, UNCHANGED accepted,
         \A r \in L : ~ GaveUp(r) /\ GaveUp(r)' /\ Len(collection[r]) <= Len(collection'[r]),
         \A r \in Routes \ L : GaveUp(r)' = GaveUp(r) /\ collection'[r] = collection[r],
         DataOK
  PROVE  Delivery!Next
<1>1. [r \in Routes |-> worker[r] \in {"failed", "cancelled"}]'
      = [l \in Routes |-> [r \in Routes |-> worker[r] \in {"failed", "cancelled"}][l] \/ l \in L]
  <2>1. ASSUME NEW r \in Routes
        PROVE  (worker'[r] \in {"failed", "cancelled"})
               = ([q \in Routes |-> worker[q] \in {"failed", "cancelled"}][r] \/ r \in L)
    <3>1. CASE r \in L
      BY <3>1, Zenon DEF GaveUp
    <3>2. CASE r \notin L
      <4>1. (worker'[r] \in {"failed", "cancelled"}) = (worker[r] \in {"failed", "cancelled"})
        BY <3>2, Zenon DEF GaveUp
      <4>2. [q \in Routes |-> worker[q] \in {"failed", "cancelled"}][r]
            = (worker[r] \in {"failed", "cancelled"})
        OBVIOUS
      <4>3. CASE worker[r] \in {"failed", "cancelled"}
        <5>1. (worker'[r] \in {"failed", "cancelled"}) = TRUE
          BY <4>1, <4>3
        <5>2. ([q \in Routes |-> worker[q] \in {"failed", "cancelled"}][r] \/ r \in L) = TRUE
          BY <4>3
        <5>3. QED
          BY <5>1, <5>2
      <4>4. CASE worker[r] \notin {"failed", "cancelled"}
        <5>1. (worker'[r] \in {"failed", "cancelled"}) = FALSE
          BY <4>1, <4>4
        <5>2. ([q \in Routes |-> worker[q] \in {"failed", "cancelled"}][r] \/ r \in L) = FALSE
          BY <3>2, <4>4
        <5>3. QED
          BY <5>1, <5>2
      <4>5. QED
        BY <4>3, <4>4
    <3>3. QED
      BY <3>1, <3>2
  <2>2. QED
    BY <2>1, Zenon
<1>2. \A r \in L : \E n \in Len(collection[r]) .. Len(accepted[r]) :
         collection'[r] = SubSeq(accepted[r], 1, n)
  <2>1. TAKE r \in L
  <2>2. /\ Len(collection[r]) \in Nat /\ Len(collection'[r]) \in Nat
        /\ Len(accepted[r]) \in Nat
    BY LenProperties DEF DataOK
  <2>3. /\ Len(collection'[r]) <= Len(accepted[r])
        /\ collection'[r] = SubSeq(accepted[r], 1, Len(collection'[r]))
    BY DEF StoredInv, Stored
  <2>4. Len(collection'[r]) \in Len(collection[r]) .. Len(accepted[r])
    BY <2>2, <2>3
  <2>5. QED
    BY <2>3, <2>4
<1>3. \A l \in L : ~ [r \in Routes |-> worker[r] \in {"failed", "cancelled"}][l]
  BY DEF GaveUp
<1>4. collection' \in [Routes -> Seq(Documents)]
  BY DEF DataOK
<1>5. Delivery!Sever(L)
  BY <1>1, <1>2, <1>3, <1>4 DEF Delivery!Sever
<1>6. QED
  BY <1>5 DEF Delivery!Next

(* A confirmed insert stores the whole batch, which is not empty. *)
LEMMA StoreMaps ==
  ASSUME DataOK, DataOK', HoldingInv, StoredInv, StoredInv', PhasesOK,
         NEW r \in Routes, InsertConfirmed(r)
  PROVE  Delivery!Next
<1> DEFINE k == Len(batch[r])
           n == Len(collection'[r])
<1>1. /\ worker[r] = "inserting" /\ worker' = [worker EXCEPT ![r] = "first"]
      /\ collection' = [collection EXCEPT ![r] = StoredBy(r, k)] /\ accepted' = accepted
  BY DEF InsertConfirmed
<1>2. batch[r] \in Seq(Documents) /\ collection[r] \in Seq(Documents) /\ k \in Nat /\ k >= 1
      /\ Len(collection[r]) \in Nat /\ Len(accepted[r]) \in Nat /\ n \in Nat
  <2>1. k \in 1 .. BatchLimit /\ BatchLimit \in Nat
    BY <1>1, LimitsAreNat DEF HoldingInv, Holding
  <2>2. QED
    BY <2>1, LenProperties DEF DataOK
<1>3. n = Len(collection[r]) + k
  <2>1. SubSeq(batch[r], 1, k) = batch[r]
    BY <1>2, SubSeqFull
  <2>2. collection'[r] = collection[r] \o batch[r]
    BY <1>1, <2>1 DEF StoredBy, DataOK
  <2>3. QED
    BY <1>2, <2>2, ConcatProperties
<1>4. n <= Len(accepted[r]) /\ collection'[r] = SubSeq(accepted[r], 1, n)
  BY <1>1 DEF StoredInv, Stored
<1>5. n \in (Len(collection[r]) + 1) .. Len(accepted[r])
  <2> HIDE DEF n, k
  <2>1. QED
    BY <1>2, <1>3, <1>4
<1>6. collection' = [collection EXCEPT ![r] = SubSeq(accepted[r], 1, n)]
  BY <1>1, <1>4 DEF DataOK
<1>7. [q \in Routes |-> worker[q] \in {"failed", "cancelled"}]'
      = [q \in Routes |-> worker[q] \in {"failed", "cancelled"}]
  <2>1. ASSUME NEW q \in Routes
        PROVE  (worker'[q] \in {"failed", "cancelled"}) = (worker[q] \in {"failed", "cancelled"})
    <3>1. CASE q = r
      <4>1. worker'[q] = "first" /\ worker[q] = "inserting"
        BY <1>1, <3>1 DEF PhasesOK
      <4>2. /\ (worker'[q] \in {"failed", "cancelled"}) = FALSE
            /\ (worker[q] \in {"failed", "cancelled"}) = FALSE
        BY <4>1
      <4>3. QED
        BY <4>2
    <3>2. CASE q # r
      BY <1>1, <3>2 DEF PhasesOK
    <3>3. QED
      BY <3>1, <3>2
  <2>2. QED
    BY <2>1, Zenon
<1>8. ~ [q \in Routes |-> worker[q] \in {"failed", "cancelled"}][r]
  BY <1>1
<1> HIDE DEF n
<1>9. Delivery!Store(r)
  BY <1>1, <1>5, <1>6, <1>7, <1>8, Zenon DEF Delivery!Store
<1>10. QED
  BY <1>9 DEF Delivery!Next
LEMMA QuietMaps ==
  ASSUME UNCHANGED <<accepted, collection>>, \A r \in Routes : GaveUp(r)' = GaveUp(r)
  PROVE  UNCHANGED Delivery!vars
<1>1. [r \in Routes |-> worker[r] \in {"failed", "cancelled"}]'
      = [r \in Routes |-> worker[r] \in {"failed", "cancelled"}]
  BY Zenon DEF GaveUp
<1>2. QED
  BY <1>1 DEF Delivery!vars

(* A worker moves on without giving up. *)
LEMMA WorkingMaps ==
  ASSUME PhasesOK, NEW r \in Routes, worker[r] \notin {"failed", "cancelled"},
         NEW phase \in Phase \ {"failed", "cancelled"},
         worker' = [worker EXCEPT ![r] = phase], UNCHANGED <<accepted, collection>>
  PROVE  UNCHANGED Delivery!vars
<1>1. ASSUME NEW q \in Routes PROVE GaveUp(q)' = GaveUp(q)
  <2>1. CASE q = r
    <3>1. worker'[q] = phase
      BY <2>1 DEF PhasesOK
    <3>2. GaveUp(q)' = FALSE /\ GaveUp(q) = FALSE
      BY <2>1, <3>1 DEF GaveUp
    <3>3. QED
      BY <3>2
  <2>2. CASE q # r
    BY <2>2 DEF PhasesOK, GaveUp
  <2>3. QED
    BY <2>1, <2>2
<1>2. QED
  BY <1>1, QuietMaps

(* The worker of one route fails, alone. *)
LEMMA FailureMaps ==
  ASSUME PhasesOK, DataOK, DataOK', StoredInv', NEW r \in Routes, worker[r] = "inserting",
         NEW k \in Nat, k <= Len(batch[r]), worker' = [worker EXCEPT ![r] = "failed"],
         collection' = [collection EXCEPT ![r] = StoredBy(r, k)], UNCHANGED accepted
  PROVE  Delivery!Next
<1>1. Len(collection[r]) <= Len(collection'[r])
  <2>1. /\ SubSeq(batch[r], 1, k) \in Seq(Documents) /\ collection[r] \in Seq(Documents)
        /\ collection'[r] = collection[r] \o SubSeq(batch[r], 1, k)
    BY StoredTypes DEF DataOK, StoredBy
  <2>2. QED
    BY <2>1, PrefixOfSum
<1>2. ~ GaveUp(r) /\ GaveUp(r)'
  BY DEF GaveUp, PhasesOK
<1>3. \A q \in Routes \ {r} : GaveUp(q)' = GaveUp(q) /\ collection'[q] = collection[q]
  BY DEF GaveUp, PhasesOK, DataOK
<1> DEFINE L == {r}
<1>4. /\ L \in SUBSET Routes
      /\ \A q \in L : ~ GaveUp(q) /\ GaveUp(q)' /\ Len(collection[q]) <= Len(collection'[q])
      /\ \A q \in Routes \ L : GaveUp(q)' = GaveUp(q) /\ collection'[q] = collection[q]
  BY <1>1, <1>2, <1>3
<1> HIDE DEF L
<1>5. QED
  BY <1>4, SeverMaps

LEMMA StepMaps == IInv /\ IInv' /\ [Next]_vars => [Delivery!Next]_(Delivery!vars)
<1> SUFFICES ASSUME IInv, IInv', [Next]_vars PROVE [Delivery!Next]_(Delivery!vars)
  OBVIOUS
<1>a. /\ PhasesOK /\ LifecycleInv /\ FailureInv /\ DataOK /\ DataOK' /\ PermitsInv
      /\ HoldingInv /\ StoredInv /\ StoredInv'
  BY DEF IInv
<1>b. ASSUME UNCHANGED <<accepted, collection, worker>> PROVE UNCHANGED Delivery!vars
  BY <1>b, QuietMaps DEF GaveUp
<1>c. state = "open" /\ ~ Failed => \A r \in Routes : ~ GaveUp(r)
  BY <1>a DEF LifecycleInv, FailureInv, Failed, GaveUp
<1>1. CASE OpenSucceeds
  <2>1. ASSUME NEW r \in Routes PROVE GaveUp(r)' = GaveUp(r)
    <3>1. worker[r] = "none" /\ worker'[r] = "first"
      BY <1>1, <1>a DEF OpenSucceeds, LifecycleInv
    <3>2. GaveUp(r)' = FALSE /\ GaveUp(r) = FALSE
      BY <3>1 DEF GaveUp
    <3>3. QED
      BY <3>2
  <2>2. QED
    BY <1>1, <2>1, QuietMaps DEF OpenSucceeds
<1>2. ASSUME NEW c \in Connections, NEW d \in Documents, WriteAccepted(c, d)
      PROVE  Delivery!Next
  <2>1. ~ GaveUp(RouteOf[d])
    BY <1>2, <1>c DEF WriteAccepted, Receive
  <2>2. QED
    BY <1>2, <2>1, AcceptMaps DEF WriteAccepted
<1>3. ASSUME NEW c \in Connections, WriteResumes(c)
      PROVE  Delivery!Next
  <2>1. state = "open"
    BY <1>3, <1>a DEF WriteResumes, PhasesOK, LifecycleInv, CloseRequested, CallersEnded
  <2>2. Head(waiting[c]) \in Documents
    BY <1>3, <1>a, HeadTailProperties DEF WriteResumes, DataOK
  <2>3. ~ GaveUp(RouteOf[Head(waiting[c])])
    BY <1>3, <1>c, <2>1, <2>2 DEF WriteResumes
  <2>4. QED
    BY <1>3, <2>2, <2>3, AcceptMaps DEF WriteResumes
<1>4. ASSUME NEW r \in Routes, TakeFirst(r)
      PROVE  UNCHANGED Delivery!vars
  <2>1. \E phase \in {"ready", "filling"} : worker' = [worker EXCEPT ![r] = phase]
    BY <1>4 DEF TakeFirst, Continue, Submit
  <2>2. QED
    BY <1>4, <1>a, <2>1, WorkingMaps DEF TakeFirst, Phase
<1>5. ASSUME NEW r \in Routes, FillTake(r)
      PROVE  UNCHANGED Delivery!vars
  <2>1. \E phase \in {"ready", "filling"} : worker' = [worker EXCEPT ![r] = phase]
    BY <1>5 DEF FillTake, Continue, Submit
  <2>2. QED
    BY <1>5, <1>a, <2>1, WorkingMaps DEF FillTake, Phase
<1>6. ASSUME NEW r \in Routes, FillStops(r)
      PROVE  UNCHANGED Delivery!vars
  BY <1>6, <1>a, WorkingMaps DEF FillStops, Submit, Phase
<1>7. ASSUME NEW r \in Routes, WorkerReturns(r)
      PROVE  UNCHANGED Delivery!vars
  BY <1>7, <1>a, WorkingMaps DEF WorkerReturns, Phase
<1>8. ASSUME NEW r \in Routes, StartInsert(r)
      PROVE  UNCHANGED Delivery!vars
  BY <1>8, <1>a, NextPermit, WorkingMaps DEF StartInsert, Phase
<1>9. ASSUME NEW r \in Routes, InsertConfirmed(r)
      PROVE  Delivery!Next
  BY <1>9, <1>a, StoreMaps
<1>10. ASSUME NEW r \in Routes, NEW k \in 0 .. BatchLimit, InsertPartial(r, k) \/ InsertLost(r, k)
       PROVE  Delivery!Next
  BY <1>10, <1>a, LimitsAreNat, FailureMaps DEF InsertPartial, InsertLost, WorkerFails
<1>11. CASE FlushTimesOut
  <2> DEFINE L == {r \in Routes : ~ Ended(r)}
  <2>1. PICK k \in [Inserting -> 0 .. BatchLimit] :
          /\ \A r \in Inserting : k[r] <= Len(batch[r])
          /\ collection' = [r \in Routes |->
                              IF r \in Inserting THEN StoredBy(r, k[r]) ELSE collection[r]]
    BY <1>11 DEF FlushTimesOut
  <2>2. /\ worker' = [r \in Routes |-> IF Ended(r) THEN worker[r] ELSE "cancelled"]
        /\ accepted' = accepted
    BY <1>11 DEF FlushTimesOut
  <2>3. ASSUME NEW r \in L
        PROVE  ~ GaveUp(r) /\ GaveUp(r)' /\ Len(collection[r]) <= Len(collection'[r])
    <3>1. ~ GaveUp(r) /\ GaveUp(r)'
      BY <2>2 DEF GaveUp, Ended
    <3>2. CASE r \in Inserting
      <4>1. k[r] \in Nat /\ k[r] <= Len(batch[r]) /\ collection'[r] = StoredBy(r, k[r])
        BY <2>1, <3>2, LimitsAreNat
      <4>2. SubSeq(batch[r], 1, k[r]) \in Seq(Documents) /\ collection[r] \in Seq(Documents)
        BY <1>a, <4>1, StoredTypes DEF DataOK
      <4>3. Len(collection[r]) <= Len(collection[r] \o SubSeq(batch[r], 1, k[r]))
        BY <4>2, PrefixOfSum
      <4>4. QED
        BY <3>1, <4>1, <4>3 DEF StoredBy
    <3>3. CASE r \notin Inserting
      <4>1. collection'[r] = collection[r] /\ Len(collection[r]) \in Nat
        BY <1>a, <2>1, <3>3, LenProperties DEF DataOK
      <4>2. QED
        BY <3>1, <4>1
    <3>4. QED
      BY <3>2, <3>3
  <2>4. ASSUME NEW r \in Routes \ L
        PROVE  GaveUp(r)' = GaveUp(r) /\ collection'[r] = collection[r]
    <3>1. Ended(r) /\ worker'[r] = worker[r]
      BY <2>2
    <3>2. r \notin Inserting
      BY <3>1 DEF Ended, Inserting
    <3>3. QED
      BY <2>1, <3>1, <3>2 DEF GaveUp
  <2>5. L \in SUBSET Routes
    OBVIOUS
  <2> HIDE DEF L
  <2>6. QED
    BY <1>a, <2>2, <2>3, <2>4, <2>5, SeverMaps
<1>12. ASSUME NEW c \in Connections, NEW d \in Documents, WriteBlocks(c, d) \/ WriteRefused(c, d)
       PROVE  UNCHANGED Delivery!vars
  BY <1>b, <1>12 DEF WriteBlocks, WriteRefused
<1>13. ASSUME NEW c \in Connections, WriteFails(c) \/ StopConnection(c)
       PROVE  UNCHANGED Delivery!vars
  BY <1>b, <1>13 DEF WriteFails, StopConnection
<1>14. CASE OpenFails \/ MonitorReports \/ MonitorCancelled \/ CloseUnopened
            \/ CloseBegins \/ FlushEnds \/ RunEnded \/ UNCHANGED vars
  BY <1>b, <1>14 DEF OpenFails, MonitorReports, MonitorCancelled, CloseUnopened,
                     CloseBegins, FlushEnds, RunEnded, vars
<1>15. ASSUME NEW disconnected \in BOOLEAN, Disconnect(disconnected)
       PROVE  UNCHANGED Delivery!vars
  BY <1>b, <1>15 DEF Disconnect
<1>16. QED
  BY <1>1, <1>2, <1>3, <1>4, <1>5, <1>6, <1>7, <1>8, <1>9, <1>10, <1>11, <1>12, <1>13,
     <1>14, <1>15 DEF Next, InsertEnds

(* On every route, whatever happens on the others, the collection only     *)
(* receives what the queue took, once and in order, and nothing after a    *)
(* batch of unknown outcome.                                               *)
THEOREM RefinesDelivery == Spec => DeliverySafeSpec
<1>1. Init => Delivery!Init
  <2> SUFFICES ASSUME Init PROVE Delivery!Init
    OBVIOUS
  <2>1. /\ accepted = [r \in Routes |-> << >>] /\ collection = [r \in Routes |-> << >>]
        /\ \A r \in Routes : worker[r] = "none"
    BY DEF Init
  <2>2. \A r \in Routes : (worker[r] \in {"failed", "cancelled"}) = FALSE
    BY <2>1
  <2>3. [r \in Routes |-> worker[r] \in {"failed", "cancelled"}] = [r \in Routes |-> FALSE]
    BY <2>2, Zenon
  <2>4. QED
    BY <2>1, <2>3 DEF Delivery!Init
<1>2. QED
  BY <1>1, StepMaps, Invariance, PTL DEF Spec, SafeSpec, DeliverySafeSpec, Delivery!SafeSpec
=============================================================================
