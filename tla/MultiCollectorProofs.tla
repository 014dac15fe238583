------------------------ MODULE MultiCollectorProofs ------------------------
(***************************************************************************)
(* Proofs about MultiCollector for every set of connections and all bounds *)
(* on their attempts and messages.  IInv is inductive; it joins the types  *)
(* with what the supervisor knows of its connections (SupervisionInv) and  *)
(* with what is known of the message handed over last (NumberingInv).      *)
(***************************************************************************)
EXTENDS MultiCollector, TLAPS

USE BoundsAssumption, NoConnectionAssumption

USE DEF connectionVars, supervisorVars, Ended

(* While run() waits it has cancelled nobody, so that a connection that    *)
(* was cancelled never passes for one that returned; how run() will end is *)
(* decided by connections that have ended for good.                        *)
SupervisionInv ==
  /\ run = "waiting" => pending = "none"
  /\ run = "joining" => pending = "returned"
  /\ run = "sweeping" => pending \in {"raised", "cancelled"}
  /\ run = "over" => pending # "none"
  /\ run \in {"waiting", "joining"} \/ pending = "returned" => cancelling = {}
  /\ \A c \in Connections : phase[c] = "cancelled" => c \in cancelling
  /\ pending = "returned" => stop
  /\ pending = "raised" => failure \in Connections /\ phase[failure] = "failed"

(* The message handed over last is one of an earlier connection, or it is  *)
(* the last one received on this one.                                      *)
NumberingOf(c) ==
  /\ handed[c][1] <= attempt[c]
  /\ phase[c] = "connecting" => handed[c][1] < attempt[c]
  /\ phase[c] = "receiving" =>
       \/ sequence[c] = 0 /\ handed[c][1] < attempt[c]
       \/ handed[c] = <<attempt[c], sequence[c]>>
  /\ phase[c] = "handling" => handed[c] = <<attempt[c], sequence[c]>>

NumberingInv == \A c \in Connections : NumberingOf(c)

IInv == TypeOK /\ SupervisionInv /\ NumberingInv /\ NoFailureHidden

----------------------------------------------------------------------------
LEMMA InitInv == Init => IInv
<1> SUFFICES ASSUME Init PROVE IInv
  OBVIOUS
<1>1. TypeOK
  <2>1. handed \in [Connections -> Nat \X Nat]
    BY DEF Init
  <2>2. ASSUME NEW c \in Connections
        PROVE  attempt[c] <= MaxAttempts[c] /\ sequence[c] <= MaxSequence[c]
    <3>1. MaxAttempts[c] \in Nat /\ MaxSequence[c] \in Nat
      BY BoundsAssumption
    <3>2. attempt[c] = 0 /\ sequence[c] = 0
      BY DEF Init
    <3>3. QED
      BY <3>1, <3>2
  <2>3. QED
    BY <2>1, <2>2 DEF Init, TypeOK
<1>2. SupervisionInv /\ NoFailureHidden
  BY DEF Init, SupervisionInv, NoFailureHidden
<1>3. NumberingInv
  <2> SUFFICES ASSUME NEW c \in Connections
               PROVE  /\ handed[c][1] <= attempt[c]
                      /\ phase[c] \notin {"connecting", "receiving", "handling"}
    BY DEF NumberingInv, NumberingOf
  <2>1. handed[c] = <<0, 0>> /\ attempt[c] = 0 /\ phase[c] = "top"
    BY DEF Init
  <2>2. QED
    BY <2>1
<1>4. QED
  BY <1>1, <1>2, <1>3 DEF IInv

----------------------------------------------------------------------------
(* Types.                                                                  *)

LEMMA GoesTypes ==
  ASSUME TypeOK, NEW c \in Connections, NEW from, NEW to, Goes(c, from, to),
         to \in {"connecting", "receiving", "handling", "failing", "closing", "backoff",
                 "top", "failed"} \/ (to = "ended" /\ stop)
  PROVE  /\ phase' \in [Connections -> {"top", "connecting", "receiving", "handling",
                                        "failing", "closing", "backoff", "ended", "failed",
                                        "cancelled"}]
         /\ (\E d \in Connections : phase'[d] = "ended") => stop'
         /\ UNCHANGED <<stop, supervisorVars>>
  BY DEF Goes, TypeOK

LEMMA ProceedsTypes ==
  ASSUME TypeOK, NEW c \in Connections, Proceeds(c)
  PROVE  TypeOK'
<1> USE DEF TypeOK
<1>1. CASE StopAtTop(c)
  BY <1>1, GoesTypes DEF StopAtTop
<1>2. CASE ConnectSucceeds(c)
  BY <1>2, GoesTypes DEF ConnectSucceeds, ReceiveNext
<1>3. CASE ConnectFails(c) \/ SubscribeFails(c) \/ HandshakeRefused(c)
  BY <1>3, GoesTypes DEF ConnectFails, SubscribeFails, HandshakeRefused
<1>4. CASE StopWhileReceiving(c)
  BY <1>4, GoesTypes DEF StopWhileReceiving, ReceiveFails
<1>5. ASSUME NEW kind \in Kinds, MessageHandled(c, kind)
      PROVE  TypeOK'
  BY <1>5, GoesTypes DEF MessageHandled, ReceiveNext
<1>6. CASE HandlerFails(c)
  BY <1>6, GoesTypes DEF HandlerFails
<1>7. CASE ConnectionFails(c)
  BY <1>7, GoesTypes DEF ConnectionFails
<1>8. CASE Leave(c)
  BY <1>8, GoesTypes DEF Leave
<1>9. CASE BackoffEnds(c)
  BY <1>9, GoesTypes DEF BackoffEnds
<1>10. CASE ConnectionCancelled(c)
  BY <1>10 DEF ConnectionCancelled
<1>11. QED
  BY <1>1, <1>2, <1>3, <1>4, <1>5, <1>6, <1>7, <1>8, <1>9, <1>10 DEF Proceeds

LEMMA ServesTypes ==
  ASSUME TypeOK, NEW c \in Connections, Serves(c)
  PROVE  TypeOK'
<1> USE DEF TypeOK
<1>1. CASE Connect(c)
  BY <1>1, GoesTypes DEF Connect
<1>2. CASE ReceiveMessage(c)
  <2>1. sequence' \in [Connections -> Nat] /\ \A d \in Connections : sequence'[d] <= MaxSequence[d]
    BY <1>2 DEF ReceiveMessage
  <2>2. handed' \in [Connections -> Nat \X Nat]
    BY <1>2, <2>1 DEF ReceiveMessage
  <2>3. QED
    BY <1>2, <2>1, <2>2, GoesTypes DEF ReceiveMessage
<1>3. CASE ReceiveFails(c)
  BY <1>3, GoesTypes DEF ReceiveFails
<1>4. QED
  BY <1>1, <1>2, <1>3 DEF Serves, SubscriptionTimesOut

LEMMA TypePreserved == TypeOK /\ [Next]_vars => TypeOK'
<1> SUFFICES ASSUME TypeOK, [Next]_vars PROVE TypeOK'
  OBVIOUS
<1> USE DEF TypeOK
<1>1. CASE RequestStop
  BY <1>1 DEF RequestStop
<1>2. CASE Cancel
  BY <1>2 DEF Cancel, Sweep, Unfinished
<1>3. CASE Supervises
  BY <1>3 DEF Supervises, FirstFails, JoinFails, FirstReturns, RunEnds, Sweep, Unfinished
<1>4. ASSUME NEW c \in Connections, Proceeds(c) \/ Serves(c)
      PROVE  TypeOK'
  BY <1>4, ProceedsTypes, ServesTypes
<1>5. CASE UNCHANGED vars
  BY <1>5 DEF vars
<1>6. QED
  BY <1>1, <1>2, <1>3, <1>4, <1>5 DEF Next, RunOver

----------------------------------------------------------------------------
(* Supervision.                                                            *)

(* A connection that has ended stays as it is. *)
LEMMA EndedIsFinal ==
  ASSUME TypeOK, NEW c \in Connections, Proceeds(c) \/ Serves(c)
  PROVE  /\ UNCHANGED supervisorVars /\ stop' = stop
         /\ \A d \in Connections : Ended(d) => phase'[d] = phase[d]
         /\ \A d \in Connections :
              phase'[d] = "cancelled" => phase[d] = "cancelled" \/ d \in cancelling
<1>1. ASSUME NEW from, NEW to, Goes(c, from, to), from \notin {"ended", "failed", "cancelled"},
             to # "cancelled"
      PROVE  /\ UNCHANGED supervisorVars /\ stop' = stop
             /\ \A d \in Connections : Ended(d) => phase'[d] = phase[d]
             /\ \A d \in Connections :
                  phase'[d] = "cancelled" => phase[d] = "cancelled" \/ d \in cancelling
  BY <1>1 DEF Goes, TypeOK
<1>2. CASE Serves(c)
  BY <1>1, <1>2 DEF Serves, Connect, ReceiveMessage, ReceiveFails, SubscriptionTimesOut
<1>3. CASE ConnectionCancelled(c)
  BY <1>3 DEF ConnectionCancelled, TypeOK
<1>4. ASSUME NEW kind \in Kinds, MessageHandled(c, kind)
      PROVE  \E to \in {"closing", "receiving"} : Goes(c, "handling", to)
  BY <1>4 DEF MessageHandled, ReceiveNext
<1>5. CASE StopAtTop(c) \/ ConnectSucceeds(c) \/ ConnectFails(c) \/ SubscribeFails(c)
           \/ HandshakeRefused(c) \/ StopWhileReceiving(c)
  BY <1>1, <1>5 DEF StopAtTop, ConnectSucceeds, ConnectFails, SubscribeFails, HandshakeRefused,
     StopWhileReceiving, ReceiveFails, ReceiveNext
<1>6. CASE HandlerFails(c) \/ ConnectionFails(c) \/ Leave(c) \/ BackoffEnds(c)
  BY <1>1, <1>6 DEF HandlerFails, ConnectionFails, Leave, BackoffEnds
<1>7. QED
  BY <1>1, <1>2, <1>3, <1>4, <1>5, <1>6 DEF Proceeds

LEMMA SupervisionPreserved ==
  TypeOK /\ SupervisionInv /\ NoFailureHidden /\ [Next]_vars => SupervisionInv' /\ NoFailureHidden'
<1> SUFFICES ASSUME TypeOK, SupervisionInv, NoFailureHidden, [Next]_vars
             PROVE  SupervisionInv' /\ NoFailureHidden'
  OBVIOUS
<1> USE DEF SupervisionInv, NoFailureHidden, Unfinished
<1>1. CASE RequestStop
  BY <1>1 DEF RequestStop
<1>2. CASE Cancel
  BY <1>2 DEF Cancel, Sweep
<1>3. ASSUME NEW c \in Connections, FirstFails(c) \/ JoinFails(c)
      PROVE  SupervisionInv' /\ NoFailureHidden'
  BY <1>3 DEF FirstFails, JoinFails, Sweep
<1>4. CASE FirstReturns
  <2>1. PICK c \in Connections : Ended(c)
    BY <1>4 DEF FirstReturns
  <2>2. phase[c] = "ended"
    BY <1>4, <2>1 DEF FirstReturns
  <2>3. stop
    BY <2>2 DEF TypeOK
  <2>4. QED
    BY <1>4, <2>3 DEF FirstReturns
<1>5. CASE RunEnds
  BY <1>5 DEF RunEnds
<1>6. ASSUME NEW c \in Connections, Proceeds(c) \/ Serves(c)
      PROVE  SupervisionInv' /\ NoFailureHidden'
  <2>1. /\ run' = run /\ pending' = pending /\ failure' = failure /\ cancelling' = cancelling
        /\ stop' = stop
        /\ \A d \in Connections : Ended(d) => phase'[d] = phase[d]
        /\ \A d \in Connections :
             phase'[d] = "cancelled" => phase[d] = "cancelled" \/ d \in cancelling
    BY <1>6, EndedIsFinal
  <2>2. SupervisionInv'
    BY <2>1
  <2>3. NoFailureHidden'
    BY <2>1
  <2>4. QED
    BY <2>2, <2>3
<1>7. CASE UNCHANGED vars
  BY <1>7 DEF vars
<1>8. QED
  BY <1>1, <1>2, <1>3, <1>4, <1>5, <1>6, <1>7 DEF Next, RunOver, Supervises

----------------------------------------------------------------------------
(* Numbering.                                                              *)

(* What a connection does with its numbers from one step to the next. *)
NumbersGrow(c) ==
  \/ handed'[c] = handed[c] /\ (phase'[c] = "handling" => phase[c] = "handling")
  \/ handed'[c][1] = handed[c][1] /\ handed'[c][2] = handed[c][2] + 1
  \/ handed'[c][1] > handed[c][1] /\ handed'[c][2] = 1

(* A step of one connection leaves the numbers of the others alone. *)
LEMMA OthersKeepNumbers ==
  ASSUME TypeOK, NEW c \in Connections, NEW d \in Connections, d # c, Proceeds(c) \/ Serves(c)
  PROVE  /\ phase'[d] = phase[d] /\ attempt'[d] = attempt[d]
         /\ sequence'[d] = sequence[d] /\ handed'[d] = handed[d]
<1> USE DEF TypeOK
<1>1. CASE Serves(c)
  BY <1>1 DEF Serves, Connect, ReceiveMessage, ReceiveFails, SubscriptionTimesOut, Goes
<1>2. CASE StopAtTop(c) \/ ConnectSucceeds(c) \/ ConnectFails(c) \/ SubscribeFails(c)
           \/ HandshakeRefused(c) \/ StopWhileReceiving(c)
  BY <1>2 DEF StopAtTop, ConnectSucceeds, ConnectFails, SubscribeFails, HandshakeRefused,
     StopWhileReceiving, ReceiveFails, ReceiveNext, Goes
<1>3. ASSUME NEW kind \in Kinds, MessageHandled(c, kind)
      PROVE  /\ phase'[d] = phase[d] /\ attempt'[d] = attempt[d]
             /\ sequence'[d] = sequence[d] /\ handed'[d] = handed[d]
  BY <1>3 DEF MessageHandled, ReceiveNext, Goes
<1>4. CASE HandlerFails(c) \/ ConnectionFails(c) \/ Leave(c) \/ BackoffEnds(c)
           \/ ConnectionCancelled(c)
  BY <1>4 DEF HandlerFails, ConnectionFails, Leave, BackoffEnds, ConnectionCancelled, Goes
<1>5. QED
  BY <1>1, <1>2, <1>3, <1>4 DEF Proceeds

LEMMA StepNumbers ==
  ASSUME TypeOK, NumberingInv, NEW c \in Connections, Proceeds(c) \/ Serves(c)
  PROVE  NumberingOf(c)' /\ NumbersGrow(c)
<1>0. /\ attempt[c] \in Nat /\ sequence[c] \in Nat
      /\ handed[c] \in Nat \X Nat /\ NumberingOf(c)
  BY DEF TypeOK, NumberingInv
<1> USE DEF NumberingOf, NumbersGrow, TypeOK
<1>1. CASE Connect(c)
  BY <1>0, <1>1 DEF Connect, Goes
<1>2. CASE ReceiveMessage(c)
  <2>1. /\ phase[c] = "receiving" /\ phase'[c] = "handling" /\ attempt'[c] = attempt[c]
        /\ sequence'[c] = sequence[c] + 1
        /\ handed'[c] = <<attempt[c], sequence[c] + 1>>
    BY <1>2 DEF ReceiveMessage, Goes
  <2>2. QED
    BY <1>0, <2>1
<1>3. ASSUME NEW from, NEW to, Goes(c, from, to), UNCHANGED <<attempt, sequence, handed>>,
             to \notin {"connecting", "handling"},
             to = "receiving" => from = "handling"
      PROVE  NumberingOf(c)' /\ NumbersGrow(c)
  BY <1>0, <1>3 DEF Goes
<1>4. CASE ReceiveFails(c) \/ StopAtTop(c) \/ ConnectFails(c) \/ SubscribeFails(c)
           \/ HandshakeRefused(c) \/ StopWhileReceiving(c)
  BY <1>3, <1>4 DEF ReceiveFails, StopAtTop, ConnectFails, SubscribeFails, HandshakeRefused,
     StopWhileReceiving
<1>5. CASE ConnectSucceeds(c)
  BY <1>0, <1>5 DEF ConnectSucceeds, ReceiveNext, Goes
<1>6. ASSUME NEW kind \in Kinds, MessageHandled(c, kind)
      PROVE  NumberingOf(c)' /\ NumbersGrow(c)
  BY <1>3, <1>6 DEF MessageHandled, ReceiveNext
<1>7. CASE HandlerFails(c) \/ ConnectionFails(c) \/ Leave(c) \/ BackoffEnds(c)
  BY <1>3, <1>7 DEF HandlerFails, ConnectionFails, Leave, BackoffEnds
<1>8. CASE ConnectionCancelled(c)
  BY <1>0, <1>8 DEF ConnectionCancelled
<1>9. QED
  BY <1>1, <1>2, <1>4, <1>5, <1>6, <1>7, <1>8 DEF Proceeds, Serves, SubscriptionTimesOut

LEMMA NumberingPreserved ==
  TypeOK /\ NumberingInv /\ [Next]_vars => NumberingInv' /\ \A c \in Connections : NumbersGrow(c)
<1> SUFFICES ASSUME TypeOK, NumberingInv, [Next]_vars, NEW d \in Connections
             PROVE  NumberingOf(d)' /\ NumbersGrow(d)
  BY DEF NumberingInv
<1>0. NumberingOf(d)
  BY DEF NumberingInv
<1>1. ASSUME phase'[d] = phase[d], attempt'[d] = attempt[d], sequence'[d] = sequence[d],
             handed'[d] = handed[d]
      PROVE  NumberingOf(d)' /\ NumbersGrow(d)
  BY <1>0, <1>1 DEF NumberingOf, NumbersGrow
<1>2. ASSUME NEW c \in Connections, Proceeds(c) \/ Serves(c)
      PROVE  NumberingOf(d)' /\ NumbersGrow(d)
  BY <1>1, <1>2, OthersKeepNumbers, StepNumbers
<1>3. CASE UNCHANGED connectionVars
  BY <1>1, <1>3
<1>4. QED
  BY <1>2, <1>3 DEF Next, vars, RequestStop, Cancel, RunOver, Supervises, FirstFails, JoinFails,
     FirstReturns, RunEnds

----------------------------------------------------------------------------
(* The theorems.                                                           *)

LEMMA InvPreserved == IInv /\ [Next]_vars => IInv'
  BY TypePreserved, SupervisionPreserved, NumberingPreserved DEF IInv

(* The joint invariant of the collector. *)
THEOREM Invariance == Spec => []IInv
<1>1. QED
  BY InitInv, InvPreserved, PTL DEF Spec, SafeSpec

(* Types and bounds; only a stop request makes a connection return. *)
THEOREM TypeCorrect == Spec => []TypeOK
<1>1. IInv => TypeOK
  BY DEF IInv
<1>2. QED
  BY <1>1, Invariance, PTL

(* Whichever connections fail, and whenever run() is cancelled, it raises  *)
(* the error of one that failed by itself and returns only if none did.    *)
THEOREM FailureShown == Spec => []NoFailureHidden
<1>1. IInv => NoFailureHidden
  BY DEF IInv
<1>2. QED
  BY <1>1, Invariance, PTL

(* Connection ID and sequence number every message handed over, without    *)
(* gaps within a connection and upwards from one to the next.              *)
THEOREM Numbered == Spec => MessagesAreNumbered
<1> DEFINE Step == \A c \in Connections :
             handed'[c] # handed[c] \/ (phase[c] # "handling" /\ phase'[c] = "handling") =>
               \/ handed'[c][1] = handed[c][1] /\ handed'[c][2] = handed[c][2] + 1
               \/ handed'[c][1] > handed[c][1] /\ handed'[c][2] = 1
<1>1. IInv /\ [Next]_vars => [Step]_vars
  BY NumberingPreserved DEF IInv, NumbersGrow
<1>2. QED
  BY <1>1, Invariance, PTL DEF Spec, SafeSpec, MessagesAreNumbered

----------------------------------------------------------------------------
(* The refinement of CollectorContract.                                    *)

LEMMA StepMaps == IInv /\ [Next]_vars => [Contract!Next]_(Contract!vars)
<1> SUFFICES ASSUME IInv, [Next]_vars PROVE [Contract!Next]_(Contract!vars)
  OBVIOUS
<1> USE DEF IInv, TypeOK, SupervisionInv, Contract!vars
<1>1. CASE RequestStop
  BY <1>1 DEF RequestStop, Contract!Next, Contract!RequestStop
<1>2. CASE Cancel
  BY <1>2 DEF Cancel, Sweep
<1>3. ASSUME NEW c \in Connections, FirstFails(c) \/ JoinFails(c)
      PROVE  [Contract!Next]_(Contract!vars)
  <2>1. /\ run \in {"waiting", "joining"} /\ run' = "sweeping"
        /\ stop' = stop \/ (~ stop /\ stop' = TRUE)
    BY <1>3 DEF FirstFails, JoinFails, Sweep
  <2>2. CASE stop' = stop
    BY <2>1, <2>2
  <2>3. CASE ~ stop /\ stop' = TRUE
    <3>1. Contract!RequestStop
      BY <2>1, <2>3 DEF Contract!RequestStop
    <3>2. QED
      BY <3>1 DEF Contract!Next
  <2>4. QED
    BY <2>1, <2>2, <2>3
<1>4. CASE FirstReturns
  BY <1>4 DEF FirstReturns
<1>5. CASE RunEnds
  <2>1. /\ run \in {"joining", "sweeping"} /\ run' = "over" /\ stop' = stop
        /\ pending' = pending
    BY <1>5 DEF RunEnds
  <2>2. CASE pending = "returned"
    BY <2>1, <2>2 DEF Contract!Next, Contract!End, Contract!Return
  <2>3. CASE pending = "raised"
    BY <2>1, <2>3 DEF Contract!Next, Contract!End, Contract!Raise
  <2>4. CASE pending = "cancelled"
    BY <2>1, <2>4 DEF Contract!Next, Contract!End, Contract!Cancelled
  <2>5. QED
    BY <2>1, <2>2, <2>3, <2>4
<1>6. ASSUME NEW c \in Connections, Proceeds(c) \/ Serves(c)
      PROVE  UNCHANGED Contract!vars
  BY <1>6, EndedIsFinal
<1>7. CASE UNCHANGED vars
  BY <1>7 DEF vars
<1>8. QED
  BY <1>1, <1>2, <1>3, <1>4, <1>5, <1>6, <1>7 DEF Next, RunOver, Supervises

(* A collector returns only after a stop request, and every other end is   *)
(* an error or a cancellation: the safety part of the contract.            *)
THEOREM ImplementsContract == Spec => ContractSafeSpec
<1>1. Init => Contract!Init
  BY DEF Init, Contract!Init
<1>2. QED
  BY <1>1, StepMaps, Invariance, PTL DEF Spec, SafeSpec, ContractSafeSpec, Contract!SafeSpec
============================================================================
