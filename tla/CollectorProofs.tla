--------------------------- MODULE CollectorProofs ---------------------------
(***************************************************************************)
(* Proofs about Collector for every number of delays, buffer size and      *)
(* bound on connections and messages.  IInv is inductive; beyond the       *)
(* checked invariants it says that a message in the handler is the only    *)
(* one not yet handled, and that the policy counts fruitless connections.  *)
(***************************************************************************)
EXTENDS Collector, SequenceTheorems, TLAPS

USE BoundsAssumption

USE DEF policyVars, subscriptionVars, handlingVars, serverVars, messageVars, failureVars, Over

(* _handle_message_or_stop is reached with one message more than handled. *)
HandlingInv == phase = "handling" => taken = handled + 1

(* next_delay is called once for every connection that was left, and the   *)
(* backoff is reset exactly when a message was handled.                    *)
PolicyInv == Over \/ attempt = fruitless

(* run() returns only after a stop request. *)
StopInv == phase = "ended" => stop

IInv ==
  /\ TypeOK /\ HandlingInv /\ PolicyInv /\ StopInv
  /\ NoMessageSkipped /\ ShownSubscribedOnlyAfterAck /\ BackoffFollowsFailures

----------------------------------------------------------------------------
LEMMA InitInv == Init => IInv
<1> SUFFICES ASSUME Init PROVE IInv
  OBVIOUS
<1>1. inbox \in Seq(Kinds) /\ Len(inbox) = 0
  BY DEF Init
<1>2. TypeOK
  <2>1. /\ 0 \in 0 .. LastDelay /\ 0 <= BufferMax
        /\ phase = "top" /\ inbox = << >> /\ link = "none" /\ handler = "none" /\ message = "none"
    BY DEF Init
  <2>2. QED
    BY <1>1, <2>1 DEF Init, TypeOK
<1>3. QED
  BY <1>2 DEF Init, IInv, HandlingInv, PolicyInv, StopInv, NoMessageSkipped,
     ShownSubscribedOnlyAfterAck, BackoffFollowsFailures

----------------------------------------------------------------------------
(* The inbox. *)
LEMMA InboxTypes ==
  ASSUME TypeOK, [Next]_vars
  PROVE  inbox' \in Seq(Kinds) /\ Len(inbox') <= BufferMax
<1>0. inbox \in Seq(Kinds) /\ Len(inbox) \in Nat /\ Len(inbox) <= BufferMax /\ BufferMax \in Nat
  BY DEF TypeOK
<1>1. << >> \in Seq(Kinds) /\ Len(<< >>) = 0
  OBVIOUS
<1>2. ASSUME NEW kind \in Kinds, ServerSends(kind)
      PROVE  inbox' \in Seq(Kinds) /\ Len(inbox') <= BufferMax
  BY <1>0, <1>2, AppendProperties DEF ServerSends
<1>3. CASE ReceiveMessage
  BY <1>0, <1>3, HeadTailProperties DEF ReceiveMessage
<1>4. CASE inbox' = << >>
  BY <1>1, <1>4
<1>5. CASE inbox' = inbox
  BY <1>0, <1>5
<1>6. QED
  BY <1>2, <1>3, <1>4, <1>5 DEF Next, RequestStop, LinkLost, DeadlinePasses, StopAtTop, Connect,
     Opens, ConnectSucceeds, ConnectFails, SubscribeFails, HandshakeRefused, Leave, BackoffEnds,
     ReceiveFails, StopWhileReceiving, SubscriptionTimesOut, HandlerEnds, MessageHandled, HandlerFailed, StopWhileHandling,
     Cancelled, RunOver, vars

LEMMA MessageTypes ==
  ASSUME TypeOK, ReceiveMessage
  PROVE  message' \in Kinds
  BY HeadTailProperties DEF TypeOK, ReceiveMessage

LEMMA TypePreserved == TypeOK /\ [Next]_vars => TypeOK'
<1> SUFFICES ASSUME TypeOK, [Next]_vars PROVE TypeOK'
  OBVIOUS
<1>0. inbox' \in Seq(Kinds) /\ Len(inbox') <= BufferMax
  BY InboxTypes
<1> USE DEF TypeOK
<1>1. CASE RequestStop
  BY <1>1, <1>0 DEF RequestStop
<1>2. CASE LinkLost
  BY <1>2, <1>0 DEF LinkLost
<1>3. CASE DeadlinePasses
  BY <1>3, <1>0 DEF DeadlinePasses
<1>4. ASSUME NEW kind \in Kinds, ServerSends(kind)
      PROVE  TypeOK'
  BY <1>4, <1>0 DEF ServerSends
<1>5. CASE StopAtTop
  BY <1>5, <1>0 DEF StopAtTop
<1>6. CASE Connect
  BY <1>6, <1>0 DEF Connect
<1>7. CASE ConnectSucceeds
  BY <1>7, <1>0 DEF ConnectSucceeds, ReceiveNext
<1>8. CASE ConnectFails \/ SubscribeFails \/ HandshakeRefused
  BY <1>8, <1>0 DEF ConnectFails, SubscribeFails, HandshakeRefused
<1>9. CASE Leave
  BY <1>9, <1>0 DEF Leave, NextDelay
<1>10. CASE BackoffEnds
  BY <1>10, <1>0 DEF BackoffEnds
<1>11. CASE ReceiveMessage
  BY <1>11, <1>0, MessageTypes DEF ReceiveMessage
<1>12. CASE ReceiveFails
  BY <1>12, <1>0 DEF ReceiveFails
<1>13. CASE StopWhileReceiving
  BY <1>13, <1>0 DEF StopWhileReceiving
<1>14. CASE SubscriptionTimesOut
  BY <1>14, <1>0 DEF SubscriptionTimesOut
<1>15. ASSUME NEW outcome \in {"done", "raised"}, HandlerEnds(outcome)
      PROVE  TypeOK'
  BY <1>15, <1>0 DEF HandlerEnds
<1>16. CASE MessageHandled
  <2>1. /\ phase' \in {"receiving", "closing"} /\ status' \in {"waiting", "requested", "confirmed", "failed"}
        /\ confirmed' \in BOOLEAN /\ overdue' \in BOOLEAN /\ ackOn' \in Nat
    BY <1>16 DEF MessageHandled, ReceiveNext
  <2>2. QED
    BY <1>16, <1>0, <2>1 DEF MessageHandled, HandlingDone
<1>17. CASE HandlerFailed
  BY <1>17, <1>0 DEF HandlerFailed, HandlingDone
<1>18. CASE StopWhileHandling
  BY <1>18, <1>0 DEF StopWhileHandling, HandlingDone
<1>19. CASE Cancelled
  BY <1>19, <1>0 DEF Cancelled, HandlingDone
<1>20. CASE UNCHANGED vars
  BY <1>20, <1>0 DEF vars
<1>21. QED
  BY <1>1, <1>2, <1>3, <1>4, <1>5, <1>6, <1>7, <1>8, <1>9, <1>10, <1>11, <1>12,
     <1>13, <1>14, <1>15, <1>16, <1>17, <1>18, <1>19, <1>20 DEF Next, Opens, RunOver

----------------------------------------------------------------------------
(* The invariants about messages, status and backoff.                      *)

LEMMA MessagesPreserved ==
  TypeOK /\ HandlingInv /\ NoMessageSkipped /\ StopInv /\ [Next]_vars =>
    HandlingInv' /\ NoMessageSkipped' /\ StopInv'
<1> SUFFICES ASSUME TypeOK, HandlingInv, NoMessageSkipped, StopInv, [Next]_vars
             PROVE  HandlingInv' /\ NoMessageSkipped' /\ StopInv'
  OBVIOUS
<1> USE DEF TypeOK, HandlingInv, NoMessageSkipped, StopInv
<1>1. CASE RequestStop
  BY <1>1 DEF RequestStop
<1>2. CASE LinkLost
  BY <1>2 DEF LinkLost
<1>3. CASE DeadlinePasses
  BY <1>3 DEF DeadlinePasses
<1>4. ASSUME NEW kind \in Kinds, ServerSends(kind)
      PROVE  HandlingInv' /\ NoMessageSkipped' /\ StopInv'
  BY <1>4 DEF ServerSends
<1>5. CASE StopAtTop
  BY <1>5 DEF StopAtTop
<1>6. CASE Connect
  BY <1>6 DEF Connect
<1>7. CASE ConnectSucceeds
  BY <1>7 DEF ConnectSucceeds, ReceiveNext
<1>8. CASE ConnectFails \/ SubscribeFails \/ HandshakeRefused
  BY <1>8 DEF ConnectFails, SubscribeFails, HandshakeRefused
<1>9. CASE Leave
  BY <1>9 DEF Leave, NextDelay
<1>10. CASE BackoffEnds
  BY <1>10 DEF BackoffEnds
<1>11. CASE ReceiveMessage
  BY <1>11 DEF ReceiveMessage
<1>12. CASE ReceiveFails
  BY <1>12 DEF ReceiveFails
<1>13. CASE StopWhileReceiving
  BY <1>13 DEF StopWhileReceiving
<1>14. CASE SubscriptionTimesOut
  BY <1>14 DEF SubscriptionTimesOut
<1>15. ASSUME NEW outcome \in {"done", "raised"}, HandlerEnds(outcome)
      PROVE  HandlingInv' /\ NoMessageSkipped' /\ StopInv'
  BY <1>15 DEF HandlerEnds
<1>16. CASE MessageHandled
  BY <1>16 DEF MessageHandled, HandlingDone, ReceiveNext
<1>17. CASE HandlerFailed
  BY <1>17 DEF HandlerFailed, HandlingDone
<1>18. CASE StopWhileHandling
  BY <1>18 DEF StopWhileHandling, HandlingDone
<1>19. CASE Cancelled
  BY <1>19 DEF Cancelled, HandlingDone
<1>20. CASE UNCHANGED vars
  BY <1>20 DEF vars
<1>21. QED
  BY <1>1, <1>2, <1>3, <1>4, <1>5, <1>6, <1>7, <1>8, <1>9, <1>10, <1>11, <1>12,
     <1>13, <1>14, <1>15, <1>16, <1>17, <1>18, <1>19, <1>20 DEF Next, Opens, RunOver

LEMMA StatusPreserved ==
  TypeOK /\ ShownSubscribedOnlyAfterAck /\ [Next]_vars => ShownSubscribedOnlyAfterAck'
<1> SUFFICES ASSUME TypeOK, ShownSubscribedOnlyAfterAck, [Next]_vars
             PROVE  ShownSubscribedOnlyAfterAck'
  OBVIOUS
<1> USE DEF TypeOK, ShownSubscribedOnlyAfterAck
<1>1. CASE RequestStop
  BY <1>1 DEF RequestStop
<1>2. CASE LinkLost
  BY <1>2 DEF LinkLost
<1>3. CASE DeadlinePasses
  BY <1>3 DEF DeadlinePasses
<1>4. ASSUME NEW kind \in Kinds, ServerSends(kind)
      PROVE  ShownSubscribedOnlyAfterAck'
  BY <1>4 DEF ServerSends
<1>5. CASE StopAtTop
  BY <1>5 DEF StopAtTop
<1>6. CASE Connect
  BY <1>6 DEF Connect
<1>7. CASE ConnectSucceeds
  BY <1>7 DEF ConnectSucceeds, ReceiveNext
<1>8. CASE ConnectFails \/ SubscribeFails \/ HandshakeRefused
  BY <1>8 DEF ConnectFails, SubscribeFails, HandshakeRefused
<1>9. CASE Leave
  BY <1>9 DEF Leave, NextDelay
<1>10. CASE BackoffEnds
  BY <1>10 DEF BackoffEnds
<1>11. CASE ReceiveMessage
  BY <1>11 DEF ReceiveMessage
<1>12. CASE ReceiveFails
  BY <1>12 DEF ReceiveFails
<1>13. CASE StopWhileReceiving
  BY <1>13 DEF StopWhileReceiving
<1>14. CASE SubscriptionTimesOut
  BY <1>14 DEF SubscriptionTimesOut
<1>15. ASSUME NEW outcome \in {"done", "raised"}, HandlerEnds(outcome)
      PROVE  ShownSubscribedOnlyAfterAck'
  BY <1>15 DEF HandlerEnds
<1>16. CASE MessageHandled
  BY <1>16 DEF MessageHandled, HandlingDone, ReceiveNext
<1>17. CASE HandlerFailed
  BY <1>17 DEF HandlerFailed, HandlingDone
<1>18. CASE StopWhileHandling
  BY <1>18 DEF StopWhileHandling, HandlingDone
<1>19. CASE Cancelled
  BY <1>19 DEF Cancelled, HandlingDone
<1>20. CASE UNCHANGED vars
  BY <1>20 DEF vars
<1>21. QED
  BY <1>1, <1>2, <1>3, <1>4, <1>5, <1>6, <1>7, <1>8, <1>9, <1>10, <1>11, <1>12,
     <1>13, <1>14, <1>15, <1>16, <1>17, <1>18, <1>19, <1>20 DEF Next, Opens, RunOver

LEMMA BackoffPreserved ==
  TypeOK /\ PolicyInv /\ BackoffFollowsFailures /\ [Next]_vars => PolicyInv' /\ BackoffFollowsFailures'
<1> SUFFICES ASSUME TypeOK, PolicyInv, BackoffFollowsFailures, [Next]_vars
             PROVE  PolicyInv' /\ BackoffFollowsFailures'
  OBVIOUS
<1> USE DEF TypeOK, PolicyInv, BackoffFollowsFailures
<1>1. CASE RequestStop
  BY <1>1 DEF RequestStop
<1>2. CASE LinkLost
  BY <1>2 DEF LinkLost
<1>3. CASE DeadlinePasses
  BY <1>3 DEF DeadlinePasses
<1>4. ASSUME NEW kind \in Kinds, ServerSends(kind)
      PROVE  PolicyInv' /\ BackoffFollowsFailures'
  BY <1>4 DEF ServerSends
<1>5. CASE StopAtTop
  BY <1>5 DEF StopAtTop
<1>6. CASE Connect
  BY <1>6 DEF Connect
<1>7. CASE ConnectSucceeds
  BY <1>7 DEF ConnectSucceeds, ReceiveNext
<1>8. CASE ConnectFails \/ SubscribeFails \/ HandshakeRefused
  BY <1>8 DEF ConnectFails, SubscribeFails, HandshakeRefused
<1>9. CASE Leave
  BY <1>9 DEF Leave, NextDelay
<1>10. CASE BackoffEnds
  BY <1>10 DEF BackoffEnds
<1>11. CASE ReceiveMessage
  BY <1>11 DEF ReceiveMessage
<1>12. CASE ReceiveFails
  BY <1>12 DEF ReceiveFails
<1>13. CASE StopWhileReceiving
  BY <1>13 DEF StopWhileReceiving
<1>14. CASE SubscriptionTimesOut
  BY <1>14 DEF SubscriptionTimesOut
<1>15. ASSUME NEW outcome \in {"done", "raised"}, HandlerEnds(outcome)
      PROVE  PolicyInv' /\ BackoffFollowsFailures'
  BY <1>15 DEF HandlerEnds
<1>16. CASE MessageHandled
  BY <1>16 DEF MessageHandled, HandlingDone, ReceiveNext
<1>17. CASE HandlerFailed
  BY <1>17 DEF HandlerFailed, HandlingDone
<1>18. CASE StopWhileHandling
  BY <1>18 DEF StopWhileHandling, HandlingDone
<1>19. CASE Cancelled
  BY <1>19 DEF Cancelled, HandlingDone
<1>20. CASE UNCHANGED vars
  BY <1>20 DEF vars
<1>21. QED
  BY <1>1, <1>2, <1>3, <1>4, <1>5, <1>6, <1>7, <1>8, <1>9, <1>10, <1>11, <1>12,
     <1>13, <1>14, <1>15, <1>16, <1>17, <1>18, <1>19, <1>20 DEF Next, Opens, RunOver

----------------------------------------------------------------------------
(* The theorems.                                                           *)

LEMMA InvPreserved == IInv /\ [Next]_vars => IInv'
  BY TypePreserved, MessagesPreserved, StatusPreserved, BackoffPreserved DEF IInv

(* The joint invariant of the collector. *)
THEOREM Invariance == Spec => []IInv
<1>1. QED
  BY InitInv, InvPreserved, PTL DEF Spec, SafeSpec

(* Types; a connection exists exactly while the loop is in it, and a       *)
(* handler exactly while its message is being handled.                     *)
THEOREM TypeCorrect == Spec => []TypeOK
<1>1. IInv => TypeOK
  BY DEF IInv
<1>2. QED
  BY <1>1, Invariance, PTL

(* Whatever the server, the clock and the user do, a message that recv()   *)
(* returned is handled before the next one, and left only by a stop        *)
(* request, a cancellation or its own failure.                             *)
THEOREM NothingSkipped == Spec => []NoMessageSkipped
<1>1. IInv => NoMessageSkipped
  BY DEF IInv
<1>2. QED
  BY <1>1, Invariance, PTL

(* The screen never shows the confirmation of an earlier connection. *)
THEOREM StatusIsCurrent == Spec => []ShownSubscribedOnlyAfterAck
<1>1. IInv => ShownSubscribedOnlyAfterAck
  BY DEF IInv
<1>2. QED
  BY <1>1, Invariance, PTL

(* For a delay table of any length, the wait after n fruitless connections *)
(* is its n-th entry, and its last one from then on.                       *)
THEOREM BackoffIsExact == Spec => []BackoffFollowsFailures
<1>1. IInv => BackoffFollowsFailures
  BY DEF IInv
<1>2. QED
  BY <1>1, Invariance, PTL

----------------------------------------------------------------------------
(* The refinement of CollectorContract.                                    *)

LEMMA StepMaps == IInv /\ [Next]_vars => [Contract!Next]_(Contract!vars)
<1> SUFFICES ASSUME IInv, [Next]_vars PROVE [Contract!Next]_(Contract!vars)
  OBVIOUS
<1>0. phase \in {"top", "connecting", "receiving", "handling", "closing", "backoff",
                "ended", "failed", "cancelled"}
  BY DEF IInv, TypeOK
<1>a. ASSUME ~ Over, ~ Over', stop' = stop
      PROVE  UNCHANGED Contract!vars
  BY <1>a DEF Contract!vars
<1>b. ASSUME ~ Over, stop, phase' = "ended", stop' = stop
      PROVE  Contract!Next
  BY <1>b DEF Contract!Next, Contract!End, Contract!Return
<1>c. ASSUME stop' = stop, phase' = phase
      PROVE  UNCHANGED Contract!vars
  BY <1>c DEF Contract!vars
<1>1. CASE RequestStop
  BY <1>1 DEF RequestStop, Contract!Next, Contract!RequestStop
<1>2. CASE LinkLost \/ DeadlinePasses \/ (\E kind \in Kinds : ServerSends(kind))
           \/ (\E outcome \in {"done", "raised"} : HandlerEnds(outcome))
  BY <1>2, <1>c DEF LinkLost, DeadlinePasses, ServerSends, HandlerEnds
<1>3. CASE StopAtTop
  BY <1>3, <1>b DEF StopAtTop
<1>4. CASE Connect \/ ConnectSucceeds \/ ConnectFails \/ SubscribeFails
  BY <1>4, <1>a DEF Connect, ConnectSucceeds, ConnectFails, SubscribeFails, ReceiveNext
<1>5. CASE Leave
  BY <1>5, <1>a, <1>b DEF Leave
<1>6. CASE BackoffEnds
  BY <1>6, <1>a, <1>b DEF BackoffEnds
<1>7. CASE ReceiveMessage \/ ReceiveFails \/ StopWhileReceiving \/ SubscriptionTimesOut
  BY <1>7, <1>a DEF ReceiveMessage, ReceiveFails, StopWhileReceiving, SubscriptionTimesOut
<1>8. CASE MessageHandled
  BY <1>8, <1>a DEF MessageHandled, ReceiveNext
<1>9. CASE StopWhileHandling
  BY <1>9, <1>a DEF StopWhileHandling
<1>10. CASE HandlerFailed \/ HandshakeRefused
  BY <1>10 DEF HandlerFailed, HandshakeRefused, Contract!Next, Contract!End, Contract!Raise
<1>11. CASE Cancelled
  BY <1>0, <1>11 DEF Cancelled, Contract!Next, Contract!End, Contract!Cancelled
<1>12. CASE UNCHANGED vars
  BY <1>12, <1>c DEF vars
<1>13. QED
  BY <1>1, <1>2, <1>3, <1>4, <1>5, <1>6, <1>7, <1>8, <1>9, <1>10, <1>11, <1>12
     DEF Next, Opens, RunOver

(* The single-stream collector returns only after a stop request, and      *)
(* every other end is an error or a cancellation: the safety part of the   *)
(* contract.                                                               *)
THEOREM ImplementsContract == Spec => ContractSafeSpec
<1>1. Init => Contract!Init
  BY DEF Init, Contract!Init
<1>2. QED
  BY <1>1, StepMaps, Invariance, PTL DEF Spec, SafeSpec, ContractSafeSpec, Contract!SafeSpec
============================================================================
