----------------------------- MODULE Collector -----------------------------
(***************************************************************************)
(* The single-stream collector, src/collector/client.py, with the backoff  *)
(* of reconnect.py: one connection after the other, each subscribed anew,  *)
(* every message received on it handed to the handler before the next one  *)
(* is received, until the stop request, a cancellation, a refused opening  *)
(* handshake or the failure of the handler ends the run.                   *)
(*                                                                         *)
(* asyncio.wait returns all tasks that have completed when its caller runs *)
(* again: the end of the handler and the resumption of the loop are        *)
(* separate steps.  A frame that has arrived is received by a task that    *)
(* completes at once, so it goes before a stop request or a deadline that  *)
(* comes in the same wait.  Times are abstracted to their order: a delay   *)
(* is its index in the table, the subscription deadline whether it passed. *)
(*                                                                         *)
(* The Bug_ operators are plausible slips in the code, used nowhere: each  *)
(* shows that a property fails when it takes the place of its namesake.    *)
(***************************************************************************)
EXTENDS Naturals, Sequences

CONSTANTS
  LastDelay,      (* Index of the last entry of ReconnectPolicy.delays.       *)
  BufferMax,      (* max_queue of the WebSocket, in messages.                 *)
  MaxConnections, (* Bound on the connections of one run.                     *)
  MaxMessages     (* Bound on the messages the server sends in one run.       *)

ASSUME BoundsAssumption ==
  /\ LastDelay \in Nat /\ BufferMax \in Nat \ {0}
  /\ MaxConnections \in Nat /\ MaxMessages \in Nat

VARIABLES
  phase,       (* where run() stands                                           *)
  stop,        (* the stop event                                               *)
  attempt,     (* ReconnectPolicy._attempt                                     *)
  delay,       (* the delay chosen last                                        *)
  confirmed,   (* subscription_confirmed                                       *)
  overdue,     (* subscription_deadline has passed                             *)
  status,      (* the subscription status shown                                *)
  message,     (* the kind of the message in the handler                       *)
  handler,     (* the task of the handler: "none", "running", "done", "raised" *)
  link,        (* external: the connection, "none", "up" or "lost"             *)
  inbox,       (* external: the frames that recv() has not yet returned        *)
  sent,        (* external: messages sent by the server in this run            *)
  connections, (* history: connections attempted                               *)
  ackOn,       (* history: the connection that was acknowledged last           *)
  taken,       (* history: messages that recv() returned                       *)
  handled,     (* history: messages whose handling completed                   *)
  fruitless,   (* history: connections ended since a message was handled       *)
  unserved     (* history: connections ended since one that brought something  *)
               (* else than the rejection of its subscription                  *)

policyVars == <<attempt, delay>>
subscriptionVars == <<confirmed, overdue, status>>
handlingVars == <<message, handler>>
serverVars == <<link, inbox, sent>>
messageVars == <<ackOn, taken, handled>>
failureVars == <<fruitless, unserved>>
vars == <<phase, stop, policyVars, subscriptionVars, handlingVars, serverVars, connections,
          messageVars, failureVars>>

----------------------------------------------------------------------------
(* The kinds of messages the loop tells apart. *)
Kinds == {"data", "ack", "rejection", "shutdown"}

Over == phase \in {"ended", "failed", "cancelled"}

Init ==
  /\ phase = "top" /\ stop = FALSE
  /\ attempt = 0 /\ delay = 0
  /\ confirmed = FALSE /\ overdue = FALSE /\ status = "waiting"
  /\ message = "none" /\ handler = "none"
  /\ link = "none" /\ inbox = << >> /\ sent = 0
  /\ connections = 0 /\ ackOn = 0 /\ taken = 0 /\ handled = 0
  /\ fruitless = 0 /\ unserved = 0

----------------------------------------------------------------------------
(* The environment: the user, the server and the clock.                    *)

RequestStop ==
  /\ ~ stop
  /\ stop' = TRUE
  /\ UNCHANGED <<phase, policyVars, subscriptionVars, handlingVars, serverVars, connections,
                 messageVars, failureVars>>

ServerSends(kind) ==
  /\ link = "up" /\ sent < MaxMessages /\ Len(inbox) < BufferMax
  /\ sent' = sent + 1
  /\ inbox' = Append(inbox, kind)
  /\ UNCHANGED <<phase, stop, policyVars, subscriptionVars, handlingVars, link, connections,
                 messageVars, failureVars>>

LinkLost ==
  /\ link = "up"
  /\ link' = "lost"
  /\ UNCHANGED <<phase, stop, policyVars, subscriptionVars, handlingVars, inbox, sent,
                 connections, messageVars, failureVars>>

DeadlinePasses ==
  /\ link # "none" /\ ~ confirmed /\ ~ overdue
  /\ overdue' = TRUE
  /\ UNCHANGED <<phase, stop, policyVars, confirmed, status, handlingVars, serverVars,
                 connections, messageVars, failureVars>>

----------------------------------------------------------------------------
(* run(): one connection after the other.                                  *)

StopAtTop ==
  /\ phase = "top" /\ stop
  /\ phase' = "ended"
  /\ UNCHANGED <<stop, policyVars, subscriptionVars, handlingVars, serverVars, connections,
                 messageVars, failureVars>>

Bug_Connect ==
  /\ phase = "top" /\ ~ stop /\ connections < MaxConnections
  /\ phase' = "connecting"
  /\ connections' = connections + 1
  /\ UNCHANGED <<stop, policyVars, subscriptionVars, handlingVars, serverVars, messageVars,
                 failureVars>>

Connect ==
  /\ phase = "top" /\ ~ stop /\ connections < MaxConnections
  /\ phase' = "connecting"
  /\ connections' = connections + 1
  /\ status' = "waiting"
  /\ UNCHANGED <<stop, policyVars, confirmed, overdue, handlingVars, serverVars, messageVars,
                 failureVars>>

(* The receiving loop looks at the stop event before every wait. *)
ReceiveNext == phase' = IF stop THEN "closing" ELSE "receiving"

Bug_ConnectSucceeds ==
  /\ phase = "connecting"
  /\ ReceiveNext
  /\ confirmed' = FALSE /\ overdue' = FALSE /\ status' = "requested"
  /\ link' = "up"
  /\ attempt' = 0
  /\ UNCHANGED <<stop, delay, handlingVars, inbox, sent, connections, messageVars,
                 failureVars>>

(* The connection opens and the subscription is sent. *)
ConnectSucceeds ==
  /\ phase = "connecting"
  /\ ReceiveNext
  /\ confirmed' = FALSE /\ overdue' = FALSE /\ status' = "requested"
  /\ link' = "up"
  /\ UNCHANGED <<stop, policyVars, handlingVars, inbox, sent, connections, messageVars,
                 failureVars>>

ConnectFails ==
  /\ phase = "connecting"
  /\ phase' = "closing"
  /\ UNCHANGED <<stop, policyVars, subscriptionVars, handlingVars, serverVars, connections,
                 messageVars, failureVars>>

(* The connection opens, but is lost before the request has been sent. *)
SubscribeFails ==
  /\ phase = "connecting"
  /\ phase' = "closing" /\ status' = "requested"
  /\ UNCHANGED <<stop, policyVars, confirmed, overdue, handlingVars, serverVars, connections,
                 messageVars, failureVars>>

(* An error of the opening handshake (InvalidHandshake and its kin, for    *)
(* instance an HTTP status other than 101) is none of those that run()     *)
(* retries.                                                                *)
HandshakeRefused ==
  /\ phase = "connecting"
  /\ phase' = "failed"
  /\ UNCHANGED <<stop, policyVars, subscriptionVars, handlingVars, serverVars, connections,
                 messageVars, failureVars>>

Opens == ConnectSucceeds \/ ConnectFails \/ SubscribeFails \/ HandshakeRefused

Bug_NextDelay ==
  /\ delay' = attempt
  /\ attempt' = attempt + 1

(* ReconnectPolicy.next_delay: the last delay repeats. *)
NextDelay ==
  /\ delay' = IF attempt < LastDelay THEN attempt ELSE LastDelay
  /\ attempt' = attempt + 1

(* The connection is closed.  If the stop event is not set by then, the    *)
(* loop waits for the next delay.                                          *)
Leave ==
  /\ phase = "closing"
  /\ link' = "none" /\ inbox' = << >>
  /\ fruitless' = fruitless + 1 /\ unserved' = unserved + 1
  /\ IF stop
     THEN phase' = "ended" /\ UNCHANGED policyVars
     ELSE phase' = "backoff" /\ NextDelay
  /\ UNCHANGED <<stop, subscriptionVars, handlingVars, sent, connections, messageVars>>

(* wait_for_reconnect is interrupted by the stop event. *)
BackoffEnds ==
  /\ phase = "backoff"
  /\ phase' = IF stop THEN "ended" ELSE "top"
  /\ UNCHANGED <<stop, policyVars, subscriptionVars, handlingVars, serverVars, connections,
                 messageVars, failureVars>>

----------------------------------------------------------------------------
(* _receive_or_stop.                                                       *)

ReceiveMessage ==
  /\ phase = "receiving" /\ inbox # << >>
  /\ phase' = "handling"
  /\ message' = Head(inbox) /\ handler' = "running"
  /\ inbox' = Tail(inbox)
  /\ taken' = taken + 1
  /\ UNCHANGED <<stop, policyVars, subscriptionVars, link, sent, connections, ackOn, handled,
                 failureVars>>

(* recv() raises ConnectionClosed; frames not yet received are gone. *)
ReceiveFails ==
  /\ phase = "receiving" /\ link = "lost"
  /\ phase' = "closing"
  /\ UNCHANGED <<stop, policyVars, subscriptionVars, handlingVars, serverVars, connections,
                 messageVars, failureVars>>

StopWhileReceiving ==
  /\ phase = "receiving" /\ inbox = << >> /\ stop
  /\ phase' = "closing"
  /\ UNCHANGED <<stop, policyVars, subscriptionVars, handlingVars, serverVars, connections,
                 messageVars, failureVars>>

Bug_SubscriptionTimesOut ==
  /\ phase = "receiving" /\ inbox # << >> /\ ~ confirmed /\ overdue
  /\ phase' = "closing" /\ status' = "failed"
  /\ UNCHANGED <<stop, policyVars, confirmed, overdue, handlingVars, serverVars, connections,
                 messageVars, failureVars>>

SubscriptionTimesOut ==
  /\ phase = "receiving" /\ inbox = << >> /\ ~ confirmed /\ overdue
  /\ phase' = "closing" /\ status' = "failed"
  /\ UNCHANGED <<stop, policyVars, confirmed, overdue, handlingVars, serverVars, connections,
                 messageVars, failureVars>>

----------------------------------------------------------------------------
(* _handle_message_or_stop, and what the loop does with the message then.  *)

HandlerEnds(outcome) ==
  /\ handler = "running"
  /\ handler' = outcome
  /\ UNCHANGED <<phase, stop, policyVars, subscriptionVars, message, serverVars, connections,
                 messageVars, failureVars>>

HandlingDone == message' = "none" /\ handler' = "none"

(* The handler has completed, whether or not the stop event is set: the    *)
(* backoff is reset, and the message is looked at.                         *)
MessageHandled ==
  /\ phase = "handling" /\ handler = "done"
  /\ handled' = handled + 1
  /\ attempt' = 0
  /\ fruitless' = 0
  /\ unserved' = IF message = "rejection" THEN unserved ELSE 0
  /\ HandlingDone
  /\ \/ /\ message = "data" /\ ReceiveNext
        /\ UNCHANGED <<subscriptionVars, ackOn>>
     \/ /\ message = "ack" /\ ReceiveNext
        /\ confirmed' = TRUE /\ status' = "confirmed" /\ ackOn' = connections
        /\ UNCHANGED overdue
     \/ /\ message = "rejection" /\ phase' = "closing" /\ status' = "failed"
        /\ UNCHANGED <<confirmed, overdue, ackOn>>
     \/ /\ message = "shutdown" /\ phase' = "closing"
        /\ UNCHANGED <<subscriptionVars, ackOn>>
  /\ UNCHANGED <<stop, delay, serverVars, connections, taken>>

(* MessageHandlerError is not retried. *)
HandlerFailed ==
  /\ phase = "handling" /\ handler = "raised"
  /\ phase' = "failed"
  /\ HandlingDone /\ link' = "none" /\ inbox' = << >>
  /\ UNCHANGED <<stop, policyVars, subscriptionVars, sent, connections, messageVars,
                 failureVars>>

Bug_StopWhileHandling ==
  /\ phase = "handling" /\ handler = "running" /\ (stop \/ (overdue /\ ~ confirmed))
  /\ phase' = "closing"
  /\ HandlingDone
  /\ UNCHANGED <<stop, policyVars, subscriptionVars, serverVars, connections, messageVars,
                 failureVars>>

Bug_NoStopWhileHandling ==
  /\ phase = "handling" /\ handler = "done" /\ stop
  /\ phase' = "closing"
  /\ HandlingDone
  /\ UNCHANGED <<stop, policyVars, subscriptionVars, serverVars, connections, messageVars,
                 failureVars>>

(* The stop event comes first: the handler is cancelled. *)
StopWhileHandling ==
  /\ phase = "handling" /\ handler = "running" /\ stop
  /\ phase' = "closing"
  /\ HandlingDone
  /\ UNCHANGED <<stop, policyVars, subscriptionVars, serverVars, connections, messageVars,
                 failureVars>>

(* The supervisor cancels the task of the collector, wherever it stands. *)
Cancelled ==
  /\ ~ Over
  /\ phase' = "cancelled"
  /\ HandlingDone /\ link' = "none" /\ inbox' = << >>
  /\ UNCHANGED <<stop, policyVars, subscriptionVars, sent, connections, messageVars,
                 failureVars>>

(* run() has returned or raised. *)
RunOver ==
  /\ Over
  /\ UNCHANGED vars

----------------------------------------------------------------------------
Next ==
  \/ RequestStop \/ LinkLost \/ DeadlinePasses
  \/ \E kind \in Kinds : ServerSends(kind)
  \/ StopAtTop \/ Connect \/ Opens \/ Leave \/ BackoffEnds
  \/ ReceiveMessage \/ ReceiveFails \/ StopWhileReceiving \/ SubscriptionTimesOut
  \/ \E outcome \in {"done", "raised"} : HandlerEnds(outcome)
  \/ MessageHandled \/ HandlerFailed \/ StopWhileHandling
  \/ Cancelled \/ RunOver

(* open_timeout and close_timeout bound the opening and the closing of a   *)
(* connection; delays and the deadline pass; ready tasks run.  Nothing is  *)
(* assumed of the server, of the user and of the handler.                  *)
Fairness ==
  /\ WF_vars(StopAtTop) /\ WF_vars(Opens)
  /\ WF_vars(Leave) /\ WF_vars(BackoffEnds) /\ WF_vars(DeadlinePasses)
  /\ WF_vars(ReceiveMessage) /\ WF_vars(ReceiveFails)
  /\ WF_vars(StopWhileReceiving) /\ WF_vars(SubscriptionTimesOut)
  /\ WF_vars(MessageHandled) /\ WF_vars(HandlerFailed) /\ WF_vars(StopWhileHandling)

SafeSpec == Init /\ [][Next]_vars

Spec == SafeSpec /\ Fairness

----------------------------------------------------------------------------
(* Types; a connection exists exactly while the loop is in it, and a       *)
(* handler exactly while its message is being handled.                     *)
TypeOK ==
  /\ phase \in {"top", "connecting", "receiving", "handling", "closing", "backoff",
                "ended", "failed", "cancelled"}
  /\ stop \in BOOLEAN /\ confirmed \in BOOLEAN /\ overdue \in BOOLEAN
  /\ attempt \in Nat /\ delay \in 0 .. LastDelay
  /\ status \in {"waiting", "requested", "confirmed", "failed"}
  /\ message \in Kinds \union {"none"} /\ handler \in {"none", "running", "done", "raised"}
  /\ link \in {"none", "up", "lost"} /\ inbox \in Seq(Kinds) /\ Len(inbox) <= BufferMax
  /\ sent \in Nat /\ connections \in Nat /\ ackOn \in Nat
  /\ taken \in Nat /\ handled \in Nat /\ fruitless \in Nat /\ unserved \in Nat
  /\ phase \in {"receiving", "handling"} => link # "none"
  /\ Over \/ phase \in {"top", "connecting", "backoff"} => link = "none" /\ inbox = << >>
  /\ phase = "handling" <=> handler # "none"

(* Every message that recv() returned has been handled before the next one *)
(* is received; only the last one of a run may be left, because of a stop  *)
(* request, a cancellation or its own failure, and never because the       *)
(* connection or the subscription failed meanwhile.                        *)
NoMessageSkipped ==
  /\ handled <= taken /\ taken <= handled + 1
  /\ handled < taken =>
       \/ phase \in {"handling", "failed", "cancelled"}
       \/ stop /\ phase \in {"closing", "ended"}

(* The screen shows a confirmed subscription only if the connection of now *)
(* was acknowledged, not an earlier one (run, _collect_once).              *)
ShownSubscribedOnlyAfterAck == status = "confirmed" => ackOn = connections

(* After n connections in a row on which no message was handled, the wait  *)
(* is the n-th delay, and the last delay from then on.                     *)
BackoffFollowsFailures ==
  phase = "backoff" =>
    delay = IF fruitless <= LastDelay THEN fruitless - 1 ELSE LastDelay

(* IMPLEMENTATION_PLAN: repeated failures back off, and only the return of *)
(* normal reception resets the delay.                                      *)
RejectionsBackOff ==
  phase = "backoff" =>
    delay = IF unserved <= LastDelay THEN unserved - 1 ELSE LastDelay

(* The collector keeps the contract the supervisors rely on: in particular *)
(* a stop request ends the run wherever it arrives, also while a handler   *)
(* that never returns is under way.                                        *)
Contract == INSTANCE CollectorContract WITH
  outcome <- CASE phase = "ended" -> "returned"
               [] phase = "failed" -> "raised"
               [] phase = "cancelled" -> "cancelled"
               [] OTHER -> "running"

KeepsContract == Contract!Spec
ContractSafeSpec == Contract!SafeSpec

(* A connection that neither confirms the subscription nor brings messages *)
(* is not waited for for ever.                                             *)
SilentConnectionIsLeft ==
  (phase = "receiving" /\ ~ confirmed) ~> (phase # "receiving" \/ confirmed)
============================================================================
