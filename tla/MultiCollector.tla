--------------------------- MODULE MultiCollector ---------------------------
(***************************************************************************)
(* The multi-stream collector, src/collector/multi_client.py: one          *)
(* StreamConnection for every connection group, each with its own loop of  *)
(* connecting, subscribing, receiving and reconnecting, and                *)
(* MultiStreamCollector.run(), which supervises their tasks.               *)
(*                                                                         *)
(* A connection hands every message to the handler and waits for it; in    *)
(* contrast to the single-stream collector a stop request does not         *)
(* interrupt that wait.  A task that is cancelled does nothing more than   *)
(* close its connection.  Messages are known by their kind, delays are     *)
(* those of Collector and not told apart here.                             *)
(*                                                                         *)
(* The Bug_ operators are plausible slips in the code, used nowhere: each  *)
(* shows that a property fails when it takes the place of its namesake.    *)
(***************************************************************************)
EXTENDS Naturals

CONSTANTS
  Connections, (* The connection groups.                                      *)
  MaxAttempts, (* Bound on the connections each group opens in one run.       *)
  MaxSequence, (* Bound on the messages each of these connections receives.   *)
  NoConnection (* Stands for None.                                            *)

ASSUME BoundsAssumption == MaxAttempts \in [Connections -> Nat] /\ MaxSequence \in [Connections -> Nat]
ASSUME NoConnectionAssumption == NoConnection \notin Connections

VARIABLES
  stop,       (* the stop event                                                *)
  phase,      (* where run() of each connection stands                         *)
  attempt,    (* _attempt, the number in the connection ID                     *)
  sequence,   (* receive_sequence                                              *)
  confirmed,  (* subscription_confirmed                                        *)
  cancelling, (* the connections whose cancellation is under way               *)
  run,        (* where MultiStreamCollector.run() stands                       *)
  pending,    (* how it will end, once it no longer waits for its connections  *)
  failure,    (* the connection whose error it raises                          *)
  handed      (* history: attempt and sequence of the message handed over last *)

connectionVars == <<phase, attempt, sequence, confirmed, handed>>
supervisorVars == <<cancelling, run, pending, failure>>
vars == <<stop, connectionVars, supervisorVars>>

----------------------------------------------------------------------------
Kinds == {"data", "ack", "rejection", "shutdown"}

Ended(c) == phase[c] \in {"ended", "failed", "cancelled"}

Unfinished == {c \in Connections : ~ Ended(c)}

Init ==
  /\ stop = FALSE
  /\ phase = [c \in Connections |-> "top"]
  /\ attempt = [c \in Connections |-> 0]
  /\ sequence = [c \in Connections |-> 0]
  /\ confirmed = [c \in Connections |-> FALSE]
  /\ cancelling = {} /\ run = "waiting" /\ pending = "none" /\ failure = NoConnection
  /\ handed = [c \in Connections |-> <<0, 0>>]

RequestStop ==
  /\ ~ stop /\ run # "over"
  /\ stop' = TRUE
  /\ UNCHANGED <<connectionVars, supervisorVars>>

----------------------------------------------------------------------------
(* StreamConnection: a step of connection c from one phase to another,     *)
(* unless its task has been cancelled.                                     *)
Goes(c, from, to) ==
  /\ phase[c] = from /\ c \notin cancelling
  /\ phase' = [phase EXCEPT ![c] = to]
  /\ UNCHANGED <<stop, supervisorVars>>

StopAtTop(c) ==
  /\ stop
  /\ Goes(c, "top", "ended")
  /\ UNCHANGED <<attempt, sequence, confirmed, handed>>

Bug_Connect(c) ==
  /\ ~ stop /\ attempt[c] < MaxAttempts[c]
  /\ Goes(c, "top", "connecting")
  /\ UNCHANGED <<attempt, sequence, confirmed, handed>>

(* Every attempt gets a connection ID of its own, also if it fails. *)
Connect(c) ==
  /\ ~ stop /\ attempt[c] < MaxAttempts[c]
  /\ Goes(c, "top", "connecting")
  /\ attempt' = [attempt EXCEPT ![c] = @ + 1]
  /\ UNCHANGED <<sequence, confirmed, handed>>

ConnectFails(c) ==
  /\ Goes(c, "connecting", "backoff")
  /\ UNCHANGED <<attempt, sequence, confirmed, handed>>

(* The connection opens, but is lost before the request has been sent. *)
SubscribeFails(c) ==
  /\ Goes(c, "connecting", "closing")
  /\ UNCHANGED <<attempt, sequence, confirmed, handed>>

(* An error of the opening handshake is not among those that are retried. *)
HandshakeRefused(c) ==
  /\ Goes(c, "connecting", "failed")
  /\ UNCHANGED <<attempt, sequence, confirmed, handed>>

(* The loop looks at the stop event before every wait for a message. *)
ReceiveNext(c, from) == Goes(c, from, IF stop THEN "closing" ELSE "receiving")

ConnectSucceeds(c) ==
  /\ ReceiveNext(c, "connecting")
  /\ sequence' = [sequence EXCEPT ![c] = 0]
  /\ confirmed' = [confirmed EXCEPT ![c] = FALSE]
  /\ UNCHANGED <<attempt, handed>>

(* A message that has arrived goes before the stop request. *)
ReceiveMessage(c) ==
  /\ sequence[c] < MaxSequence[c]
  /\ Goes(c, "receiving", "handling")
  /\ sequence' = [sequence EXCEPT ![c] = @ + 1]
  /\ handed' = [handed EXCEPT ![c] = <<attempt[c], sequence'[c]>>]
  /\ UNCHANGED <<attempt, confirmed>>

(* ConnectionClosed, or the deadline of the subscription. *)
ReceiveFails(c) ==
  /\ Goes(c, "receiving", "closing")
  /\ UNCHANGED <<attempt, sequence, confirmed, handed>>

SubscriptionTimesOut(c) ==
  /\ ~ confirmed[c]
  /\ ReceiveFails(c)

Bug_StopWhileReceiving(c) ==
  /\ stop /\ confirmed[c]
  /\ ReceiveFails(c)

StopWhileReceiving(c) ==
  /\ stop
  /\ ReceiveFails(c)

(* The handler has returned; the kind of the message says how to go on. *)
MessageHandled(c, kind) ==
  /\ \/ kind \in {"data", "ack"} /\ ReceiveNext(c, "handling")
     \/ kind \in {"rejection", "shutdown"} /\ Goes(c, "handling", "closing")
  /\ confirmed' = [confirmed EXCEPT ![c] = @ \/ kind = "ack"]
  /\ UNCHANGED <<attempt, sequence, handed>>

(* The handler raises; the error leaves the connection, which is closed. *)
HandlerFails(c) ==
  /\ Goes(c, "handling", "failing")
  /\ UNCHANGED <<attempt, sequence, confirmed, handed>>

ConnectionFails(c) ==
  /\ Goes(c, "failing", "failed")
  /\ UNCHANGED <<attempt, sequence, confirmed, handed>>

Bug_Leave(c) ==
  /\ Goes(c, "closing", IF stop \/ confirmed[c] THEN "ended" ELSE "backoff")
  /\ UNCHANGED <<attempt, sequence, confirmed, handed>>

Leave(c) ==
  /\ Goes(c, "closing", IF stop THEN "ended" ELSE "backoff")
  /\ UNCHANGED <<attempt, sequence, confirmed, handed>>

(* wait_for_reconnect is interrupted by the stop event. *)
BackoffEnds(c) ==
  /\ Goes(c, "backoff", IF stop THEN "ended" ELSE "top")
  /\ UNCHANGED <<attempt, sequence, confirmed, handed>>

(* A cancelled task ends; asyncio.wait_for returns instead (Python 3.11)   *)
(* when the stop event has ended the wait for the delay as well.           *)
ConnectionCancelled(c) ==
  /\ c \in cancelling /\ ~ Ended(c)
  /\ \/ phase' = [phase EXCEPT ![c] = "cancelled"]
     \/ stop /\ phase[c] = "backoff" /\ phase' = [phase EXCEPT ![c] = "ended"]
  /\ UNCHANGED <<stop, attempt, sequence, confirmed, handed, supervisorVars>>

----------------------------------------------------------------------------
(* MultiStreamCollector.run.                                               *)

(* Everybody is cancelled, and run() waits for all before it ends. *)
Sweep(how) ==
  /\ cancelling' = cancelling \union Unfinished
  /\ run' = "sweeping" /\ pending' = how

Bug_FirstFails(c) ==
  /\ run = "waiting" /\ phase[c] = "failed"
  /\ run' = "over" /\ pending' = "raised"
  /\ stop' = TRUE /\ failure' = c
  /\ cancelling' = cancelling \union Unfinished
  /\ UNCHANGED connectionVars

Bug_WaitForAll(c) ==
  /\ run = "waiting" /\ phase[c] = "failed" /\ Unfinished = {}
  /\ Sweep("raised")
  /\ stop' = TRUE /\ failure' = c
  /\ UNCHANGED connectionVars

(* Among the tasks that have ended by now one has failed. *)
FirstFails(c) ==
  /\ run = "waiting" /\ phase[c] = "failed"
  /\ Sweep("raised")
  /\ stop' = TRUE /\ failure' = c
  /\ UNCHANGED connectionVars

(* None of them has; a connection returns only after a stop request, so    *)
(* the error for an unexpected end is never raised.                        *)
FirstReturns ==
  /\ run = "waiting" /\ \E c \in Connections : Ended(c)
  /\ \A c \in Connections : phase[c] # "failed"
  /\ run' = "joining" /\ pending' = "returned"
  /\ UNCHANGED <<stop, connectionVars, cancelling, failure>>

(* gather() raises the first error at once. *)
JoinFails(c) ==
  /\ run = "joining" /\ phase[c] = "failed"
  /\ Sweep("raised")
  /\ failure' = c
  /\ UNCHANGED <<stop, connectionVars>>

RunEnds ==
  /\ run \in {"joining", "sweeping"} /\ Unfinished = {}
  /\ run = "joining" => \A c \in Connections : phase[c] # "failed"
  /\ run' = "over"
  /\ UNCHANGED <<stop, connectionVars, cancelling, pending, failure>>

(* The supervisor of the program cancels run(), wherever it stands. *)
Cancel ==
  /\ run # "over" /\ pending # "cancelled"
  /\ Sweep("cancelled")
  /\ UNCHANGED <<stop, connectionVars, failure>>

RunOver ==
  /\ run = "over"
  /\ UNCHANGED vars

----------------------------------------------------------------------------
(* What a connection does by itself, and what the server does to it. *)
Proceeds(c) ==
  \/ ConnectSucceeds(c) \/ ConnectFails(c) \/ SubscribeFails(c) \/ HandshakeRefused(c)
  \/ StopAtTop(c) \/ StopWhileReceiving(c)
  \/ \E kind \in Kinds : MessageHandled(c, kind)
  \/ HandlerFails(c) \/ ConnectionFails(c) \/ Leave(c) \/ BackoffEnds(c)
  \/ ConnectionCancelled(c)

Serves(c) == Connect(c) \/ ReceiveMessage(c) \/ ReceiveFails(c) \/ SubscriptionTimesOut(c)

Supervises ==
  \/ \E c \in Connections : FirstFails(c) \/ JoinFails(c)
  \/ FirstReturns \/ RunEnds

Next ==
  \/ RequestStop \/ Cancel \/ Supervises \/ RunOver
  \/ \E c \in Connections : Proceeds(c) \/ Serves(c)

(* Opening and closing of a connection have timeouts, delays pass, ready   *)
(* tasks run; a handler ends because a blocked write does (BlockedWriteEnds *)
(* of MongoMulti).  Nothing is assumed of the server and of the user.      *)
Fairness == WF_vars(Supervises) /\ \A c \in Connections : WF_vars(Proceeds(c))

SafeSpec == Init /\ [][Next]_vars

Spec == SafeSpec /\ Fairness

----------------------------------------------------------------------------
(* Types; a collector that is over has no connection left, and one that    *)
(* returned was asked to stop.                                             *)
TypeOK ==
  /\ stop \in BOOLEAN
  /\ phase \in [Connections -> {"top", "connecting", "receiving", "handling", "failing",
                                "closing", "backoff", "ended", "failed", "cancelled"}]
  /\ attempt \in [Connections -> Nat] /\ sequence \in [Connections -> Nat]
  /\ \A c \in Connections : attempt[c] <= MaxAttempts[c] /\ sequence[c] <= MaxSequence[c]
  /\ confirmed \in [Connections -> BOOLEAN]
  /\ cancelling \subseteq Connections
  /\ run \in {"waiting", "joining", "sweeping", "over"}
  /\ pending \in {"none", "returned", "raised", "cancelled"}
  /\ failure \in Connections \union {NoConnection}
  /\ handed \in [Connections -> Nat \X Nat]
  /\ (\E c \in Connections : phase[c] = "ended") => stop

(* Connection ID and sequence identify every message and give its place:   *)
(* within a connection the messages are numbered without gaps from one on, *)
(* and later connections have larger numbers (MULTI_STREAM_EXPANSION_PLAN, *)
(* sections 4 and 5.1).                                                    *)
MessagesAreNumbered ==
  [][\A c \in Connections :
       handed'[c] # handed[c] \/ (phase[c] # "handling" /\ phase'[c] = "handling") =>
         \/ handed'[c][1] = handed[c][1] /\ handed'[c][2] = handed[c][2] + 1
         \/ handed'[c][1] > handed[c][1] /\ handed'[c][2] = 1]_vars

(* run() ends after all its connections have.  It returns only if all of   *)
(* them did, and the error it raises is that of a connection that failed   *)
(* by itself, not of one that was cancelled for it.                        *)
NoFailureHidden ==
  run = "over" =>
    /\ Unfinished = {}
    /\ pending = "returned" => \A c \in Connections : phase[c] = "ended"
    /\ pending = "raised" => failure \in Connections /\ phase[failure] = "failed"

(* One connection that fails for good ends all of them, also those that    *)
(* wait for messages that never come.                                      *)
FailureEndsRun == (\E c \in Connections : phase[c] = "failed") ~> run = "over"

(* The collector keeps the contract the supervisors rely on. *)
Contract == INSTANCE CollectorContract WITH
  outcome <- IF run = "over" THEN pending ELSE "running"

KeepsContract == Contract!Spec
ContractSafeSpec == Contract!SafeSpec
============================================================================
