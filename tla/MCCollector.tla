---------------------------- MODULE MCCollector ----------------------------
(***************************************************************************)
(* Collector for TLC: enough connections to reach the last delay and to    *)
(* repeat it, and enough messages to fill the buffer behind the one in the *)
(* handler.                                                                *)
(***************************************************************************)
EXTENDS Collector

ASSUME BoundsReachTheLimits ==
  /\ MaxConnections > LastDelay + 2
  /\ MaxMessages > BufferMax + 1
============================================================================
