---------------------------- MODULE MCMongoBatch ----------------------------
(***************************************************************************)
(* MongoBatch for TLC: a queue larger than a batch, so that one drain      *)
(* leaves documents behind and a shutdown needs several batches, and       *)
(* enough messages to fill the queue behind a batch in flight and to block *)
(* the write of one more.                                                  *)
(***************************************************************************)
EXTENDS MongoBatch

ASSUME BoundsReachBackpressure ==
  /\ BatchMax < QueueMax
  /\ MaxEvents > QueueMax + BatchMax + 1
============================================================================
