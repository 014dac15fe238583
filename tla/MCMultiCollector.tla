-------------------------- MODULE MCMultiCollector --------------------------
(***************************************************************************)
(* MultiCollector for TLC: three connections, of which one may reconnect.  *)
(***************************************************************************)
EXTENDS MultiCollector

CONSTANTS spot_market, spot_depth, usdm_mark

ThreeGroups == {spot_market, spot_depth, usdm_mark}

OneReconnects == [c \in Connections |-> IF c = spot_market THEN 2 ELSE 1]

OneReceivesMore == [c \in Connections |-> IF c = spot_market THEN 2 ELSE 1]

ASSUME SomebodyReconnects == \E c \in Connections : MaxAttempts[c] > 1
============================================================================
