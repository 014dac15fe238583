---------------------------- MODULE MCMultiStats ----------------------------
(***************************************************************************)
(* MultiStats for TLC: two symbols, the depth stream and one other, each   *)
(* on a connection group of its own.  The symbols are interchangeable: no  *)
(* property orders them, and the only temporal one is about single steps.  *)
(***************************************************************************)
EXTENDS MultiStats, TLC

CONSTANTS btc, eth

TwoSymbols == {btc, eth}

SymbolsAlike == Permutations(TwoSymbols)

TwoStreams == {"aggTrade", "depth"}

OwnGroups == [stream \in TwoStreams |->
                IF stream = "depth" THEN "spot-depth" ELSE "spot-market"]

DepthReconnects == [group \in Groups |-> IF group = "spot-depth" THEN 2 ELSE 1]
============================================================================
