---------------------------- MODULE MultiStats ----------------------------
(***************************************************************************)
(* The statistics of the multi-stream screen, src/monitoring/multi_stats.py*)
(* and depth.py: messages per second, symbol and stream, and the gaps in   *)
(* the update IDs of the depth stream.  Everything runs in the event loop, *)
(* so recording a message and taking a snapshot are single steps; what can *)
(* go wrong is their order relative to the clock, to the reconnections and *)
(* to each other.                                                          *)
(*                                                                         *)
(* The clock counts completed seconds.  Update IDs, and the numbers in     *)
(* connection IDs, are naturals.  A range is what a depth message says it  *)
(* covers, NoRange that it has no integer update IDs.                      *)
(*                                                                         *)
(* The Bug_ operators are plausible slips in the code, used nowhere: each  *)
(* shows that a property fails when it takes the place of its namesake.    *)
(***************************************************************************)
EXTENDS Integers, FiniteSets, Functions, Buckets

CONSTANTS
  Symbols,       (* The symbols collected.                                    *)
  Streams,       (* The streams counted, among them "depth".                  *)
  GroupOf,       (* The connection group of each stream.                      *)
  Nobody,        (* Stands for None.                                          *)
  MaxSecond,     (* Bound on the clock.                                       *)
  MaxReceived,   (* Bound on the messages recorded.                           *)
  MaxConnection, (* Bound on the connections of each group.                   *)
  MaxUpdate      (* Bound on the update IDs.                                  *)

Groups == {GroupOf[stream] : stream \in Streams}

ASSUME StreamsAssumption ==
  /\ "depth" \in Streams
  /\ DOMAIN GroupOf = Streams
  /\ MaxSecond \in Nat /\ MaxReceived \in Nat /\ MaxUpdate \in Nat
  /\ MaxConnection \in [Groups -> Nat \ {0}]

ASSUME SymbolsAssumption == IsFiniteSet(Symbols)

ASSUME NobodyAssumption == Nobody \notin Nat \union [connection : Nat, maximum : Nat]

VARIABLES
  clock,      (* _bucket_index()                                               *)
  connection, (* external: the connection of each group                        *)
  buckets,    (* _buckets                                                      *)
  control,    (* _control_or_unclassified                                      *)
  cumulative, (* _cumulative_by_stream                                         *)
  lastIds,    (* _last_connection_ids                                          *)
  changes,    (* _connection_changes                                           *)
  depth,      (* _states of the observer                                       *)
  gapCount,   (* gap_count                                                     *)
  resets,     (* connection_resets                                             *)
  lastGap,    (* last_gap                                                      *)
  shown,      (* the rates of the snapshot taken last, and when that was       *)
  log,        (* history: the messages of each second                          *)
  since,      (* history: the first update ID received of each symbol since    *)
              (* the observer last started afresh for it                       *)
  covered,    (* history: the update IDs received since then                   *)
  gapsOf      (* history: the gaps counted for each symbol since then          *)

connectionVars == <<lastIds, changes>>
observerVars == <<depth, gapCount, resets, lastGap, since, covered, gapsOf>>
vars == <<clock, connection, buckets, control, cumulative, connectionVars, observerVars,
          shown, log>>

----------------------------------------------------------------------------
Keys == Symbols \X Streams
NoRange == <<0, 0>>
(* Nothing demands that the first update ID is not behind the last. *)
Ranges == (1 .. MaxUpdate) \X (1 .. MaxUpdate)

Received == FoldFunction(+, control, cumulative)

Init ==
  /\ clock = 0 /\ connection = [group \in Groups |-> 1]
  /\ buckets = << >> /\ control = 0
  /\ cumulative = [stream \in Streams |-> 0]
  /\ lastIds = [group \in Groups |-> Nobody] /\ changes = [group \in Groups |-> 0]
  /\ depth = [symbol \in Symbols |-> Nobody]
  /\ gapCount = 0 /\ resets = 0 /\ lastGap = Nobody
  /\ shown = [at |-> 0, rates |-> [key \in Keys |-> 0]]
  /\ log = [i \in 0 .. MaxSecond |-> [key \in Keys |-> 0]]
  /\ since = [symbol \in Symbols |-> 0] /\ covered = [symbol \in Symbols |-> {}]
  /\ gapsOf = [symbol \in Symbols |-> 0]

----------------------------------------------------------------------------
(* The environment. *)

SecondPasses ==
  /\ clock < MaxSecond
  /\ clock' = clock + 1
  /\ UNCHANGED <<connection, buckets, control, cumulative, connectionVars, observerVars, shown,
                 log>>

(* A connection is replaced after its last message has been handled. *)
Reconnect(group) ==
  /\ connection[group] < MaxConnection[group]
  /\ connection' = [connection EXCEPT ![group] = @ + 1]
  /\ UNCHANGED <<clock, buckets, control, cumulative, connectionVars, observerVars, shown, log>>

----------------------------------------------------------------------------
(* DepthContinuityObserver.observe.                                        *)

Bug_StartAfresh(symbol, id, range) ==
  LET old == IF depth[symbol] = Nobody THEN 0 ELSE depth[symbol].maximum
  IN  /\ depth' = [depth EXCEPT ![symbol] =
                      [connection |-> id, maximum |-> IF range[2] > old THEN range[2] ELSE old]]
      /\ since' = [since EXCEPT ![symbol] = range[1]]
      /\ covered' = [covered EXCEPT ![symbol] = range[1] .. range[2]]
      /\ gapsOf' = [gapsOf EXCEPT ![symbol] = 0]
      /\ UNCHANGED <<gapCount, lastGap>>

StartAfresh(symbol, id, range) ==
  /\ depth' = [depth EXCEPT ![symbol] = [connection |-> id, maximum |-> range[2]]]
  /\ since' = [since EXCEPT ![symbol] = range[1]]
  /\ covered' = [covered EXCEPT ![symbol] = range[1] .. range[2]]
  /\ gapsOf' = [gapsOf EXCEPT ![symbol] = 0]
  /\ UNCHANGED <<gapCount, lastGap>>

Bug_NewMaximum(maximum, range) == range[2]

(* Ranges may be repeated, overlap, be old or be inverted. *)
NewMaximum(maximum, range) == IF range[2] > maximum THEN range[2] ELSE maximum

IsGap(maximum, range) == range[1] > maximum + 1

CountGap(symbol, range) ==
  IF IsGap(depth[symbol].maximum, range)
  THEN /\ gapCount' = gapCount + 1
       /\ gapsOf' = [gapsOf EXCEPT ![symbol] = @ + 1]
       /\ lastGap' = [symbol |-> symbol, previous |-> depth[symbol].maximum, next |-> range[1]]
  ELSE UNCHANGED <<gapCount, gapsOf, lastGap>>

Observe(symbol, id, range) ==
  \/ /\ depth[symbol] = Nobody
     /\ StartAfresh(symbol, id, range)
     /\ UNCHANGED resets
  \/ /\ depth[symbol] # Nobody /\ depth[symbol].connection # id
     /\ StartAfresh(symbol, id, range)
     /\ resets' = resets + 1
  \/ /\ depth[symbol] # Nobody /\ depth[symbol].connection = id
     /\ CountGap(symbol, range)
     /\ depth' = [depth EXCEPT ![symbol].maximum = NewMaximum(@, range)]
     /\ covered' = [covered EXCEPT ![symbol] = @ \union (range[1] .. range[2])]
     /\ UNCHANGED <<resets, since>>

----------------------------------------------------------------------------
(* MultiStreamStatsCollector.                                              *)

(* An answer to a subscription, an unknown stream or symbol. *)
RecordControl ==
  /\ Received < MaxReceived
  /\ control' = control + 1
  /\ UNCHANGED <<clock, connection, buckets, cumulative, connectionVars, observerVars, shown,
                 log>>

Bug_NoteConnection(group, id) ==
  /\ lastIds' = [lastIds EXCEPT ![group] = id]
  /\ changes' = IF lastIds'[group] \notin {Nobody, id}
                THEN [changes EXCEPT ![group] = @ + 1] ELSE changes

NoteConnection(group, id) ==
  /\ lastIds' = [lastIds EXCEPT ![group] = id]
  /\ changes' = IF lastIds[group] \notin {Nobody, id}
                THEN [changes EXCEPT ![group] = @ + 1] ELSE changes

RecordReceived(symbol, stream, range) ==
  LET group == GroupOf[stream]
  IN  /\ Received < MaxReceived
      /\ buckets' = Count(buckets, clock, <<symbol, stream>>)
      /\ log' = [log EXCEPT ![clock][<<symbol, stream>>] = @ + 1]
      /\ cumulative' = [cumulative EXCEPT ![stream] = @ + 1]
      /\ NoteConnection(group, connection[group])
      /\ IF stream = "depth" /\ range # NoRange
         THEN Observe(symbol, connection[group], range)
         ELSE UNCHANGED observerVars
      /\ UNCHANGED <<clock, connection, control, shown>>

(* The renderer shows the last completed second. *)
Snapshot ==
  /\ shown' = [at |-> clock, rates |-> RatesAt(buckets, clock, Keys)]
  /\ buckets' = Prune(buckets, clock)
  /\ UNCHANGED <<clock, connection, control, cumulative, connectionVars, observerVars, log>>

Next ==
  \/ SecondPasses \/ RecordControl \/ Snapshot
  \/ \E group \in Groups : Reconnect(group)
  \/ \E symbol \in Symbols, stream \in Streams :
       \E range \in IF stream = "depth" THEN Ranges \union {NoRange} ELSE {NoRange} :
         RecordReceived(symbol, stream, range)

Spec == Init /\ [][Next]_vars

----------------------------------------------------------------------------
(* Types; at most two buckets are kept however long the program runs, and  *)
(* the observer is reset at most once for each symbol and each change of   *)
(* the connection of the depth stream's group.                             *)
TypeOK ==
  /\ clock \in 0 .. MaxSecond
  /\ DOMAIN buckets \subseteq 0 .. clock
  /\ \A i \in DOMAIN buckets : \A key \in DOMAIN buckets[i] : key \in Keys /\ buckets[i][key] \in Nat
  /\ Cardinality(DOMAIN buckets) <= 2
  /\ \A group \in Groups : connection[group] \in 1 .. MaxConnection[group]
  /\ {control, gapCount, resets} \subseteq Nat /\ cumulative \in [Streams -> Nat]
  /\ \A group \in Groups : lastIds[group] \in (1 .. connection[group]) \union {Nobody}
  /\ changes \in [Groups -> Nat]
  /\ \A symbol \in Symbols : depth[symbol] = Nobody \/
       depth[symbol] \in [connection : 1 .. connection[GroupOf["depth"]], maximum : 1 .. MaxUpdate]
  /\ resets <= Cardinality(Symbols) * changes[GroupOf["depth"]]

(* The screen shows exactly the messages of the last second that was       *)
(* complete when the snapshot was taken, whatever messages and snapshots   *)
(* came in between and however they fell around the change of the second.  *)
ShownIsLastSecond ==
  shown.rates = [key \in Keys |-> IF shown.at > 0 THEN log[shown.at - 1][key] ELSE 0]

(* While no gap is counted for a symbol, the update IDs received on the    *)
(* connection have no hole from the first one on: repeated, old and        *)
(* overlapping ranges do not hide one (MULTI_STREAM_EXPANSION_PLAN, 7).    *)
NoGapMissed ==
  \A symbol \in Symbols :
    gapsOf[symbol] = 0 =>
      \A id \in covered[symbol] : since[symbol] .. id \subseteq covered[symbol]

(* A gap is counted only for update IDs that were not received on this     *)
(* connection, so ranges that are repeated or old are no gaps.             *)
GapsAreReal ==
  [][gapCount' # gapCount =>
       LET hole == lastGap'.previous + 1 .. lastGap'.next - 1
       IN  /\ gapCount' = gapCount + 1
           /\ hole # {}
           /\ hole \intersect covered'[lastGap'.symbol] = {}]_vars
============================================================================
